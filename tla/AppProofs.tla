------------------------------ MODULE AppProofs -------------------------------
(***************************************************************************)
(* Theorems about NapcatClient and App, for all users and groups, every    *)
(* queue capacity and any number of messages.                              *)
(*                                                                         *)
(* First the client.  HandledInOrder is inductive beside the types.        *)
(* EveryWayTriedOnce is not: between two calls one must know which groups  *)
(* have been tried, that all of them failed and that the direct way is     *)
(* still to come.  That is TriedSoFar, and it speaks of the groups read    *)
(* for this message (plan), not of the directory, which may have been      *)
(* replaced since.                                                         *)
(*                                                                         *)
(* Then the process: what the client promises holds in the process it is   *)
(* part of, because every step of the process is a step of the client or   *)
(* leaves it alone; and the order of the shutdown.                         *)
(***************************************************************************)
EXTENDS App, FiniteSetTheorems, TLAPS

AllFailed == \A k \in 1..Len(tried) : tried[k].result = "failed"
EachOnce == \A j, k \in 1..Len(tried) : tried[j].via = tried[k].via => j = k

TriedSoFar ==
    /\ EachOnce
    /\ pc = "group" => cur.to \in Groups
    /\ pc \in {"private", "groups", "try", "direct"} => cur.to \notin Groups
    /\ pc \in {"group", "private", "groups"} => tried = <<>>
    /\ pc = "private" => plan = {}
    /\ pc # "try" => ways = {}
    /\ pc = "try" => AllFailed /\ ways # {} /\ ways \subseteq plan /\ Vias = plan \ ways
    /\ pc = "direct" => AllFailed /\ Vias = plan

Started == pc # "off" => running \/ done

Inv == TypeOK /\ Started /\ HandledInOrder /\ TriedSoFar /\ EveryWayTriedOnce

USE DEF Direct, Results

-----------------------------------------------------------------------------
(* One more call for the message in hand.                                  *)

LEMMA NextAttempt ==
    ASSUME TypeOK, NEW a \in Attempt, tried' = Append(tried, a),
           EachOnce, AllFailed, a.via \notin Vias
    PROVE  /\ tried' \in Seq(Attempt)
           /\ Len(tried') = Len(tried) + 1
           /\ EachOnce'
           /\ Vias' = Vias \cup {a.via}
           /\ tried'[Len(tried')] = a
           /\ a.result = "failed" => AllFailed'
           /\ \A j \in 1..Len(tried') : tried'[j].result = "ok" => j = Len(tried')
<1>1. tried \in Seq(Attempt) /\ Len(tried) \in Nat  BY DEF TypeOK
<1>2. tried' \in Seq(Attempt) /\ Len(tried') = Len(tried) + 1  BY <1>1
<1>3. /\ \A k \in 1..Len(tried) : tried'[k] = tried[k]
      /\ tried'[Len(tried) + 1] = a
  BY <1>1
<1>4. \A k \in 1..Len(tried) : tried[k].via # a.via  BY DEF Vias
<1>5. 1..Len(tried') = 1..Len(tried) \cup {Len(tried) + 1}  BY <1>1, <1>2
<1>6. EachOnce'  BY <1>1, <1>2, <1>3, <1>4, <1>5 DEF EachOnce
<1>7. Vias' = Vias \cup {a.via}  BY <1>2, <1>3, <1>5 DEF Vias
<1>8. a.result = "failed" => AllFailed'  BY <1>2, <1>3, <1>5 DEF AllFailed
<1>9. \A j \in 1..Len(tried') : tried'[j].result = "ok" => j = Len(tried')
  BY <1>2, <1>3, <1>5 DEF AllFailed
<1>. QED  BY <1>2, <1>3, <1>6, <1>7, <1>8, <1>9

-----------------------------------------------------------------------------
(* The types.                                                              *)

LEMMA FinishTypes ==
    ASSUME TypeOK, NEW t \in Seq(Attempt), Finish(t)
    PROVE  /\ sent' \in Seq(1..MaxMessages) /\ zeroSent' \in BOOLEAN
           /\ tried' \in Seq(Attempt) /\ ways' \subseteq Groups /\ plan' \subseteq Groups
           /\ pc' \in PC /\ cur' \in Message
<1>1. cur.n # 0 => cur.n \in 1..MaxMessages  BY BoundsAssumption DEF TypeOK, Message
<1>2. sent' \in Seq(1..MaxMessages)
  <2>1. CASE cur.n = 0  BY <2>1 DEF Finish, TypeOK
  <2>2. CASE cur.n # 0
    <3>1. sent' = Append(sent, cur.n)  BY <2>2 DEF Finish
    <3>. QED  BY <2>2, <1>1, <3>1 DEF TypeOK
  <2>. QED  BY <2>1, <2>2
<1>3. zeroSent' \in BOOLEAN  BY DEF Finish, TypeOK
<1>. QED  BY <1>2, <1>3 DEF Finish, TypeOK, PC

LEMMA TypesKept == Inv /\ [Next]_vars => TypeOK'
<1>. SUFFICES ASSUME Inv, [Next]_vars PROVE TypeOK'  OBVIOUS
<1>. USE DEF Inv
<1>0. ZeroMessage \in Message  BY BoundsAssumption DEF ZeroMessage, Message
<1>1. CASE Start
  BY <1>1 DEF Start, queue, TypeOK, PC
<1>2. CASE StopCloseDone
  BY <1>2 DEF StopCloseDone, queue, sender, dir, TypeOK
<1>3. CASE StopCloseOutgoing
  BY <1>3 DEF StopCloseOutgoing, queue, sender, dir, TypeOK
<1>4. ASSUME NEW to \in Users \cup Groups, Enqueue(to) PROVE TypeOK'
  <2>1. [n |-> accepted + 1, to |-> to] \in Message
    BY <1>4, BoundsAssumption DEF Enqueue, Message, TypeOK
  <2>2. outgoing' \in Seq(Message) /\ Len(outgoing') <= OutgoingCap
    BY <1>4, <2>1, BoundsAssumption DEF Enqueue, TypeOK
  <2>3. accepted' \in 0..MaxMessages  BY <1>4, BoundsAssumption DEF Enqueue, TypeOK
  <2>. QED  BY <1>4, <2>2, <2>3 DEF Enqueue, client, sender, dir, TypeOK
<1>5. CASE EnqueueOnClosed
  BY <1>5 DEF EnqueueOnClosed, client, sender, dir, TypeOK
<1>6. CASE Receive
  <2>1. Head(outgoing) \in Message /\ Tail(outgoing) \in Seq(Message)
        /\ Len(Tail(outgoing)) <= OutgoingCap
    BY <1>6, BoundsAssumption DEF Receive, TypeOK
  <2>2. pc' \in PC  BY <1>6 DEF Receive, Route, PC
  <2>. QED  BY <1>6, <2>1, <2>2 DEF Receive, client, dir, TypeOK
<1>7. CASE ReceiveZero
  <2>1. pc' \in PC  BY <1>7 DEF ReceiveZero, Route, PC
  <2>. QED  BY <1>7, <1>0, <2>1 DEF ReceiveZero, queue, client, dir, TypeOK
<1>8. CASE SendGroup
  <2>1. PICK r \in Results : Finish(<<[via |-> cur.to, result |-> r]>>)
    BY <1>8 DEF SendGroup
  <2>2. <<[via |-> cur.to, result |-> r]>> \in Seq(Attempt)
    <3>1. [via |-> cur.to, result |-> r] \in Attempt
      BY <1>8, <2>1 DEF SendGroup, TriedSoFar, Attempt
    <3>. QED  BY <3>1
  <2>. QED  BY <1>8, <2>1, <2>2, FinishTypes DEF SendGroup, queue, client, dir, TypeOK
<1>9. CASE CheckFriend
  BY <1>9 DEF CheckFriend, queue, client, dir, TypeOK, PC
<1>10. CASE ReadGroups
  <2>1. GroupsOf(cur.to) \subseteq Groups  BY DEF GroupsOf, TypeOK
  <2>. QED  BY <1>10, <2>1 DEF ReadGroups, queue, client, dir, TypeOK, PC
<1>11. CASE TryGroup
  <2>1. PICK g \in ways, r \in Results :
          LET attempts == Append(tried, [via |-> g, result |-> r]) IN
            /\ \A h \in ways : g <= h
            /\ IF r = "ok" THEN Finish(attempts)
               ELSE /\ ways' = ways \ {g}
                    /\ tried' = attempts
                    /\ pc' = IF ways' = {} THEN "direct" ELSE "try"
                    /\ UNCHANGED <<cur, plan, sent, zeroSent>>
    BY <1>11 DEF TryGroup
  <2>2. Append(tried, [via |-> g, result |-> r]) \in Seq(Attempt)
    BY <2>1 DEF Attempt, TypeOK
  <2>3. CASE r = "ok"
    BY <1>11, <2>1, <2>2, <2>3, FinishTypes DEF TryGroup, queue, client, dir, TypeOK
  <2>4. CASE r # "ok"
    BY <1>11, <2>1, <2>2, <2>4 DEF TryGroup, queue, client, dir, TypeOK, PC
  <2>. QED  BY <2>3, <2>4
<1>12. CASE SendDirect
  <2>1. PICK r \in Results : Finish(Append(tried, [via |-> Direct, result |-> r]))
    BY <1>12 DEF SendDirect
  <2>2. Append(tried, [via |-> Direct, result |-> r]) \in Seq(Attempt)
    BY <2>1 DEF Attempt, TypeOK
  <2>. QED  BY <1>12, <2>1, <2>2, FinishTypes DEF SendDirect, queue, client, dir, TypeOK
<1>13. CASE SenderStops
  BY <1>13 DEF SenderStops, queue, client, dir, TypeOK, PC
<1>14. CASE BeginSync
  BY <1>14 DEF BeginSync, client, queue, sender, TypeOK
<1>15. CASE SyncSucceeds
  <2>1. /\ directory'.friends \subseteq Users
        /\ directory'.groups \in [Users -> SUBSET Groups]
    BY <1>15 DEF SyncSucceeds, BuildMemberGroups
  <2>. QED  BY <1>15, <2>1 DEF SyncSucceeds, client, queue, sender, TypeOK
<1>16. CASE SyncFails
  BY <1>16 DEF SyncFails, client, queue, sender, TypeOK
<1>17. CASE SyncStops
  BY <1>17 DEF SyncStops, client, queue, sender, TypeOK
<1>18. CASE UNCHANGED vars
  BY <1>18 DEF vars, TypeOK
<1>. QED
  BY <1>1, <1>2, <1>3, <1>4, <1>5, <1>6, <1>7, <1>8, <1>9, <1>10, <1>11, <1>12,
     <1>13, <1>14, <1>15, <1>16, <1>17, <1>18 DEF Next, SenderStep, SyncStep
-----------------------------------------------------------------------------
(* Order and loss.                                                         *)

LEMMA FinishInOrder ==
    ASSUME TypeOK, HandledInOrder, Busy, NEW t, Finish(t), UNCHANGED queue
    PROVE  HandledInOrder'
<1>1. ~ Busy' /\ Held' = 0  BY DEF Finish, Busy, Held
<1>2. CASE cur.n = 0
  <2>1. Held = 0 /\ sent' = sent  BY <1>2 DEF Held, Finish
  <2>. QED  BY <1>1, <2>1 DEF HandledInOrder, queue
<1>3. CASE cur.n # 0
  <2>1. Held = 1 /\ sent' = Append(sent, cur.n)  BY <1>3 DEF Held, Finish
  <2>2. cur.n = Len(sent) + 1  BY <2>1 DEF HandledInOrder
  <2>3. sent \in Seq(Nat) /\ cur.n \in Nat  BY BoundsAssumption DEF TypeOK, Message
  <2>4. /\ Len(sent') = Len(sent) + 1
        /\ \A k \in 1..Len(sent) : sent'[k] = sent[k]
        /\ sent'[Len(sent) + 1] = cur.n
    BY <2>1, <2>3
  <2>5. \A k \in 1..Len(sent') : sent'[k] = k
    BY <2>2, <2>3, <2>4 DEF HandledInOrder
  <2>6. \A k \in 1..Len(outgoing) : outgoing[k].n = Len(sent) + 1 + k
    BY <2>1 DEF HandledInOrder
  <2>7. Len(sent) + 1 + Len(outgoing) = accepted  BY <2>1 DEF HandledInOrder
  <2>8. Len(sent) \in Nat /\ Len(outgoing) \in Nat /\ accepted \in Nat  BY DEF TypeOK
  <2>9. outgoing' = outgoing /\ accepted' = accepted  BY DEF queue
  <2>10. \A k \in 1..Len(outgoing') : outgoing'[k].n = Len(sent') + 0 + k
    BY <2>4, <2>6, <2>8, <2>9
  <2>. QED  BY <1>1, <2>4, <2>5, <2>7, <2>8, <2>9, <2>10 DEF HandledInOrder
<1>. QED  BY <1>2, <1>3

\* A step that moves the sender within a message, or between messages without
\* taking one, keeps the order.
LEMMA OrderUntouched ==
    ASSUME HandledInOrder, Held' = Held, Held = 1 => cur' = cur,
           sent' = sent, outgoing' = outgoing, accepted' = accepted
    PROVE  HandledInOrder'
BY DEF HandledInOrder

LEMMA OrderKept == Inv /\ [Next]_vars => HandledInOrder'
<1>. SUFFICES ASSUME Inv, [Next]_vars PROVE HandledInOrder'  OBVIOUS
<1>. USE DEF Inv
<1>1. CASE Start
  BY <1>1, OrderUntouched DEF Start, Started, queue, Held, Busy
<1>2. CASE StopCloseDone \/ StopCloseOutgoing
  BY <1>2, OrderUntouched
     DEF StopCloseDone, StopCloseOutgoing, queue, sender, Held, Busy
<1>3. ASSUME NEW to \in Users \cup Groups, Enqueue(to) PROVE HandledInOrder'
  <2>1. Held' = Held /\ Held \in {0, 1}  BY <1>3 DEF Enqueue, sender, Held, Busy
  <2>2. /\ Len(outgoing') = Len(outgoing) + 1
        /\ \A k \in 1..Len(outgoing) : outgoing'[k] = outgoing[k]
        /\ outgoing'[Len(outgoing) + 1].n = accepted + 1
    BY <1>3 DEF Enqueue, TypeOK
  <2>3. /\ accepted' = accepted + 1 /\ sent' = sent /\ cur' = cur
        /\ Len(sent) \in Nat /\ Len(outgoing) \in Nat /\ accepted \in Nat
    BY <1>3 DEF Enqueue, sender, TypeOK
  <2>4. \A k \in 1..Len(outgoing') : outgoing'[k].n = Len(sent) + Held + k
    <3>1. ASSUME NEW k \in 1..Len(outgoing')
          PROVE  outgoing'[k].n = Len(sent) + Held + k
      <4>1. CASE k \in 1..Len(outgoing)  BY <4>1, <2>2 DEF HandledInOrder
      <4>2. CASE k = Len(outgoing) + 1
        BY <4>2, <2>1, <2>2, <2>3 DEF HandledInOrder
      <4>. QED  BY <4>1, <4>2, <2>2, <2>3
    <3>. QED  BY <3>1
  <2>. QED  BY <2>1, <2>2, <2>3, <2>4 DEF HandledInOrder
<1>4. CASE EnqueueOnClosed
  BY <1>4, OrderUntouched DEF EnqueueOnClosed, sender, Held, Busy
<1>5. CASE Receive
  <2>1. Held = 0  BY <1>5 DEF Receive, Held, Busy
  <2>2. /\ Len(outgoing') = Len(outgoing) - 1 /\ Len(outgoing) \in Nat \ {0}
        /\ \A k \in 1..Len(outgoing') : outgoing'[k] = outgoing[k + 1]
        /\ cur' = outgoing[1]
    BY <1>5 DEF Receive, TypeOK
  <2>3. /\ Len(sent) \in Nat /\ sent' = sent /\ accepted' = accepted
    BY <1>5 DEF Receive, TypeOK
  <2>4. cur'.n = Len(sent) + 1  BY <2>1, <2>2, <2>3 DEF HandledInOrder
  <2>5. Held' = 1  BY <1>5, <2>3, <2>4 DEF Receive, Route, Held, Busy
  <2>6. \A k \in 1..Len(outgoing') : outgoing'[k].n = Len(sent) + 1 + k
    BY <2>1, <2>2, <2>3 DEF HandledInOrder
  <2>7. Len(sent) + 0 + Len(outgoing) = accepted  BY <2>1 DEF HandledInOrder
  <2>8. Len(sent') + Held' + Len(outgoing') = accepted'
    BY <2>2, <2>3, <2>5, <2>7
  <2>9. \A k \in 1..Len(sent') : sent'[k] = k  BY <2>3 DEF HandledInOrder
  <2>. QED  BY <2>3, <2>4, <2>5, <2>6, <2>8, <2>9 DEF HandledInOrder
<1>6. CASE ReceiveZero
  <2>1. Held = 0 /\ Held' = 0
    BY <1>6 DEF ReceiveZero, Held, Busy, ZeroMessage
  <2>. QED  BY <1>6, <2>1, OrderUntouched DEF ReceiveZero, queue
<1>7. CASE SendGroup
  BY <1>7, FinishInOrder DEF SendGroup, Busy
<1>8. CASE CheckFriend
  BY <1>8, OrderUntouched DEF CheckFriend, queue, Held, Busy
<1>9. CASE ReadGroups
  BY <1>9, OrderUntouched DEF ReadGroups, queue, Held, Busy
<1>10. CASE TryGroup
  <2>1. PICK g \in ways, r \in Results :
          LET attempts == Append(tried, [via |-> g, result |-> r]) IN
            /\ \A h \in ways : g <= h
            /\ IF r = "ok" THEN Finish(attempts)
               ELSE /\ ways' = ways \ {g}
                    /\ tried' = attempts
                    /\ pc' = IF ways' = {} THEN "direct" ELSE "try"
                    /\ UNCHANGED <<cur, plan, sent, zeroSent>>
    BY <1>10 DEF TryGroup
  <2>2. CASE r = "ok"  BY <1>10, <2>1, <2>2, FinishInOrder DEF TryGroup, Busy
  <2>3. CASE r # "ok"
    BY <1>10, <2>1, <2>3, OrderUntouched DEF TryGroup, queue, Held, Busy
  <2>. QED  BY <2>2, <2>3
<1>11. CASE SendDirect
  BY <1>11, FinishInOrder DEF SendDirect, Busy
<1>12. CASE SenderStops
  BY <1>12, OrderUntouched DEF SenderStops, queue, Held, Busy
<1>13. CASE SyncStep \/ SyncStops
  BY <1>13, OrderUntouched
     DEF SyncStep, BeginSync, SyncSucceeds, SyncFails, SyncStops, queue, sender, Held, Busy
<1>14. CASE UNCHANGED vars
  BY <1>14, OrderUntouched DEF vars, Held, Busy
<1>. QED
  BY <1>1, <1>2, <1>3, <1>4, <1>5, <1>6, <1>7, <1>8, <1>9, <1>10, <1>11, <1>12,
     <1>13, <1>14 DEF Next, SenderStep

-----------------------------------------------------------------------------
(* The ways.                                                               *)

\* What the sender knows is about its own message: nobody else disturbs it.
LEMMA WaysUntouched ==
    ASSUME TriedSoFar, EveryWayTriedOnce, UNCHANGED sender
    PROVE  TriedSoFar' /\ EveryWayTriedOnce'
<1>1. UNCHANGED <<pc, cur, ways, tried, plan>>  BY DEF sender
<1>2. EachOnce' = EachOnce /\ AllFailed' = AllFailed /\ Vias' = Vias /\ Busy' = Busy
  BY <1>1 DEF EachOnce, AllFailed, Vias, Busy
<1>3. TriedSoFar'  BY <1>1, <1>2 DEF TriedSoFar
<1>4. EveryWayTriedOnce'  BY <1>1, <1>2 DEF EveryWayTriedOnce
<1>. QED  BY <1>3, <1>4

LEMMA WaysKept == Inv /\ [Next]_vars => Started' /\ TriedSoFar' /\ EveryWayTriedOnce'
<1>. SUFFICES ASSUME Inv, [Next]_vars
              PROVE  Started' /\ TriedSoFar' /\ EveryWayTriedOnce'
  OBVIOUS
<1>. USE DEF Inv
<1>1. CASE Start
  <2>1. /\ pc = "off" /\ pc' = "idle" /\ running'
        /\ UNCHANGED <<cur, ways, tried, plan>>
    BY <1>1 DEF Start, Started
  <2>2. EachOnce' = EachOnce /\ Vias' = Vias /\ ~ Busy /\ ~ Busy'
    BY <2>1 DEF EachOnce, Vias, Busy
  <2>3. Started' /\ TriedSoFar'  BY <2>1, <2>2 DEF Started, TriedSoFar
  <2>4. EveryWayTriedOnce'  BY <2>1, <2>2 DEF EveryWayTriedOnce
  <2>. QED  BY <2>3, <2>4
<1>2. CASE StopCloseDone \/ StopCloseOutgoing \/ EnqueueOnClosed \/ SyncStep \/ SyncStops
  BY <1>2, WaysUntouched
     DEF StopCloseDone, StopCloseOutgoing, EnqueueOnClosed, SyncStep, BeginSync,
         SyncSucceeds, SyncFails, SyncStops, Started, sender, client
<1>3. ASSUME NEW to \in Users \cup Groups, Enqueue(to)
      PROVE  Started' /\ TriedSoFar' /\ EveryWayTriedOnce'
  BY <1>3, WaysUntouched DEF Enqueue, Started, sender, client
<1>4. CASE Receive \/ ReceiveZero
  <2>1. /\ pc' = Route(cur') /\ tried' = <<>> /\ plan' = {} /\ ways' = ways
        /\ pc = "idle" /\ UNCHANGED client
    BY <1>4 DEF Receive, ReceiveZero
  <2>2. pc' \in {"group", "private"} /\ (pc' = "group" <=> cur'.to \in Groups)
    BY <2>1 DEF Route
  <2>3. ways = {}  BY <2>1 DEF TriedSoFar
  <2>4. Started'  BY <2>1 DEF Started, client
  <2>5. Len(tried') = 0  BY <2>1
  <2>. QED  BY <2>1, <2>2, <2>3, <2>4, <2>5
            DEF TriedSoFar, EveryWayTriedOnce, EachOnce, Busy
<1>5. CASE SendGroup
  <2>1. PICK r \in Results : Finish(<<[via |-> cur.to, result |-> r]>>)
    BY <1>5 DEF SendGroup
  <2>2. /\ tried' = <<[via |-> cur.to, result |-> r]>> /\ ways' = {}
        /\ pc' = "idle" /\ cur' = cur
    BY <2>1 DEF Finish
  <2>3. Len(tried') = 1  BY <2>2
  <2>4. cur'.to \notin Users  BY <1>5, <2>2, NobodyAssumption DEF SendGroup, TriedSoFar
  <2>5. Started'  BY <1>5 DEF SendGroup, Started, client
  <2>. QED  BY <2>2, <2>3, <2>4, <2>5 DEF TriedSoFar, EveryWayTriedOnce, EachOnce, Busy
<1>6. CASE CheckFriend
  <2>1. pc' \in {"direct", "groups"} /\ UNCHANGED <<cur, ways, tried, plan, client>>
        /\ pc = "private"
    BY <1>6 DEF CheckFriend
  <2>2. tried = <<>> /\ Len(tried) = 0 /\ plan = {} /\ ways = {}
    BY <2>1 DEF TriedSoFar
  <2>3. Vias = {}  BY <2>2 DEF Vias
  <2>. QED  BY <2>1, <2>2, <2>3
            DEF Started, TriedSoFar, EveryWayTriedOnce, EachOnce, AllFailed, Vias, Busy, client
<1>7. CASE ReadGroups
  <2>1. /\ pc = "groups" /\ UNCHANGED <<cur, tried, client>> /\ plan' = ways'
        /\ pc' = IF ways' = {} THEN "direct" ELSE "try"
    BY <1>7 DEF ReadGroups
  <2>2. tried = <<>> /\ Len(tried) = 0  BY <2>1 DEF TriedSoFar
  <2>3. Vias = {} /\ Vias' = {}  BY <2>1, <2>2 DEF Vias
  <2>. QED  BY <2>1, <2>2, <2>3
            DEF Started, TriedSoFar, EveryWayTriedOnce, EachOnce, AllFailed, Busy, client
<1>8. CASE TryGroup
  <2>1. PICK g \in ways, r \in Results :
          LET attempts == Append(tried, [via |-> g, result |-> r]) IN
            /\ \A h \in ways : g <= h
            /\ IF r = "ok" THEN Finish(attempts)
               ELSE /\ ways' = ways \ {g}
                    /\ tried' = attempts
                    /\ pc' = IF ways' = {} THEN "direct" ELSE "try"
                    /\ UNCHANGED <<cur, plan, sent, zeroSent>>
    BY <1>8 DEF TryGroup
  <2> DEFINE a == [via |-> g, result |-> r]
  <2>2. a \in Attempt /\ a.via = g /\ a.result = r
    BY <2>1 DEF Attempt, TypeOK
  <2>3. tried' = Append(tried, a) /\ cur' = cur /\ plan' = plan
    BY <2>1 DEF Finish
  <2>4. EachOnce /\ AllFailed /\ Vias = plan \ ways /\ ways \subseteq plan /\ cur.to \notin Groups
    BY <1>8 DEF TryGroup, TriedSoFar
  <2>5. /\ EachOnce' /\ Vias' = Vias \cup {g}
        /\ Len(tried') \in Nat \ {0} /\ tried'[Len(tried')] = a
        /\ r = "failed" => AllFailed'
        /\ \A j \in 1..Len(tried') : tried'[j].result = "ok" => j = Len(tried')
    <3>. HIDE DEF a
    <3>1. a.via \notin Vias  BY <2>1, <2>2, <2>4
    <3>2. Len(tried) \in Nat  BY DEF TypeOK
    <3>. QED  BY <2>2, <2>3, <2>4, <3>1, <3>2, NextAttempt
  <2>6. Started'  BY <1>8 DEF TryGroup, Started, client
  <2>7. CASE r = "ok"
    <3>1. pc' = "idle" /\ ways' = {}  BY <2>1, <2>7 DEF Finish
    <3>2. \E j \in 1..Len(tried') : tried'[j].result = "ok"
      BY <2>2, <2>5, <2>7
    <3>. QED  BY <2>5, <2>6, <3>1, <3>2 DEF TriedSoFar, EveryWayTriedOnce, EachOnce, Busy
  <2>8. CASE r # "ok"
    <3>1. r = "failed"  BY <2>8
    <3>2. ways' = ways \ {g} /\ pc' = (IF ways' = {} THEN "direct" ELSE "try")
      BY <2>1, <2>8
    <3>3. AllFailed' /\ Vias' = plan \ ways'  BY <2>1, <2>4, <2>5, <3>1, <3>2
    <3>4. TriedSoFar'  BY <2>3, <2>4, <2>5, <3>2, <3>3 DEF TriedSoFar
    <3>5. Busy'  BY <3>2 DEF Busy
    <3>6. EveryWayTriedOnce'  BY <2>5, <3>3, <3>5 DEF EveryWayTriedOnce, EachOnce, AllFailed
    <3>. QED  BY <2>6, <3>4, <3>6
  <2>. QED  BY <2>7, <2>8
<1>9. CASE SendDirect
  <2>1. PICK r \in Results : Finish(Append(tried, [via |-> Direct, result |-> r]))
    BY <1>9 DEF SendDirect
  <2> DEFINE a == [via |-> Direct, result |-> r]
  <2>2. a \in Attempt /\ a.via = Direct  BY <2>1 DEF Attempt
  <2>3. /\ tried' = Append(tried, a) /\ cur' = cur /\ plan' = plan /\ ways' = {}
        /\ pc' = "idle"
    BY <2>1 DEF Finish
  <2>4. EachOnce /\ AllFailed /\ Vias = plan  BY <1>9 DEF SendDirect, TriedSoFar
  <2>5. /\ EachOnce' /\ Vias' = Vias \cup {Direct}
        /\ \A j \in 1..Len(tried') : tried'[j].result = "ok" => j = Len(tried')
    <3>. HIDE DEF a
    <3>1. a.via \notin Vias  BY <2>2, <2>4, GroupsAssumption DEF TypeOK
    <3>. QED  BY <2>2, <2>3, <2>4, <3>1, NextAttempt
  <2>6. Started'  BY <1>9 DEF SendDirect, Started, client
  <2>. QED  BY <2>3, <2>4, <2>5, <2>6 DEF TriedSoFar, EveryWayTriedOnce, EachOnce, Busy
<1>10. CASE SenderStops
  BY <1>10, SMTT(30) DEF SenderStops, Started, TriedSoFar, EveryWayTriedOnce, EachOnce, AllFailed,
               Vias, Busy, client
<1>11. CASE UNCHANGED vars
  BY <1>11, WaysUntouched DEF vars, Started, sender
<1>. QED
  BY <1>1, <1>2, <1>3, <1>4, <1>5, <1>6, <1>7, <1>8, <1>9, <1>10, <1>11
     DEF Next, SenderStep

-----------------------------------------------------------------------------
LEMMA InvInit == Init => Inv
<1>. SUFFICES ASSUME Init PROVE Inv  OBVIOUS
<1>. USE DEF Init
<1>1. TypeOK
  <2>1. ZeroMessage \in Message  BY BoundsAssumption DEF ZeroMessage, Message
  <2>2. outgoing \in Seq(Message) /\ Len(outgoing) <= OutgoingCap
        /\ accepted \in 0..MaxMessages
    BY BoundsAssumption
  <2>3. tried \in Seq(Attempt) /\ sent \in Seq(1..MaxMessages)  OBVIOUS
  <2>4. directory.friends \subseteq Users /\ directory.groups \in [Users -> SUBSET Groups]
    OBVIOUS
  <2>. QED  BY <2>1, <2>2, <2>3, <2>4 DEF TypeOK, PC
<1>2. HandledInOrder  BY DEF HandledInOrder, Held, Busy
<1>3. Started /\ TriedSoFar  BY DEF Started, TriedSoFar, EachOnce
<1>4. EveryWayTriedOnce
  BY NobodyAssumption DEF EveryWayTriedOnce, ZeroMessage
<1>. QED  BY <1>1, <1>2, <1>3, <1>4 DEF Inv

LEMMA InvNext == Inv /\ [Next]_vars => Inv'
BY TypesKept, OrderKept, WaysKept DEF Inv

LEMMA InvAlways == Spec => []Inv
BY InvInit, InvNext, PTL DEF Spec

-----------------------------------------------------------------------------
(* The process.                                                            *)

\* The shutdown's order: the client is stopped by the main goroutine alone,
\* after it has seen the agent end or the server fail, and the agent runs only
\* between its launch and its end.
StoppedInOrder ==
    /\ main \in {"starting", "building"} => agent = "off"
    /\ main \in {"starting", "building"} => server = "off" /\ serverErr = "none"
    /\ done \/ closed => main \in {"stopping", "exited"}
    /\ main \in {"shutdown", "collecting"} => agent = "done"
    /\ main \in {"stopping", "exited"} /\ agent = "running" => server = "failed"
    /\ server \in {"closing", "closed"} => agent = "done"
    /\ serverErr = "error" => server = "failed"
    /\ serverErr = "nil" => server = "closed"

LifeOK ==
    /\ main \in {"starting", "building", "waiting", "shutdown", "collecting",
                 "stopping", "exited"}
    /\ signalled \in BOOLEAN
    /\ agent \in {"off", "running", "done"}
    /\ server \in {"off", "serving", "failed", "closing", "closed"}
    /\ serverErr \in {"none", "nil", "error"}

AppInv == LifeOK /\ StoppedInOrder /\ OrderlyShutdown

-----------------------------------------------------------------------------
\* A step of the process is a step of the client or leaves it alone.
LEMMA ClientInProcess == [AppNext]_appVars => [Next]_vars
<1>. SUFFICES ASSUME [AppNext]_appVars PROVE [Next]_vars  OBVIOUS
<1>1. CASE MainStep
  BY <1>1 DEF MainStep, StartClient, BuildFails, Launch, ServerEnded, AgentEnded, Shutdown,
              CollectServerErr, StopClient, Exit, Next
<1>2. CASE Signal \/ ServerFails \/ ServerCloses \/ AgentReturns
  BY <1>2 DEF Signal, ServerFails, ServerCloses, AgentReturns
<1>3. CASE AgentSends \/ ClientStep
  BY <1>3 DEF AgentSends, ClientStep, Next
<1>4. CASE UNCHANGED appVars
  BY <1>4 DEF appVars
<1>. QED  BY <1>1, <1>2, <1>3, <1>4 DEF AppNext

LEMMA ProcessRunsClient == AppSpec => Spec
<1>1. AppInit => Init  BY DEF AppInit
<1>. QED  BY <1>1, ClientInProcess, PTL DEF AppSpec, Spec

\* Only the client's own steps change done, closed and panicked.
LEMMA ClientKeepsFlags ==
    SenderStep \/ SenderStops \/ SyncStep \/ SyncStops =>
        UNCHANGED <<done, closed, panicked>>
<1>1. SenderStep \/ SenderStops => UNCHANGED <<done, closed, panicked>>
  BY DEF SenderStep, SenderStops, Receive, ReceiveZero, SendGroup, CheckFriend, ReadGroups,
         TryGroup, SendDirect, client, queue
<1>2. SyncStep \/ SyncStops => UNCHANGED <<done, closed, panicked>>
  BY DEF SyncStep, SyncStops, BeginSync, SyncSucceeds, SyncFails, client, queue
<1>. QED  BY <1>1, <1>2

LEMMA AppInvInit == AppInit => AppInv
BY DEF AppInit, Init, AppInv, LifeOK, StoppedInOrder, OrderlyShutdown

LEMMA AppInvNext == AppInv /\ [AppNext]_appVars => AppInv'
<1>. SUFFICES ASSUME AppInv, [AppNext]_appVars PROVE AppInv'  OBVIOUS
<1>. USE DEF AppInv, LifeOK, StoppedInOrder, OrderlyShutdown
<1>1. CASE StartClient
  BY <1>1 DEF StartClient, Start, queue
<1>2. CASE BuildFails
  BY <1>2 DEF BuildFails, vars
<1>3. CASE Launch
  BY <1>3 DEF Launch, vars
<1>4. CASE ServerEnded
  BY <1>4 DEF ServerEnded, vars
<1>5. CASE AgentEnded
  BY <1>5 DEF AgentEnded, vars
<1>6. CASE Shutdown
  BY <1>6 DEF Shutdown, vars
<1>7. CASE CollectServerErr
  BY <1>7 DEF CollectServerErr, vars
<1>8. CASE StopClient
  BY <1>8 DEF StopClient, StopCloseDone, StopCloseOutgoing, lifeVars, queue
<1>9. CASE Exit
  BY <1>9 DEF Exit, vars
<1>10. CASE Signal
  BY <1>10 DEF Signal, vars
<1>11. CASE ServerFails
  BY <1>11 DEF ServerFails, vars
<1>12. CASE ServerCloses
  BY <1>12 DEF ServerCloses, vars
<1>13. CASE AgentReturns
  BY <1>13 DEF AgentReturns, vars
<1>14. CASE AgentSends
  <2>1. CASE EnqueueOnClosed
    BY <1>14, <2>1 DEF AgentSends, EnqueueOnClosed, lifeVars, client
  <2>2. ASSUME NEW to \in Users \cup Groups, Enqueue(to) PROVE AppInv'
    BY <1>14, <2>2 DEF AgentSends, Enqueue, lifeVars, client
  <2>. QED  BY <1>14, <2>1, <2>2 DEF AgentSends
<1>15. CASE ClientStep
  BY <1>15, ClientKeepsFlags DEF ClientStep, lifeVars
<1>16. CASE UNCHANGED appVars
  BY <1>16 DEF appVars, vars, lifeVars
<1>. QED
  BY <1>1, <1>2, <1>3, <1>4, <1>5, <1>6, <1>7, <1>8, <1>9, <1>10, <1>11, <1>12, <1>13,
     <1>14, <1>15, <1>16 DEF AppNext, MainStep

LEMMA AppInvAlways == AppSpec => []AppInv
BY AppInvInit, AppInvNext, PTL DEF AppSpec

-----------------------------------------------------------------------------
\* In every reachable state of the process each variable has its type and the
\* queue is within its capacity (app.go:26-119, napcat_client.go:67-91).
THEOREM TypeCorrect == AppSpec => []AppTypeOK
<1>1. Inv /\ AppInv => AppTypeOK  BY DEF Inv, AppInv, LifeOK, AppTypeOK
<1>. QED  BY <1>1, ProcessRunsClient, InvAlways, AppInvAlways, PTL

\* What SendMessage accepted is handled once each and in order, or waits: in the
\* whole process, up to its end (napcat_client.go:308-336, 429-448).
THEOREM AcceptedInOrder == AppSpec => []HandledInOrder
<1>1. Inv => HandledInOrder  BY DEF Inv
<1>. QED  BY <1>1, ProcessRunsClient, InvAlways, PTL

\* No way is tried twice for a message, nothing is tried after a success, and a
\* private message is given up only after every group read for it and the direct
\* way, for any number of groups and whatever the directory becomes meanwhile
\* (napcat_client.go:233-266).
THEOREM EveryWayOnce == AppSpec => []EveryWayTriedOnce
<1>1. Inv => EveryWayTriedOnce  BY DEF Inv
<1>. QED  BY <1>1, ProcessRunsClient, InvAlways, PTL

\* However often calls fail and the directory changes, a message costs at most one
\* OneBot call per group and the direct one (napcat_client.go:245-266).
THEOREM CallsAreBounded ==
    ASSUME IsFiniteSet(Groups)
    PROVE  AppSpec => [](Len(tried) <= Cardinality(Groups) + 1)
<1>1. ASSUME Inv PROVE Len(tried) <= Cardinality(Groups) + 1
  <2>. DEFINE V == Groups \cup {Direct}
              f == [k \in 1..Len(tried) |-> tried[k].via]
  <2>1. tried \in Seq(Attempt) /\ Len(tried) \in Nat  BY <1>1 DEF Inv, TypeOK
  <2>2. \A k \in 1..Len(tried) : tried[k].via \in V
    <3>1. \A k \in 1..Len(tried) : tried[k] \in Attempt  BY <2>1
    <3>. QED  BY <3>1 DEF Attempt
  <2>3. Direct \notin Groups  BY GroupsAssumption
  <2>4. IsFiniteSet(V) /\ Cardinality(V) = Cardinality(Groups) + 1
    BY <2>3, FS_AddElement
  <2>5. \A j, k \in 1..Len(tried) : f[j] = f[k] => j = k
    BY <1>1 DEF Inv, TriedSoFar, EachOnce
  <2>6. f \in Injection(1..Len(tried), V)  BY <2>2, <2>5 DEF Injection, IsInjective
  <2>. HIDE DEF f, V
  <2>7. Cardinality(1..Len(tried)) <= Cardinality(V)  BY <2>4, <2>6, FS_Injection
  <2>8. Cardinality(1..Len(tried)) = Len(tried)
    <3>1. Cardinality(1..Len(tried)) = IF 1 > Len(tried) THEN 0 ELSE Len(tried) - 1 + 1
      BY <2>1, FS_Interval
    <3>. QED  BY <2>1, <3>1
  <2>. QED  BY <2>4, <2>7, <2>8
<1>2. Inv => Len(tried) <= Cardinality(Groups) + 1  BY <1>1
<1>. QED  BY <1>2, ProcessRunsClient, InvAlways, PTL

\* No send of the agent meets the closed channel, whenever the signal comes,
\* unless the HTTP server has failed (app.go:92-118).
THEOREM StopsAfterAgent == AppSpec => []OrderlyShutdown
<1>1. AppInv => OrderlyShutdown  BY DEF AppInv
<1>. QED  BY <1>1, AppInvAlways, PTL

=============================================================================
