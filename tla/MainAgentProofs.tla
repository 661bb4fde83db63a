--------------------------- MODULE MainAgentProofs ---------------------------
(***************************************************************************)
(* Theorems about MainAgent, for every set of targets and every value of   *)
(* the caps and bounds.  The inductive invariant is                        *)
(*     TypeOK /\ RoundsPaidFor /\ RoundsBounded /\ MovedMeansFresh.        *)
(***************************************************************************)
EXTENDS MainAgent, TLAPS

Inv == TypeOK /\ RoundsPaidFor /\ RoundsBounded /\ MovedMeansFresh

\* The steps that only touch the store, from the agent's point of view.
StoreStep ==
    \/ Produce \/ EnqueueScheduledTask \/ ClockTick
    \/ ToolList \/ ToolAdd \/ \E i \in Pending : ToolComplete(i)

-----------------------------------------------------------------------------
(* The store.                                                              *)

\* Adding keeps the store's types, and the new item is pending.
LEMMA AddEffect ==
    ASSUME StoreTypeOK, NEW t \in Targets \cup {NoTarget}, Add(t)
    PROVE  /\ StoreTypeOK'
           /\ nextID' = nextID + 1
           /\ Pending' = Pending \cup {nextID + 1}
BY BoundsAssumption DEF StoreTypeOK, Add, Pending, Item

\* Completing keeps the store's types and removes exactly that item.
LEMMA CompleteEffect ==
    ASSUME StoreTypeOK, NEW i \in Pending, Complete(i)
    PROVE  /\ StoreTypeOK'
           /\ nextID' = nextID
           /\ Pending' = Pending \ {i}
BY DEF StoreTypeOK, Complete, Pending, Item, Restrict

\* The clock keeps the store's types and its items.
LEMMA TickEffect ==
    ASSUME StoreTypeOK, Tick
    PROVE  /\ StoreTypeOK'
           /\ nextID' = nextID
           /\ Pending' = Pending
BY BoundsAssumption DEF StoreTypeOK, Tick, Pending, Item

\* A step that leaves the store alone keeps its types.
LEMMA StoreUnchanged ==
    ASSUME StoreTypeOK, UNCHANGED storeVars
    PROVE  StoreTypeOK' /\ nextID' = nextID /\ Pending' = Pending
BY DEF StoreTypeOK, storeVars, Pending, Item

-----------------------------------------------------------------------------
(* The inductive invariant.                                                *)

\* What a rewake pays for: n+1 rewakes cover maxErrorRetries more rounds than
\* n do, and more rewakes never cover fewer.
LEMMA RewakesPay ==
    /\ \A n \in Nat : (n + 1) * MaxErrorRetries = n * MaxErrorRetries + MaxErrorRetries
    /\ \A n \in 0..MaxRewakeAttempts :
          n * MaxErrorRetries <= MaxRewakeAttempts * MaxErrorRetries
    /\ \A n \in Nat : n * MaxErrorRetries \in Nat
<1>1. \A n \in Nat : n * MaxErrorRetries \in Nat
  BY CapsAssumption
<1>2. \A n \in Nat : (n + 1) * MaxErrorRetries = n * MaxErrorRetries + MaxErrorRetries
  BY CapsAssumption
<1>3. ASSUME NEW n \in 0..MaxRewakeAttempts
      PROVE  n * MaxErrorRetries <= MaxRewakeAttempts * MaxErrorRetries
  <2>1. PICK d \in Nat : MaxRewakeAttempts = n + d
    <3>1. MaxRewakeAttempts - n \in Nat /\ MaxRewakeAttempts = n + (MaxRewakeAttempts - n)
      BY CapsAssumption
    <3>2. QED BY <3>1
  <2>2. (n + d) * MaxErrorRetries = n * MaxErrorRetries + d * MaxErrorRetries
    BY CapsAssumption
  <2>3. d * MaxErrorRetries \in Nat /\ n * MaxErrorRetries \in Nat
    BY <1>1
  <2>4. QED BY <2>1, <2>2, <2>3
<1>4. QED BY <1>1, <1>2, <1>3

LEMMA InitInv == Init => Inv
<1> SUFFICES ASSUME Init PROVE Inv
  OBVIOUS
<1>1. TypeOK
  <2>1. Pending = {} /\ StoreTypeOK
    BY BoundsAssumption DEF Init, StoreInit, StoreTypeOK, Pending
  <2>2. stalledVersion \in 0..nextID /\ prompt \subseteq 1..nextID /\ shown \subseteq 1..nextID
    BY DEF Init, StoreInit
  <2>3. rewakes \in 0..(MaxRewakeAttempts + 1) /\ errorRetries \in 0..MaxErrorRetries
    BY CapsAssumption DEF Init
  <2>4. QED BY <2>1, <2>2, <2>3 DEF Init, TypeOK, PC
<1>2. (MaxRewakeAttempts + 1) * MaxErrorRetries \in Nat
  BY CapsAssumption, RewakesPay
<1>3. RoundsPaidFor /\ RoundsBounded
  BY <1>2 DEF Init, RoundsPaidFor, RoundsBounded
<1>4. MovedMeansFresh
  BY DEF Init, StoreInit, MovedMeansFresh, Pending, IsEmpty
<1>5. QED BY <1>1, <1>3, <1>4 DEF Inv

\* A producer, the clock or a tool call leaves the loop where it is; an item
\* that is added is new, so if the loop is idle it has something fresh.
LEMMA StoreStepInv ==
    ASSUME Inv, StoreStep
    PROVE  Inv'
<1> USE DEF Inv
<1>1. CASE Produce \/ EnqueueScheduledTask
  <2>1. PICK t \in Targets \cup {NoTarget} : Add(t)
    BY <1>1 DEF Produce, EnqueueScheduledTask
  <2>2. UNCHANGED agentVars
    BY <1>1 DEF Produce, EnqueueScheduledTask
  <2>3. /\ StoreTypeOK'
        /\ nextID' = nextID + 1
        /\ Pending' = Pending \cup {nextID + 1}
    BY <2>1, AddEffect DEF TypeOK
  <2>4. TypeOK' /\ MovedMeansFresh'
    BY <2>2, <2>3 DEF TypeOK, StoreTypeOK, MovedMeansFresh, Version, IsEmpty, agentVars
  <2>5. QED BY <2>2, <2>4 DEF RoundsPaidFor, RoundsBounded, agentVars
<1>2. CASE ClockTick
  <2>1. StoreTypeOK' /\ nextID' = nextID /\ Pending' = Pending /\ UNCHANGED agentVars
    BY <1>2, TickEffect DEF ClockTick, TypeOK
  <2>2. QED BY <2>1 DEF TypeOK, MovedMeansFresh, Version, IsEmpty, RoundsPaidFor,
                       RoundsBounded, agentVars
<1>3. CASE ToolList \/ ToolAdd \/ \E i \in Pending : ToolComplete(i)
  <2>1. ToolFrame
    BY <1>3 DEF ToolList, ToolAdd, ToolComplete
  <2>2. StoreTypeOK' /\ nextID' \in {nextID, nextID + 1}
    <3>1. CASE ToolList
      BY <3>1, StoreUnchanged DEF ToolList, TypeOK
    <3>2. CASE ToolAdd
      BY <3>2, AddEffect DEF ToolAdd, TypeOK
    <3>3. CASE \E i \in Pending : ToolComplete(i)
      BY <3>3, CompleteEffect DEF ToolComplete, TypeOK
    <3>4. QED BY <1>3, <3>1, <3>2, <3>3
  <2>3. TypeOK'
    BY <2>1, <2>2 DEF ToolFrame, TypeOK, StoreTypeOK, Pending
  <2>4. QED BY <2>1, <2>3 DEF ToolFrame, RoundsPaidFor, RoundsBounded, MovedMeansFresh
<1>4. QED BY <1>1, <1>2, <1>3 DEF StoreStep

\* Every step of the specification preserves the invariant.
LEMMA NextInv == Inv /\ [Next]_vars => Inv'
<1> SUFFICES ASSUME Inv, [Next]_vars PROVE Inv'
  OBVIOUS
<1> USE DEF Inv
<1>1. CASE StoreStep
  BY <1>1, StoreStepInv
<1>2. CASE CancelContext
  <2>1. StoreTypeOK' /\ nextID' = nextID /\ Pending' = Pending
    BY <1>2, StoreUnchanged DEF CancelContext, TypeOK
  <2>2. QED BY <1>2, <2>1 DEF CancelContext, TypeOK, RoundsPaidFor, RoundsBounded,
                              MovedMeansFresh, IsEmpty, Version
<1>3. CASE Stop \/ Poll
  <2>1. StoreTypeOK' /\ nextID' = nextID /\ Pending' = Pending
    BY <1>3, StoreUnchanged DEF Stop, Poll, TypeOK
  <2>2. QED BY <1>3, <2>1 DEF Stop, Poll, TypeOK, PC, RoundsPaidFor, RoundsBounded,
                              MovedMeansFresh
<1>4. CASE SetCurrentSource
  <2>1. StoreTypeOK' /\ nextID' = nextID /\ Pending' = Pending
    BY <1>4, StoreUnchanged DEF SetCurrentSource, TypeOK
  <2>2. source' \in Targets \cup {NoTarget}
    BY <1>4 DEF SetCurrentSource, TypeOK, StoreTypeOK, IsLast, Item
  <2>3. TypeOK'
    BY <1>4, <2>1, <2>2, CapsAssumption DEF SetCurrentSource, TypeOK, PC
  <2>4. QED BY <1>4, <2>3, CapsAssumption, RewakesPay
            DEF SetCurrentSource, RoundsPaidFor, RoundsBounded, MovedMeansFresh
<1>5. CASE StartRound
  <2>1. StoreTypeOK' /\ nextID' = nextID /\ Pending' = Pending
    BY <1>5, StoreUnchanged DEF StartRound, TypeOK
  <2>2. TypeOK'
    BY <1>5, <2>1 DEF StartRound, TypeOK, StoreTypeOK, PC
  <2>3. RoundsPaidFor' /\ rounds' <= rewakes * MaxErrorRetries + MaxErrorRetries
    BY <1>5, CapsAssumption, RewakesPay DEF StartRound, RoundsPaidFor, TypeOK
  <2>4. RoundsBounded'
    BY <1>5, <2>2, <2>3, CapsAssumption, RewakesPay
       DEF StartRound, RoundsPaidFor, RoundsBounded, TypeOK
  <2>5. QED BY <1>5, <2>2, <2>3, <2>4 DEF StartRound, MovedMeansFresh
<1>6. CASE RoundSucceeds \/ RoundFails
  <2>1. StoreTypeOK' /\ nextID' = nextID /\ Pending' = Pending
    BY <1>6, StoreUnchanged DEF RoundSucceeds, RoundFails, TypeOK
  <2>2. TypeOK'
    <3>1. errorRetries' \in 0..MaxErrorRetries
      BY <1>6, CapsAssumption DEF RoundSucceeds, RoundFails, TypeOK, RoundsPaidFor
    <3>2. pc' \in PC
      BY <1>6 DEF RoundSucceeds, RoundFails, PC
    <3>3. prompt' = {} /\ UNCHANGED <<canceled, stalledVersion, rewakes, source, shown, rounds>>
      BY <1>6 DEF RoundSucceeds, RoundFails
    <3>4. QED BY <2>1, <3>1, <3>2, <3>3 DEF TypeOK
  <2>3. RoundsPaidFor'
    <3>1. rewakes * MaxErrorRetries \in Nat /\ rewakes' = rewakes
      BY <1>6, RewakesPay DEF TypeOK, RoundSucceeds, RoundFails
    <3>2. rounds <= rewakes * MaxErrorRetries + errorRetries + 1
      BY <1>6 DEF RoundsPaidFor, RoundSucceeds, RoundFails
    <3>3. CASE RoundSucceeds
      BY <3>1, <3>2, <3>3, CapsAssumption DEF RoundSucceeds, RoundsPaidFor, TypeOK
    <3>4. CASE RoundFails
      BY <3>1, <3>2, <3>4, CapsAssumption DEF RoundFails, RoundsPaidFor, TypeOK
    <3>5. QED BY <1>6, <3>3, <3>4
  <2>4. QED BY <1>6, <2>2, <2>3 DEF RoundSucceeds, RoundFails, RoundsBounded, MovedMeansFresh
<1>7. CASE Settle
  <2>1. StoreTypeOK' /\ nextID' = nextID /\ Pending' = Pending
    BY <1>7, StoreUnchanged DEF Settle, TypeOK
  <2>2. TypeOK'
    BY <1>7, <2>1, CapsAssumption DEF Settle, TypeOK, PC, RoundsPaidFor
  <2>3. RoundsPaidFor'
    <3>1. /\ (rewakes + 1) * MaxErrorRetries = rewakes * MaxErrorRetries + MaxErrorRetries
          /\ rewakes * MaxErrorRetries \in Nat
      BY RewakesPay DEF TypeOK
    <3>2. CASE pc' = "prompt"
      <4>1. /\ rewakes' = rewakes + 1 /\ rewakes' <= MaxRewakeAttempts
            /\ errorRetries' = 0 /\ rounds' = rounds
            /\ rounds <= rewakes * MaxErrorRetries + MaxErrorRetries
        BY <1>7, <3>2, CapsAssumption DEF Settle, RoundsPaidFor, TypeOK
      <4>2. rounds' <= rewakes' * MaxErrorRetries + errorRetries'
        BY <3>1, <4>1, CapsAssumption DEF TypeOK
      <4>3. QED BY <3>2, <4>1, <4>2, CapsAssumption DEF RoundsPaidFor
    <3>3. CASE pc' = "drained"
      BY <3>3 DEF RoundsPaidFor
    <3>4. QED BY <1>7, <3>2, <3>3 DEF Settle
  <2>4. QED BY <1>7, <2>2, <2>3 DEF Settle, RoundsBounded, MovedMeansFresh
<1>8. CASE GiveUp
  <2>1. StoreTypeOK' /\ nextID' = nextID
    BY <1>8, StoreUnchanged, CompleteEffect DEF GiveUp, TypeOK
  <2>2. TypeOK'
    BY <1>8, <2>1 DEF GiveUp, TypeOK, PC
  <2>3. QED BY <1>8, <2>2 DEF GiveUp, RoundsPaidFor, RoundsBounded, MovedMeansFresh
<1>9. CASE RecordStall
  <2>1. StoreTypeOK' /\ nextID' = nextID /\ Pending' = Pending
    BY <1>9, StoreUnchanged DEF RecordStall, TypeOK
  <2>2. TypeOK'
    BY <1>9, <2>1 DEF RecordStall, TypeOK, StoreTypeOK, PC, Version
  <2>3. QED BY <1>9, <2>1, <2>2 DEF RecordStall, RoundsPaidFor, RoundsBounded,
                                    MovedMeansFresh, IsEmpty, Version
<1>10. CASE UNCHANGED vars
  <2>1. StoreTypeOK' /\ nextID' = nextID /\ Pending' = Pending
    BY <1>10, StoreUnchanged DEF vars, TypeOK
  <2>2. QED BY <1>10, <2>1 DEF vars, agentVars, TypeOK, RoundsPaidFor, RoundsBounded,
                               MovedMeansFresh, IsEmpty, Version
<1>11. QED BY <1>1, <1>2, <1>3, <1>4, <1>5, <1>6, <1>7, <1>8, <1>9, <1>10
           DEF Next, Loop, StoreStep

LEMMA Invariance == Spec => []Inv
<1>1. QED BY InitInv, NextInv, PTL DEF Spec

\* Type correctness of the loop and its store.
THEOREM TypeCorrect == Spec => []TypeOK
<1>1. Inv => TypeOK
  BY DEF Inv
<1>2. QED BY <1>1, Invariance, PTL

\* The two caps of drainTodoList together bound the model rounds of one
\* activation, whatever the model and the producers do.
THEOREM ActivationCostBounded == Spec => []RoundsBounded
<1>1. Inv => RoundsBounded
  BY DEF Inv
<1>2. QED BY <1>1, Invariance, PTL

-----------------------------------------------------------------------------
(* The loop implements the abstract queue.  The refinement mapping is the   *)
(* one of the INSTANCE in MainAgent.                                       *)

\* A step that changes neither the pending items, nor what was shown, nor
\* whether the agent serves, is a stuttering step of the abstract queue.
LEMMA Stutter ==
    ASSUME Pending' = Pending, nextID' = nextID, shown' = shown,
           (pc' \notin {"poll", "stopped"}) = (pc \notin {"poll", "stopped"})
    PROVE  UNCHANGED Abstract!vars
BY DEF Abstract!vars, Retired

LEMMA AbstractInit == Init => Abstract!Init
BY DEF Init, StoreInit, Abstract!Init, Pending, Retired

\* An item that is added was never in the abstract queue before.
LEMMA AddedIsUnused ==
    ASSUME StoreTypeOK, NEW t \in Targets \cup {NoTarget}, Add(t), shown \subseteq 1..nextID
    PROVE  /\ nextID + 1 \in Abstract!Unused
           /\ Retired' = Retired
           /\ nextID + 1 \notin shown
<1>1. Pending' = Pending \cup {nextID + 1} /\ nextID' = nextID + 1
  BY AddEffect
<1>2. nextID + 1 \in 1..MaxAdds /\ nextID \in Nat /\ Pending \subseteq 1..nextID
  BY BoundsAssumption DEF Add, StoreTypeOK
<1>3. nextID + 1 \notin Pending /\ nextID + 1 \notin shown
  BY <1>2
<1>4. Retired' = Retired
  BY <1>1, <1>2 DEF Retired
<1>5. QED BY <1>2, <1>3, <1>4 DEF Abstract!Unused, Retired

\* Completing an item moves it from the pending to the retired items.
LEMMA CompletedIsRetired ==
    ASSUME StoreTypeOK, NEW i \in Pending, Complete(i)
    PROVE  Retired' = Retired \cup {i} /\ Pending' = Pending \ {i}
BY CompleteEffect DEF StoreTypeOK, Retired

LEMMA AbstractStep == Inv /\ [Next]_vars => [Abstract!Next]_Abstract!vars
<1> SUFFICES ASSUME Inv, [Next]_vars PROVE Abstract!Next \/ UNCHANGED Abstract!vars
  OBVIOUS
<1> USE DEF Inv, Abstract!Next
<1>0. StoreTypeOK /\ shown \subseteq 1..nextID
  BY DEF TypeOK
<1>1. CASE Produce \/ EnqueueScheduledTask
  <2>1. PICK t \in Targets \cup {NoTarget} : Add(t)
    BY <1>1 DEF Produce, EnqueueScheduledTask
  <2>2. pc' = pc /\ shown' = shown
    BY <1>1 DEF Produce, EnqueueScheduledTask, agentVars
  <2>3. Pending' = Pending \cup {nextID + 1}
    BY <2>1, <1>0, AddEffect
  <2>4. Abstract!Submit
    BY <2>1, <2>2, <2>3, <1>0, AddedIsUnused DEF Abstract!Submit
  <2>5. QED BY <2>4
<1>2. CASE ToolAdd
  <2>1. Add(NoTarget) /\ ToolFrame
    BY <1>2 DEF ToolAdd
  <2>2. Pending' = Pending \cup {nextID + 1}
    BY <2>1, <1>0, AddEffect
  <2>3. pc = "run" /\ pc' = pc /\ shown' = shown \cup Pending'
    BY <2>1 DEF ToolFrame, Pending
  <2>4. Abstract!Note
    BY <2>1, <2>2, <2>3, <1>0, AddedIsUnused DEF Abstract!Note
  <2>5. QED BY <2>4
<1>3. ASSUME NEW i \in Pending, ToolComplete(i) PROVE Abstract!Finish
  <2>1. Retired' = Retired \cup {i} /\ Pending' = Pending \ {i}
    BY <1>3, <1>0, CompletedIsRetired DEF ToolComplete
  <2>2. pc = "run" /\ pc' = pc /\ shown' = shown \cup Pending'
    BY <1>3 DEF ToolComplete, ToolFrame, Pending
  <2>3. QED BY <2>1, <2>2 DEF Abstract!Finish
<1>4. CASE ToolList
  <2>1. Pending' = Pending /\ nextID' = nextID
    BY <1>4, <1>0, StoreUnchanged DEF ToolList
  <2>2. pc = "run" /\ pc' = pc /\ shown' = shown \cup Pending'
    BY <1>4 DEF ToolList, ToolFrame, Pending
  <2>3. Abstract!Inform
    BY <2>1, <2>2 DEF Abstract!Inform, Retired
  <2>4. QED BY <2>3
<1>5. CASE StartRound
  <2>1. Pending' = Pending /\ nextID' = nextID
    BY <1>5, <1>0, StoreUnchanged DEF StartRound
  <2>2. Abstract!Inform
    BY <1>5, <2>1 DEF StartRound, Abstract!Inform, Retired
  <2>3. QED BY <2>2
<1>6. CASE Poll
  <2>1. Pending' = Pending /\ nextID' = nextID
    BY <1>6, <1>0, StoreUnchanged DEF Poll
  <2>2. Pending \ shown # {}
    BY <1>6 DEF Poll, MovedMeansFresh
  <2>3. Abstract!Begin
    BY <1>6, <2>1, <2>2 DEF Poll, Abstract!Begin, Retired
  <2>4. QED BY <2>3
<1>7. CASE GiveUp
  <2>1. pc = "giveUp" /\ pc' = "drained" /\ shown' = shown
    BY <1>7 DEF GiveUp
  <2>2. ASSUME NEW i \in Pending, Complete(i) PROVE Abstract!Drop
    BY <2>1, <2>2, <1>0, CompletedIsRetired DEF Abstract!Drop
  <2>3. CASE UNCHANGED storeVars
    BY <2>1, <2>3, <1>0, StoreUnchanged, Stutter
  <2>4. QED BY <1>7, <2>2, <2>3 DEF GiveUp
<1>8. CASE RecordStall
  <2>1. Pending' = Pending /\ nextID' = nextID
    BY <1>8, <1>0, StoreUnchanged DEF RecordStall
  <2>2. Abstract!End
    BY <1>8, <2>1 DEF RecordStall, Abstract!End, Retired
  <2>3. QED BY <2>2
<1>9. CASE ClockTick
  <2>1. Pending' = Pending /\ nextID' = nextID
    BY <1>9, <1>0, TickEffect DEF ClockTick
  <2>2. QED BY <1>9, <2>1, Stutter DEF ClockTick, agentVars
<1>10. CASE CancelContext \/ Stop \/ SetCurrentSource \/ RoundSucceeds
            \/ RoundFails \/ Settle \/ UNCHANGED vars
  <2>1. Pending' = Pending /\ nextID' = nextID
    BY <1>10, <1>0, StoreUnchanged
       DEF CancelContext, Stop, SetCurrentSource, RoundSucceeds, RoundFails, Settle, vars
  <2>2. shown' = shown
    BY <1>10 DEF CancelContext, Stop, SetCurrentSource, RoundSucceeds, RoundFails,
                 Settle, vars, agentVars
  <2>3. (pc' \notin {"poll", "stopped"}) = (pc \notin {"poll", "stopped"})
    BY <1>10 DEF CancelContext, Stop, SetCurrentSource, RoundSucceeds, RoundFails,
                 Settle, vars, agentVars
  <2>4. QED BY <2>1, <2>2, <2>3, Stutter
<1>11. QED BY <1>1, <1>2, <1>3, <1>4, <1>5, <1>6, <1>7, <1>8, <1>9, <1>10
           DEF Next, Loop

\* The activation loop over the todo list implements the abstract work queue.
THEOREM LoopImplementsWorkQueue == Spec => ImplementsWorkQueue
<1>1. QED BY AbstractInit, AbstractStep, Invariance, PTL
          DEF Spec, ImplementsWorkQueue, Abstract!Spec

-----------------------------------------------------------------------------
(* The reply source of the first round.                                    *)

\* Outside a round of the model no item leaves the queue while an activation
\* begins, so the source recorded is still that of a pending item.
SourceKept ==
    /\ pc = "source" => Pending # {}
    /\ pc = "prompt" /\ rounds = 0 => \E i \in Pending : source = items[i].target
    /\ pc \in {"run", "settle"} => rounds # 0
    /\ SourceIsPrompted

\* Items keep their target as long as they are pending.
LEMMA TargetsKept ==
    ASSUME StoreTypeOK,
           \/ \E t \in Targets \cup {NoTarget} : Add(t)
           \/ \E i \in Pending : Complete(i)
           \/ Tick
           \/ UNCHANGED storeVars
    PROVE  \A i \in Pending' : i \in 1..nextID =>
              i \in Pending /\ items'[i].target = items[i].target
<1>1. CASE \E t \in Targets \cup {NoTarget} : Add(t)
  BY <1>1 DEF Add, Pending, StoreTypeOK
<1>2. CASE \E i \in Pending : Complete(i)
  BY <1>2 DEF Complete, Pending, Restrict
<1>3. CASE Tick \/ UNCHANGED storeVars
  BY <1>3 DEF Tick, storeVars, Pending
<1>4. QED BY <1>1, <1>2, <1>3

LEMMA SourceStep == Inv /\ SourceKept /\ [Next]_vars => SourceKept'
<1> SUFFICES ASSUME Inv, SourceKept, [Next]_vars PROVE SourceKept'
  OBVIOUS
<1>1. StoreTypeOK /\ Pending \subseteq 1..nextID /\ prompt \subseteq 1..nextID
      /\ nextID \in Nat /\ rounds \in Nat
  BY BoundsAssumption DEF Inv, TypeOK, StoreTypeOK
<1>2. CASE Produce \/ EnqueueScheduledTask \/ ClockTick
  <2>1. UNCHANGED agentVars
    BY <1>2 DEF Produce, EnqueueScheduledTask, ClockTick
  <2>2. \A i \in Pending : i \in Pending' /\ items'[i].target = items[i].target
    BY <1>1, <1>2 DEF Produce, EnqueueScheduledTask, ClockTick, Add, Tick, Pending
  <2>3. \A i \in Pending' : i \in 1..nextID => i \in Pending
    BY <1>1, <1>2, TargetsKept DEF Produce, EnqueueScheduledTask, ClockTick
  <2>4. SourceIsPrompted'
    <3>1. SUFFICES ASSUME pc = "run", rounds = 1, prompt \subseteq Pending'
                   PROVE  \E i \in prompt : source = items'[i].target
      BY <2>1 DEF SourceIsPrompted, agentVars
    <3>2. prompt \subseteq Pending
      BY <1>1, <2>3, <3>1
    <3>3. PICK i \in prompt : source = items[i].target
      BY <3>1, <3>2 DEF SourceKept, SourceIsPrompted
    <3>4. QED BY <2>2, <3>2, <3>3
  <2>5. QED BY <2>1, <2>2, <2>4 DEF SourceKept, agentVars
<1>3. CASE ToolList \/ ToolAdd \/ \E i \in Pending : ToolComplete(i)
  <2>1. pc = "run" /\ UNCHANGED <<pc, prompt, source, rounds>>
    BY <1>3 DEF ToolList, ToolAdd, ToolComplete, ToolFrame
  <2>2. \A i \in Pending' : i \in 1..nextID =>
            i \in Pending /\ items'[i].target = items[i].target
    BY <1>1, <1>3, TargetsKept DEF ToolList, ToolAdd, ToolComplete
  <2>3. SourceIsPrompted'
    <3>1. SUFFICES ASSUME rounds = 1, prompt \subseteq Pending'
                   PROVE  \E i \in prompt : source = items'[i].target
      BY <2>1 DEF SourceIsPrompted
    <3>2. prompt \subseteq Pending
      BY <1>1, <2>2, <3>1
    <3>3. PICK i \in prompt : source = items[i].target
      BY <2>1, <3>1, <3>2 DEF SourceKept, SourceIsPrompted
    <3>4. QED BY <1>1, <2>2, <3>1, <3>3
  <2>4. QED BY <2>1, <2>3 DEF SourceKept
<1>4. CASE SetCurrentSource
  <2>1. Pending # {} /\ UNCHANGED storeVars /\ pc' = "prompt"
    BY <1>4 DEF SetCurrentSource, SourceKept
  <2>2. PICK i \in Pending : source' = items[i].target
    BY <1>4, <2>1 DEF SetCurrentSource, IsEmpty, IsLast
  <2>3. i \in Pending' /\ items' = items
    BY <2>1 DEF storeVars, Pending
  <2>4. QED BY <2>1, <2>2, <2>3 DEF SourceKept, SourceIsPrompted
<1>5. CASE StartRound
  <2>1. /\ pc = "prompt" /\ pc' = "run" /\ prompt' = Pending /\ source' = source
        /\ rounds' = rounds + 1 /\ items' = items
    BY <1>5 DEF StartRound, storeVars
  <2>2. rounds' = 1 => \E i \in prompt' : source' = items'[i].target
    BY <1>1, <2>1 DEF SourceKept
  <2>3. rounds' # 0
    BY <1>1, <2>1
  <2>4. QED BY <2>1, <2>2, <2>3 DEF SourceKept, SourceIsPrompted
<1>6. CASE Poll
  BY <1>6 DEF Poll, SourceKept, SourceIsPrompted, IsEmpty, storeVars, Pending
<1>7. CASE RoundFails \/ Settle
  <2>1. pc' # "source" /\ pc' # "run" /\ pc' # "settle" /\ rounds' = rounds
    BY <1>7 DEF RoundFails, Settle
  <2>2. rounds # 0
    BY <1>7 DEF RoundFails, Settle, SourceKept
  <2>3. QED BY <2>1, <2>2 DEF SourceKept, SourceIsPrompted
<1>8. CASE RoundSucceeds \/ GiveUp \/ RecordStall \/ Stop
  <2>1. pc' \notin {"source", "prompt", "run"}
    BY <1>8 DEF RoundSucceeds, GiveUp, RecordStall, Stop
  <2>2. pc' = "settle" => rounds' # 0
    BY <1>8 DEF RoundSucceeds, GiveUp, RecordStall, Stop, SourceKept
  <2>3. QED BY <2>1, <2>2 DEF SourceKept, SourceIsPrompted
<1>9. CASE CancelContext \/ UNCHANGED vars
  BY <1>9 DEF CancelContext, vars, agentVars, storeVars, SourceKept, SourceIsPrompted, Pending
<1>10. QED BY <1>2, <1>3, <1>4, <1>5, <1>6, <1>7, <1>8, <1>9 DEF Next, Loop

\* The first round of an activation works with the source of an item it was
\* prompted with, whatever producers add meanwhile.
THEOREM SourceOfPrompt == Spec => []SourceIsPrompted
<1>1. Init => SourceKept
  BY DEF Init, SourceKept, SourceIsPrompted
<1>2. SourceKept => SourceIsPrompted
  BY DEF SourceKept
<1>3. QED BY <1>1, <1>2, SourceStep, Invariance, PTL DEF Spec

-----------------------------------------------------------------------------
\* The loop, its tools and the producers use the list through its methods, one at a
\* time, so what is proved of the list (IngressProofs) holds of the loop's list.
THEOREM UsesTheStore == Spec => StoreSpec
<1>1. Init => StoreInit
  BY DEF Init
<1>2. ASSUME [Next]_vars PROVE [StoreNext]_storeVars
  <2>1. CASE Produce \/ EnqueueScheduledTask \/ ClockTick
    BY <2>1 DEF Produce, EnqueueScheduledTask, ClockTick, StoreNext
  <2>2. CASE ToolList \/ ToolAdd
    BY <2>2 DEF ToolList, ToolAdd, StoreNext
  <2>3. CASE \E i \in Pending : ToolComplete(i)
    BY <2>3 DEF ToolComplete, StoreNext
  <2>4. CASE GiveUp
    BY <2>4 DEF GiveUp, StoreNext
  <2>5. CASE CancelContext \/ RoundSucceeds \/ RoundFails \/ Stop \/ Poll
             \/ SetCurrentSource \/ StartRound \/ Settle \/ RecordStall \/ UNCHANGED vars
    <3>1. UNCHANGED storeVars
      BY <2>5 DEF CancelContext, RoundSucceeds, RoundFails, Stop, Poll, SetCurrentSource,
                  StartRound, Settle, RecordStall, vars
    <3>2. QED BY <3>1
  <2>6. QED BY <1>2, <2>1, <2>2, <2>3, <2>4, <2>5 DEF Next, Loop
<1>3. QED BY <1>1, <1>2, PTL DEF Spec, StoreSpec
=============================================================================
