----------------------------- MODULE NapcatClient -----------------------------
(***************************************************************************)
(* The NapCat adapter of internal/adapter/napcat: the bounded queue of     *)
(* outgoing messages, the goroutine that sends them, the member directory  *)
(* that decides how a private message travels, the goroutine that keeps    *)
(* the directory fresh, and Start and Stop.                                *)
(*                                                                         *)
(* A private message goes directly to a friend; anyone else is tried       *)
(* through a temporary session of every shared group and directly at last. *)
(* The directory is read twice on the way and may be replaced in between.  *)
(* The OneBot connection is external: a call is reported as done or as     *)
(* failed, which it may be although it went through (a lost answer).       *)
(***************************************************************************)
EXTENDS Integers, Sequences, FiniteSets

CONSTANTS
    Users,          \* QQ numbers of people
    Groups,         \* QQ numbers of groups
    Nobody,         \* user 0, the addressee of the zero Message
    OutgoingCap,    \* capacity of Outgoing, 100 in the code
    MaxMessages     \* bound: messages accepted

ASSUME GroupsAssumption == Groups \subseteq Nat \ {0}
ASSUME NobodyAssumption == Nobody \notin Users \cup Groups /\ Users \cap Groups = {}
ASSUME BoundsAssumption == OutgoingCap \in Nat \ {0} /\ MaxMessages \in Nat

VARIABLES
    running,    \* NapcatClient.running
    done,       \* is the done channel closed?
    closed,     \* is the Outgoing channel closed?
    outgoing,   \* Outgoing: messages accepted and not yet received
    accepted,   \* number of messages accepted so far
    panicked,   \* has a send hit the closed channel?
    pc,         \* where processOutgoing is
    cur,        \* the message processOutgoing holds, or held last
    ways,       \* sendPrivate: groups still to be tried
    tried,      \* history: the calls made for that message, in order
    plan,       \* history: the groups sendPrivate read for it
    loaded,     \* MemberDirectory.loaded
    directory,  \* MemberDirectory.friends and memberGroups
    sync,       \* where groupSyncLoop is
    sent,       \* history: the messages handled, in order
    zeroSent    \* history: was a message sent that nobody enqueued?

vars == <<running, done, closed, outgoing, accepted, panicked, pc, cur, ways,
          tried, plan, loaded, directory, sync, sent, zeroSent>>
client == <<running, done, closed>>
queue  == <<outgoing, accepted, panicked>>
sender == <<pc, cur, ways, tried, plan, sent, zeroSent>>
dir    == <<loaded, directory, sync>>

\* A message is known by its number in the order of acceptance.
Message == [n : 0..MaxMessages, to : Users \cup Groups \cup {Nobody}]
ZeroMessage == [n |-> 0, to |-> Nobody]

Direct == 0  \* no group_id in the call
Results == {"ok", "failed"}  \* as reported: a failed call may have gone through
Attempt == [via : Groups \cup {Direct}, result : Results]

Init ==
    /\ running = FALSE /\ done = FALSE /\ closed = FALSE
    /\ outgoing = <<>> /\ accepted = 0 /\ panicked = FALSE
    /\ pc = "off" /\ cur = ZeroMessage /\ ways = {} /\ tried = <<>> /\ plan = {}
    /\ loaded = FALSE
    /\ directory = [friends |-> {}, groups |-> [u \in Users |-> {}]]
    /\ sync = "off"
    /\ sent = <<>> /\ zeroSent = FALSE

-----------------------------------------------------------------------------
(* Life cycle.                                                             *)

\* App.Run starts the client once.
Start ==
    /\ ~ running /\ ~ done
    /\ running' = TRUE
    /\ pc' = "idle" /\ sync' = "waiting"
    /\ UNCHANGED <<done, closed, queue, cur, ways, tried, plan, loaded, directory,
                   sent, zeroSent>>

\* Stop closes both channels; the goroutines do not take its lock, so they may
\* run between the two.
StopCloseDone ==
    /\ running
    /\ running' = FALSE /\ done' = TRUE
    /\ UNCHANGED <<closed, queue, sender, dir>>

StopCloseOutgoing ==
    /\ done /\ ~ closed
    /\ closed' = TRUE
    /\ UNCHANGED <<running, done, queue, sender, dir>>

-----------------------------------------------------------------------------
(* SendMessage, called by the agent's tool.  A full queue is refused without *)
(* a trace; sending on a closed channel panics even in a select with a     *)
(* default case.                                                           *)

\* Mutant of Enqueue: the capacity is not asked for.
EnqueueUnbounded(to) ==
    /\ ~ closed /\ accepted < MaxMessages
    /\ accepted' = accepted + 1
    /\ outgoing' = Append(outgoing, [n |-> accepted + 1, to |-> to])
    /\ UNCHANGED <<panicked, client, sender, dir>>

\* Mutant of Enqueue: a message that finds the queue full is reported accepted.
EnqueueClaimsSuccess(to) ==
    /\ ~ closed /\ accepted < MaxMessages
    /\ accepted' = accepted + 1
    /\ outgoing' = IF Len(outgoing) < OutgoingCap
                   THEN Append(outgoing, [n |-> accepted + 1, to |-> to]) ELSE outgoing
    /\ UNCHANGED <<panicked, client, sender, dir>>

Enqueue(to) ==
    /\ ~ closed /\ Len(outgoing) < OutgoingCap /\ accepted < MaxMessages
    /\ accepted' = accepted + 1
    /\ outgoing' = Append(outgoing, [n |-> accepted + 1, to |-> to])
    /\ UNCHANGED <<panicked, client, sender, dir>>

EnqueueOnClosed ==
    /\ closed /\ ~ panicked
    /\ panicked' = TRUE
    /\ UNCHANGED <<outgoing, accepted, client, sender, dir>>

-----------------------------------------------------------------------------
(* processOutgoing.                                                        *)

\* GroupID # 0 decides where a message goes.
Route(m) == IF m.to \in Groups THEN "group" ELSE "private"

Receive ==
    /\ pc = "idle" /\ outgoing # <<>>
    /\ cur' = Head(outgoing)
    /\ outgoing' = Tail(outgoing)
    /\ pc' = Route(cur') /\ tried' = <<>> /\ plan' = {}
    /\ UNCHANGED <<accepted, panicked, ways, sent, zeroSent, client, dir>>

\* Once closed and empty, the channel always yields the zero Message.
ReceiveZero ==
    /\ pc = "idle" /\ outgoing = <<>> /\ closed
    /\ cur' = ZeroMessage
    /\ pc' = Route(cur') /\ tried' = <<>> /\ plan' = {}
    /\ UNCHANGED <<ways, sent, zeroSent, queue, client, dir>>

SenderStops ==
    /\ pc = "idle" /\ done
    /\ pc' = "stopped"
    /\ UNCHANGED <<cur, ways, tried, plan, sent, zeroSent, queue, client, dir>>

\* The message is done with: a OneBot call for it was the last.
Finish(attempts) ==
    /\ IF cur.n = 0 THEN zeroSent' = TRUE /\ UNCHANGED sent
       ELSE sent' = Append(sent, cur.n) /\ UNCHANGED zeroSent
    /\ tried' = attempts /\ ways' = {}
    /\ pc' = "idle"
    /\ UNCHANGED <<cur, plan>>

\* A group message is sent once and its result is not looked at.
SendGroup ==
    /\ pc = "group"
    /\ \E r \in Results : Finish(<<[via |-> cur.to, result |-> r]>>)
    /\ UNCHANGED <<queue, client, dir>>

\* Mutant of CheckFriend: waits for the first load of the directory.
CheckFriendOnceLoaded ==
    /\ pc = "private" /\ loaded
    /\ pc' = IF cur.to \in directory.friends THEN "direct" ELSE "groups"
    /\ UNCHANGED <<cur, ways, tried, plan, sent, zeroSent, queue, client, dir>>

\* Loaded, and then IsFriend, choose the direct way.
CheckFriend ==
    /\ pc = "private"
    /\ pc' = IF loaded /\ cur.to \in directory.friends THEN "direct" ELSE "groups"
    /\ UNCHANGED <<cur, ways, tried, plan, sent, zeroSent, queue, client, dir>>

\* MemberDirectory.Groups: none for a number the directory does not know.
GroupsOf(u) == IF u \in Users THEN directory.groups[u] ELSE {}

ReadGroups ==
    /\ pc = "groups"
    /\ ways' = GroupsOf(cur.to) /\ plan' = ways'
    /\ pc' = IF ways' = {} THEN "direct" ELSE "try"
    /\ UNCHANGED <<cur, tried, sent, zeroSent, queue, client, dir>>

\* Mutant of TryGroup: gives up on the groups after the first failure.
TryFirstGroup ==
    /\ pc = "try"
    /\ \E g \in ways, r \in Results :
          LET attempts == Append(tried, [via |-> g, result |-> r]) IN
          /\ \A h \in ways : g <= h
          /\ IF r = "ok" THEN Finish(attempts)
             ELSE /\ ways' = {}
                  /\ tried' = attempts
                  /\ pc' = "direct"
                  /\ UNCHANGED <<cur, plan, sent, zeroSent>>
    /\ UNCHANGED <<queue, client, dir>>

\* TrySendToMemberViaGroups: in ascending order, up to the first success.
TryGroup ==
    /\ pc = "try"
    /\ \E g \in ways, r \in Results :
          LET attempts == Append(tried, [via |-> g, result |-> r]) IN
          /\ \A h \in ways : g <= h
          /\ IF r = "ok" THEN Finish(attempts)
             ELSE /\ ways' = ways \ {g}
                  /\ tried' = attempts
                  /\ pc' = IF ways' = {} THEN "direct" ELSE "try"
                  /\ UNCHANGED <<cur, plan, sent, zeroSent>>
    /\ UNCHANGED <<queue, client, dir>>

\* The direct call: the only one for a friend, the last resort otherwise.
SendDirect ==
    /\ pc = "direct"
    /\ \E r \in Results : Finish(Append(tried, [via |-> Direct, result |-> r]))
    /\ UNCHANGED <<queue, client, dir>>

-----------------------------------------------------------------------------
(* groupSyncLoop.                                                          *)

BeginSync ==
    /\ sync = "waiting"
    /\ sync' = "fetching"
    /\ UNCHANGED <<loaded, directory, client, queue, sender>>

\* BuildMemberGroups: the lists by group turned into groups by member.
BuildMemberGroups(members) == [u \in Users |-> {g \in Groups : u \in members[g]}]

\* SyncDirectory reads friends, groups and each group's members into locals and
\* ends with Replace.  A group that is not listed or whose list cannot be read
\* contributes nobody, whoever was known before.
SyncSucceeds ==
    /\ sync = "fetching"
    /\ \E friends \in SUBSET Users, members \in [Groups -> SUBSET Users] :
          directory' = [friends |-> friends, groups |-> BuildMemberGroups(members)]
    /\ loaded' = TRUE
    /\ sync' = "waiting"
    /\ UNCHANGED <<client, queue, sender>>

SyncFails ==
    /\ sync = "fetching"
    /\ sync' = "waiting"
    /\ UNCHANGED <<loaded, directory, client, queue, sender>>

SyncStops ==
    /\ sync = "waiting" /\ done
    /\ sync' = "stopped"
    /\ UNCHANGED <<loaded, directory, client, queue, sender>>

-----------------------------------------------------------------------------
SenderStep == Receive \/ ReceiveZero \/ SendGroup \/ CheckFriend \/ ReadGroups
              \/ TryGroup \/ SendDirect
SyncStep == BeginSync \/ SyncSucceeds \/ SyncFails

Next ==
    \/ Start \/ StopCloseDone \/ StopCloseOutgoing
    \/ \E to \in Users \cup Groups : Enqueue(to)
    \/ EnqueueOnClosed
    \/ SenderStep \/ SenderStops
    \/ SyncStep \/ SyncStops

Spec == Init /\ [][Next]_vars

-----------------------------------------------------------------------------
(* Properties.                                                             *)

PC == {"off", "idle", "group", "private", "groups", "try", "direct", "stopped"}

\* Every variable keeps its type, the queue its capacity.
TypeOK ==
    /\ {running, done, closed, panicked, loaded, zeroSent} \subseteq BOOLEAN
    /\ outgoing \in Seq(Message) /\ Len(outgoing) <= OutgoingCap
    /\ accepted \in 0..MaxMessages
    /\ pc \in PC
    /\ cur \in Message
    /\ ways \subseteq Groups /\ plan \subseteq Groups
    /\ tried \in Seq(Attempt)
    /\ sent \in Seq(1..MaxMessages)
    /\ directory.friends \subseteq Users
    /\ directory.groups \in [Users -> SUBSET Groups]
    /\ sync \in {"off", "waiting", "fetching", "stopped"}

\* What SendMessage accepted is handled once each and in order, or is still
\* waiting: nothing is lost, doubled or overtaken, and a message the closed
\* channel makes up takes no one's place (napcat_client.go:308-336, 429-448).
Busy == pc \notin {"off", "idle", "stopped"}
Held == IF Busy /\ cur.n # 0 THEN 1 ELSE 0
HandledInOrder ==
    /\ Len(sent) + Held + Len(outgoing) = accepted
    /\ \A k \in 1..Len(sent) : sent[k] = k
    /\ Held = 1 => cur.n = Len(sent) + 1
    /\ \A k \in 1..Len(outgoing) : outgoing[k].n = Len(sent) + Held + k

\* No way is tried twice and nothing is tried after a success, so that lost
\* answers cost at most one duplicate per way; and a private message is given up
\* only after every group read from the directory and the direct way
\* (sendPrivate, napcat_client.go:245-266).  All this although the directory may
\* be replaced, and forget members, while the message is being sent.
Vias == {tried[k].via : k \in 1..Len(tried)}
EveryWayTriedOnce ==
    /\ \A j, k \in 1..Len(tried) : tried[j].via = tried[k].via => j = k
    /\ \A j \in 1..Len(tried) : tried[j].result = "ok" => j = Len(tried) /\ ~ Busy
    /\ cur.to \in Users /\ ~ Busy =>
          \/ \E j \in 1..Len(tried) : tried[j].result = "ok"
          \/ Vias = plan \cup {Direct}

\* The queue's purpose at napcat_client.go:46: "Outgoing: messages to send
\* (Agent -> NapCat)".  So only what the agent enqueued is sent.
OnlyEnqueuedIsSent == ~ zeroSent

\* enqueue at napcat_client.go:327: "puts a message into the Outgoing queue;
\* returns false if the queue is full".  So it returns in any case.
EnqueueReturns == ~ panicked
=============================================================================
