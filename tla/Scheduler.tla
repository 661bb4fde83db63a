------------------------------ MODULE Scheduler ------------------------------
(***************************************************************************)
(* Scheduled tasks: the task store and the dispatch goroutine of           *)
(* internal/scheduler/store.go, the schedule_task tool that creates and    *)
(* cancels tasks, and the goroutine of internal/agent/main/agent.go that   *)
(* forwards every fire to the todo list.                                   *)
(*                                                                         *)
(* Three goroutines share the store and the fires channel: the agent's     *)
(* tools, the dispatcher (Scheduler.Run), and the forwarder.  An action is *)
(* one critical section or one channel operation.  Time is counted in      *)
(* seconds, the unit of NextRunAt and of the ticker.                       *)
(***************************************************************************)
EXTENDS Integers, Sequences, Functions

CONSTANTS
    Schedules,  \* the schedules a task may be given
    None,       \* no value
    FiresCap,   \* capacity of the fires channel, 256 in the code
    MaxTasks,   \* bound: number of tasks ever created
    MaxClock    \* bound: last second of the clock

\* A schedule is its occurrences and whether it repeats (Schedule.Repeat).
\* Occurrences past MaxClock exist but never become due.
ASSUME SchedulesAssumption ==
    \A s \in Schedules : s.occ \subseteq Nat /\ s.repeat \in BOOLEAN

\* A one-time or relative schedule is one instant.
ASSUME OnceAssumption ==
    \A s \in Schedules : ~ s.repeat => \A o, p \in s.occ : o = p

ASSUME BoundsAssumption ==
    FiresCap \in Nat \ {0} /\ MaxTasks \in Nat /\ MaxClock \in Nat

ASSUME NoneAssumption == None \notin Nat /\ None \notin [id : Nat, at : Nat]

VARIABLES
    rule,       \* per task ever created: its schedule and creation second
    nextRun,    \* Store.tasks: the NextRunAt of each task in the store
    nextID,     \* Store.nextID
    adding,     \* an AddAt that has read the clock but not yet the lock
    clock,      \* the current second
    tick,       \* ticker.C: the second of an undelivered tick
    pc,         \* where the dispatcher is
    now,        \* dispatch: the second of the tick being handled
    batch,      \* dispatch: due tasks still to be looked at, with their time
    evt,        \* dispatch: the event about to be sent
    fires,      \* Scheduler.fires
    hand,       \* the event the forwarder has received
    forwarding, \* is the forwarder running?
    ctxDone,    \* is the context cancelled?
    cancelled,  \* history: the tasks that Cancel removed
    log,        \* history: what dispatch took from the store, in order
    delivered   \* history: what was enqueued as todo items, in order

storeVars == <<rule, nextRun, nextID>>
vars == <<storeVars, adding, clock, tick, pc, now, batch, evt, fires, hand,
          forwarding, ctxDone, cancelled, log, delivered>>

\* wait      select on the ticker and the context
\* loop      between two tasks of a batch
\* send      the store is updated, the event not yet sent
\* stopped   Run returned
PC == {"wait", "loop", "send", "stopped"}

Init ==
    /\ rule = <<>> /\ nextRun = [t \in {} |-> 0] /\ nextID = 0
    /\ adding = None
    /\ clock = 0 /\ tick = None
    /\ pc = "wait" /\ now = 0 /\ batch = {} /\ evt = None
    /\ fires = <<>> /\ hand = None /\ forwarding = TRUE
    /\ ctxDone = FALSE
    /\ cancelled = {} /\ log = <<>> /\ delivered = <<>>

\* Mutant of Next1: the first occurrence not earlier than t.
Next1NotBefore(s, t) ==
    {o \in s.occ : o >= t /\ \A p \in s.occ : p >= t => o <= p}

\* Schedule.Next(t): the first occurrence later than t, or nothing; as a set
\* of at most one element.
Next1(s, t) == {o \in s.occ : o > t /\ \A p \in s.occ : p > t => o <= p}

-----------------------------------------------------------------------------
(* The schedule_task tool.                                                 *)

\* AddAt computes the first firing time before it takes the lock, and refuses
\* a schedule that has none.
BeginAdd(s) ==
    /\ adding = None /\ nextID < MaxTasks
    /\ \E n \in Next1(s, clock) :
           adding' = [schedule |-> s, at |-> n, createdAt |-> clock]
    /\ UNCHANGED <<storeVars, clock, tick, pc, now, batch, evt, fires, hand,
                   forwarding, ctxDone, cancelled, log, delivered>>

FinishAdd ==
    /\ adding # None
    /\ nextID' = nextID + 1
    /\ rule' = Append(rule, [schedule  |-> adding.schedule,
                             createdAt |-> adding.createdAt])
    /\ nextRun' = [t \in DOMAIN nextRun \cup {nextID + 1} |->
                      IF t \in DOMAIN nextRun THEN nextRun[t] ELSE adding.at]
    /\ adding' = None
    /\ UNCHANGED <<clock, tick, pc, now, batch, evt, fires, hand, forwarding,
                   ctxDone, cancelled, log, delivered>>

\* Mutant of Cancel: leaves a task that is already due to the dispatcher.
CancelUnlessDue(t) ==
    /\ t \in DOMAIN nextRun
    /\ nextRun' = IF nextRun[t] <= clock THEN nextRun
                  ELSE Restrict(nextRun, DOMAIN nextRun \ {t})
    /\ cancelled' = cancelled \cup {t}
    /\ UNCHANGED <<rule, nextID, adding, clock, tick, pc, now, batch, evt,
                   fires, hand, forwarding, ctxDone, log, delivered>>

Cancel(t) ==
    /\ t \in DOMAIN nextRun
    /\ nextRun' = Restrict(nextRun, DOMAIN nextRun \ {t})
    /\ cancelled' = cancelled \cup {t}
    /\ UNCHANGED <<rule, nextID, adding, clock, tick, pc, now, batch, evt,
                   fires, hand, forwarding, ctxDone, log, delivered>>

-----------------------------------------------------------------------------
(* Time.  The ticker's channel holds one tick; a tick that finds it full   *)
(* is dropped.  At the bound the clock stands still and the ticker goes on. *)

ClockTick ==
    /\ clock' = IF clock < MaxClock THEN clock + 1 ELSE clock
    /\ tick' = IF tick = None THEN clock' ELSE tick
    /\ UNCHANGED <<storeVars, adding, pc, now, batch, evt, fires, hand,
                   forwarding, ctxDone, cancelled, log, delivered>>

CancelContext ==
    /\ ~ ctxDone
    /\ ctxDone' = TRUE
    /\ UNCHANGED <<storeVars, adding, clock, tick, pc, now, batch, evt, fires,
                   hand, forwarding, cancelled, log, delivered>>

-----------------------------------------------------------------------------
(* The dispatcher.                                                         *)

\* Receive a tick and take the due tasks (Store.due).
ReceiveTick ==
    /\ pc = "wait" /\ tick # None
    /\ now' = tick
    /\ tick' = None
    /\ batch' = {[id |-> t, at |-> nextRun[t]] :
                     t \in {u \in DOMAIN nextRun : nextRun[u] <= tick}}
    /\ pc' = "loop"
    /\ UNCHANGED <<storeVars, adding, clock, evt, fires, hand, forwarding,
                   ctxDone, cancelled, log, delivered>>

\* The snapshot is sorted by firing time only; ties come in any order.
Earliest(b) == b \in batch /\ \A c \in batch : b.at <= c.at

\* The recheck under the lock: the task exists and is still due.
StillDue(t) == t \in DOMAIN nextRun /\ nextRun[t] <= now

\* The task was cancelled or has advanced since the snapshot.
Skip ==
    /\ pc = "loop"
    /\ \E b \in batch :
          /\ Earliest(b)
          /\ ~ StillDue(b.id)
          /\ batch' = batch \ {b}
    /\ UNCHANGED <<storeVars, adding, clock, tick, pc, now, evt, fires, hand,
                   forwarding, ctxDone, cancelled, log, delivered>>

\* Mutant of Take: advances by one occurrence, not past the tick.
TakeOneOccurrence ==
    /\ pc = "loop"
    /\ \E b \in batch :
          /\ Earliest(b)
          /\ StillDue(b.id)
          /\ batch' = batch \ {b}
          /\ evt' = [id |-> b.id, at |-> nextRun[b.id]]
          /\ log' = Append(log, [id |-> b.id, at |-> nextRun[b.id], now |-> now])
          /\ LET s == rule[b.id].schedule
                 from == b.at
             IN
             IF s.repeat /\ Next1(s, from) # {}
             THEN \E n \in Next1(s, from) :
                     nextRun' = [nextRun EXCEPT ![b.id] = n]
             ELSE nextRun' = Restrict(nextRun, DOMAIN nextRun \ {b.id})
    /\ pc' = "send"
    /\ UNCHANGED <<rule, nextID, adding, clock, tick, now, fires, hand,
                   forwarding, ctxDone, cancelled, delivered>>

\* Mutant of Take: advances past the second after the tick.
TakeTooFar ==
    /\ pc = "loop"
    /\ \E b \in batch :
          /\ Earliest(b)
          /\ StillDue(b.id)
          /\ batch' = batch \ {b}
          /\ evt' = [id |-> b.id, at |-> nextRun[b.id]]
          /\ log' = Append(log, [id |-> b.id, at |-> nextRun[b.id], now |-> now])
          /\ LET s == rule[b.id].schedule
                 from == now + 1
             IN
             IF s.repeat /\ Next1(s, from) # {}
             THEN \E n \in Next1(s, from) :
                     nextRun' = [nextRun EXCEPT ![b.id] = n]
             ELSE nextRun' = Restrict(nextRun, DOMAIN nextRun \ {b.id})
    /\ pc' = "send"
    /\ UNCHANGED <<rule, nextID, adding, clock, tick, now, fires, hand,
                   forwarding, ctxDone, cancelled, delivered>>

\* Copy the task into an event and, still under the lock, delete the task or
\* advance it past the tick.
Take ==
    /\ pc = "loop"
    /\ \E b \in batch :
          /\ Earliest(b)
          /\ StillDue(b.id)
          /\ batch' = batch \ {b}
          /\ evt' = [id |-> b.id, at |-> nextRun[b.id]]
          /\ log' = Append(log, [id |-> b.id, at |-> nextRun[b.id], now |-> now])
          /\ LET s == rule[b.id].schedule IN
             IF s.repeat /\ Next1(s, now) # {}
             THEN \E n \in Next1(s, now) :
                     nextRun' = [nextRun EXCEPT ![b.id] = n]
             ELSE nextRun' = Restrict(nextRun, DOMAIN nextRun \ {b.id})
    /\ pc' = "send"
    /\ UNCHANGED <<rule, nextID, adding, clock, tick, now, fires, hand,
                   forwarding, ctxDone, cancelled, delivered>>

\* Mutant of Send: does not ask whether the channel has room.
SendUnbounded ==
    /\ pc = "send"
    /\ fires' = Append(fires, evt)
    /\ evt' = None
    /\ pc' = "loop"
    /\ UNCHANGED <<storeVars, adding, clock, tick, now, batch, hand,
                   forwarding, ctxDone, cancelled, log, delivered>>

\* Mutant of Send: a select with a default case drops what finds no room.
SendOrDrop ==
    /\ pc = "send"
    /\ fires' = IF Len(fires) < FiresCap THEN Append(fires, evt) ELSE fires
    /\ evt' = None
    /\ pc' = "loop"
    /\ UNCHANGED <<storeVars, adding, clock, tick, now, batch, hand,
                   forwarding, ctxDone, cancelled, log, delivered>>

Send ==
    /\ pc = "send"
    /\ Len(fires) < FiresCap
    /\ fires' = Append(fires, evt)
    /\ evt' = None
    /\ pc' = "loop"
    /\ UNCHANGED <<storeVars, adding, clock, tick, now, batch, hand,
                   forwarding, ctxDone, cancelled, log, delivered>>

\* Mutant of AbandonSend: a send on a full channel ignores the context.
AbandonSendWithRoom ==
    /\ pc = "send" /\ ctxDone /\ Len(fires) < FiresCap
    /\ evt' = None /\ batch' = {}
    /\ pc' = "stopped"
    /\ UNCHANGED <<storeVars, adding, clock, tick, now, fires, hand,
                   forwarding, ctxDone, cancelled, log, delivered>>

\* dispatch returns false, and so does Run.
AbandonSend ==
    /\ pc = "send" /\ ctxDone
    /\ evt' = None /\ batch' = {}
    /\ pc' = "stopped"
    /\ UNCHANGED <<storeVars, adding, clock, tick, now, fires, hand,
                   forwarding, ctxDone, cancelled, log, delivered>>

EndBatch ==
    /\ pc = "loop" /\ batch = {}
    /\ pc' = "wait"
    /\ UNCHANGED <<storeVars, adding, clock, tick, now, batch, evt, fires,
                   hand, forwarding, ctxDone, cancelled, log, delivered>>

StopDispatcher ==
    /\ pc = "wait" /\ ctxDone
    /\ pc' = "stopped"
    /\ UNCHANGED <<storeVars, adding, clock, tick, now, batch, evt, fires,
                   hand, forwarding, ctxDone, cancelled, log, delivered>>

-----------------------------------------------------------------------------
(* The forwarder.                                                          *)

ReceiveFire ==
    /\ forwarding /\ hand = None /\ fires # <<>>
    /\ hand' = Head(fires)
    /\ fires' = Tail(fires)
    /\ UNCHANGED <<storeVars, adding, clock, tick, pc, now, batch, evt,
                   forwarding, ctxDone, cancelled, log, delivered>>

EnqueueScheduledTask ==
    /\ hand # None
    /\ delivered' = Append(delivered, hand)
    /\ hand' = None
    /\ UNCHANGED <<storeVars, adding, clock, tick, pc, now, batch, evt, fires,
                   forwarding, ctxDone, cancelled, log>>

StopForwarder ==
    /\ forwarding /\ hand = None /\ ctxDone
    /\ forwarding' = FALSE
    /\ UNCHANGED <<storeVars, adding, clock, tick, pc, now, batch, evt, fires,
                   hand, ctxDone, cancelled, log, delivered>>

-----------------------------------------------------------------------------
Dispatcher == ReceiveTick \/ Skip \/ Take \/ Send \/ EndBatch
Forwarder  == ReceiveFire \/ EnqueueScheduledTask

Next ==
    \/ \E s \in Schedules : BeginAdd(s)
    \/ FinishAdd
    \/ \E t \in DOMAIN nextRun : Cancel(t)
    \/ ClockTick \/ CancelContext
    \/ Dispatcher \/ AbandonSend \/ StopDispatcher
    \/ Forwarder \/ StopForwarder

Spec == Init /\ [][Next]_vars

\* Goroutines run on and time passes.  A select with several ready cases
\* picks one at random, so a case that is ready again and again is taken.
Fairness ==
    /\ WF_vars(ClockTick)
    /\ WF_vars(Dispatcher) /\ WF_vars(Forwarder)
    /\ SF_vars(StopDispatcher) /\ SF_vars(AbandonSend) /\ SF_vars(StopForwarder)

FairSpec == Spec /\ Fairness

-----------------------------------------------------------------------------
(* Properties.                                                             *)

Fired == [id : 1..MaxTasks, at : Nat, now : 0..MaxClock]
Event == [id : 1..MaxTasks, at : Nat]

\* Every variable keeps its type.
TypeOK ==
    /\ nextID \in 0..MaxTasks
    /\ rule \in Seq([schedule : Schedules, createdAt : 0..MaxClock])
    /\ Len(rule) = nextID
    /\ DOMAIN nextRun \subseteq 1..nextID
    /\ nextRun \in [DOMAIN nextRun -> Nat]
    /\ adding \in [schedule : Schedules, at : Nat, createdAt : 0..MaxClock] \cup {None}
    /\ adding # None => nextID < MaxTasks
    /\ clock \in 0..MaxClock
    /\ tick \in 0..clock \cup {None}
    /\ pc \in PC
    /\ now \in 0..clock
    /\ batch \subseteq [id : 1..nextID, at : Nat]
    /\ evt \in Event \cup {None}
    /\ pc = "send" => evt # None
    /\ fires \in Seq(Event) /\ Len(fires) <= FiresCap
    /\ hand \in Event \cup {None}
    /\ forwarding \in BOOLEAN
    /\ ctxDone \in BOOLEAN
    /\ cancelled \subseteq 1..nextID
    /\ log \in Seq(Fired)
    /\ delivered \in Seq(Event)

\* One occurrence of a task never fires twice, and two fires of a task never
\* come from one tick, whatever the ticker, the tools and a slow consumer do:
\* each fire is for an occurrence later than the tick of the fire before.
NoDoubleFire ==
    \A a, b \in 1..Len(log) :
        a < b /\ log[a].id = log[b].id => log[a].now < log[b].at

\* A task fires only at its due second or later, and only for an occurrence of
\* its own schedule that lies after its creation.
NeverEarly ==
    \A k \in 1..Len(log) :
        /\ log[k].at <= log[k].now
        /\ log[k].at \in rule[log[k].id].schedule.occ
        /\ log[k].at > rule[log[k].id].createdAt

\* Once Cancel has returned success, the dispatcher takes the task no more,
\* even if it was in the batch already (the recheck at store.go:224-228).
CancelIsFinal ==
    [][log' # log => log'[Len(log')].id \notin cancelled]_vars

\* Why NoDoubleFire and NeverEarly hold: a task in the store has fired only for
\* ticks before its next firing time, and that time, like the one an unfinished
\* AddAt computed, is an occurrence of its schedule after its creation.
NextRunIsAhead ==
    /\ \A k \in 1..Len(log) : log[k].id <= nextID
    /\ \A k \in 1..Len(log) :
          log[k].id \in DOMAIN nextRun => log[k].now < nextRun[log[k].id]
    /\ \A t \in DOMAIN nextRun :
          /\ nextRun[t] \in rule[t].schedule.occ
          /\ nextRun[t] > rule[t].createdAt
    /\ adding # None =>
          adding.at \in adding.schedule.occ /\ adding.at > adding.createdAt
    /\ DOMAIN nextRun \cap cancelled = {}

\* No occurrence is overlooked: each occurrence before a task's next firing
\* time was covered by a fire, its own or a late one that stands for it.
OccurrencesCovered ==
    \A t \in (1..nextID) \ cancelled : \A o \in rule[t].schedule.occ :
        (o > rule[t].createdAt /\ (t \in DOMAIN nextRun => o < nextRun[t]))
            => \E k \in 1..Len(log) :
                  log[k].id = t /\ log[k].at <= o /\ o <= log[k].now

\* While the context lives, what was taken from the store reaches the todo
\* list or is on its way, once each and in order, however small the channel.
\* (A cancelled context may drop an event whose task has advanced already.)
EventOf(f) == [id |-> f.id, at |-> f.at]
Held(e) == IF e = None THEN <<>> ELSE <<e>>
NothingLostOnTheWay ==
    ~ ctxDone => [k \in 1..Len(log) |-> EventOf(log[k])]
                    = delivered \o Held(hand) \o fires \o Held(evt)

\* A task that is due becomes a todo item, unless it is cancelled before it is
\* taken or the agent shuts down.
DueIsDelivered ==
    \A t \in 1..MaxTasks : \A o \in 0..MaxClock :
        (t \in DOMAIN nextRun /\ nextRun[t] = o /\ o <= clock)
            ~> (\/ \E k \in 1..Len(delivered) : delivered[k] = [id |-> t, at |-> o]
                \/ t \in cancelled
                \/ ctxDone)

\* Cancelling the context stops both goroutines, also a dispatcher that is
\* blocked on a full channel.
ShutdownCompletes == ctxDone ~> (pc = "stopped" /\ ~ forwarding /\ hand = None)
=============================================================================
