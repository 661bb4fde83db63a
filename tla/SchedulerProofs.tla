--------------------------- MODULE SchedulerProofs ---------------------------
(***************************************************************************)
(* Theorems about Scheduler, for every set of schedules, every capacity of  *)
(* the fires channel and every bound.                                      *)
(***************************************************************************)
EXTENDS Scheduler, SequenceTheorems, WellFoundedInduction, TLAPS

Inv == TypeOK /\ NextRunIsAhead /\ NoDoubleFire /\ NeverEarly

\* Every variable the safety of firing depends on.
fireVars == <<storeVars, adding, log, cancelled>>

\* The steps that only move a tick, a batch or an event.
Plumbing == \/ ClockTick \/ CancelContext \/ ReceiveTick \/ Skip \/ Send
            \/ AbandonSend \/ EndBatch \/ StopDispatcher
            \/ ReceiveFire \/ EnqueueScheduledTask \/ StopForwarder

LEMMA InitInv == Init => Inv
<1> SUFFICES ASSUME Init PROVE Inv
  OBVIOUS
<1>1. nextID = 0 /\ Len(rule) = 0 /\ DOMAIN nextRun = {} /\ Len(log) = 0
  BY DEF Init
<1>2. /\ nextID \in 0..MaxTasks /\ clock \in 0..MaxClock
      /\ tick \in 0..clock \cup {None} /\ now \in 0..clock
  BY BoundsAssumption DEF Init
<1>3. nextRun \in [DOMAIN nextRun -> Nat]
  BY DEF Init
<1>4. Len(fires) <= FiresCap
  BY BoundsAssumption DEF Init
<1>5. TypeOK
  <2>1. /\ rule \in Seq([schedule : Schedules, createdAt : 0..MaxClock])
        /\ fires \in Seq(Event) /\ log \in Seq(Fired) /\ delivered \in Seq(Event)
    BY DEF Init
  <2>2. batch \subseteq [id : 1..nextID, at : Nat] /\ cancelled \subseteq 1..nextID
    BY DEF Init
  <2>3. QED BY <1>1, <1>2, <1>3, <1>4, <2>1, <2>2 DEF Init, TypeOK, PC
<1>6. QED BY <1>1, <1>5 DEF Init, Inv, NextRunIsAhead, NoDoubleFire, NeverEarly

LEMMA PlumbingKeepsFireVars == Plumbing => UNCHANGED fireVars
BY DEF Plumbing, ClockTick, CancelContext, ReceiveTick, Skip, Send, AbandonSend,
       EndBatch, StopDispatcher, ReceiveFire, EnqueueScheduledTask,
       StopForwarder, fireVars, storeVars

\* Such a step keeps the types.
LEMMA PlumbingType == TypeOK /\ Plumbing => TypeOK'
<1> SUFFICES ASSUME TypeOK, Plumbing PROVE TypeOK'
  OBVIOUS
<1> USE DEF TypeOK, PC
<1>1. CASE ClockTick
  <2>1. clock' \in 0..MaxClock /\ clock <= clock'
    BY <1>1, BoundsAssumption DEF ClockTick
  <2>2. tick' \in 0..clock' \cup {None} /\ now \in 0..clock'
    BY <1>1, <2>1, BoundsAssumption DEF ClockTick
  <2>3. QED BY <1>1, <2>1, <2>2 DEF ClockTick, storeVars
<1>2. CASE CancelContext
  BY <1>2 DEF CancelContext, storeVars
<1>3. CASE ReceiveTick
  <2>1. batch' \subseteq [id : 1..nextID, at : Nat]
    BY <1>3 DEF ReceiveTick
  <2>2. now' \in 0..clock
    BY <1>3, NoneAssumption DEF ReceiveTick
  <2>3. QED BY <1>3, <2>1, <2>2 DEF ReceiveTick, storeVars
<1>4. CASE Skip
  BY <1>4 DEF Skip, storeVars
<1>5. CASE Send
  <2>1. fires' \in Seq(Event) /\ Len(fires') <= FiresCap
    BY <1>5, BoundsAssumption DEF Send
  <2>2. QED BY <1>5, <2>1 DEF Send, storeVars
<1>6. CASE AbandonSend
  BY <1>6 DEF AbandonSend, storeVars
<1>7. CASE EndBatch \/ StopDispatcher \/ StopForwarder
  BY <1>7 DEF EndBatch, StopDispatcher, StopForwarder, storeVars
<1>8. CASE ReceiveFire
  BY <1>8, BoundsAssumption, SMTT(30) DEF ReceiveFire, storeVars
<1>9. CASE EnqueueScheduledTask
  BY <1>9 DEF EnqueueScheduledTask, storeVars
<1>10. QED BY <1>1, <1>2, <1>3, <1>4, <1>5, <1>6, <1>7, <1>8, <1>9 DEF Plumbing

\* Appending to the log: the old entries stay, the new one is the last.
LEMMA LogGrows ==
    ASSUME log \in Seq(Fired), NEW f \in Fired, log' = Append(log, f)
    PROVE  /\ log' \in Seq(Fired)
           /\ Len(log') = Len(log) + 1
           /\ log'[Len(log')] = f
           /\ \A k \in 1..Len(log) : log'[k] = log[k]
           /\ \A k \in 1..Len(log') : k \in 1..Len(log) \/ k = Len(log')
OBVIOUS

\* A created task has a schedule among the schedules.
LEMMA RuleType ==
    ASSUME TypeOK, NEW t \in 1..nextID
    PROVE  rule[t].schedule \in Schedules /\ rule[t].createdAt \in 0..MaxClock
<1> DEFINE Rule == [schedule : Schedules, createdAt : 0..MaxClock]
<1>1. rule \in Seq(Rule) /\ t \in 1..Len(rule)
  BY DEF TypeOK
<1> HIDE DEF Rule
<1>2. rule[t] \in Rule
  BY <1>1, ElementOfSeq
<1>3. QED BY <1>2 DEF Rule

\* A nonempty set of natural numbers has a least element.
LEMMA Least ==
    ASSUME NEW S \in SUBSET Nat, S # {}
    PROVE  \E x \in S : \A y \in S : x <= y
<1> DEFINE R == OpToRel(<, Nat)
<1>1. IsWellFoundedOn(R, Nat)
  BY NatLessThanWellFounded
<1>2. \A x, y \in Nat : <<y, x>> \in R <=> y < x
  BY DEF OpToRel
<1> HIDE DEF R
<1>3. PICK x \in S : \A y \in S : ~ (<<y, x>> \in R)
  BY <1>1, WFMin
<1>4. \A y \in S : x <= y
  <2> TAKE y \in S
  <2>1. x \in Nat /\ y \in Nat
    BY <1>3
  <2>2. ~ (y < x)
    BY <1>2, <1>3, <2>1
  <2>3. QED BY <2>1, <2>2
<1>5. QED BY <1>3, <1>4

\* A schedule without a next occurrence has none later.
LEMMA NoneLater ==
    ASSUME NEW s, s.occ \subseteq Nat, NEW t \in Nat, Next1(s, t) = {}
    PROVE  \A o \in s.occ : o <= t
<1> DEFINE Later == {o \in s.occ : o > t}
<1>1. Later # {} => \E x \in Later : \A y \in Later : x <= y
  <2>1. Later \in SUBSET Nat
    OBVIOUS
  <2> HIDE DEF Later
  <2>2. QED BY <2>1, Least
<1>2. Later = {}
  BY <1>1 DEF Next1
<1>3. QED BY <1>2

\* What Take does to the store: the task taken is gone or due after the tick,
\* at an occurrence of its schedule; the other tasks stay as they are.
LEMMA TakeEffect ==
    ASSUME TypeOK, Take
    PROVE  \E t \in DOMAIN nextRun :
              /\ nextRun[t] <= now
              /\ evt' = [id |-> t, at |-> nextRun[t]]
              /\ log' = Append(log, [id |-> t, at |-> nextRun[t], now |-> now])
              /\ DOMAIN nextRun' \subseteq DOMAIN nextRun
              /\ nextRun' \in [DOMAIN nextRun' -> Nat]
              /\ \A u \in DOMAIN nextRun' \ {t} : nextRun'[u] = nextRun[u]
              /\ t \in DOMAIN nextRun' =>
                    /\ nextRun'[t] > now
                    /\ nextRun'[t] \in rule[t].schedule.occ
              /\ DOMAIN nextRun \ {t} \subseteq DOMAIN nextRun'
              /\ t \in DOMAIN nextRun' =>
                    \A o \in rule[t].schedule.occ : o > now => nextRun'[t] <= o
              /\ t \notin DOMAIN nextRun' /\ rule[t].schedule.repeat =>
                    \A o \in rule[t].schedule.occ : o <= now
<1>1. PICK b \in batch :
          /\ StillDue(b.id)
          /\ evt' = [id |-> b.id, at |-> nextRun[b.id]]
          /\ log' = Append(log, [id |-> b.id, at |-> nextRun[b.id], now |-> now])
          /\ LET s == rule[b.id].schedule IN
             IF s.repeat /\ Next1(s, now) # {}
             THEN \E n \in Next1(s, now) :
                     nextRun' = [nextRun EXCEPT ![b.id] = n]
             ELSE nextRun' = Restrict(nextRun, DOMAIN nextRun \ {b.id})
  BY DEF Take
<1> DEFINE t == b.id
<1>2. t \in DOMAIN nextRun /\ nextRun[t] <= now
  BY <1>1 DEF StillDue
<1>3. rule[t].schedule \in Schedules
  <2>1. t \in 1..nextID
    BY <1>2 DEF TypeOK
  <2>2. QED BY <2>1, RuleType
<1>4. /\ DOMAIN nextRun' \subseteq DOMAIN nextRun
      /\ nextRun' \in [DOMAIN nextRun' -> Nat]
      /\ \A u \in DOMAIN nextRun' \ {t} : nextRun'[u] = nextRun[u]
      /\ t \in DOMAIN nextRun' =>
            nextRun'[t] > now /\ nextRun'[t] \in rule[t].schedule.occ
  <2>1. CASE \E n \in Next1(rule[t].schedule, now) : nextRun' = [nextRun EXCEPT ![t] = n]
    <3>1. PICK n \in Next1(rule[t].schedule, now) : nextRun' = [nextRun EXCEPT ![t] = n]
      BY <2>1
    <3>2. n \in Nat /\ n > now /\ n \in rule[t].schedule.occ
      BY <1>3, SchedulesAssumption DEF Next1
    <3>3. QED BY <1>2, <3>1, <3>2 DEF TypeOK
  <2>2. CASE nextRun' = Restrict(nextRun, DOMAIN nextRun \ {t})
    BY <2>2 DEF Restrict, TypeOK
  <2>3. QED BY <1>1, <2>1, <2>2
<1>5. DOMAIN nextRun \ {t} \subseteq DOMAIN nextRun'
  BY <1>1 DEF Restrict, TypeOK
<1>6. now \in Nat /\ rule[t].schedule.occ \subseteq Nat
  BY <1>3, BoundsAssumption, SchedulesAssumption DEF TypeOK
<1>7. t \in DOMAIN nextRun' =>
         \A o \in rule[t].schedule.occ : o > now => nextRun'[t] <= o
  <2>1. CASE \E n \in Next1(rule[t].schedule, now) : nextRun' = [nextRun EXCEPT ![t] = n]
    <3>1. PICK n \in Next1(rule[t].schedule, now) : nextRun' = [nextRun EXCEPT ![t] = n]
      BY <2>1
    <3>2. \A o \in rule[t].schedule.occ : o > now => n <= o
      BY <3>1 DEF Next1
    <3>3. nextRun'[t] = n
      BY <1>2, <3>1 DEF TypeOK
    <3>4. QED BY <3>2, <3>3
  <2>2. CASE nextRun' = Restrict(nextRun, DOMAIN nextRun \ {t})
    BY <2>2 DEF Restrict
  <2>3. QED BY <1>1, <2>1, <2>2
<1>8. t \notin DOMAIN nextRun' /\ rule[t].schedule.repeat =>
         \A o \in rule[t].schedule.occ : o <= now
  <2>1. SUFFICES ASSUME t \notin DOMAIN nextRun', rule[t].schedule.repeat
                 PROVE  \A o \in rule[t].schedule.occ : o <= now
    OBVIOUS
  <2>2. Next1(rule[t].schedule, now) = {}
    <3>1. ASSUME NEW n, nextRun' = [nextRun EXCEPT ![t] = n] PROVE FALSE
      BY <1>2, <2>1, <3>1
    <3>2. QED BY <1>1, <2>1, <3>1
  <2>3. QED BY <1>6, <2>2, NoneLater
<1>9. QED BY <1>1, <1>2, <1>4, <1>5, <1>7, <1>8

LEMMA TakeInv == Inv /\ Take => Inv'
<1> SUFFICES ASSUME Inv, Take PROVE Inv'
  OBVIOUS
<1> USE DEF Inv
<1>1. PICK t \in DOMAIN nextRun :
              /\ nextRun[t] <= now
              /\ evt' = [id |-> t, at |-> nextRun[t]]
              /\ log' = Append(log, [id |-> t, at |-> nextRun[t], now |-> now])
              /\ DOMAIN nextRun' \subseteq DOMAIN nextRun
              /\ nextRun' \in [DOMAIN nextRun' -> Nat]
              /\ \A u \in DOMAIN nextRun' \ {t} : nextRun'[u] = nextRun[u]
              /\ t \in DOMAIN nextRun' =>
                    /\ nextRun'[t] > now
                    /\ nextRun'[t] \in rule[t].schedule.occ
  BY TakeEffect
<1>2. UNCHANGED <<rule, nextID, adding, clock, tick, now, fires, hand,
                  forwarding, ctxDone, cancelled, delivered>>
  BY DEF Take
<1>3. t \in 1..MaxTasks /\ nextRun[t] \in Nat /\ now \in 0..MaxClock
  BY BoundsAssumption DEF TypeOK
<1> DEFINE f == [id |-> t, at |-> nextRun[t], now |-> now]
<1>4. f \in Fired /\ evt' \in Event /\ evt' # None
  <2>1. f \in Fired
    BY <1>3 DEF Fired
  <2>2. evt' \in Event
    BY <1>1, <1>3 DEF Event
  <2>3. evt' # None
    BY <1>1, <1>3, NoneAssumption
  <2>4. QED BY <2>1, <2>2, <2>3
<1>5. /\ log' \in Seq(Fired)
      /\ Len(log') = Len(log) + 1
      /\ log'[Len(log')] = f
      /\ \A k \in 1..Len(log) : log'[k] = log[k]
      /\ \A k \in 1..Len(log') : k \in 1..Len(log) \/ k = Len(log')
  BY <1>1, <1>4, LogGrows DEF TypeOK
<1>6. TypeOK'
  <2>1. batch' \subseteq [id : 1..nextID', at : Nat] /\ pc' = "send"
    BY <1>2 DEF Take, TypeOK
  <2>2. DOMAIN nextRun' \subseteq 1..nextID' /\ nextRun' \in [DOMAIN nextRun' -> Nat]
    BY <1>1, <1>2 DEF TypeOK
  <2>3. QED BY <1>2, <1>4, <1>5, <2>1, <2>2 DEF TypeOK, PC
<1>7. NextRunIsAhead'
  <2>1. \A k \in 1..Len(log') : log'[k].id <= nextID'
    BY <1>2, <1>3, <1>5, SMTT(30) DEF NextRunIsAhead, TypeOK
  <2>2. ASSUME NEW k \in 1..Len(log'), log'[k].id \in DOMAIN nextRun'
        PROVE  log'[k].now < nextRun'[log'[k].id]
    <3>1. CASE k = Len(log')
      BY <1>1, <1>5, <2>2, <3>1
    <3>2. CASE k \in 1..Len(log) /\ log[k].id = t
      <4>1. log'[k] = log[k] /\ log[k].now < nextRun[t] /\ nextRun'[t] > now
        BY <1>1, <1>5, <2>2, <3>2 DEF NextRunIsAhead
      <4>2. log[k] \in Fired /\ nextRun'[t] \in Nat
        <5>1. log[k] \in Fired
          BY <3>2, ElementOfSeq DEF TypeOK
        <5>2. t \in DOMAIN nextRun'
          BY <1>5, <2>2, <3>2
        <5>3. QED BY <1>1, <5>1, <5>2
      <4>3. log[k].now \in Nat
        BY <4>2, BoundsAssumption DEF Fired
      <4>4. QED BY <1>1, <1>3, <3>2, <4>1, <4>2, <4>3
    <3>3. CASE k \in 1..Len(log) /\ log[k].id # t
      BY <1>1, <1>5, <2>2, <3>3 DEF NextRunIsAhead
    <3>4. QED BY <1>5, <3>1, <3>2, <3>3
  <2>3. ASSUME NEW u \in DOMAIN nextRun'
        PROVE  nextRun'[u] \in rule'[u].schedule.occ /\ nextRun'[u] > rule'[u].createdAt
    <3>1. CASE u = t
      <4>1. nextRun[t] > rule[t].createdAt /\ rule' = rule
        BY <1>2 DEF NextRunIsAhead
      <4>2. rule[t].createdAt \in Nat
        <5>1. t \in 1..nextID
          BY DEF TypeOK
        <5>2. rule[t].createdAt \in 0..MaxClock
          BY <5>1, RuleType
        <5>3. QED BY <5>2, BoundsAssumption
      <4>3. nextRun'[t] \in Nat
        BY <1>1, <2>3, <3>1
      <4>4. QED BY <1>1, <1>3, <2>3, <3>1, <4>1, <4>2, <4>3
    <3>2. CASE u # t
      BY <1>1, <1>2, <2>3, <3>2 DEF NextRunIsAhead
    <3>3. QED BY <3>1, <3>2
  <2>4. /\ adding' # None =>
              adding'.at \in adding'.schedule.occ /\ adding'.at > adding'.createdAt
        /\ DOMAIN nextRun' \cap cancelled' = {}
    BY <1>1, <1>2 DEF NextRunIsAhead
  <2>5. QED BY <2>1, <2>2, <2>3, <2>4 DEF NextRunIsAhead
<1>8. NoDoubleFire'
  <2>1. SUFFICES ASSUME NEW a \in 1..Len(log'), NEW b \in 1..Len(log'),
                        a < b, log'[a].id = log'[b].id
                 PROVE  log'[a].now < log'[b].at
    BY DEF NoDoubleFire
  <2>2. Len(log) \in Nat
    BY DEF TypeOK
  <2>3. a \in 1..Len(log) /\ log'[a] = log[a]
    BY <1>5, <2>1, <2>2
  <2>4. CASE b \in 1..Len(log)
    BY <1>5, <2>1, <2>3, <2>4 DEF NoDoubleFire
  <2>5. CASE b = Len(log')
    BY <1>5, <2>1, <2>3, <2>5 DEF NextRunIsAhead
  <2>6. QED BY <1>5, <2>4, <2>5
<1>9. NeverEarly'
  <2>1. ASSUME NEW k \in 1..Len(log')
        PROVE  /\ log'[k].at <= log'[k].now
               /\ log'[k].at \in rule[log'[k].id].schedule.occ
               /\ log'[k].at > rule[log'[k].id].createdAt
    <3>1. CASE k \in 1..Len(log)
      BY <1>5, <3>1 DEF NeverEarly
    <3>2. CASE k = Len(log')
      BY <1>1, <1>5, <3>2 DEF NextRunIsAhead
    <3>3. QED BY <1>5, <3>1, <3>2
  <2>2. QED BY <1>2, <2>1 DEF NeverEarly
<1>10. QED BY <1>6, <1>7, <1>8, <1>9

LEMMA PlumbingInv == Inv /\ Plumbing => Inv'
<1> SUFFICES ASSUME Inv, Plumbing PROVE Inv'
  OBVIOUS
<1>1. UNCHANGED fireVars
  BY PlumbingKeepsFireVars
<1>2. TypeOK'
  BY PlumbingType DEF Inv
<1>3. QED BY <1>1, <1>2 DEF Inv, NextRunIsAhead, NoDoubleFire, NeverEarly, fireVars, storeVars

\* AddAt: the new task has never fired and was not cancelled; its first firing
\* time is the occurrence computed from the clock that was read.
LEMMA AddInv == Inv /\ (FinishAdd \/ \E s \in Schedules : BeginAdd(s)) => Inv'
<1> SUFFICES ASSUME Inv, FinishAdd \/ \E s \in Schedules : BeginAdd(s) PROVE Inv'
  OBVIOUS
<1> USE DEF Inv
<1>1. CASE \E s \in Schedules : BeginAdd(s)
  <2>0. PICK s \in Schedules : BeginAdd(s)
    BY <1>1
  <2>1. PICK n \in Next1(s, clock) :
            adding' = [schedule |-> s, at |-> n, createdAt |-> clock]
    BY <2>0 DEF BeginAdd
  <2>2. n \in Nat /\ n \in s.occ /\ n > clock
    BY SchedulesAssumption DEF Next1
  <2>3. UNCHANGED <<storeVars, clock, tick, pc, now, batch, evt, fires, hand,
                    forwarding, ctxDone, cancelled, log, delivered>> /\ nextID < MaxTasks
    BY <1>1 DEF BeginAdd
  <2>4. TypeOK'
    BY <2>1, <2>2, <2>3 DEF TypeOK, storeVars
  <2>5. QED BY <2>1, <2>2, <2>3, <2>4 DEF NextRunIsAhead, NoDoubleFire, NeverEarly, storeVars
<1>2. CASE FinishAdd
  <2>1. adding \in [schedule : Schedules, at : Nat, createdAt : 0..MaxClock]
    BY <1>2 DEF FinishAdd, TypeOK
  <2>2. nextID \in Nat /\ nextID < MaxTasks /\ Len(rule) = nextID
    BY <1>2, BoundsAssumption DEF FinishAdd, TypeOK
  <2> DEFINE Rule == [schedule : Schedules, createdAt : 0..MaxClock]
             r == [schedule |-> adding.schedule, createdAt |-> adding.createdAt]
  <2>3. rule \in Seq(Rule) /\ r \in Rule /\ rule' = Append(rule, r)
    BY <1>2, <2>1 DEF FinishAdd, TypeOK
  <2>4. rule' \in Seq(Rule) /\ Len(rule') = nextID + 1 /\ rule'[nextID + 1] = r
        /\ \A t \in 1..nextID : rule'[t] = rule[t]
    <3> HIDE DEF Rule, r
    <3>1. QED BY <2>2, <2>3
  <2>5. /\ DOMAIN nextRun' = DOMAIN nextRun \cup {nextID + 1}
        /\ nextRun'[nextID + 1] = adding.at
        /\ \A t \in DOMAIN nextRun : nextRun'[t] = nextRun[t]
        /\ nextRun' \in [DOMAIN nextRun' -> Nat]
    <3>1. nextID + 1 \notin DOMAIN nextRun
      BY <2>2 DEF TypeOK
    <3>2. QED BY <1>2, <2>1, <3>1 DEF FinishAdd, TypeOK
  <2>6. nextID' = nextID + 1 /\ adding' = None
        /\ UNCHANGED <<clock, tick, pc, now, batch, evt, fires, hand, forwarding,
                       ctxDone, cancelled, log, delivered>>
    BY <1>2 DEF FinishAdd
  <2>7. TypeOK'
    <3>1. batch' \subseteq [id : 1..nextID', at : Nat] /\ cancelled' \subseteq 1..nextID'
          /\ DOMAIN nextRun' \subseteq 1..nextID' /\ nextID' \in 0..MaxTasks
      BY <2>2, <2>5, <2>6, BoundsAssumption DEF TypeOK
    <3>2. rule' \in Seq(Rule) /\ Len(rule') = nextID'
      BY <2>4, <2>6
    <3>3. QED BY <2>5, <2>6, <3>1, <3>2 DEF TypeOK
  <2>8. \A k \in 1..Len(log) : log[k] \in Fired /\ log[k].id \in 1..nextID
    <3>1. \A k \in 1..Len(log) : log[k] \in Fired
      BY ElementOfSeq DEF TypeOK
    <3>2. \A f \in Fired : f.id \in 1..MaxTasks
      BY DEF Fired
    <3>3. QED BY <2>2, <3>1, <3>2, BoundsAssumption DEF NextRunIsAhead
  <2>9. NextRunIsAhead'
    <3>1. \A k \in 1..Len(log') :
             /\ log'[k].id <= nextID'
             /\ log'[k].id \in DOMAIN nextRun' => log'[k].now < nextRun'[log'[k].id]
      BY <2>2, <2>5, <2>6, <2>8 DEF NextRunIsAhead
    <3>2. \A t \in DOMAIN nextRun' :
             nextRun'[t] \in rule'[t].schedule.occ /\ nextRun'[t] > rule'[t].createdAt
      <4>1. adding.at \in adding.schedule.occ /\ adding.at > adding.createdAt
        BY <2>1, <1>2 DEF FinishAdd, NextRunIsAhead
      <4>2. rule'[nextID + 1].schedule = adding.schedule
            /\ rule'[nextID + 1].createdAt = adding.createdAt
        BY <2>4
      <4>3. \A t \in DOMAIN nextRun : t \in 1..nextID
        BY DEF TypeOK
      <4>4. QED BY <2>4, <2>5, <4>1, <4>2, <4>3 DEF NextRunIsAhead
    <3>3. DOMAIN nextRun' \cap cancelled' = {}
      BY <2>2, <2>5, <2>6 DEF NextRunIsAhead, TypeOK
    <3>4. QED BY <2>6, <3>1, <3>2, <3>3 DEF NextRunIsAhead
  <2>10. NeverEarly'
    BY <2>4, <2>6, <2>8 DEF NeverEarly
  <2>11. QED BY <2>6, <2>7, <2>9, <2>10 DEF NoDoubleFire
<1>3. QED BY <1>1, <1>2

LEMMA CancelInv == Inv /\ (\E t \in DOMAIN nextRun : Cancel(t)) => Inv'
<1> SUFFICES ASSUME Inv, NEW t \in DOMAIN nextRun, Cancel(t) PROVE Inv'
  OBVIOUS
<1> USE DEF Inv
<1>1. /\ DOMAIN nextRun' = DOMAIN nextRun \ {t}
      /\ nextRun' \in [DOMAIN nextRun' -> Nat]
      /\ \A u \in DOMAIN nextRun' : nextRun'[u] = nextRun[u]
  BY DEF Cancel, Restrict, TypeOK
<1>2. /\ cancelled' = cancelled \cup {t}
      /\ UNCHANGED <<rule, nextID, adding, clock, tick, pc, now, batch, evt,
                     fires, hand, forwarding, ctxDone, log, delivered>>
  BY DEF Cancel
<1>3. t \in 1..nextID
  BY DEF TypeOK
<1>4. TypeOK'
  BY <1>1, <1>2, <1>3 DEF TypeOK
<1>5. NextRunIsAhead'
  BY <1>1, <1>2 DEF NextRunIsAhead
<1>6. QED BY <1>2, <1>4, <1>5 DEF NoDoubleFire, NeverEarly

LEMMA NextInv == Inv /\ [Next]_vars => Inv'
<1> SUFFICES ASSUME Inv, [Next]_vars PROVE Inv'
  OBVIOUS
<1>1. CASE UNCHANGED vars
  BY <1>1 DEF vars, storeVars, Inv, TypeOK, NextRunIsAhead, NoDoubleFire, NeverEarly
<1>2. CASE Next
  BY <1>2, PlumbingInv, AddInv, CancelInv, TakeInv
     DEF Next, Dispatcher, Forwarder, Plumbing
<1>3. QED BY <1>1, <1>2

LEMMA Invariance == Spec => []Inv
<1>1. QED BY InitInv, NextInv, PTL DEF Spec

-----------------------------------------------------------------------------
\* Type correctness of the scheduler.
THEOREM TypeCorrect == Spec => []TypeOK
<1>1. Inv => TypeOK
  BY DEF Inv
<1>2. QED BY <1>1, Invariance, PTL

\* No occurrence of a task fires twice, and a task's fires come from different
\* ticks, for any schedules, any interleaving and any channel capacity.
THEOREM FiresAtMostOnce == Spec => []NoDoubleFire
<1>1. Inv => NoDoubleFire
  BY DEF Inv
<1>2. QED BY <1>1, Invariance, PTL

\* A task fires only when it is due, for an occurrence after its creation.
THEOREM FiresOnTime == Spec => []NeverEarly
<1>1. Inv => NeverEarly
  BY DEF Inv
<1>2. QED BY <1>1, Invariance, PTL

\* The dispatcher takes no task whose cancellation has succeeded.
THEOREM CancelledNeverFires == Spec => CancelIsFinal
<1>1. ASSUME Inv, [Next]_vars, log' # log
      PROVE  log'[Len(log')].id \notin cancelled
  <2>1. Take
    BY <1>1, PlumbingKeepsFireVars
       DEF Next, Dispatcher, Forwarder, Plumbing, fireVars, vars, BeginAdd, FinishAdd, Cancel
  <2>2. PICK t \in DOMAIN nextRun :
            log' = Append(log, [id |-> t, at |-> nextRun[t], now |-> now])
    BY <1>1, <2>1, TakeEffect DEF Inv
  <2>3. log'[Len(log')].id = t
    BY <1>1, <2>2 DEF Inv, TypeOK
  <2>4. QED BY <1>1, <2>3 DEF Inv, NextRunIsAhead
<1>2. Inv /\ [Next]_vars => [log' # log => log'[Len(log')].id \notin cancelled]_vars
  BY <1>1
<1>3. QED BY <1>2, Invariance, PTL DEF Spec, CancelIsFinal

-----------------------------------------------------------------------------
(* No occurrence is overlooked.                                            *)

\* What an AddAt computed before it had the lock was the first occurrence.
Coverage ==
    /\ OccurrencesCovered
    /\ adding # None => \A o \in adding.schedule.occ :
                           o > adding.createdAt => adding.at <= o

LEMMA TakeCovers == Inv /\ Coverage /\ Take => Coverage'
<1> SUFFICES ASSUME Inv, Coverage, Take PROVE Coverage'
  OBVIOUS
<1>1. PICK t \in DOMAIN nextRun :
              /\ nextRun[t] <= now
              /\ log' = Append(log, [id |-> t, at |-> nextRun[t], now |-> now])
              /\ DOMAIN nextRun' \subseteq DOMAIN nextRun
              /\ \A u \in DOMAIN nextRun' \ {t} : nextRun'[u] = nextRun[u]
              /\ t \in DOMAIN nextRun' =>
                    nextRun'[t] > now /\ nextRun'[t] \in rule[t].schedule.occ
              /\ DOMAIN nextRun \ {t} \subseteq DOMAIN nextRun'
              /\ t \in DOMAIN nextRun' =>
                    \A o \in rule[t].schedule.occ : o > now => nextRun'[t] <= o
              /\ t \notin DOMAIN nextRun' /\ rule[t].schedule.repeat =>
                    \A o \in rule[t].schedule.occ : o <= now
  BY TakeEffect DEF Inv
<1>2. UNCHANGED <<rule, nextID, adding, cancelled>>
  BY DEF Take
<1>3. t \in 1..nextID /\ t \in 1..MaxTasks /\ nextRun[t] \in Nat /\ now \in 0..MaxClock
  BY BoundsAssumption DEF Inv, TypeOK
<1> DEFINE f == [id |-> t, at |-> nextRun[t], now |-> now]
<1>4. /\ Len(log') = Len(log) + 1
      /\ log'[Len(log')] = f
      /\ \A k \in 1..Len(log) : log'[k] = log[k]
  <2>1. f \in Fired
    BY <1>3 DEF Fired
  <2>2. QED BY <1>1, <2>1, LogGrows DEF Inv, TypeOK
<1>5. Len(log) \in Nat
  BY DEF Inv, TypeOK
<1>6. rule[t].schedule \in Schedules /\ rule[t].createdAt \in 0..MaxClock
  BY <1>3, RuleType DEF Inv
<1>7. ASSUME NEW u \in (1..nextID) \ cancelled, NEW o \in rule[u].schedule.occ,
             o > rule[u].createdAt, u \in DOMAIN nextRun' => o < nextRun'[u]
      PROVE  \E k \in 1..Len(log') :
                log'[k].id = u /\ log'[k].at <= o /\ o <= log'[k].now
  <2>1. CASE u \in DOMAIN nextRun => o < nextRun[u]
    <3>1. PICK k \in 1..Len(log) :
              log[k].id = u /\ log[k].at <= o /\ o <= log[k].now
      BY <1>7, <2>1 DEF Coverage, OccurrencesCovered
    <3>2. k \in 1..Len(log') /\ log'[k] = log[k]
      BY <1>4, <1>5
    <3>3. QED BY <3>1, <3>2
  <2>2. CASE u = t /\ ~ (o < nextRun[t])
    <3>1. o \in Nat /\ now \in Nat
      BY <1>3, <1>6, <1>7, <2>2, SchedulesAssumption, BoundsAssumption
    <3>2. o <= now
      <4>1. CASE t \in DOMAIN nextRun'
        <5>1. o < nextRun'[t] /\ (o > now => nextRun'[t] <= o)
          BY <1>1, <1>7, <2>2, <4>1
        <5>2. nextRun'[t] \in Nat
          BY <1>1, <1>6, <4>1, SchedulesAssumption
        <5>3. QED BY <3>1, <5>1, <5>2
      <4>2. CASE t \notin DOMAIN nextRun' /\ rule[t].schedule.repeat
        BY <1>1, <1>7, <2>2, <4>2
      <4>3. CASE ~ rule[t].schedule.repeat
        <5>1. nextRun[t] \in rule[t].schedule.occ
          BY DEF Inv, NextRunIsAhead
        <5>2. o = nextRun[t]
          BY <1>6, <1>7, <2>2, <4>3, <5>1, OnceAssumption
        <5>3. QED BY <1>1, <5>2
      <4>4. QED BY <4>1, <4>2, <4>3
    <3>3. nextRun[t] <= o
      BY <1>3, <2>2, <3>1
    <3>4. Len(log') \in 1..Len(log') /\ log'[Len(log')] = f
      BY <1>4, <1>5
    <3>5. QED BY <2>2, <3>2, <3>3, <3>4
  <2>3. CASE u # t /\ u \in DOMAIN nextRun
    BY <1>1, <1>7, <2>1, <2>3
  <2>4. QED BY <2>1, <2>2, <2>3
<1>8. OccurrencesCovered'
  BY <1>2, <1>7 DEF OccurrencesCovered
<1>9. QED BY <1>2, <1>8 DEF Coverage

LEMMA AddCovers ==
    Inv /\ Coverage /\ (FinishAdd \/ \E s \in Schedules : BeginAdd(s)) => Coverage'
<1> SUFFICES ASSUME Inv, Coverage, FinishAdd \/ \E s \in Schedules : BeginAdd(s)
             PROVE  Coverage'
  OBVIOUS
<1>1. CASE \E s \in Schedules : BeginAdd(s)
  <2>1. PICK s \in Schedules : BeginAdd(s)
    BY <1>1
  <2>2. PICK n \in Next1(s, clock) :
            adding' = [schedule |-> s, at |-> n, createdAt |-> clock]
    BY <2>1 DEF BeginAdd
  <2>3. \A o \in s.occ : o > clock => n <= o
    BY <2>2 DEF Next1
  <2>4. UNCHANGED <<rule, nextRun, nextID, cancelled, log>>
    BY <2>1 DEF BeginAdd, storeVars
  <2>5. QED BY <2>2, <2>3, <2>4 DEF Coverage, OccurrencesCovered
<1>2. CASE FinishAdd
  <2>1. adding \in [schedule : Schedules, at : Nat, createdAt : 0..MaxClock]
        /\ adding # None
    BY <1>2 DEF FinishAdd, Inv, TypeOK
  <2>2. nextID \in Nat /\ Len(rule) = nextID
    BY BoundsAssumption DEF Inv, TypeOK
  <2> DEFINE Rule == [schedule : Schedules, createdAt : 0..MaxClock]
             r == [schedule |-> adding.schedule, createdAt |-> adding.createdAt]
  <2>3. rule \in Seq(Rule) /\ r \in Rule /\ rule' = Append(rule, r)
    BY <1>2, <2>1 DEF FinishAdd, Inv, TypeOK
  <2>4. rule'[nextID + 1] = r /\ \A t \in 1..nextID : rule'[t] = rule[t]
    <3> HIDE DEF Rule, r
    <3>1. QED BY <2>2, <2>3
  <2>5. /\ DOMAIN nextRun' = DOMAIN nextRun \cup {nextID + 1}
        /\ nextRun'[nextID + 1] = adding.at
        /\ \A t \in DOMAIN nextRun : nextRun'[t] = nextRun[t]
    <3>1. nextID + 1 \notin DOMAIN nextRun
      BY <2>2 DEF Inv, TypeOK
    <3>2. QED BY <1>2, <3>1 DEF FinishAdd
  <2>6. nextID' = nextID + 1 /\ adding' = None /\ UNCHANGED <<cancelled, log>>
    BY <1>2 DEF FinishAdd
  <2>7. ASSUME NEW t \in (1..nextID') \ cancelled', NEW o \in rule'[t].schedule.occ,
               o > rule'[t].createdAt, t \in DOMAIN nextRun' => o < nextRun'[t]
        PROVE  \E k \in 1..Len(log') :
                  log'[k].id = t /\ log'[k].at <= o /\ o <= log'[k].now
    <3>1. CASE t \in 1..nextID
      <4>1. rule'[t] = rule[t] /\ (t \in DOMAIN nextRun => o < nextRun[t])
        BY <2>4, <2>5, <2>7, <3>1
      <4>2. QED BY <2>6, <2>7, <3>1, <4>1 DEF Coverage, OccurrencesCovered
    <3>2. CASE t = nextID + 1
      <4>1. o \in adding.schedule.occ /\ o > adding.createdAt /\ o < adding.at
        BY <2>4, <2>5, <2>7, <3>2
      <4>2. adding.at <= o
        BY <2>1, <4>1 DEF Coverage
      <4>3. o \in Nat
        BY <2>1, <4>1, SchedulesAssumption
      <4>4. QED BY <2>1, <4>1, <4>2, <4>3
    <3>3. QED BY <2>2, <2>6, <2>7, <3>1, <3>2
  <2>8. OccurrencesCovered'
    BY <2>7 DEF OccurrencesCovered
  <2>9. QED BY <2>6, <2>8 DEF Coverage
<1>3. QED BY <1>1, <1>2

LEMMA CancelCovers ==
    Inv /\ Coverage /\ (\E t \in DOMAIN nextRun : Cancel(t)) => Coverage'
<1> SUFFICES ASSUME Inv, Coverage, NEW t \in DOMAIN nextRun, Cancel(t)
             PROVE  Coverage'
  OBVIOUS
<1>1. /\ DOMAIN nextRun' = DOMAIN nextRun \ {t}
      /\ \A u \in DOMAIN nextRun' : nextRun'[u] = nextRun[u]
  BY DEF Cancel, Restrict, Inv, TypeOK
<1>2. cancelled' = cancelled \cup {t} /\ UNCHANGED <<rule, nextID, adding, log>>
  BY DEF Cancel
<1>3. OccurrencesCovered'
  <2>1. ASSUME NEW u \in (1..nextID) \ cancelled', u \in DOMAIN nextRun
        PROVE  u \in DOMAIN nextRun' /\ nextRun'[u] = nextRun[u]
    BY <1>1, <1>2, <2>1
  <2>2. QED BY <1>2, <2>1 DEF Coverage, OccurrencesCovered
<1>4. QED BY <1>2, <1>3 DEF Coverage

LEMMA CoverageAlways == Spec => []Coverage
<1>1. Init => Coverage
  BY DEF Init, Coverage, OccurrencesCovered
<1>2. Inv /\ Coverage /\ [Next]_vars => Coverage'
  <2> SUFFICES ASSUME Inv, Coverage, [Next]_vars PROVE Coverage'
    OBVIOUS
  <2>1. CASE UNCHANGED fireVars
    BY <2>1 DEF Coverage, OccurrencesCovered, fireVars, storeVars
  <2>2. CASE UNCHANGED vars
    BY <2>2 DEF Coverage, OccurrencesCovered, vars, storeVars
  <2>3. CASE Next
    BY <2>1, <2>3, TakeCovers, AddCovers, CancelCovers, PlumbingKeepsFireVars
       DEF Next, Dispatcher, Forwarder, Plumbing
  <2>4. QED BY <2>2, <2>3
<1>3. QED BY <1>1, <1>2, Invariance, PTL DEF Spec

\* Every occurrence before a task's next firing time was covered by a fire, for
\* any schedules and however late the ticks come.
THEOREM NothingOverlooked == Spec => []OccurrencesCovered
<1>1. Coverage => OccurrencesCovered
  BY DEF Coverage
<1>2. QED BY <1>1, CoverageAlways, PTL

-----------------------------------------------------------------------------
(* What was taken from the store arrives, once each and in order.          *)

Logged == [k \in 1..Len(log) |-> EventOf(log[k])]

\* The dispatcher holds an event only while it is sending it.
InTransit == /\ NothingLostOnTheWay
             /\ pc # "send" => evt = None

\* Moving an event from one place to the next keeps the order.
LEMMA AppendMoved ==
    ASSUME NEW S, NEW d \in Seq(S), NEW h \in Seq(S), NEW q \in Seq(S), NEW e \in S
    PROVE  d \o h \o Append(q, e) \o <<>> = d \o h \o q \o <<e>>
<1>1. d \o h \in Seq(S) /\ d \o h \o Append(q, e) \in Seq(S) /\ <<e>> \in Seq(S)
  OBVIOUS
<1>2. Append(q, e) = q \o <<e>>
  BY AppendIsConcat
<1>3. (d \o h) \o q \o <<e>> = (d \o h) \o (q \o <<e>>)
  BY <1>1, ConcatAssociative
<1>4. QED BY <1>1, <1>2, <1>3, ConcatEmptySeq

LEMMA LoggedMoved ==
    ASSUME NEW S, NEW d \in Seq(S), NEW h \in Seq(S), NEW q \in Seq(S), NEW e \in S
    PROVE  Append(d \o h \o q \o <<>>, e) = d \o h \o q \o <<e>>
<1>1. d \o h \o q \in Seq(S)
  OBVIOUS
<1>2. QED BY <1>1, ConcatEmptySeq, AppendIsConcat

LEMMA HandMoved ==
    ASSUME NEW S, NEW d \in Seq(S), NEW q \in Seq(S), NEW e \in S
    PROVE  Append(d, e) \o <<>> \o q = d \o <<e>> \o q
<1>1. Append(d, e) \in Seq(S) /\ Append(d, e) = d \o <<e>>
  BY AppendIsConcat
<1>2. QED BY <1>1, ConcatEmptySeq

\* Receiving takes the first event of the channel.
LEMMA Received ==
    ASSUME NEW S, NEW d \in Seq(S), NEW q \in Seq(S), q # <<>>
    PROVE  d \o <<>> \o q = d \o <<Head(q)>> \o Tail(q)
<1>1. Head(q) \in S /\ Tail(q) \in Seq(S) /\ <<Head(q)>> \in Seq(S)
  OBVIOUS
<1>2. q = <<Head(q)>> \o Tail(q)
  BY <1>1
<1>3. d \o q = d \o <<Head(q)>> \o Tail(q)
  BY <1>1, <1>2, ConcatAssociative
<1>4. QED BY <1>3, ConcatEmptySeq

LEMMA HeldType == \A e \in Event \cup {None} : Held(e) \in Seq(Event)
BY DEF Held

LEMMA TransitStep == Inv /\ InTransit /\ [Next]_vars => InTransit'
<1> SUFFICES ASSUME Inv, InTransit, [Next]_vars PROVE InTransit'
  OBVIOUS
<1>1. /\ delivered \in Seq(Event) /\ fires \in Seq(Event) /\ log \in Seq(Fired)
      /\ evt \in Event \cup {None} /\ hand \in Event \cup {None}
      /\ pc = "send" => evt # None
  BY DEF Inv, TypeOK
<1>2. Held(hand) \in Seq(Event) /\ None \notin Event
  <2>1. \A e \in Event : e \in [id : Nat, at : Nat]
    BY BoundsAssumption DEF Event
  <2>2. QED BY <1>1, <2>1, HeldType, NoneAssumption
<1>3. CASE Take
  <2>1. PICK t \in DOMAIN nextRun :
            /\ nextRun[t] <= now
            /\ evt' = [id |-> t, at |-> nextRun[t]]
            /\ log' = Append(log, [id |-> t, at |-> nextRun[t], now |-> now])
    BY <1>3, TakeEffect DEF Inv
  <2>2. t \in 1..MaxTasks /\ nextRun[t] \in Nat /\ now \in 0..MaxClock
    BY BoundsAssumption DEF Inv, TypeOK
  <2> DEFINE f == [id |-> t, at |-> nextRun[t], now |-> now]
  <2>3. f \in Fired /\ evt' \in Event /\ evt' # None /\ EventOf(f) = evt'
    BY <1>2, <2>1, <2>2 DEF Fired, Event, EventOf
  <2>4. Logged' = Append(Logged, evt')
    <3>1. /\ Len(log') = Len(log) + 1 /\ log'[Len(log) + 1] = f
          /\ \A k \in 1..Len(log) : log'[k] = log[k]
          /\ Len(log) \in Nat
      BY <1>1, <2>1, <2>3, LogGrows
    <3>2. Len(Logged) = Len(log)
      BY <3>1 DEF Logged
    <3> HIDE DEF f
    <3>3. QED BY <2>3, <3>1, <3>2 DEF Logged
  <2>5. UNCHANGED <<fires, hand, delivered, ctxDone>> /\ pc' = "send" /\ pc = "loop"
    BY <1>3 DEF Take
  <2>6. NothingLostOnTheWay'
    <3>1. SUFFICES ASSUME ~ ctxDone
                   PROVE  Logged' = delivered \o Held(hand) \o fires \o <<evt'>>
      BY <2>3, <2>5 DEF NothingLostOnTheWay, Logged, Held
    <3>2. Logged = delivered \o Held(hand) \o fires \o <<>>
      BY <2>5, <3>1 DEF InTransit, NothingLostOnTheWay, Logged, Held
    <3> DEFINE h == Held(hand)
    <3>3. h \in Seq(Event)
      BY <1>2
    <3> HIDE DEF h
    <3>4. Append(delivered \o h \o fires \o <<>>, evt') = delivered \o h \o fires \o <<evt'>>
      BY <1>1, <2>3, <3>3, LoggedMoved
    <3>5. QED BY <2>4, <3>2, <3>4 DEF h
  <2>7. QED BY <2>5, <2>6 DEF InTransit
<1>4. CASE Send
  <2>1. fires' = Append(fires, evt) /\ evt' = None /\ evt \in Event
        /\ UNCHANGED <<log, hand, delivered, ctxDone>>
    BY <1>1, <1>4 DEF Send
  <2>2. NothingLostOnTheWay'
    <3>1. SUFFICES ASSUME ~ ctxDone
                   PROVE  Logged = delivered \o Held(hand) \o Append(fires, evt) \o <<>>
      BY <2>1 DEF NothingLostOnTheWay, Logged, Held
    <3>2. Logged = delivered \o Held(hand) \o fires \o <<evt>>
      BY <1>2, <2>1, <3>1 DEF InTransit, NothingLostOnTheWay, Logged, Held
    <3> DEFINE h == Held(hand)
    <3>3. h \in Seq(Event)
      BY <1>2
    <3> HIDE DEF h
    <3>4. delivered \o h \o Append(fires, evt) \o <<>> = delivered \o h \o fires \o <<evt>>
      <4>1. delivered \in Seq(Event) /\ fires \in Seq(Event) /\ evt \in Event
        BY <1>1, <2>1
      <4>2. QED BY <3>3, <4>1, AppendMoved
    <3>5. QED BY <3>2, <3>4 DEF h
  <2>3. QED BY <2>1, <2>2 DEF InTransit
<1>5. CASE ReceiveFire
  <2>1. /\ hand = None /\ fires # <<>> /\ hand' = Head(fires) /\ fires' = Tail(fires)
        /\ UNCHANGED <<log, evt, pc, delivered, ctxDone>>
    BY <1>5 DEF ReceiveFire
  <2>2. Held(hand) = <<>> /\ Held(hand') = <<Head(fires)>>
    BY <1>1, <1>2, <2>1 DEF Held
  <2>3. delivered \o <<>> \o fires = delivered \o <<Head(fires)>> \o Tail(fires)
    BY <1>1, <2>1, Received
  <2>4. NothingLostOnTheWay'
    BY <2>1, <2>2, <2>3 DEF InTransit, NothingLostOnTheWay
  <2>5. QED BY <2>1, <2>4 DEF InTransit
<1>6. CASE EnqueueScheduledTask
  <2>1. /\ hand \in Event /\ hand' = None /\ delivered' = Append(delivered, hand)
        /\ UNCHANGED <<log, evt, fires, pc, ctxDone>>
    BY <1>1, <1>6 DEF EnqueueScheduledTask
  <2>2. Held(hand) = <<hand>> /\ Held(hand') = <<>>
    BY <1>2, <2>1 DEF Held
  <2>3. Append(delivered, hand) \o <<>> \o fires = delivered \o <<hand>> \o fires
    BY <1>1, <2>1, HandMoved
  <2>4. NothingLostOnTheWay'
    BY <2>1, <2>2, <2>3 DEF InTransit, NothingLostOnTheWay
  <2>5. QED BY <2>1, <2>4 DEF InTransit
<1>7. CASE AbandonSend \/ StopForwarder \/ CancelContext \/ StopDispatcher
  <2>1. ctxDone' /\ (pc' # "send" => evt' = None)
    BY <1>7 DEF AbandonSend, StopForwarder, CancelContext, StopDispatcher, InTransit
  <2>2. QED BY <2>1 DEF InTransit, NothingLostOnTheWay
<1>8. ASSUME UNCHANGED <<log, delivered, hand, fires, evt, ctxDone>>,
             pc' = "send" <=> pc = "send"
      PROVE  InTransit'
  BY <1>8 DEF InTransit, NothingLostOnTheWay
<1>9. CASE ClockTick \/ ReceiveTick \/ Skip \/ EndBatch
  BY <1>8, <1>9 DEF ClockTick, ReceiveTick, Skip, EndBatch
<1>10. CASE FinishAdd \/ (\E s \in Schedules : BeginAdd(s))
            \/ (\E t \in DOMAIN nextRun : Cancel(t))
  BY <1>8, <1>10 DEF FinishAdd, BeginAdd, Cancel
<1>11. CASE UNCHANGED vars
  BY <1>8, <1>11 DEF vars
<1>12. QED BY <1>3, <1>4, <1>5, <1>6, <1>7, <1>9, <1>10, <1>11
           DEF Next, Dispatcher, Forwarder

\* While the context lives, every fire taken from the store is delivered or on
\* its way, once and in order, for any capacity of the channel.
THEOREM FiresAreDelivered == Spec => []NothingLostOnTheWay
<1>1. Init => InTransit
  <2>1. ASSUME Init PROVE Logged = <<>>
    BY <2>1 DEF Init, Logged
  <2>2. ASSUME Init
        PROVE  delivered \o Held(hand) \o fires \o Held(evt) = <<>>
    BY <2>2 DEF Init, Held
  <2>3. QED BY <2>1, <2>2 DEF Init, InTransit, NothingLostOnTheWay, Logged
<1>2. InTransit => NothingLostOnTheWay
  BY DEF InTransit
<1>3. QED BY <1>1, <1>2, TransitStep, Invariance, PTL DEF Spec
=============================================================================
