------------------------------ MODULE MainAgent ------------------------------
(***************************************************************************)
(* The activation loop of internal/agent/main/agent.go over the todo list. *)
(*                                                                         *)
(* MainAgent.Run polls the queue, and when it is non-empty and has moved   *)
(* since the last unfinished drain it records a reply source and drains:   *)
(* rounds of the model, each started from a prompt that lists the queue,   *)
(* until the queue is empty or a cap is reached.  Producers add items at   *)
(* any moment; during a round the model's tools list, add and complete     *)
(* items.  Each action below is one access to the shared store by the      *)
(* agent's goroutine, because a producer may run between any two of them.  *)
(*                                                                         *)
(* The language model and its tool loop (eino's runner) are external: a    *)
(* round performs any tool calls and ends with or without an error.        *)
(***************************************************************************)
EXTENDS TodoStore

CONSTANTS
    MaxRewakeAttempts,  \* maxRewakeAttempts, 5 in the code
    MaxErrorRetries     \* maxErrorRetries, 5 in the code

ASSUME CapsAssumption ==
    MaxRewakeAttempts \in Nat /\ MaxErrorRetries \in Nat \ {0}

VARIABLES
    pc,             \* where the agent's goroutine is
    canceled,       \* ctx.Err() # nil
    stalledVersion, \* Run: the version at which the last drain left items
    rewakes,        \* drainTodoList: rewakes of this activation
    errorRetries,   \* drainTodoList: consecutive failed rounds
    prompt,         \* the items the running round's prompt lists
    source,         \* MainAgent.source, the default reply target
    shown,          \* history: the items the model has been shown so far
    rounds          \* history: rounds started in this activation

agentVars == <<pc, canceled, stalledVersion, rewakes, errorRetries, prompt,
               source, shown, rounds>>
vars == <<storeVars, agentVars>>

\* poll      top of the loop in Run
\* source    the queue has work: about to record the reply source
\* prompt    about to list the queue into the next prompt
\* run       inside runner.Run: the model works and calls tools
\* settle    the round succeeded: about to look whether the queue is empty
\* giveUp    maxErrorRetries failures: about to remove the first item
\* drained   drainTodoList returned: about to record a stalled version
\* stopped   Run returned
PC == {"poll", "source", "prompt", "run", "settle", "giveUp", "drained", "stopped"}

Init ==
    /\ StoreInit
    /\ pc = "poll"
    /\ canceled = FALSE
    /\ stalledVersion = 0
    /\ rewakes = 0
    /\ errorRetries = 0
    /\ prompt = {}
    /\ source = NoTarget
    /\ shown = {}
    /\ rounds = 0

-----------------------------------------------------------------------------
(* The producers' side of the queue.                                       *)

\* NapCatClient.HandleIncomingMessage, messaging.Service.Submit: a message
\* that must be answered becomes an item with its reply target.
Produce ==
    /\ \E t \in Targets : Add(t)
    /\ UNCHANGED agentVars

\* forwardScheduledFires hands every fire to enqueueScheduledTask; a task
\* scheduled by an item without a source has none either.
EnqueueScheduledTask ==
    /\ \E t \in Targets \cup {NoTarget} : Add(t)
    /\ UNCHANGED agentVars

ClockTick == Tick /\ UNCHANGED agentVars

CancelContext ==
    /\ ~ canceled
    /\ canceled' = TRUE
    /\ UNCHANGED <<storeVars, pc, stalledVersion, rewakes, errorRetries,
                   prompt, source, shown, rounds>>

-----------------------------------------------------------------------------
(* The todo_list tool, called by the model while a round runs.  Every call *)
(* returns the whole list, so the model has then seen all of it.           *)

ToolFrame ==
    /\ pc = "run"
    /\ shown' = shown \cup DOMAIN items'
    /\ UNCHANGED <<pc, canceled, stalledVersion, rewakes, errorRetries,
                   prompt, source, rounds>>

ToolList        == UNCHANGED storeVars /\ ToolFrame
ToolAdd         == Add(NoTarget) /\ ToolFrame
ToolComplete(i) == Complete(i) /\ ToolFrame

-----------------------------------------------------------------------------
(* The agent's goroutine.                                                  *)

\* Mutant of Stop: only an empty queue lets the agent stop.
StopWhenEmpty ==
    /\ pc = "poll" /\ canceled /\ IsEmpty
    /\ pc' = "stopped"
    /\ UNCHANGED <<storeVars, canceled, stalledVersion, rewakes, errorRetries,
                   prompt, source, shown, rounds>>

Stop ==
    /\ pc = "poll" /\ canceled
    /\ pc' = "stopped"
    /\ UNCHANGED <<storeVars, canceled, stalledVersion, rewakes, errorRetries,
                   prompt, source, shown, rounds>>

\* Mutant of Poll: the stall mark is compared off by one.
PollOffByOne ==
    /\ pc = "poll" /\ ~ canceled
    /\ ~ IsEmpty /\ Version # stalledVersion + 1
    /\ pc' = "source"
    /\ UNCHANGED <<storeVars, canceled, stalledVersion, rewakes, errorRetries,
                   prompt, source, shown, rounds>>

Poll ==
    /\ pc = "poll" /\ ~ canceled
    /\ ~ IsEmpty /\ Version # stalledVersion
    /\ pc' = "source"
    /\ UNCHANGED <<storeVars, canceled, stalledVersion, rewakes, errorRetries,
                   prompt, source, shown, rounds>>

\* Mutant of SetCurrentSource: an item without a source leaves the old one.
SetCurrentSourceIfAny ==
    /\ pc = "source"
    /\ \E i \in Pending :
          /\ IsLast(i)
          /\ source' = IF items[i].target = NoTarget THEN source ELSE items[i].target
    /\ rewakes' = 0 /\ errorRetries' = 0 /\ rounds' = 0
    /\ pc' = "prompt"
    /\ UNCHANGED <<storeVars, canceled, stalledVersion, prompt, shown>>

SetCurrentSource ==
    /\ pc = "source"
    /\ \/ \E i \in Pending : IsLast(i) /\ source' = items[i].target
       \/ IsEmpty /\ UNCHANGED source
    /\ rewakes' = 0 /\ errorRetries' = 0 /\ rounds' = 0
    /\ pc' = "prompt"
    /\ UNCHANGED <<storeVars, canceled, stalledVersion, prompt, shown>>

StartRound ==
    /\ pc = "prompt"
    /\ prompt' = Pending
    /\ shown' = shown \cup Pending
    /\ rounds' = rounds + 1
    /\ pc' = "run"
    /\ UNCHANGED <<storeVars, canceled, stalledVersion, rewakes, errorRetries,
                   source>>

RoundSucceeds ==
    /\ pc = "run"
    /\ errorRetries' = 0
    /\ prompt' = {}
    /\ pc' = "settle"
    /\ UNCHANGED <<storeVars, canceled, stalledVersion, rewakes, source,
                   shown, rounds>>

\* Mutant of RoundFails: no cap on consecutive failures.
RoundFailsUncapped ==
    /\ pc = "run"
    /\ errorRetries' = errorRetries + 1
    /\ prompt' = {}
    /\ pc' = "prompt"
    /\ UNCHANGED <<storeVars, canceled, stalledVersion, rewakes, source,
                   shown, rounds>>

RoundFails ==
    /\ pc = "run"
    /\ errorRetries' = errorRetries + 1
    /\ prompt' = {}
    /\ pc' = IF errorRetries' >= MaxErrorRetries THEN "giveUp" ELSE "prompt"
    /\ UNCHANGED <<storeVars, canceled, stalledVersion, rewakes, source,
                   shown, rounds>>

\* Mutant of Settle: rewakes are compared with the cap but never counted.
SettleUncounted ==
    /\ pc = "settle"
    /\ pc' = IF IsEmpty \/ rewakes > MaxRewakeAttempts THEN "drained" ELSE "prompt"
    /\ UNCHANGED <<storeVars, canceled, stalledVersion, rewakes, errorRetries,
                   prompt, source, shown, rounds>>

Settle ==
    /\ pc = "settle"
    /\ IF IsEmpty THEN pc' = "drained" /\ UNCHANGED rewakes
       ELSE /\ rewakes' = rewakes + 1
            /\ pc' = IF rewakes' > MaxRewakeAttempts THEN "drained" ELSE "prompt"
    /\ UNCHANGED <<storeVars, canceled, stalledVersion, errorRetries, prompt,
                   source, shown, rounds>>

\* Mutant of GiveUp: takes the first item without looking whether there is one.
GiveUpUnchecked ==
    /\ pc = "giveUp"
    /\ \E i \in Pending : IsFirst(i) /\ Complete(i)
    /\ pc' = "drained"
    /\ UNCHANGED <<canceled, stalledVersion, rewakes, errorRetries, prompt,
                   source, shown, rounds>>

\* List and Complete are two calls, but an item added between them cannot
\* change which id is completed.
GiveUp ==
    /\ pc = "giveUp"
    /\ \/ \E i \in Pending : IsFirst(i) /\ Complete(i)
       \/ IsEmpty /\ UNCHANGED storeVars
    /\ pc' = "drained"
    /\ UNCHANGED <<canceled, stalledVersion, rewakes, errorRetries, prompt,
                   source, shown, rounds>>

\* Mutant of RecordStall: the version of an unfinished drain is not recorded.
RecordNothing ==
    /\ pc = "drained"
    /\ pc' = "poll"
    /\ UNCHANGED <<storeVars, canceled, stalledVersion, rewakes, errorRetries,
                   prompt, source, shown, rounds>>

RecordStall ==
    /\ pc = "drained"
    /\ stalledVersion' = IF IsEmpty THEN stalledVersion ELSE Version
    /\ pc' = "poll"
    /\ UNCHANGED <<storeVars, canceled, rewakes, errorRetries, prompt, source,
                   shown, rounds>>

Loop == \/ Stop \/ Poll \/ SetCurrentSource \/ StartRound
        \/ Settle \/ GiveUp \/ RecordStall

Next ==
    \/ Produce \/ EnqueueScheduledTask \/ ClockTick \/ CancelContext
    \/ ToolList \/ ToolAdd \/ \E i \in Pending : ToolComplete(i)
    \/ RoundSucceeds \/ RoundFails
    \/ Loop

Spec == Init /\ [][Next]_vars

\* The goroutine runs on, and every call of the model returns in the end (the
\* code sets no timeout of its own: the model's HTTP client must).
Fairness == WF_vars(Loop) /\ WF_vars(RoundSucceeds \/ RoundFails)

FairSpec == Spec /\ Fairness

-----------------------------------------------------------------------------
(* Properties.                                                             *)

\* Every variable keeps its type; the stall mark and the two history sets
\* speak only of items that were added.
TypeOK ==
    /\ StoreTypeOK
    /\ pc \in PC
    /\ canceled \in BOOLEAN
    /\ stalledVersion \in 0..nextID
    /\ rewakes \in 0..(MaxRewakeAttempts + 1)
    /\ errorRetries \in 0..MaxErrorRetries
    /\ prompt \subseteq 1..nextID
    /\ source \in Targets \cup {NoTarget}
    /\ shown \subseteq 1..nextID
    /\ rounds \in Nat

\* Whatever the model, its errors and the producers do, one activation costs
\* at most (maxRewakeAttempts+1) * maxErrorRetries model rounds: the two caps
\* of agent.go:29-36 work together although each failure streak is counted
\* afresh after a success.
RoundsBounded ==
    rounds <= (MaxRewakeAttempts + 1) * MaxErrorRetries

\* Why RoundsBounded holds: between two rounds the rewakes so far have each
\* paid for at most maxErrorRetries rounds, and the current streak for its own.
RoundsPaidFor ==
    /\ pc \in {"prompt", "run", "settle", "giveUp"} => rewakes <= MaxRewakeAttempts
    /\ pc \in {"prompt", "run"} => errorRetries < MaxErrorRetries
    /\ pc = "prompt" => rounds <= rewakes * MaxErrorRetries + errorRetries
    /\ pc = "run" => rounds <= rewakes * MaxErrorRetries + errorRetries + 1
    /\ pc = "settle" => errorRetries = 0
    /\ pc \in {"settle", "giveUp"} =>
           rounds <= rewakes * MaxErrorRetries + MaxErrorRetries

\* Why an activation starts only for something new: the idle loop sees the
\* version move only because of an item that no prompt has listed yet.
MovedMeansFresh ==
    (pc = "poll" /\ ~ IsEmpty /\ Version # stalledVersion) =>
        nextID \in Pending \ shown

\* The loop and its store implement the abstract queue: nothing is served
\* twice or comes back, only an activation removes items, and an activation
\* starts only when some item has never been shown to the model (Run's
\* stalledVersion, agent.go:112-121).
Abstract == INSTANCE WorkQueue WITH
    Items   <- 1..MaxAdds,
    fresh   <- Pending \ shown,
    known   <- Pending \cap shown,
    retired <- Retired,
    serving <- pc \notin {"poll", "stopped"}

ImplementsWorkQueue == Abstract!Spec

\* Once the idle loop finds the queue moved, every pending item, the ones left
\* over from an earlier activation included, gets into a prompt (Run and
\* drainTodoList, agent.go:121-123, 167).
PendingIsPrompted ==
    \A i \in 1..MaxAdds :
        (pc = "poll" /\ i \in Pending /\ Version # stalledVersion)
            ~> (i \in prompt \/ canceled)

\* An activation always ends, whatever the model does: drainTodoList returns.
ActivationEnds == (pc = "source") ~> (pc = "poll")

\* Cancelling the context stops the agent, from wherever it is (agent.go:117).
CancelStopsAgent == canceled ~> (pc = "stopped")

\* API.md:133 says of the todo item: "The agent removes it from the queue once
\* handled", and agent.go:33-35 of the failure cap: "the first todo item is
\* removed, so a bad task cannot keep blocking the activation flow".  So what
\* giving up removes should at least have been shown to the model once.
GiveUpDropsOnlyShown ==
    [][pc = "giveUp" => (Pending \ Pending') \subseteq shown]_vars

\* "currentSource returns the source of the message currently being handled,
\* used by tools such as schedule_task as the default reply target"
\* (agent.go:194-195).  The source and the prompt come from two looks at the
\* queue, with producers in between; still the first round of an activation
\* works with the source of an item it was prompted with.  Later rounds of the
\* activation keep that source, whatever they are prompted with.
SourceIsPrompted ==
    (pc = "run" /\ rounds = 1 /\ prompt \subseteq Pending)
        => \E i \in prompt : source = items[i].target
=============================================================================
