----------------------------- MODULE Conversation -----------------------------
(***************************************************************************)
(* The conversation memory of the main agent: runOnce, sanitizeHistory,    *)
(* withUserMessage and trimHistory of internal/agent/main/agent.go.        *)
(*                                                                         *)
(* Each round sends the kept history plus one user message to the model    *)
(* and, when it succeeds, commits that message and everything the model    *)
(* and its tools answered.  The history is cut to its most recent          *)
(* messages, which may cut a tool call off from its results; providers     *)
(* that validate the message sequence would then refuse the request.       *)
(***************************************************************************)
EXTENDS Integers, Sequences, FiniteSets

CONSTANTS
    CallIDs,            \* ids of tool calls; a provider may use one again
    MaxHistoryMessages, \* maxHistoryMessages, 20 in the code
    MaxCalls,           \* bound: messages with tool calls in a conversation
    MaxRounds           \* bound: rounds tried

ASSUME HistoryAssumption ==
    /\ MaxHistoryMessages \in Nat \ {0}
    /\ MaxCalls \in Nat
    /\ MaxRounds \in Nat

VARIABLES
    history,    \* MainAgent.history
    sending,    \* runHistory of the running round; empty between rounds
    runMsgs,    \* what the running round's events have reported so far
    tried,      \* rounds started
    transcript  \* history variable: every committed message, never cut

memoryVars == <<history, sending, runMsgs, tried, transcript>>

(* A message carries the round it belongs to and its role's data: the ids  *)
(* of the tool calls it makes, or the id of the call it answers.           *)
UserMsg(r)          == [role |-> "user", round |-> r]
AssistantMsg(r, cs) == [role |-> "assistant", round |-> r, calls |-> cs]
ToolMsg(r, c)       == [role |-> "tool", round |-> r, answers |-> c]

Rounds == 1..MaxRounds
Message == [role : {"user"}, round : Rounds]
             \cup [role : {"assistant"}, round : Rounds, calls : SUBSET CallIDs]
             \cup [role : {"tool"}, round : Rounds, answers : CallIDs]

-----------------------------------------------------------------------------
(* The pure functions.                                                     *)

\* Mutant of SanitizeStep: after the first answer every call counts as answered.
SanitizeStepForgets(acc, m) ==
    IF m.role = "tool" /\ m.answers \notin acc.pending THEN acc
    ELSE [out     |-> Append(acc.out, m),
          pending |-> CASE m.role = "assistant" -> m.calls
                        [] m.role = "tool" -> {}
                        [] OTHER -> acc.pending]

\* sanitizeHistory's loop body: "pending" are the calls not answered yet, and
\* a tool message that answers none of them is dropped.
SanitizeStep(acc, m) ==
    IF m.role = "tool" /\ m.answers \notin acc.pending THEN acc
    ELSE [out     |-> Append(acc.out, m),
          pending |-> CASE m.role = "assistant" -> m.calls
                        [] m.role = "tool" -> acc.pending \ {m.answers}
                        [] OTHER -> acc.pending]

\* Its one pass: acc[k] is what the loop holds after k messages.
SanitizePass(ms) ==
    LET acc[k \in 0..Len(ms)] ==
            IF k = 0 THEN [out |-> <<>>, pending |-> {}]
            ELSE SanitizeStep(acc[k - 1], ms[k])
    IN  acc

SanitizeHistory(ms) == SanitizePass(ms)[Len(ms)].out

WithUserMessage(ms, m) == Append(ms, m)

LastN(ms, n) == SubSeq(ms, Len(ms) - n + 1, Len(ms))

\* Mutant of TrimHistory: keeps one message too many.
TrimHistoryOffByOne(ms, max) == IF Len(ms) <= max THEN ms ELSE LastN(ms, max + 1)

TrimHistory(ms, max) == IF Len(ms) <= max THEN ms ELSE LastN(ms, max)

-----------------------------------------------------------------------------
(* What strict providers accept.                                           *)

\* The calls still open after the first k messages: made by an assistant
\* message that only tool messages follow, and answered by none of them.
Unanswered(ms, k) ==
    {c \in CallIDs :
        \E h \in 1..k :
            /\ ms[h].role = "assistant" /\ c \in ms[h].calls
            /\ \A j \in (h + 1)..k : ms[j].role = "tool" /\ ms[j].answers # c}

\* A tool message answers a call that is open; any other message waits until
\* none is.
MayFollow(ms, k, m) ==
    IF m.role = "tool" THEN m.answers \in Unanswered(ms, k)
                       ELSE Unanswered(ms, k) = {}

ProviderAccepts(ms) == \A k \in 1..Len(ms) : MayFollow(ms, k - 1, ms[k])

-----------------------------------------------------------------------------
(* The rounds.                                                             *)

ConversationInit ==
    /\ history = <<>>
    /\ sending = <<>>
    /\ runMsgs = <<>>
    /\ tried = 0
    /\ transcript = <<>>

\* Mutant of StartRound: sends the stored history as it is.
StartRoundUnsanitized ==
    /\ sending = <<>> /\ tried < MaxRounds
    /\ tried' = tried + 1
    /\ sending' = WithUserMessage(history, UserMsg(tried + 1))
    /\ UNCHANGED <<history, runMsgs, transcript>>

StartRound ==
    /\ sending = <<>> /\ tried < MaxRounds
    /\ tried' = tried + 1
    /\ sending' = WithUserMessage(SanitizeHistory(history), UserMsg(tried + 1))
    /\ UNCHANGED <<history, runMsgs, transcript>>

\* The external runner reports a message of the model with tool calls, once
\* the calls before it are answered.
ModelCallsTools ==
    /\ sending # <<>>
    /\ Unanswered(runMsgs, Len(runMsgs)) = {}
    /\ Cardinality({k \in 1..Len(transcript \o runMsgs) :
                       LET m == (transcript \o runMsgs)[k]
                       IN  m.role = "assistant" /\ m.calls # {}}) < MaxCalls
    /\ \E cs \in (SUBSET CallIDs) \ {{}} :
          runMsgs' = Append(runMsgs, AssistantMsg(tried, cs))
    /\ UNCHANGED <<history, sending, tried, transcript>>

\* It reports the result of one of them; they come in any order.
ToolAnswers ==
    /\ sending # <<>>
    /\ \E c \in Unanswered(runMsgs, Len(runMsgs)) :
          runMsgs' = Append(runMsgs, ToolMsg(tried, c))
    /\ UNCHANGED <<history, sending, tried, transcript>>

\* An error event, at any point: nothing of the round is committed.
RoundFails ==
    /\ sending # <<>>
    /\ sending' = <<>>
    /\ runMsgs' = <<>>
    /\ UNCHANGED <<history, tried, transcript>>

\* The model answers without a tool call, the events end, and runOnce commits
\* the user message and the whole round.
RoundSucceeds ==
    /\ sending # <<>>
    /\ Unanswered(runMsgs, Len(runMsgs)) = {}
    /\ LET run == Append(runMsgs, AssistantMsg(tried, {}))
       IN  /\ history' = TrimHistory(
                 SanitizeHistory(WithUserMessage(history, UserMsg(tried)) \o run),
                 MaxHistoryMessages)
           /\ transcript' = WithUserMessage(transcript, UserMsg(tried)) \o run
    /\ sending' = <<>>
    /\ runMsgs' = <<>>
    /\ UNCHANGED tried

ConversationNext ==
    StartRound \/ ModelCallsTools \/ ToolAnswers \/ RoundFails \/ RoundSucceeds

ConversationSpec == ConversationInit /\ [][ConversationNext]_memoryVars

-----------------------------------------------------------------------------
(* Properties.                                                             *)

\* The history is bounded and what is sent is at most one message longer.
MemoryTypeOK ==
    /\ history \in Seq(Message) /\ Len(history) <= MaxHistoryMessages
    /\ sending \in Seq(Message) /\ Len(sending) <= MaxHistoryMessages + 1
    /\ runMsgs \in Seq(Message) /\ transcript \in Seq(Message)
    /\ tried \in 0..MaxRounds

\* Every request to the model is a sequence strict providers accept, wherever
\* trimHistory has cut (agent.go:280-284).
RequestsAccepted == ProviderAccepts(sending)

\* Committing cleans and cuts again and again, failed rounds come between, and
\* still the history is the end of what was said, whole and in order: of the
\* most recent MaxHistoryMessages messages only results of calls that were cut
\* off are missing, and failed rounds leave no trace (agent.go:322-329).
HistoryIsRecent ==
    LET said == Len(transcript)
        kept == Len(history)
    IN  /\ kept <= said /\ history = LastN(transcript, kept)
        /\ \A k \in 1..(said - kept) :
              k > said - MaxHistoryMessages => transcript[k].role = "tool"

=============================================================================
