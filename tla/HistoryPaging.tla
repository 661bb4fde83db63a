---------------------------- MODULE HistoryPaging ----------------------------
(***************************************************************************)
(* The qq_message_getter tool of internal/tool/qq/getter.go: the newest    *)
(* messages of a chat by count, or all messages of a time range, paged     *)
(* backwards through the history calls of the NapCat client.               *)
(*                                                                         *)
(* The chat is external and lives on while it is read: messages arrive and *)
(* are recalled between two pages.  It numbers messages in the order of    *)
(* arrival, so their seconds never decrease, and gives each one an id.     *)
(* The code fixes neither the order inside a page nor whether the page     *)
(* before a message contains that message, so both are left open.          *)
(* Messages without text are dropped from the output and not modelled.     *)
(***************************************************************************)
EXTENDS Integers, Sequences, FiniteSets

CONSTANTS
    PageSize,       \* historyPageSize, 50 in the code
    MaxFetch,       \* maxHistoryFetch, 500 in the code
    DefaultCount,   \* defaultHistoryCount, 20 in the code
    MaxCount,       \* maxHistoryCount, 100 in the code
    MaxMessages,    \* bound: messages of the chat
    MaxPerSecond,   \* bound: messages of one second
    MaxRecalls,     \* bound: messages recalled
    MaxClock        \* bound: last second

ASSUME PagesAssumption ==
    PageSize \in Nat \ {0, 1} /\ MaxFetch \in Nat \ {0} /\ MaxFetch % PageSize = 0
ASSUME CountsAssumption == MaxCount \in Nat /\ DefaultCount \in 1..MaxCount
ASSUME BoundsAssumption ==
    /\ {MaxMessages, MaxPerSecond, MaxRecalls} \subseteq Nat
    /\ MaxClock \in Nat \ {0}

VARIABLES
    chat,       \* the second of each message, by message_seq
    recalled,   \* messages that are no longer there
    clock,      \* the current second
    ascending,  \* are pages ordered oldest first?
    inclusive,  \* is message_seq itself part of the page before it?
    pc,         \* where the tool call is
    start,      \* startTime
    end,        \* endTime
    nextSeq,    \* fetchInTimeRange: the page to fetch, 0 for the newest
    prevSeq,    \* fetchInTimeRange: the page fetched before
    all,        \* fetchInTimeRange: messages collected (the ids seen)
    total,      \* fetchInTimeRange: messages fetched, with repetitions
    capped,     \* did maxHistoryFetch end the paging?
    count,      \* a call by count: the normalized count
    result,     \* the messages returned
    present,    \* history: the messages of the chat when the call began
    pages       \* history: pages asked for by the call

chatVars == <<chat, recalled, clock, ascending, inclusive>>
callVars == <<pc, start, end, nextSeq, prevSeq, all, total, capped, count,
              result, present, pages>>
vars == <<chatVars, callVars>>

Seqs == 1..Len(chat)
Live == Seqs \ recalled
Time(s) == chat[s]

Init ==
    /\ chat = <<>> /\ recalled = {} /\ clock = 1
    /\ ascending \in BOOLEAN /\ inclusive \in BOOLEAN
    /\ pc = "idle" /\ start = 0 /\ end = 0 /\ nextSeq = 0 /\ prevSeq = 0
    /\ all = {} /\ total = 0 /\ capped = FALSE /\ count = 0
    /\ result = {} /\ present = {} /\ pages = 0

-----------------------------------------------------------------------------
(* The chat.                                                               *)

\* Bound: the chat is followed until the call returns.
Following == pc \notin {"done", "latestDone", "failed"}

Arrive ==
    /\ Following
    /\ Len(chat) < MaxMessages
    /\ Cardinality({s \in Seqs : Time(s) = clock}) < MaxPerSecond
    /\ chat' = Append(chat, clock)
    /\ UNCHANGED <<recalled, clock, ascending, inclusive, callVars>>

Recall ==
    /\ Following
    /\ Cardinality(recalled) < MaxRecalls
    /\ \E s \in Live : recalled' = recalled \cup {s}
    /\ UNCHANGED <<chat, clock, ascending, inclusive, callVars>>

ClockTick ==
    /\ Following
    /\ clock < MaxClock
    /\ clock' = clock + 1
    /\ UNCHANGED <<chat, recalled, ascending, inclusive, callVars>>

\* NapcatClient.GetMessageHistory: the newest n messages before a message, or
\* of all messages if that is 0.
Before(seq) ==
    IF seq = 0 THEN Live
    ELSE {s \in Live : s < seq \/ (inclusive /\ s = seq)}
Page(seq, n) ==
    {s \in Before(seq) : Cardinality({r \in Before(seq) : r > s}) < n}

-----------------------------------------------------------------------------
(* The tool.                                                               *)

\* sortHistoryNewestFirst is stable: its last message is one of the oldest
\* second, the one the page had last.
Oldest(page) ==
    CHOOSE s \in page : \A r \in page :
        \/ Time(s) < Time(r)
        \/ Time(s) = Time(r) /\ IF ascending THEN r <= s ELSE s <= r

Selected(msgs) == {s \in msgs : start <= Time(s) /\ Time(s) <= end}

\* Mutant of NormalizeCount: no upper bound.
NormalizeCountBelow(n) == IF n <= 0 THEN DefaultCount ELSE n

NormalizeCount(n) ==
    IF n <= 0 THEN DefaultCount ELSE IF n > MaxCount THEN MaxCount ELSE n

\* validateGetterInput refuses a range that ends before it starts; an end of 0
\* is now.
CallInRange(from, to) ==
    /\ pc = "idle"
    /\ from > 0 \/ to > 0
    /\ ~ (from > 0 /\ to > 0 /\ from > to)
    /\ start' = from /\ end' = IF to = 0 THEN clock ELSE to
    /\ pc' = "page"
    /\ present' = Live
    /\ UNCHANGED <<chatVars, nextSeq, prevSeq, all, total, capped, count,
                   result, pages>>

CallByCount(n) ==
    /\ pc = "idle"
    /\ count' = NormalizeCount(n)
    /\ pc' = "latest"
    /\ UNCHANGED <<chatVars, start, end, nextSeq, prevSeq, all, total, capped,
                   result, present, pages>>

FetchLatest ==
    /\ pc = "latest"
    /\ result' = Page(0, count)
    /\ present' = Live
    /\ pc' = "latestDone"
    /\ UNCHANGED <<chatVars, start, end, nextSeq, prevSeq, all, total, capped,
                   count, pages>>

\* Mutant of Covers: stops at the first message of the start second.
CoversAtStart(page) == Time(Oldest(page)) <= start

Covers(page) == Time(Oldest(page)) < start

\* Mutant of CapReached: off by one.
CapPassed(n) == n > MaxFetch

CapReached(n) == n >= MaxFetch

Cursor(page) == Oldest(page)

\* Mutant of NoProgress: the same page is asked for again.
NoProgressAtZero(seq) == seq <= 0

NoProgress(seq) == seq <= 0 \/ seq = prevSeq

\* One turn of the loop of fetchInTimeRange, and the filters after its end.
FetchPage ==
    /\ pc = "page"
    /\ pages' = pages + 1
    /\ LET page == Page(nextSeq, PageSize)
           seq  == IF page = {} THEN 0 ELSE Cursor(page)
           full == page # {} /\ ~ Covers(page) /\ CapReached(total + Cardinality(page))
           last == page = {} \/ Covers(page) \/ full \/ NoProgress(seq)
       IN  /\ all' = all \cup page
           /\ total' = total + Cardinality(page)
           /\ capped' = full
           /\ IF last
              THEN /\ pc' = "done"
                   /\ result' = Selected(all')
                   /\ UNCHANGED <<nextSeq, prevSeq>>
              ELSE /\ nextSeq' = seq /\ prevSeq' = seq
                   /\ UNCHANGED <<pc, result>>
    /\ UNCHANGED <<chatVars, start, end, count, present>>

\* No bot is connected or the call fails: an error instead of messages.
FetchFails ==
    /\ pc \in {"page", "latest"}
    /\ pc' = "failed"
    /\ UNCHANGED <<chatVars, start, end, nextSeq, prevSeq, all, total, capped,
                   count, result, present, pages>>

Next ==
    \/ Arrive \/ Recall \/ ClockTick
    \/ \E from, to \in 0..MaxClock : CallInRange(from, to)
    \/ \E n \in 0..(MaxCount + 1) : CallByCount(n)
    \/ FetchLatest \/ FetchPage \/ FetchFails

Spec == Init /\ [][Next]_vars

-----------------------------------------------------------------------------
(* Properties.                                                             *)

\* Every variable keeps its type, a count within its bounds.
TypeOK ==
    /\ chat \in Seq(1..MaxClock)
    /\ clock \in 1..MaxClock
    /\ {recalled, all, result, present} \subseteq SUBSET Seqs
    /\ pc \in {"idle", "page", "latest", "done", "latestDone", "failed"}
    /\ {start, end} \subseteq 0..MaxClock
    /\ {nextSeq, prevSeq} \subseteq 0..Len(chat)
    /\ total \in Nat
    /\ count \in 0..MaxCount
    /\ {ascending, inclusive, capped} \subseteq BOOLEAN

\* fetchInTimeRange, getter.go:97-99: every message of the range that was there
\* all the time is returned, and none outside the range, in whichever order
\* pages come and whatever arrives or is recalled meanwhile.  If the cap ends
\* the paging, that holds of the part not older than the oldest one collected.
\* It takes fewer messages per second than a page holds: a whole page of one
\* second, ordered oldest first and containing the message asked for, is asked
\* for twice, and the loop ends for want of progress (getter.go:139-142).
WindowComplete ==
    pc = "done" =>
        /\ \A s \in Selected(present \ recalled) :
               ~ capped \/ (\E r \in all : r <= s) => s \in result
        /\ result \subseteq Selected(Seqs)

\* "at most maxHistoryFetch messages" (getter.go:98) are collected.
FetchBounded == Cardinality(all) <= MaxFetch

\* A call asks for a bounded number of pages: as many full ones as the cap
\* allows, and then, when a page was short because the chat begins on it, at
\* most one more for each message of the chat's first second (getter.go:135-143).
PagesBounded == pages <= (MaxFetch \div PageSize) + MaxPerSecond
=============================================================================
