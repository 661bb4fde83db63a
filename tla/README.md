# miss-raspberry-agent: models, checks and proofs

This directory holds TLA+ models of miss-raspberry-agent, a Go service that lets a
language model act on QQ messages: messages and scheduled tasks become items of a todo
list, an agent loop hands the list to the model, and the model's tools answer through a
NapCat (OneBot) connection.  Beside it the service tags texts over HTTP, and a second
program of the repository moderates one comment per run.

The models are translated from the code under `src/`; the comments of each definition
and the `map` of `PROJECT.json` name the lines.  Run `tlc -config X.cfg M` for a run
of `PROJECT.json`, and `tlapm M.tla` for a module of proofs.

## The system

| component | state | operations | works with |
|---|---|---|---|
| todo store `internal/tool/todo/store.go` | items, id counter, mutex | Add, List, Complete, IsEmpty, Version, Len | every producer and the agent |
| main agent loop `internal/agent/main/agent.go` | stall mark, rewakes, error retries, reply source | Run, drainTodoList, setCurrentSourceFromQueue, enqueueScheduledTask | todo store, scheduler, model and its tools |
| conversation memory (same file) | history of messages | runOnce, sanitizeHistory, trimHistory | model |
| scheduler `internal/scheduler/store.go` | tasks, id counter, `fires` channel (256) | AddAt, Cancel, List, due, dispatch, Run | schedule tool, agent's forwarder goroutine |
| calendar `schedule.go`, `builder.go`, `tool/schedule` | none | buildSchedule, Schedule.Next, Describe | scheduler |
| NapCat client `internal/adapter/napcat/napcat_client.go` | running flag, `done`, `Outgoing` (100) | Start, Stop, SendMessage, processOutgoing, sendPrivate, groupSyncLoop, GetMessageHistory | qq tools, directory, ZeroBot |
| member directory `directory.go` | friends, groups per member, loaded | Replace, Loaded, IsFriend, Groups, BuildMemberGroups | NapCat client |
| incoming routing `incoming.go`, messaging service `internal/messaging` | none | HandleIncomingMessage, Submit | todo store |
| qq tools `internal/tool/qq` | none | qq_message_getter, qq_message_sender | NapCat client |
| tagging `internal/tagging`, `internal/agent/tagger` | tag sets by name, RW mutex | RegisterSet, Tag | HTTP handler, model |
| readiness `internal/health` | none of its own | Check, over the client's two flags and the list | HTTP handler |
| HTTP adapter `internal/adapter/http` | the server's life cycle | TokenAuth, Send, Check, RegisterSet, Tag | messaging, readiness, tagging |
| application `internal/app/app.go` | life cycle of the parts | Run | all |
| moderator `cmd/moderator`, `internal/agent/moderator` | none, runs once | CountWords, Run, validateJudgment | model |

Messages enter through ZeroBot's handler goroutine or an HTTP request and are *added* to
the todo list.  The agent's goroutine *polls* the list's version.  The dispatcher goroutine
*sends* fires on a channel that the agent's forwarder goroutine receives and turns into todo
items.  The model's tools run inside a round, on the agent's goroutine, and *call* the todo
store, the scheduler's store and the NapCat client; a message to send goes through a bounded
queue to the sender goroutine.  A fourth goroutine replaces the member directory.  HTTP
requests share the tag store.  One context ends the agent and its goroutines; the client is
stopped by two closed channels.

What is hard in it, and what makes each part correct:

* *agent loop*: producers run between any two looks at the queue; a stalled queue must not
  burn model calls for ever, an arrival must not be taken for stalled; two caps, one of which
  is reset by success, must together end an activation; cancelling is noticed only between
  activations.
* *conversation*: the history is cut at an arbitrary message, and strict providers refuse a
  tool result without its call.
* *scheduler*: a batch of due tasks is a snapshot while tools cancel and add; ticks are late
  and dropped; the store is updated before a send that may block or be abandoned.
* *calendar*: horizons of the search, month ends, leap days, "strictly after".
* *NapCat client*: an accepted message is handled once, in order, by each way once, while the
  directory changes and groups that cannot be read drop their members; closing two channels
  under a goroutine that selects on both.
* *application*: a signal and a failing server in any order; the client must outlive the agent;
  one value of `serverErr` must not be awaited twice.
* *ingress*: a caller is told the id of its own item among other producers; a mention is
  removed from the message that is handed over; a readiness report is not a snapshot.
* *moderator*: a field of text may mix scripts; any field of the model's answer may be absent.
* *history paging*: the page cursor, the stable sort and the cap against a chat that moves.
* *tagging*: a set replaced while the model judges; names that differ only by white space.

## Modules

`X.tla` is a component, `MCX.tla` an instance for TLC where a constant needs a definition,
`XProofs.tla` the theorems.  Definitions named "Mutant of D" are D with a plausible bug; they
are used by no specification and show that a property can fail.

**TodoStore** - the todo list.  Every method holds the lock throughout and is one action or
operator.  An item is its number, its reply target and its second of creation; contents are
abstracted.  `Precedes` is the comparison of `List`: second first, then the id *as a string*,
digit by digit.

**MainAgent** (extends TodoStore) - `Run`, `drainTodoList` and the `todo_list` tool.  One
action per access to the shared store: `Poll`, `SetCurrentSource`, `StartRound` (the prompt's
`List`), `RoundSucceeds`/`RoundFails`, `Settle`, `GiveUp`, `RecordStall`, `Stop`, and between
any two of them `Produce`, `EnqueueScheduledTask`, `ClockTick`, `CancelContext` and, during a
round, the tool calls.  The model is external and may do anything.  Two reads that the code
makes in a row (`IsEmpty` and `Version`) are one action: only the agent's goroutine removes
items, so a queue seen non-empty stays so until the second read.  `shown` and `rounds` are
history variables.

**WorkQueue** - what list and loop promise together: items are fresh, known to the model or
retired; nothing comes back; only a serving agent retires; service begins only for something
fresh.  `MainAgent!ImplementsWorkQueue` is the refinement (`fresh` is pending and not shown).

**Conversation** - `runOnce`'s request and commit, `sanitizeHistory` as a function of how many
messages its loop has read (`SanitizePass`), `trimHistory`.  A message carries its role, its
round and the call ids it makes or answers.  `StartRound` sends, `RoundSucceeds` commits,
`RoundFails` commits nothing.  Between them the external runner reports one event at a time:
`ModelCallsTools` a message with tool calls, once the calls before it are answered, and
`ToolAnswers` the result of one of them, in any order; an error may end the round at any point.
Ids may be used again in a later message, as some providers do.

**Scheduler** - the task store, the dispatcher, the channel and the forwarder.  `AddAt` is two
actions, because it computes the first firing time before it takes the lock; `dispatch` is
`ReceiveTick` (the snapshot `due`), then per task `Skip` or `Take` (recheck and update under
the lock), then `Send` or `AbandonSend`.  A schedule is the set of its occurrences; seconds
are the unit of the ticker and of `NextRunAt`.  `log`, `cancelled` and `delivered` are history.

**Calendar** - the schedules the tool accepts and `Schedule.Next`, in minutes and civil dates
(the calendar itself is the standard library's, external), with the life of one task: asked,
added, dispatched in time or late.  A relative request multiplies days, hours and minutes into
a 64-bit `time.Duration`; `Wrap` is that arithmetic, in whole minutes: 2^64 ns are 307445734 of
them and a fraction, which is left out, for no property depends on it.

**NapcatClient** - the outgoing queue, `sendPrivate` with its two reads of the directory, the
groups in ascending order and the direct way at last, `groupSyncLoop` with `BuildMemberGroups`
over any member lists, `Start` and the two closes of `Stop`.  A OneBot call is reported as done
or as failed.

**App** (extends NapcatClient) - the process: the main goroutine of `Run` from the client's
start over the `select` on the server's and the agent's end to the deferred `Stop` and the
exit, composed with the server, the signal, the agent as one who sends while it runs, and the
client's goroutines, which go on until the process is gone.  `AcceptedIsHandled` is stated here:
the sender hands on every accepted message, by some way or in vain, until it has returned or the
process is gone.  What still waits in the queue when the client is stopped may be lost; the code
promises nothing of it, and no property does.

**Ingress** (extends TodoStore) - how work reaches the list: QQ messages with the segments
before and after ZeroBot's processing, and HTTP submissions with each refusal in the order of
the code (token, body, `Submit`).  `Submit` and `Accept` are two actions, for the item is in the
list before the caller is answered.  A readiness report is `BeginReport`, one `Probe` per
dependency, `EndReport`, with the dependencies changing in between.  `origin`, `asked` and the
report's `up` and `down` are history.

**Moderator** - `CountWords` character by character (white space, Han, letter or digit, other),
the judgment and its validation, the verdict.  An answer may leave out each of its fields.

**HistoryPaging** - the getter's call by count and by time range, one action per page, while
messages arrive and are recalled.  The order inside a page and whether a page contains the
message it was asked before are not fixed by the code and are chosen at the start.

**Tagging** - RegisterSet and Tag by concurrent clients: validation, `Replace`, the
acknowledgement, `Get`, the model's answer.  A raw tag may be blank or padded.

*MCModelCalls* puts Tagging, Moderator (as *MCModerator* gives it its comments) and Conversation
side by side: they use the model and share nothing, so each behaviour is one of one of them.

## Runs

| run | module | what it asks | bounds and why they are enough |
|---|---|---|---|
| todo_store | MCIngress | types; `List` is FIFO among ids of one length; answers name the caller's item; each message that addresses the bot, and no other, is queued at once; a report was true | starts after eight items, so that the three next are `item-9`, `item-10`, `item-11`; 2 callers, 9 requests with one fault each, all 28 messages of a user and a group; 2 seconds |
| agent | MCMainAgent | types, rounds bounded, the first round's reply source is of a prompted item, refinement of WorkQueue, and under fairness: found work is prompted, activations end, cancelling stops | 3 items, caps of 2: both caps are reached, streaks of failures are broken by success, items arrive in every gap |
| scheduler | MCScheduler | no double fire, never early, no occurrence overlooked, nothing lost on the way, cancel is final; delivery and shutdown under fairness | 2 tasks of 4 kinds (once, every second, rarely, ending), a channel of 1 place so that it is full, a clock that stands still at 2 while ticks go on |
| napcat | App | types, order and loss, ways tried, no send after the close unless the server failed; handling and the end of the process under fairness | 1 user, 2 groups, 2 messages, queue of 1: one is being sent while one waits; the directory takes all 8 contents at any time; signal and server failure at any time |
| history | HistoryPaging | range complete, cap and number of pages bounded | pages of 3, cap 6, 7 messages, 2 per second, one recall: full, short, repeated and empty pages, ties at page ends, the cap |
| calendar | MCCalendar | the next firing is the first; repeating tasks stay; a delay is as asked | every kind and the month ends, leap days and refused dates, asked for on 80 days of a leap winter, a minute around the time of day, 2 firings up to three days late; delays of 106750 days and 1439 minutes, 106752 and 213504 days lie on both sides of half the range and next to all of it |
| model_calls | MCModelCalls | tagging: stored sets valid, matches as shown, acknowledged registrations are seen; moderator: the count and the verdicts justified; conversation: types, every request is acceptable to a strict provider, history is the end of the transcript, and of the most recent messages only results of calls that were cut off are missing | tagging: 2 clients, 1 set, 2 names, 2 rules, 2 registrations of up to 2 tags; moderator: all comments of up to 5 characters, which hold two fields and both scripts in one, a minimum of 2 words, every answer; conversation: 3 rounds, some failing at any event, with 3 call messages in all of up to 3 calls each, history of 6: cuts fall at every place of a call block, twice |
| agent_lost_wakeup | MCMainAgent | *violated*: every item is served by a model that never fails | 3 items |
| agent_giveup_unseen | MCMainAgent | *violated*: giving up drops only what was shown | the code's caps of 5 |
| napcat_zero_message | App | *violated*: only what was enqueued is sent | 1 message |
| napcat_send_after_stop | App | *violated*: `enqueue` returns | 1 message |
| moderator_missing_field | MCModerator | *violated*: a verdict is never built from an answer that misses a required field | comments of up to 5 characters |

That nobody waits for ever is a matter of liveness here, not of TLC's deadlock check.  In the
scheduler's run the clock and the ticker always have a step, so leaving that check on says nothing
about the two goroutines and the full channel between them; `DueIsDelivered` and
`ShutdownCompletes` do.  In the other runs the program stops (the agent, the process, a finished
call, a verdict, a task that is gone) or a bound on rounds, ids or firings ends a behaviour, and
the check is off; that the process does not wait for ever is `ProcessEnds`.

### Fairness

Weak fairness of a goroutine's steps: a goroutine runs on.  Weak fairness of
`RoundSucceeds \/ RoundFails`: a call of the model returns; the code sets no timeout of its
own, so this is an assumption about the model's HTTP client.  Weak fairness of the clock.
Strong fairness of a `ctx.Done()` or `done` case of a `select`: Go picks among ready cases at
random, so a case that is ready again and again is taken.  In App: weak fairness of the main
goroutine, of the server's close after `Shutdown`, of the sender while the process lives, and of
the agent's return after the signal, which is `CancelStopsAgent` of the agent run.  Producers,
tool calls, directory syncs, signals and cancellation are never assumed to happen.  OneBot calls
end, as they carry a timeout.

### What the violations show

1. *Lost wake-up* (`agent.go:125`).  `Run` reads the version after `drainTodoList` has looked
   at the queue for the last time.  An item added in between is recorded as already tried, and
   sleeps until something else arrives.
2. *An unseen item is dropped* (`agent.go:171`).  The item removed after five failures is the
   first of a fresh `List`.  If the model had completed the prompted items and then failed,
   that is an item which arrived meanwhile and which no prompt listed.
3. *The zero message* (`napcat_client.go:435`).  The receive from the closed `Outgoing` does
   not ask whether the channel is open, so between `Stop` and the end of the process the sender may
   send an empty message to user 0.
4. *Panic after Stop* (`napcat_client.go:330`).  A send on a closed channel panics even in a
   `select` with a default case; `app.Run` stops the client when the HTTP server fails, and the
   agent may still be sending until the process has exited.
5. *A verdict without the fields it needs* (moderator's `agent.go:128`).  `validateJudgment` asks
   for the summary and, when an attack is claimed, for the evidence.  The two flags are plain
   booleans, so an answer that leaves `personal_attack` out is read as one that denies it, and the
   comment may be allowed, although `agent.go:126-127` promises that judgments missing required
   fields are rejected.  `VerdictIsJustified` says what does hold.

### Divergences without a run

Seen while modelling, and described at the properties that had to be stated around them:

* `store.go:52` of the todo store promises creation order; within one second `item-10` comes
  before `item-9` (`FifoWithinIdLength`).
* After five failures the drain ends; the items prompted together with the removed one are
  stalled until something arrives, though `agent.go:34-35` says the bad item "cannot keep
  blocking the activation flow".
* The reply source is set once per activation (`SourceIsPrompted` holds of the first round);
  a rewake that works on later items keeps the source of an item handled before.
* `scheduler/store.go:175-176` says that state advances after the event was sent; `dispatch`
  updates first, and a cancelled context drops the event (`NothingLostOnTheWay` is stated for
  a live context).
* With as many messages in one second as a page holds, pages ordered oldest first and
  containing the message asked for, range paging repeats a page and stops before the range is
  covered (`WindowComplete` is checked with fewer messages per second than a page).
* `schedule.go:96` covers four years; from 2096-02-29 the next February 29 is 2922 days away,
  and the yearly task is refused or deleted.  `RepeatsForEver` is checked around 2024; theorem
  `RepeatsUntilTheGap` proves it up to that day and `LeapDayGap` that it ends there.
* A relative delay beyond the range of a duration (292 years) wraps around: one is refused as not
  positive, or fires earlier than asked (`DelayAsAsked` is stated up to that range).
* `tool/schedule/tool.go:58`: a target id given without a type takes the type of the current
  source, which may be the other one.
* A request that is answered 202 after the agent has returned, while the server still shuts
  down, is never handled (`AnswersNameTheirItem` speaks of the list only).

## Theorems

All are proved for every value of the constants that satisfies the named assumptions of the
modules (`CapsAssumption`: at least one error retry; `BoundsAssumption`,
`HistoryAssumption`, `SchedulesAssumption`, `NoneAssumption`, `CommentsAssumption`, `MinAssumption`,
`EventsAssumption`, `RequestsAssumption`, `InstantsAssumption`, `PagesAssumption`,
`CountsAssumption`: the constants have their kinds; `OnceAssumption`: a schedule that does not
repeat has one occurrence; `DurationAssumption`: the range of a duration is an even number of
minutes; `BlankAssumption`: blank is not a name; `GroupsAssumption`, `NobodyAssumption`,
`NumbersAssumption`, `TargetsAssumption`, `CallersAssumption`: QQ numbers are positive, users,
groups and callers are told apart, and chats are reply targets).  A theorem that needs more says
so in its statement.

Every safety invariant and safety action property of the passing runs is proved; of the calendar's
`RepeatsForEver` the part is proved that holds in every year.

*MainAgentProofs.*  The inductive invariant is `TypeOK`, `RoundsPaidFor`, `RoundsBounded` and
`MovedMeansFresh`.  `RoundsBounded` alone is not inductive: `errorRetries` is reset by every
success, so what bounds the rounds is that each rewake has paid for at most `maxErrorRetries`
of them, which `RoundsPaidFor` says at every program point.  `MovedMeansFresh` says that an
idle agent which sees the version move has an item that was never shown; it is the guard of
`WorkQueue!Begin`.
- `TypeCorrect`, `ActivationCostBounded`;
- `SourceOfPrompt`, with `SourceKept`: from `SetCurrentSource` to the first prompt items are
  only added, so the item whose source was taken is among those prompted;
- `LoopImplementsWorkQueue`: initial states map to initial states, each step to a step of
  WorkQueue or a stutter;
- `UsesTheStore`: the loop is a user of the list (`Spec => StoreSpec`), so what is proved of the
  list in IngressProofs holds while the agent works on it.

*SchedulerProofs.*  The inductive invariant adds `NextRunIsAhead`: a task in the store has
fired only for ticks before its next firing time, which is an occurrence after its creation;
cancelled tasks are not in the store.
- `TypeCorrect`, `FiresAtMostOnce`, `FiresOnTime`, `CancelledNeverFires`;
- `NothingOverlooked`, with `Coverage`: no occurrence lies between the last tick a task fired
  for, or its creation, and its next firing time; a task that left the store has none later;
- `FiresAreDelivered`, with `InTransit`: the log is what was delivered, then what the forwarder
  holds, the channel's content and the event being sent, in this order.

*ConversationProofs.*  Three facts about sequences carry the proof.  The transcript is a sequence
that providers accept and that leaves no call open (`Closed`); `SanitizeOfTail`: of a sequence cut
out of an accepted one, `sanitizeHistory` drops the results it begins with and nothing else, for
the call of every later result is still there; `TrimOfTail`: cutting leaves an end.  The
inductive invariant is the three properties, that the transcript is closed and that providers
accept what the running round has reported.
`CommitKeepsRecent` compares two ends of the transcript before and after a commit.
- `TypeCorrect`, `RequestsAreAccepted`, `NothingRecentIsLost`, for every limit and any number of
  rounds, calls and ids.

*AppProofs* (client and process).  The client's inductive invariant adds that a private message is
tried by ways that are gone from `ways`, all in vain so far, and that `plan` is what was tried
and what remains; both speak of what was read, so replacing the directory does no harm.
`ProcessRunsClient` shows that a behaviour of the process is one of the client
(`AppSpec => Spec`), so the client's theorems hold in the process.
- `TypeCorrect`, `AcceptedInOrder`, `EveryWayOnce`, `StopsAfterAgent`;
- `CallsAreBounded`: with finitely many groups a message costs at most one OneBot call per
  group and one more, since the ways tried are an injection into groups and the direct way.

*IngressProofs.*  `IdLess` compares ids as strings, whose digits are a recursive function.  That
function exists and satisfies its equation (`DigitsUnfold`: its beginnings exist and agree, or a
least number would be an exception); what is then said of every number (`DigitsTyped`,
`LengthThenNumber`, `DigitsDiffer`) follows by the least counterexample, one digit shorter each
time.  `CreatedInOrder` is the invariant that a later item is not older.
- `ListIsFifo`: the order of `List` is a strict total order, and FIFO among ids of one length, for
  any number of items and any clock; `ListHasEnds`: a list that is not empty has a first and a
  last item, as the loop and the source expect when they index it.
- `UsesTheStore`: both hold in the ingress (`IngressSpec => StoreSpec`).
- `CallsMatch` follows an item from its request to the answer; `ReportMatches` remembers what the
  probes saw; `AddressedIsActivated` compares the code's test of a message with what was
  written: `TypeCorrect`, `AnswersMatchItems`, `ReportsWereTrue`, `MentionsAreSeen`.

*HistoryPagingProofs.*  Lemmas say what a page is: at most n messages, all there is if it has
fewer, and closed towards newer messages.  The inductive invariant adds `Chronology` of the chat
and `Collected`: the collection has no gap above its oldest message, and a loop that goes on has
fetched full pages only or everything.  Full pages fill a cap that is a multiple of their size
exactly, which is why comparing after adding does no harm.
- `TypeCorrect`, `CapIsKept`;
- `PagesAreBounded`, with `PagesPaidFor`: while pages are full the cap pays for them; after a short
  one each page goes on at an older message, of which fewer than one second's are left;
- `RangeIsComplete`, under the hypothesis that a page holds more messages than a second has; the
  loop's stop for want of progress is then a page that reached the beginning of the chat.

*CalendarProofs.*  The calendar's divisions are inverted once: a day of a 400-year era is
36524 c + 1461 q + 365 s + x, the x-th day of the s-th year of the q-th four years of the c-th
century (`FormulasAt`, `Decomposed`), so a later day with the same date can be given instead of
searched for (`DayRecurs`, `LeapDayRecurs`).  The inductive invariant says that a
waiting task's next firing is what `Schedule.Next` gave at its last call, and that a repeating task
that is gone was one for leap days whose last call came too late.
- `WaitsForTheFirst`, for every date, every time of day and any lateness;
- `DelaysAreAsAsked`, for every even range of a duration;
- `RepeatsUntilTheGap`: `RepeatsForEver`, of leap-day tasks while the last call of `Next` is before
  2096-02-29; `LeapDayGap`: after the firing of that day there is no next one, so the hypothesis
  cannot be spared.

*JudgmentProofs* (tagging and moderator).  Tagging's inductive invariant adds `TagsGood` (sets
stored, and about to be stored, are good) and `VersionsOrdered` (what was acknowledged is not
newer than what is stored, and a request reads nothing older than what it must see); the
moderator's says that the scan's counters are the cardinalities that the definition of a word
speaks of, up to the position reached.
- `SetsStayValid`, `MatchesAreAsShown`, `AcknowledgedIsRead`;
- `VerdictsAreJustified`, of comments of any length, for answers with or without each field.

Only model-checked is what rests on fairness and `ENABLED`, beyond the prover:
`PendingIsPrompted`, `ActivationEnds`, `CancelStopsAgent`, `DueIsDelivered`, `ShutdownCompletes`,
`AcceptedIsHandled` and `ProcessEnds`; and the properties that the five violation runs refute.

## Not modelled

* *LLM wrapper, configuration, prompts, time tool*: formatting, texts and environment variables;
  no state.
* *HTTP adapter*: logging, the public `/healthz` and the JSON of requests and answers; the
  tagging endpoints are Tagging's clients.  *Agent registry*: a map of one entry.
* *Parsers of OneBot answers, ZeroBot's connection*: external; a sync finds any contents, a call
  ends either way.
* *Persistence*: nothing is stored, a restart loses list, tasks and sets; no crash is modelled
  because nothing survives one.
* *Calendar*: parsing of dates and `Describe`.
* A failed round's tools have acted and leave no trace in the history; whether a retried model
  repeats itself is up to the model.
* *Len* and the lists that only report: read-only.

## Plan

What a continuation would add, in this order:

1. A composition of scheduler, todo store and agent (a due task reaches a prompt), replacing
   MainAgent's `EnqueueScheduledTask` by the forwarder's steps; and of MainAgent with the outgoing
   queue, for a reply that is sent in a round that fails.
2. An abstract mailbox (accepted, handled in order, lost only by stopping) that App implements.
3. The divergences above that need no larger model as runs of their own.
