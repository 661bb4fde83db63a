------------------------------- MODULE Ingress -------------------------------
(***************************************************************************)
(* How work reaches the todo list from outside, and what outside is told:  *)
(* QQ messages (internal/adapter/napcat/incoming.go), messages submitted   *)
(* over HTTP (the router, TokenAuth, handler/message.go and                *)
(* internal/messaging/service.go) and the readiness report                 *)
(* (internal/health/service.go, handler/health.go).                        *)
(*                                                                         *)
(* Each HTTP request has a goroutine of its own; what it shares with the   *)
(* others is the list, and for the report the state of the NapCat client,  *)
(* which changes while the report is put together.                         *)
(***************************************************************************)
EXTENDS TodoStore

CONSTANTS
    Self,       \* the bot's QQ number
    People,     \* QQ numbers of the users
    Groups,     \* QQ numbers of the groups
    Events,     \* QQ messages that may be received
    Callers,    \* clients of the HTTP API
    Requests    \* requests they may send

\* A QQ message: where it was written, by whom, which segments it has (whom
\* an @ mentions, or Text), and whether its event carries the raw message.
Text == 0
Segments == People \cup {Self, Text}
Event == [type : {"private", "group"}, user : People, group : Groups,
          written : SUBSET Segments, raw : BOOLEAN]

\* A submission: is the token right, is the body JSON with all its fields, has
\* the client gone (its context is cancelled), and the fields as far as Submit
\* looks at them: is content blank, is target_id a number, and which.
Request == [token : BOOLEAN, complete : BOOLEAN, gone : BOOLEAN, qq : BOOLEAN,
            blank : BOOLEAN, numeric : BOOLEAN, target : Int]

ASSUME EventsAssumption == Events \subseteq Event
ASSUME RequestsAssumption == Requests \subseteq Request
ASSUME CallersAssumption == "qq" \notin Callers
ASSUME NumbersAssumption == People \cup Groups \subseteq Nat \ {0}
ASSUME TargetsAssumption ==
    \A id \in People \cup Groups \cup {r.target : r \in Requests} :
        id > 0 => \A type \in {"private", "group"} : [type |-> type, id |-> id] \in Targets

VARIABLES
    origin,     \* history: who caused each item, by item number
    asked,      \* history: the chats in which somebody addressed the bot, in order
    call,       \* per caller: what became of its request
    connected,  \* NapcatClient.Connected
    loaded,     \* NapcatClient.DirectoryLoaded
    report      \* a readiness report being put together

ingressVars == <<storeVars, origin, asked, call, connected, loaded, report>>
probeVars == <<connected, loaded, report>>

NoCall == [pc |-> "none"]
NoReport == [pc |-> "none"]

\* The probes, in the order App.Run gives them.
Probes == <<"napcat", "napcat_directory">>

IngressInit ==
    /\ StoreInit
    /\ origin = <<>> /\ asked = <<>>
    /\ call = [c \in Callers |-> NoCall]
    /\ connected = FALSE /\ loaded = FALSE /\ report = NoReport

-----------------------------------------------------------------------------
(* QQ messages.                                                            *)

\* ZeroBot removes an @ of the bot from Event.Message, not from NativeMessage.
NativeMessage(e) == IF e.raw THEN e.written ELSE {}
ProcessedMessage(e) == IF e.raw THEN e.written \ {Self} ELSE e.written

\* Mutant of IsBotMentioned: looks at the processed segments.
IsBotMentionedProcessed(e) == Self \in ProcessedMessage(e)

\* The raw segments decide; only an event without any falls back to the others.
IsBotMentioned(e) ==
    Self \in (IF NativeMessage(e) = {} THEN ProcessedMessage(e) ELSE NativeMessage(e))

ShouldActivate(e) == e.type # "group" \/ IsBotMentioned(e)

ReplyTarget(e) == [type |-> e.type, id |-> IF e.type = "group" THEN e.group ELSE e.user]

\* Is the bot addressed, and in which chat?  What the people in it would say.
Addressed(e) == e.type = "private" \/ Self \in e.written
ChatOf(e) == [type |-> e.type, id |-> IF e.type = "private" THEN e.user ELSE e.group]

\* A message that does not activate the agent is dropped.
HandleIncomingMessage(e) ==
    /\ asked' = IF Addressed(e) THEN Append(asked, ChatOf(e)) ELSE asked
    /\ IF ShouldActivate(e) THEN Add(ReplyTarget(e)) /\ origin' = Append(origin, "qq")
       ELSE UNCHANGED <<storeVars, origin>>
    /\ UNCHANGED <<call, probeVars>>

-----------------------------------------------------------------------------
(* Submissions over HTTP.                                                  *)

\* Submit, up to Add: the error's status, or 0.
Invalid(r) ==
    CASE r.gone -> 500
      [] ~ r.qq -> 422
      [] r.blank \/ ~ r.numeric \/ r.target <= 0 -> 400
      [] OTHER -> 0

\* The status of a request that is refused, 0 if it is not: TokenAuth, then the
\* binding of the body, then Submit.
Refusal(r) == IF ~ r.token THEN 401 ELSE IF ~ r.complete THEN 400 ELSE Invalid(r)

Refuse(c, r) ==
    /\ call[c].pc = "none" /\ Refusal(r) # 0
    /\ call' = [call EXCEPT ![c] = [pc |-> "answered", status |-> Refusal(r)]]
    /\ UNCHANGED <<storeVars, origin, asked, probeVars>>

\* Queue.Add returns the item, and with it the id to answer with.
Submit(c, r) ==
    /\ call[c].pc = "none" /\ Refusal(r) = 0
    /\ Add([type |-> "private", id |-> r.target])
    /\ origin' = Append(origin, c)
    /\ call' = [call EXCEPT ![c] = [pc |-> "queued", target |-> r.target, id |-> nextID']]
    /\ UNCHANGED <<asked, probeVars>>

\* Mutant of Accept: answers with the newest item of the list.
AcceptNewest(c) ==
    /\ call[c].pc = "queued"
    /\ call' = [call EXCEPT ![c] = [pc |-> "answered", status |-> 202,
                                    target |-> @.target, id |-> nextID]]
    /\ UNCHANGED <<storeVars, origin, asked, probeVars>>

Accept(c) ==
    /\ call[c].pc = "queued"
    /\ call' = [call EXCEPT ![c] = [pc |-> "answered", status |-> 202,
                                    target |-> @.target, id |-> @.id]]
    /\ UNCHANGED <<storeVars, origin, asked, probeVars>>

-----------------------------------------------------------------------------
(* Readiness.  up and down are history: the dependencies that have been so *)
(* at some moment of the call.                                             *)

UpNow(con, load) == (IF con THEN {"napcat"} ELSE {})
                    \cup (IF load THEN {"napcat_directory"} ELSE {})

BeginReport ==
    /\ report = NoReport
    /\ report' = [pc |-> "probing", next |-> 1, healthy |-> TRUE,
                  up |-> UpNow(connected, loaded),
                  down |-> Range(Probes) \ UpNow(connected, loaded)]
    /\ UNCHANGED <<storeVars, origin, asked, call, connected, loaded>>

\* Mutant of Probe: the last dependency decides.
ProbeLast ==
    /\ report.pc = "probing" /\ report.next <= Len(Probes)
    /\ report' = [report EXCEPT !.next = @ + 1,
                  !.healthy = Probes[report.next] \in UpNow(connected, loaded)]
    /\ UNCHANGED <<storeVars, origin, asked, call, connected, loaded>>

Probe ==
    /\ report.pc = "probing" /\ report.next <= Len(Probes)
    /\ report' = [report EXCEPT !.next = @ + 1,
                  !.healthy = @ /\ Probes[report.next] \in UpNow(connected, loaded)]
    /\ UNCHANGED <<storeVars, origin, asked, call, connected, loaded>>

\* All are probed: the report goes out, with 200 if healthy and 503 if not.
Probed == report.pc = "probing" /\ report.next > Len(Probes)

EndReport ==
    /\ Probed
    /\ report' = NoReport
    /\ UNCHANGED <<storeVars, origin, asked, call, connected, loaded>>

\* The dependencies change while a report is put together.
Observe(con, load) ==
    /\ connected' = con /\ loaded' = load
    /\ report' = IF report.pc = "probing"
                 THEN [report EXCEPT !.up = @ \cup UpNow(con, load),
                                     !.down = @ \cup (Range(Probes) \ UpNow(con, load))]
                 ELSE report
    /\ UNCHANGED <<storeVars, origin, asked, call>>

Connect == ~ connected /\ Observe(TRUE, loaded)
Disconnect == connected /\ Observe(FALSE, loaded)

\* Replace sets the flag for good; a sync may end after the connection is lost.
DirectoryLoads == ~ loaded /\ Observe(connected, TRUE)

-----------------------------------------------------------------------------
\* The agent and time, as in TodoStore.
Elsewhere ==
    /\ Tick \/ \E i \in Pending : Complete(i)
    /\ UNCHANGED <<origin, asked, call, probeVars>>

IngressNext ==
    \/ \E e \in Events : HandleIncomingMessage(e)
    \/ \E c \in Callers, r \in Requests : Refuse(c, r) \/ Submit(c, r)
    \/ \E c \in Callers : Accept(c)
    \/ BeginReport \/ Probe \/ EndReport
    \/ Connect \/ Disconnect \/ DirectoryLoads
    \/ Elsewhere

IngressSpec == IngressInit /\ [][IngressNext]_ingressVars
-----------------------------------------------------------------------------
(* Properties.                                                             *)

\* Every variable keeps its type, and every item has a cause.
IngressTypeOK ==
    /\ StoreTypeOK
    /\ origin \in Seq(Callers \cup {"qq"}) /\ Len(origin) = nextID
    /\ asked \in Seq([type : {"private", "group"}, id : People \cup Groups])
    /\ \A c \in Callers :
          /\ call[c].pc \in {"none", "queued", "answered"}
          /\ call[c].pc = "queued" => call[c].id \in 1..nextID
    /\ {connected, loaded} \subseteq BOOLEAN
    /\ report.pc \in {"none", "probing"}

\* A caller that is told 202 holds the id of the item its own request created,
\* addressed as it asked, whatever was added meanwhile; a caller that is told
\* anything else has left no item (message.go:33-60, service.go:47-80).
AnswersNameTheirItem ==
    \A c \in Callers : call[c].pc = "answered" =>
        IF call[c].status = 202
        THEN LET n == call[c].id IN
             /\ n \in DOMAIN origin /\ origin[n] = c
             /\ n \in Pending =>
                   items[n].target = [type |-> "private", id |-> call[c].target]
        ELSE \A n \in DOMAIN origin : origin[n] # c

\* Each message that addresses the bot, and no other, queues an item at once, to
\* be answered in the chat it came from, although ZeroBot removes the mention
\* from the message it hands over (incoming.go:14-92).
QueuedIffAddressed ==
    [][IF asked' # asked
       THEN /\ origin' = Append(origin, "qq")
            /\ items'[nextID'].target = asked'[Len(asked')]
       ELSE \/ origin' = origin
            \/ \E c \in Callers : origin' = Append(origin, c)]_ingressVars

\* A report is not a snapshot, but it is not made up: 200 means that each
\* dependency was up at some moment of the call, and that the directory still
\* is; 503 means that one was down at some moment of it (service.go:53-76).
HealthReportWasTrue ==
    Probed =>
        IF report.healthy THEN Range(Probes) \subseteq report.up /\ loaded
        ELSE report.down # {}
=============================================================================
