----------------------------- MODULE IngressProofs ----------------------------
(***************************************************************************)
(* Theorems about Ingress, for any number of callers, requests and events. *)
(* AnswersNameTheirItem speaks of calls that are answered; the inductive   *)
(* CallsMatch follows an item from its request to the answer, and says     *)
(* that a caller whose request is not through has caused no item.          *)
(* A report is judged by what ReportMatches remembers of its probes.       *)
(***************************************************************************)
EXTENDS Ingress, FiniteSetTheorems, SequenceTheorems, WellFoundedInduction, TLAPS

ItemOf(c) ==
    LET n == call[c].id IN
    /\ n \in DOMAIN origin /\ origin[n] = c
    /\ n \in Pending =>
          items[n].target = [type |-> "private", id |-> call[c].target]

Unseen(c) == \A n \in DOMAIN origin : origin[n] # c

Matched(c) ==
    /\ call[c].pc = "none" => Unseen(c)
    /\ call[c].pc = "queued" => ItemOf(c)
    /\ call[c].pc = "answered" => IF call[c].status = 202 THEN ItemOf(c) ELSE Unseen(c)

CallsMatch == \A c \in Callers : Matched(c)

Dependencies == {"napcat", "napcat_directory"}
Report == [pc : {"probing"}, next : 1..3, healthy : BOOLEAN,
           up : SUBSET Dependencies, down : SUBSET Dependencies]

ReportMatches ==
    /\ report \in Report \cup {NoReport}
    /\ report.pc = "probing" =>
          /\ UpNow(connected, loaded) \subseteq report.up
          /\ Dependencies \ UpNow(connected, loaded) \subseteq report.down
          /\ report.healthy =>
                /\ report.next > 1 => "napcat" \in report.up
                /\ report.next > 2 => "napcat_directory" \in report.up /\ loaded
          /\ ~ report.healthy => report.down # {}

Calls == [Callers -> [pc : {"none"}]
                     \cup [pc : {"queued"}, target : Int, id : Nat]
                     \cup [pc : {"answered"}, status : Int]
                     \cup [pc : {"answered"}, status : {202}, target : Int, id : Nat]]

Chat == [type : {"private", "group"}, id : People \cup Groups]

Inv == IngressTypeOK /\ call \in Calls /\ CallsMatch /\ ReportMatches

-----------------------------------------------------------------------------
\* What Add leaves behind.
LEMMA AddAppends ==
    ASSUME StoreTypeOK, NEW t \in Targets \cup {NoTarget}, Add(t)
    PROVE  /\ StoreTypeOK'
           /\ nextID' = nextID + 1 /\ nextID' \in Nat
           /\ Pending' = Pending \cup {nextID'} /\ nextID' \notin Pending
           /\ \A n \in Pending : items'[n] = items[n]
           /\ items'[nextID'].target = t
<1>1. nextID' = nextID + 1 /\ nextID \in Nat /\ nextID' \in 0..MaxAdds
  BY BoundsAssumption DEF Add, StoreTypeOK
<1>2. Pending' = Pending \cup {nextID'} /\ nextID' \notin Pending
  BY <1>1 DEF Add, StoreTypeOK, Pending
<1>3. \A n \in Pending : items'[n] = items[n]  BY <1>1, <1>2 DEF Add
<1>4. items'[nextID'] = [target |-> t, createdAt |-> clock]  BY <1>1, <1>2 DEF Add
<1>5. clock \in 0..MaxClock /\ clock' = clock  BY DEF Add, StoreTypeOK
<1>6. items' = [i \in Pending' |-> items'[i]]  BY <1>1, <1>2 DEF Add, Pending
<1>7. \A i \in Pending' : items'[i] \in Item /\ items'[i].createdAt <= clock'
  BY <1>2, <1>3, <1>4, <1>5, BoundsAssumption DEF StoreTypeOK, Item
<1>8. Pending' \subseteq 1..nextID'  BY <1>1, <1>2 DEF StoreTypeOK
<1>. QED
  BY <1>1, <1>2, <1>3, <1>4, <1>5, <1>6, <1>7, <1>8 DEF StoreTypeOK

\* A message or a submission is recorded with a reply target.
LEMMA EventTarget == \A e \in Events : ReplyTarget(e) \in Targets
<1>. SUFFICES ASSUME NEW e \in Events PROVE ReplyTarget(e) \in Targets  OBVIOUS
<1>1. /\ e.type \in {"private", "group"} /\ e.user \in People /\ e.group \in Groups
  BY EventsAssumption DEF Event
<1>2. \A id \in People \cup Groups : id > 0  BY NumbersAssumption
<1>3. \A id \in People \cup Groups, type \in {"private", "group"} :
          [type |-> type, id |-> id] \in Targets
  BY <1>2, TargetsAssumption
<1>. QED  BY <1>1, <1>3 DEF ReplyTarget

LEMMA ChatsTyped == \A e \in Events : ChatOf(e) \in Chat
BY EventsAssumption DEF Event, ChatOf, Chat

\* What the two descriptions of a message agree on.
LEMMA AddressedIsActivated ==
    \A e \in Events : /\ ShouldActivate(e) <=> Addressed(e)
                      /\ ReplyTarget(e) = ChatOf(e)
<1>. SUFFICES ASSUME NEW e \in Events
              PROVE  (ShouldActivate(e) <=> Addressed(e)) /\ ReplyTarget(e) = ChatOf(e)
  OBVIOUS
<1>1. e.type \in {"private", "group"} /\ e.raw \in BOOLEAN
  BY EventsAssumption DEF Event
<1>2. IsBotMentioned(e) <=> Self \in e.written
  BY <1>1 DEF IsBotMentioned, NativeMessage, ProcessedMessage
<1>. QED  BY <1>1, <1>2 DEF ShouldActivate, Addressed, ReplyTarget, ChatOf

LEMMA RequestTarget ==
    \A r \in Requests : Refusal(r) = 0 =>
        r.target \in Int /\ [type |-> "private", id |-> r.target] \in Targets
<1>. SUFFICES ASSUME NEW r \in Requests, Refusal(r) = 0
              PROVE  r.target \in Int /\ [type |-> "private", id |-> r.target] \in Targets
  OBVIOUS
<1>1. r \in Request  BY RequestsAssumption
<1>2. r.target > 0  BY <1>1 DEF Refusal, Invalid, Request
<1>. QED  BY <1>1, <1>2, TargetsAssumption DEF Request

\* Nobody's answer is disturbed by a step that adds nothing for him and keeps
\* the items that remain as they are.
LEMMA OthersKept ==
    ASSUME Inv, NEW c \in Callers, call'[c] = call[c],
           NEW who, who # c,
           \/ origin' = origin
           \/ origin' = Append(origin, who),
           Pending' \subseteq Pending \cup {Len(origin) + 1},
           \A n \in Pending \cap Pending' : items'[n] = items[n]
    PROVE  Matched(c)'
<1>1. origin \in Seq(Callers \cup {"qq"})  BY DEF Inv, IngressTypeOK
<1>2. /\ \A n \in DOMAIN origin : n \in DOMAIN origin' /\ origin'[n] = origin[n]
      /\ \A n \in DOMAIN origin' : n \in DOMAIN origin \/ origin'[n] = who
      /\ Len(origin) + 1 \notin DOMAIN origin
  BY <1>1
<1>3. \A n \in DOMAIN origin : n \in Pending' => n \in Pending /\ items'[n] = items[n]
  BY <1>2
<1>4. Matched(c)  BY DEF Inv, CallsMatch
<1>5. Unseen(c) => Unseen(c)'  BY <1>2 DEF Unseen
<1>6. ItemOf(c) => ItemOf(c)'  BY <1>2, <1>3 DEF ItemOf
<1>. QED  BY <1>4, <1>5, <1>6 DEF Matched

LEMMA Probing ==
    /\ Range(Probes) = Dependencies /\ Len(Probes) = 2
    /\ Probes[1] = "napcat" /\ Probes[2] = "napcat_directory"
<1>1. Len(Probes) = 2 /\ Probes[1] = "napcat" /\ Probes[2] = "napcat_directory"
      /\ DOMAIN Probes = 1..2
  BY DEF Probes
<1>. QED  BY <1>1 DEF Range, Dependencies

\* The report follows its probes, and the dependencies behind them.
LEMMA ReportKept == Inv /\ [IngressNext]_ingressVars => ReportMatches'
<1>. SUFFICES ASSUME Inv, [IngressNext]_ingressVars PROVE ReportMatches'  OBVIOUS
<1>0. /\ ReportMatches /\ connected \in BOOLEAN /\ loaded \in BOOLEAN
      /\ report.pc = "probing" => report \in Report
      /\ NoReport.pc = "none"
  BY DEF Inv, IngressTypeOK, ReportMatches, NoReport
<1>1. CASE UNCHANGED probeVars
  BY <1>0, <1>1 DEF ReportMatches, probeVars
<1>2. CASE BeginReport
  <2>1. report' = [pc |-> "probing", next |-> 1, healthy |-> TRUE,
                   up |-> UpNow(connected, loaded),
                   down |-> Dependencies \ UpNow(connected, loaded)]
    BY <1>2, Probing DEF BeginReport
  <2>2. UpNow(connected, loaded) \in SUBSET Dependencies  BY DEF UpNow, Dependencies
  <2>3. report' \in Report  BY <2>1, <2>2 DEF Report
  <2>. QED  BY <1>2, <2>1, <2>3 DEF BeginReport, ReportMatches
<1>3. CASE Probe
  <2>. DEFINE k == report.next
  <2>1. /\ report \in Report /\ k \in 1..2
        /\ connected' = connected /\ loaded' = loaded
    BY <1>0, <1>3, Probing DEF Probe, Report
  <2>2. /\ report' \in Report /\ report'.next = k + 1 /\ report'.pc = "probing"
        /\ report'.up = report.up /\ report'.down = report.down
        /\ report'.healthy = (report.healthy /\ Probes[k] \in UpNow(connected, loaded))
    <3>. DEFINE h == report.healthy /\ Probes[k] \in UpNow(connected, loaded)
    <3>1. h \in BOOLEAN  BY <2>1 DEF Report
    <3>2. report' = [report EXCEPT !.next = k + 1, !.healthy = h]
      BY <1>3, <2>1 DEF Probe, Report
    <3>. HIDE DEF h
    <3>3. /\ report' \in Report /\ report'.next = k + 1 /\ report'.pc = "probing"
          /\ report'.up = report.up /\ report'.down = report.down
          /\ report'.healthy = h
      <4>0. report' = [pc |-> "probing", next |-> k + 1, healthy |-> h,
                       up |-> report.up, down |-> report.down]
        BY <2>1, <3>2 DEF Report
      <4>1. report' \in Report
        <5>1. k + 1 \in 1..3 /\ report.up \in SUBSET Dependencies
              /\ report.down \in SUBSET Dependencies
          BY <2>1 DEF Report
        <5>. QED  BY <4>0, <5>1, <3>1 DEF Report
      <4>2. report'.next = k + 1 /\ report'.healthy = h
        BY <2>1, <3>2 DEF Report
      <4>. QED  BY <2>1, <3>2, <4>1, <4>2 DEF Report
    <3>. QED  BY <3>3 DEF h
  <2>3. CASE k = 1
    BY <1>0, <1>3, <2>1, <2>2, <2>3, Probing DEF Probe, ReportMatches, UpNow, Dependencies
  <2>4. CASE k = 2
    BY <1>0, <1>3, <2>1, <2>2, <2>4, Probing DEF Probe, ReportMatches, UpNow, Dependencies
  <2>. QED  BY <2>1, <2>3, <2>4
<1>4. CASE EndReport
  BY <1>0, <1>4 DEF EndReport, ReportMatches
<1>5. ASSUME NEW con \in BOOLEAN, NEW load \in BOOLEAN, loaded => load, Observe(con, load)
      PROVE  ReportMatches'
  <2>1. connected' = con /\ loaded' = load  BY <1>5 DEF Observe
  <2>2. CASE report.pc = "probing"
    <3>1. report' = [report EXCEPT !.up = @ \cup UpNow(con, load),
                                   !.down = @ \cup (Dependencies \ UpNow(con, load))]
      BY <1>5, <2>2, Probing DEF Observe
    <3>2. UpNow(con, load) \in SUBSET Dependencies  BY DEF UpNow, Dependencies
    <3>3. /\ report' \in Report /\ report'.pc = "probing"
          /\ report'.next = report.next /\ report'.healthy = report.healthy
          /\ report'.up = report.up \cup UpNow(con, load)
          /\ report'.down = report.down \cup (Dependencies \ UpNow(con, load))
      BY <1>0, <2>2, <3>1, <3>2 DEF Report
    <3>. QED  BY <1>0, <1>5, <2>1, <2>2, <3>3 DEF ReportMatches
  <2>3. CASE report.pc # "probing"
    BY <1>0, <1>5, <2>1, <2>3 DEF Observe, ReportMatches
  <2>. QED  BY <2>2, <2>3
<1>6. CASE Connect \/ Disconnect \/ DirectoryLoads
  BY <1>0, <1>5, <1>6 DEF Connect, Disconnect, DirectoryLoads
<1>7. ASSUME NEW e \in Events, HandleIncomingMessage(e) PROVE UNCHANGED probeVars
  BY <1>7 DEF HandleIncomingMessage
<1>8. ASSUME NEW c \in Callers, NEW r \in Requests, Refuse(c, r) \/ Submit(c, r)
      PROVE  UNCHANGED probeVars
  BY <1>8 DEF Refuse, Submit
<1>9. ASSUME NEW c \in Callers, Accept(c) PROVE UNCHANGED probeVars
  BY <1>9 DEF Accept
<1>10. CASE Elsewhere \/ UNCHANGED ingressVars
  BY <1>10, <1>1 DEF Elsewhere, ingressVars, probeVars
<1>. QED
  BY <1>1, <1>2, <1>3, <1>4, <1>6, <1>7, <1>8, <1>9, <1>10 DEF IngressNext

-----------------------------------------------------------------------------
LEMMA InvInit == IngressInit => Inv
<1>. SUFFICES ASSUME IngressInit PROVE Inv  OBVIOUS
<1>. USE DEF IngressInit
<1>1. StoreTypeOK
  <2>1. Pending = {}  BY DEF StoreInit, Pending
  <2>. QED  BY <2>1, BoundsAssumption DEF StoreInit, StoreTypeOK
<1>2. IngressTypeOK
  <2>1. /\ origin \in Seq(Callers \cup {"qq"}) /\ Len(origin) = nextID
        /\ asked \in Seq(Chat)
    BY DEF StoreInit
  <2>2. \A c \in Callers : call[c].pc = "none"  BY DEF NoCall
  <2>3. report.pc = "none"  BY DEF NoReport
  <2>. QED  BY <1>1, <2>1, <2>2, <2>3 DEF IngressTypeOK, Chat
<1>3. call \in Calls  BY DEF Calls, NoCall
<1>4. CallsMatch  BY DEF CallsMatch, Matched, Unseen, NoCall
<1>5. ReportMatches  BY DEF ReportMatches, NoReport
<1>. QED  BY <1>2, <1>3, <1>4, <1>5 DEF Inv

LEMMA InvNext == Inv /\ [IngressNext]_ingressVars => Inv'
<1>. SUFFICES ASSUME Inv, [IngressNext]_ingressVars PROVE Inv'  OBVIOUS
<1>. DEFINE Reached == /\ StoreTypeOK' /\ origin' \in Seq(Callers \cup {"qq"})
                       /\ Len(origin') = nextID' /\ call' \in Calls
                       /\ asked' \in Seq(Chat)
                       /\ \A c \in Callers : call'[c].pc = "queued" => call'[c].id \in 1..nextID'
                       /\ {connected', loaded'} \subseteq BOOLEAN
                       /\ CallsMatch'
<1>. HIDE DEF Reached
<1>0. /\ StoreTypeOK /\ origin \in Seq(Callers \cup {"qq"}) /\ Len(origin) = nextID
      /\ nextID \in Nat /\ call \in Calls /\ asked \in Seq(Chat)
      /\ {connected, loaded} \subseteq BOOLEAN
      /\ \A c \in Callers : call[c].pc = "queued" => call[c].id \in 1..nextID
  BY BoundsAssumption DEF Inv, IngressTypeOK, StoreTypeOK, Chat
<1>1. Reached => Inv'
  <2>. USE DEF Reached
  <2>. SUFFICES ASSUME Reached PROVE Inv'  OBVIOUS
  <2>1. ReportMatches'  BY ReportKept
  <2>2. report'.pc \in {"none", "probing"}
    BY <2>1 DEF ReportMatches, Report, NoReport
  <2>3. \A c \in Callers : call'[c].pc \in {"none", "queued", "answered"}  BY DEF Calls
  <2>. QED  BY <2>1, <2>2, <2>3 DEF Inv, IngressTypeOK, Chat
<1>2. ASSUME UNCHANGED <<storeVars, origin, asked, call>>, {connected', loaded'} \subseteq BOOLEAN
      PROVE  Reached
  BY <1>0, <1>2
     DEF storeVars, StoreTypeOK, Pending, Inv, CallsMatch, Matched, Unseen, ItemOf, Reached
<1>3. ASSUME NEW e \in Events, HandleIncomingMessage(e) PROVE Reached
  <2>0. asked' \in Seq(Chat) /\ UNCHANGED <<call, probeVars>>
    BY <1>0, <1>3, ChatsTyped DEF HandleIncomingMessage
  <2>A. CASE ~ ShouldActivate(e)
    BY <1>0, <1>3, <2>0, <2>A
       DEF HandleIncomingMessage, storeVars, probeVars, StoreTypeOK, Pending, Inv, CallsMatch,
           Matched, Unseen, ItemOf, Reached
  <2>. SUFFICES ASSUME ShouldActivate(e) PROVE Reached  BY <2>A
  <2>1. Add(ReplyTarget(e)) /\ origin' = Append(origin, "qq")
    BY <1>3 DEF HandleIncomingMessage
  <2>2. ReplyTarget(e) \in Targets \cup {NoTarget}  BY EventTarget
  <2>. DEFINE t == ReplyTarget(e)
  <2>3. /\ StoreTypeOK' /\ nextID' = nextID + 1
        /\ Pending' = Pending \cup {nextID'}
        /\ \A n \in Pending : items'[n] = items[n]
        /\ nextID' \notin Pending
    <3>. HIDE DEF t
    <3>. QED  BY <1>0, <2>1, <2>2, AddAppends
  <2>4. origin' \in Seq(Callers \cup {"qq"}) /\ Len(origin') = nextID'
    BY <1>0, <2>1, <2>3
  <2>5. CallsMatch'
    <3>1. \A n \in Pending \cap Pending' : items'[n] = items[n]  BY <2>3
    <3>2. Pending' \subseteq Pending \cup {Len(origin) + 1}  BY <1>0, <2>3
    <3>3. ASSUME NEW c \in Callers PROVE Matched(c)'
      BY <2>0, <2>1, <3>1, <3>2, OthersKept, CallersAssumption
    <3>. QED  BY <3>3 DEF CallsMatch
  <2>. QED  BY <1>0, <2>0, <2>1, <2>3, <2>4, <2>5 DEF probeVars, Reached
<1>4. ASSUME NEW c \in Callers, NEW r \in Requests, Refuse(c, r) PROVE Reached
  <2>1. /\ UNCHANGED <<storeVars, origin, asked, probeVars>> /\ call[c].pc = "none"
        /\ call' = [call EXCEPT ![c] = [pc |-> "answered", status |-> Refusal(r)]]
    BY <1>4 DEF Refuse
  <2>2. Refusal(r) \in Int /\ Refusal(r) # 202
    BY RequestsAssumption DEF Refusal, Invalid, Request
  <2>3. /\ call' \in Calls /\ call'[c] = [pc |-> "answered", status |-> Refusal(r)]
        /\ \A d \in Callers \ {c} : call'[d] = call[d]
    BY <1>0, <2>1, <2>2 DEF Calls
  <2>4. CallsMatch'
    <3>1. /\ origin' = origin /\ items' = items /\ Pending' = Pending
          /\ \A n \in DOMAIN origin : origin[n] # c
      BY <2>1 DEF Inv, CallsMatch, Matched, Unseen, storeVars, Pending
    <3>2. Matched(c)'  BY <2>2, <2>3, <3>1 DEF Matched, Unseen
    <3>3. ASSUME NEW d \in Callers \ {c} PROVE Matched(d)'
      BY <2>3, <3>1 DEF Inv, CallsMatch, Matched, Unseen, ItemOf
    <3>. QED  BY <3>2, <3>3 DEF CallsMatch
  <2>. QED  BY <1>0, <2>1, <2>3, <2>4 DEF storeVars, probeVars, StoreTypeOK, Pending, Reached
<1>5. ASSUME NEW c \in Callers, NEW r \in Requests, Submit(c, r) PROVE Reached
  <2>. DEFINE t == [type |-> "private", id |-> r.target]
  <2>1. /\ Add(t) /\ origin' = Append(origin, c) /\ UNCHANGED <<asked, probeVars>>
        /\ call' = [call EXCEPT ![c] = [pc |-> "queued", target |-> r.target, id |-> nextID']]
        /\ t \in Targets /\ r.target \in Int
    BY <1>5, RequestTarget DEF Submit
  <2>2. /\ StoreTypeOK' /\ nextID' = nextID + 1 /\ nextID' \in Nat
        /\ Pending' = Pending \cup {nextID'}
        /\ \A n \in Pending : items'[n] = items[n]
        /\ nextID' \notin Pending /\ items'[nextID'].target = t
    <3>. HIDE DEF t
    <3>. QED  BY <1>0, <2>1, AddAppends
  <2>3. /\ origin' \in Seq(Callers \cup {"qq"}) /\ Len(origin') = nextID'
        /\ nextID' \in DOMAIN origin' /\ origin'[nextID'] = c
    BY <1>0, <2>1, <2>2
  <2>4. /\ call' \in Calls
        /\ call'[c] = [pc |-> "queued", target |-> r.target, id |-> nextID']
        /\ \A d \in Callers \ {c} : call'[d] = call[d]
    BY <1>0, <2>1, <2>2 DEF Calls
  <2>5. CallsMatch'
    <3>1. \A n \in Pending \cap Pending' : items'[n] = items[n]  BY <2>2
    <3>2. Pending' \subseteq Pending \cup {Len(origin) + 1}  BY <1>0, <2>2
    <3>3. ASSUME NEW d \in Callers \ {c} PROVE Matched(d)'
      BY <2>1, <2>4, <3>1, <3>2, OthersKept
    <3>4. /\ call'[c].pc = "queued" /\ call'[c].id = nextID' /\ call'[c].target = r.target
          /\ items'[nextID'].target = [type |-> "private", id |-> r.target]
      BY <2>2, <2>4
    <3>5. Matched(c)'  BY <2>3, <3>4 DEF Matched, ItemOf
    <3>. QED  BY <3>3, <3>5 DEF CallsMatch
  <2>6. \A d \in Callers : call'[d].pc = "queued" => call'[d].id \in 1..nextID'
    BY <1>0, <2>2, <2>4
  <2>. QED  BY <1>0, <2>1, <2>2, <2>3, <2>4, <2>5, <2>6 DEF probeVars, Reached
<1>6. ASSUME NEW c \in Callers, Accept(c) PROVE Reached
  <2>1. /\ UNCHANGED <<storeVars, origin, asked, probeVars>> /\ call[c].pc = "queued"
        /\ call' = [call EXCEPT ![c] = [pc |-> "answered", status |-> 202,
                                        target |-> call[c].target, id |-> call[c].id]]
    BY <1>6 DEF Accept
  <2>2. call[c].target \in Int /\ call[c].id \in Nat  BY <1>0, <2>1 DEF Calls
  <2>3. /\ call' \in Calls
        /\ call'[c] = [pc |-> "answered", status |-> 202,
                       target |-> call[c].target, id |-> call[c].id]
        /\ \A d \in Callers \ {c} : call'[d] = call[d]
    BY <1>0, <2>1, <2>2 DEF Calls
  <2>4. CallsMatch'
    <3>1. /\ origin' = origin /\ items' = items /\ Pending' = Pending /\ ItemOf(c)
      BY <2>1 DEF Inv, CallsMatch, Matched, storeVars, Pending
    <3>2. Matched(c)'  BY <2>3, <3>1 DEF Matched, ItemOf
    <3>3. ASSUME NEW d \in Callers \ {c} PROVE Matched(d)'
      BY <2>3, <3>1 DEF Inv, CallsMatch, Matched, Unseen, ItemOf
    <3>. QED  BY <3>2, <3>3 DEF CallsMatch
  <2>. QED  BY <1>0, <2>1, <2>3, <2>4 DEF storeVars, probeVars, StoreTypeOK, Pending, Reached
<1>7. CASE BeginReport \/ Probe \/ EndReport \/ Connect \/ Disconnect \/ DirectoryLoads
  <2>1. UNCHANGED <<storeVars, origin, asked, call>>
    BY <1>7 DEF BeginReport, Probe, EndReport, Connect, Disconnect, DirectoryLoads, Observe
  <2>2. {connected', loaded'} \subseteq BOOLEAN
    BY <1>0, <1>7 DEF BeginReport, Probe, EndReport, Connect, Disconnect, DirectoryLoads, Observe
  <2>. QED  BY <1>1, <1>2, <2>1, <2>2
<1>8. CASE Elsewhere
  <2>1. UNCHANGED <<nextID, origin, asked, call, probeVars>>
    BY <1>8 DEF Elsewhere, Tick, Complete
  <2>2. /\ StoreTypeOK' /\ Pending' \subseteq Pending
        /\ \A n \in Pending' : items'[n] = items[n]
    <3>1. CASE Tick
      BY <1>0, <3>1, BoundsAssumption DEF Tick, StoreTypeOK, Pending, Item
    <3>2. ASSUME NEW i \in Pending, Complete(i)
          PROVE  /\ StoreTypeOK' /\ Pending' \subseteq Pending
                 /\ \A n \in Pending' : items'[n] = items[n]
      <4>1. items' = [x \in Pending \ {i} |-> items[x]]
        BY <3>2 DEF Complete, Restrict
      <4>2. Pending' = Pending \ {i}  BY <4>1 DEF Pending
      <4>. QED  BY <1>0, <3>2, <4>1, <4>2 DEF Complete, StoreTypeOK
    <3>. QED  BY <1>8, <3>1, <3>2 DEF Elsewhere
  <2>3. CallsMatch'
    <3>1. ASSUME NEW c \in Callers PROVE Matched(c)'
      BY <2>1, <2>2 DEF Inv, CallsMatch, Matched, Unseen, ItemOf
    <3>. QED  BY <3>1 DEF CallsMatch
  <2>. QED  BY <1>0, <1>1, <2>1, <2>2, <2>3 DEF probeVars, Reached
<1>9. CASE UNCHANGED ingressVars
  BY <1>0, <1>1, <1>2, <1>9 DEF ingressVars
<1>. QED
  BY <1>1, <1>3, <1>4, <1>5, <1>6, <1>7, <1>8, <1>9 DEF IngressNext

LEMMA InvAlways == IngressSpec => []Inv
BY InvInit, InvNext, PTL DEF IngressSpec

-----------------------------------------------------------------------------
(* The ids: decimal digits, compared as strings.                           *)

LEMMA LeastOf ==
    ASSUME NEW S \in SUBSET Nat, S # {}
    PROVE  \E x \in S : \A y \in S : x <= y
<1>. DEFINE R == OpToRel(<, Nat)
<1>1. IsWellFoundedOn(R, Nat)  BY NatLessThanWellFounded
<1>2. \A x, y \in Nat : <<y, x>> \in R <=> y < x  BY DEF OpToRel
<1>. HIDE DEF R
<1>3. PICK x \in S : \A y \in S : ~ (<<y, x>> \in R)  BY <1>1, WFMin
<1>4. \A y \in S : x \in Nat /\ y \in Nat /\ ~ (y < x)  BY <1>2, <1>3
<1>. QED  BY <1>3, <1>4

LEMMA Decimal ==
    ASSUME NEW n \in Nat
    PROVE  /\ n \div 10 \in Nat /\ n % 10 \in 0..9
           /\ n = 10 * (n \div 10) + (n % 10)
           /\ n >= 10 => n \div 10 < n /\ n \div 10 >= 1
OBVIOUS

\* digits is the function its equation describes: every beginning of it exists,
\* two beginnings agree, and the value at n is that of any one that reaches n.
DigitsOf(g, k) == IF k < 10 THEN <<k>> ELSE Append(g[k \div 10], k % 10)
Begins(g, n) == \A k \in 0..n : g[k] = DigitsOf(g, k)

LEMMA BeginningExists ==
    ASSUME NEW n \in Nat
    PROVE  \E g : Begins(g, n)
<1>. DEFINE B == {m \in Nat : ~ \E g : Begins(g, m)}
<1>1. SUFFICES ASSUME B # {} PROVE FALSE  OBVIOUS
<1>2. PICK m \in B : \A k \in B : m <= k
  <2>1. B \in SUBSET Nat  OBVIOUS
  <2>. HIDE DEF B
  <2>. QED  BY <1>1, <2>1, LeastOf
<1>3. m \in Nat /\ \A g : ~ Begins(g, m)  OBVIOUS
<1>4. \E g : \A k \in 0..(m - 1) : g[k] = DigitsOf(g, k)
  <2>1. CASE m = 0  BY <2>1
  <2>2. CASE m # 0
    <3>1. m - 1 \in Nat /\ m - 1 \notin B  BY <1>2, <1>3, <2>2
    <3>. QED  BY <3>1 DEF Begins
  <2>. QED  BY <2>1, <2>2
<1>5. PICK g : \A k \in 0..(m - 1) : g[k] = DigitsOf(g, k)  BY <1>4
<1>. DEFINE h == [k \in 0..m |-> IF k = m THEN DigitsOf(g, m) ELSE g[k]]
<1>6. ASSUME NEW k \in 0..m PROVE h[k] = DigitsOf(h, k)
  <2>1. k >= 10 => k \div 10 \in 0..(m - 1) /\ h[k \div 10] = g[k \div 10]
    <3>1. SUFFICES ASSUME k >= 10
                   PROVE  k \div 10 \in 0..(m - 1) /\ h[k \div 10] = g[k \div 10]
      OBVIOUS
    <3>2. k \div 10 \in Nat /\ k \div 10 < k  BY <3>1, Decimal
    <3>3. k \div 10 \in 0..m /\ k \div 10 # m /\ k \div 10 \in 0..(m - 1)
      BY <1>3, <3>2
    <3>. QED  BY <3>3
  <2>2. DigitsOf(h, k) = DigitsOf(g, k)  BY <2>1 DEF DigitsOf
  <2>3. h[k] = DigitsOf(g, k)
    <3>1. CASE k = m  BY <3>1
    <3>2. CASE k # m
      <4>1. k \in 0..(m - 1) /\ h[k] = g[k]  BY <1>3, <3>2
      <4>. QED  BY <1>5, <4>1
    <3>. QED  BY <3>1, <3>2
  <2>. QED  BY <2>2, <2>3
<1>. HIDE DEF h
<1>7. Begins(h, m)  BY <1>6 DEF Begins
<1>. QED  BY <1>3, <1>7

LEMMA BeginningsAgree ==
    ASSUME NEW g, NEW h, NEW m \in Nat, NEW n \in Nat, NEW p \in Nat,
           Begins(g, m), Begins(h, n), p <= m, p <= n
    PROVE  g[p] = h[p]
<1>. DEFINE B == {k \in Nat : k <= m /\ k <= n /\ g[k] # h[k]}
<1>1. SUFFICES ASSUME B # {} PROVE FALSE  OBVIOUS
<1>2. PICK k \in B : \A l \in B : k <= l
  <2>1. B \in SUBSET Nat  OBVIOUS
  <2>. HIDE DEF B
  <2>. QED  BY <1>1, <2>1, LeastOf
<1>3. k \in 0..m /\ k \in 0..n /\ k \in Nat /\ g[k] # h[k]  OBVIOUS
<1>4. g[k] = DigitsOf(g, k) /\ h[k] = DigitsOf(h, k)  BY <1>3 DEF Begins
<1>5. k >= 10 => g[k \div 10] = h[k \div 10]
  <2>1. SUFFICES ASSUME k >= 10 PROVE g[k \div 10] = h[k \div 10]  OBVIOUS
  <2>2. k \div 10 \in Nat /\ k \div 10 < k  BY <1>3, <2>1, Decimal
  <2>3. k \div 10 \notin B  BY <1>2, <1>3, <2>2
  <2>4. k \div 10 <= m /\ k \div 10 <= n  BY <1>3, <2>2
  <2>. QED  BY <2>2, <2>3, <2>4
<1>6. DigitsOf(g, k) = DigitsOf(h, k)  BY <1>3, <1>5 DEF DigitsOf
<1>. QED  BY <1>3, <1>4, <1>6

LEMMA DigitsUnfold == \A n \in Nat : digits[n] = DigitsOf(digits, n)
<1>. DEFINE Reaching(n) == CHOOSE g : Begins(g, n)
            F == [n \in Nat |-> Reaching(n)[n]]
<1>1. \A n \in Nat : Begins(Reaching(n), n)  BY BeginningExists
<1>. HIDE DEF Reaching
<1>2. ASSUME NEW n \in Nat PROVE F[n] = DigitsOf(F, n)
  <2>1. F[n] = DigitsOf(Reaching(n), n)
    <3>1. n \in 0..n  OBVIOUS
    <3>. QED  BY <1>1, <3>1 DEF Begins
  <2>2. n >= 10 => Reaching(n)[n \div 10] = F[n \div 10]
    <3>1. SUFFICES ASSUME n >= 10 PROVE Reaching(n)[n \div 10] = F[n \div 10]
      OBVIOUS
    <3>2. n \div 10 \in Nat /\ n \div 10 <= n  BY <3>1, Decimal
    <3>. DEFINE m == n \div 10
    <3>3. F[m] = Reaching(m)[m]  BY <3>2
    <3>4. m \in Nat /\ m <= n /\ m <= m  BY <3>2
    <3>. HIDE DEF m
    <3>5. Reaching(n)[m] = Reaching(m)[m]  BY <1>1, <3>4, BeginningsAgree
    <3>. QED  BY <3>3, <3>5 DEF m
  <2>. HIDE DEF F
  <2>. QED  BY <2>1, <2>2 DEF DigitsOf
<1>3. F = [n \in Nat |-> DigitsOf(F, n)]
  <2>1. F = [n \in Nat |-> F[n]]  OBVIOUS
  <2>. HIDE DEF F
  <2>. QED  BY <1>2, <2>1
<1>. DEFINE Solves(f) == f = [n \in Nat |-> DigitsOf(f, n)]
<1>4. digits = CHOOSE f : Solves(f)  BY DEF digits, DigitsOf
<1>5. Solves(F)  BY <1>3
<1>6. Solves(digits)
  <2>. HIDE DEF Solves, F
  <2>. QED  BY <1>4, <1>5
<1>7. digits = [n \in Nat |-> DigitsOf(digits, n)]  BY <1>6
<1>. QED  BY <1>7

LEMMA AppendIs ==
    ASSUME NEW s \in Seq(0..9), NEW e \in 0..9
    PROVE  /\ Len(s) \in Nat /\ Len(Append(s, e)) = Len(s) + 1
           /\ \A p \in 1..Len(s) : Append(s, e)[p] = s[p]
           /\ Append(s, e)[Len(s) + 1] = e
BY AppendProperties, LenProperties

LEMMA DigitsTyped ==
    ASSUME NEW n \in Nat
    PROVE  digits[n] \in Seq(0..9) /\ Len(digits[n]) >= 1 /\ (Len(digits[n]) = 1 <=> n < 10)
<1>. DEFINE Good(k) == /\ digits[k] \in Seq(0..9) /\ Len(digits[k]) >= 1
                       /\ Len(digits[k]) = 1 <=> k < 10
            B == {k \in Nat : ~ Good(k)}
<1>1. SUFFICES ASSUME B # {} PROVE FALSE  OBVIOUS
<1>2. PICK k \in B : \A l \in B : k <= l
  <2>1. B \in SUBSET Nat  OBVIOUS
  <2>. HIDE DEF B
  <2>. QED  BY <1>1, <2>1, LeastOf
<1>3. k \in Nat /\ ~ Good(k)  OBVIOUS
<1>4. CASE k < 10
  <2>0. digits[k] = DigitsOf(digits, k)  BY <1>3, DigitsUnfold
  <2>1. digits[k] = <<k>> /\ k \in 0..9  BY <1>3, <1>4, <2>0 DEF DigitsOf
  <2>. QED  BY <1>3, <1>4, <2>1
<1>5. CASE k >= 10
  <2>. DEFINE d == k \div 10
  <2>1. d \in Nat /\ d < k /\ k % 10 \in 0..9  BY <1>3, <1>5, Decimal
  <2>0. digits[k] = DigitsOf(digits, k)  BY <1>3, DigitsUnfold
  <2>2. digits[k] = Append(digits[d], k % 10)  BY <1>3, <1>5, <2>0 DEF DigitsOf
  <2>. HIDE DEF d
  <2>3. d \notin B  BY <1>2, <1>3, <2>1
  <2>4. digits[d] \in Seq(0..9) /\ Len(digits[d]) >= 1  BY <2>1, <2>3
  <2>5. /\ Append(digits[d], k % 10) \in Seq(0..9)
        /\ Len(Append(digits[d], k % 10)) = Len(digits[d]) + 1 /\ Len(digits[d]) \in Nat
    BY <2>1, <2>4, AppendProperties, LenProperties
  <2>. QED  BY <1>3, <1>5, <2>2, <2>4, <2>5
<1>. QED  BY <1>3, <1>4, <1>5

\* Go's comparison of two strings.
Less(s, t) ==
    \E k \in 1..Len(t) :
        /\ Len(s) >= k - 1
        /\ \A p \in 1..(k - 1) : s[p] = t[p]
        /\ Len(s) >= k => s[k] < t[k]

LEMMA LessIsStrict ==
    ASSUME NEW s \in Seq(Nat)
    PROVE  ~ Less(s, s)
<1>1. SUFFICES ASSUME NEW k \in 1..Len(s), s[k] < s[k] PROVE FALSE
  BY LenProperties DEF Less
<1>2. s[k] \in Nat  BY ElementOfSeq
<1>. QED  BY <1>1, <1>2

LEMMA LessIsTransitive ==
    ASSUME NEW s \in Seq(Nat), NEW t \in Seq(Nat), NEW u \in Seq(Nat),
           Less(s, t), Less(t, u)
    PROVE  Less(s, u)
<1>1. Len(s) \in Nat /\ Len(t) \in Nat /\ Len(u) \in Nat  BY LenProperties
<1>2. PICK j \in 1..Len(t) : /\ Len(s) >= j - 1
                             /\ \A p \in 1..(j - 1) : s[p] = t[p]
                             /\ Len(s) >= j => s[j] < t[j]
  BY DEF Less
<1>3. PICK k \in 1..Len(u) : /\ Len(t) >= k - 1
                             /\ \A p \in 1..(k - 1) : t[p] = u[p]
                             /\ Len(t) >= k => t[k] < u[k]
  BY DEF Less
<1>4. /\ \A p \in 1..Len(s) : s[p] \in Nat
      /\ \A p \in 1..Len(t) : t[p] \in Nat
      /\ \A p \in 1..Len(u) : u[p] \in Nat
  BY ElementOfSeq
<1>5. CASE j < k
  <2>1. j \in 1..Len(u) /\ j \in 1..(k - 1)  BY <1>1, <1>3, <1>5
  <2>2. \A p \in 1..(j - 1) : p \in 1..(k - 1)  BY <1>5
  <2>3. \A p \in 1..(j - 1) : s[p] = u[p]  BY <1>2, <1>3, <2>2
  <2>4. Len(s) >= j => s[j] < u[j]  BY <1>2, <1>3, <2>1
  <2>. QED  BY <1>2, <2>1, <2>3, <2>4 DEF Less
<1>6. CASE k < j
  <2>1. k \in 1..(j - 1) /\ Len(t) >= k /\ Len(s) >= k - 1  BY <1>1, <1>2, <1>6, SMTT(30)
  <2>2. \A p \in 1..(k - 1) : p \in 1..(j - 1)  BY <1>6
  <2>3. \A p \in 1..(k - 1) : s[p] = u[p]  BY <1>2, <1>3, <2>2
  <2>4. s[k] < u[k]  BY <1>2, <1>3, <2>1
  <2>. QED  BY <2>1, <2>3, <2>4 DEF Less
<1>7. CASE j = k
  <2>1. \A p \in 1..(k - 1) : s[p] = u[p]  BY <1>2, <1>3, <1>7
  <2>2. Len(s) >= k => s[k] < u[k]
    <3>1. SUFFICES ASSUME Len(s) >= k PROVE s[k] < u[k]  OBVIOUS
    <3>2. k \in 1..Len(s) /\ k \in 1..Len(t) /\ Len(t) >= k  BY <1>1, <1>7, <3>1
    <3>3. s[k] \in Nat /\ t[k] \in Nat /\ u[k] \in Nat  BY <1>4, <3>2
    <3>4. s[k] < t[k] /\ t[k] < u[k]  BY <1>2, <1>3, <1>7, <3>1, <3>2
    <3>. QED  BY <3>3, <3>4
  <2>. QED  BY <1>2, <1>7, <2>1, <2>2 DEF Less
<1>. QED  BY <1>5, <1>6, <1>7

LEMMA LessIsTotal ==
    ASSUME NEW s \in Seq(Nat), NEW t \in Seq(Nat), s # t
    PROVE  Less(s, t) \/ Less(t, s)
<1>1. Len(s) \in Nat /\ Len(t) \in Nat  BY LenProperties
<1>. DEFINE D == {k \in Nat \ {0} : k > Len(s) \/ k > Len(t) \/ s[k] # t[k]}
<1>2. PICK k \in D : \A l \in D : k <= l
  <2>1. D \in SUBSET Nat /\ Len(s) + 1 \in D  BY <1>1
  <2>. HIDE DEF D
  <2>. QED  BY <2>1, LeastOf
<1>3. k \in Nat \ {0} /\ (k > Len(s) \/ k > Len(t) \/ s[k] # t[k])  OBVIOUS
<1>4. \A p \in 1..(k - 1) : p <= Len(s) /\ p <= Len(t) /\ s[p] = t[p]
  <2>1. TAKE p \in 1..(k - 1)
  <2>2. p \notin D /\ p \in Nat \ {0}  BY <1>2, <1>3
  <2>. QED  BY <1>1, <2>2
<1>5. Len(s) >= k - 1 /\ Len(t) >= k - 1
  <2>1. CASE k = 1  BY <1>1, <2>1
  <2>2. CASE k # 1
    <3>1. k - 1 \in 1..(k - 1)  BY <1>3, <2>2
    <3>. QED  BY <1>4, <3>1
  <2>. QED  BY <2>1, <2>2
<1>. HIDE DEF D
<1>6. CASE k > Len(s) /\ k > Len(t)
  <2>1. Len(s) = Len(t) /\ Len(s) = k - 1  BY <1>1, <1>3, <1>5, <1>6
  <2>2. \A p \in 1..Len(s) : s[p] = t[p]  BY <1>4, <2>1
  <2>. QED  BY <2>1, <2>2, SeqEqual
<1>7. CASE k > Len(s) /\ k <= Len(t)
  <2>1. k \in 1..Len(t) /\ ~ (Len(s) >= k)  BY <1>1, <1>3, <1>7
  <2>. QED  BY <1>4, <1>5, <2>1 DEF Less
<1>8. CASE k <= Len(s) /\ k > Len(t)
  <2>1. k \in 1..Len(s) /\ ~ (Len(t) >= k)  BY <1>1, <1>3, <1>8
  <2>. QED  BY <1>4, <1>5, <2>1 DEF Less
<1>9. CASE k <= Len(s) /\ k <= Len(t)
  <2>1. k \in 1..Len(s) /\ k \in 1..Len(t) /\ s[k] # t[k]  BY <1>1, <1>3, <1>9
  <2>2. s[k] \in Nat /\ t[k] \in Nat  BY <2>1, ElementOfSeq
  <2>3. s[k] < t[k] \/ t[k] < s[k]  BY <2>1, <2>2
  <2>. QED  BY <1>4, <1>5, <2>1, <2>3 DEF Less
<1>. QED  BY <1>1, <1>3, <1>6, <1>7, <1>8, <1>9

\* Among ids of one length the order is that of the numbers.
LEMMA LengthThenNumber ==
    ASSUME NEW m \in Nat, NEW n \in Nat, m < n, Len(digits[m]) = Len(digits[n])
    PROVE  Less(digits[m], digits[n])
<1>. DEFINE Good(k) == \A l \in Nat : l < k /\ Len(digits[l]) = Len(digits[k])
                           => Less(digits[l], digits[k])
            B == {k \in Nat : ~ Good(k)}
<1>1. SUFFICES ASSUME B # {} PROVE FALSE  OBVIOUS
<1>2. PICK k \in B : \A i \in B : k <= i
  <2>1. B \in SUBSET Nat  OBVIOUS
  <2>. HIDE DEF B
  <2>. QED  BY <1>1, <2>1, LeastOf
<1>3. PICK l \in Nat : /\ l < k /\ Len(digits[l]) = Len(digits[k])
                       /\ ~ Less(digits[l], digits[k])
  OBVIOUS
<1>4. k \in Nat /\ (k < 10 <=> l < 10)  BY <1>3, DigitsTyped
<1>0. digits[k] = DigitsOf(digits, k) /\ digits[l] = DigitsOf(digits, l)
  BY <1>4, DigitsUnfold
<1>5. CASE k < 10
  <2>1. digits[k] = <<k>> /\ digits[l] = <<l>>
    BY <1>0, <1>4, <1>5 DEF DigitsOf
  <2>2. Less(<<l>>, <<k>>)  BY <1>3, <1>4 DEF Less
  <2>. QED  BY <1>3, <2>1, <2>2
<1>6. CASE k >= 10
  <2>. DEFINE a == digits[l \div 10]
              b == digits[k \div 10]
              n0 == Len(b)
  <2>1. l >= 10  BY <1>4, <1>6
  <2>2. /\ l \div 10 \in Nat /\ k \div 10 \in Nat /\ k \div 10 < k
        /\ l % 10 \in 0..9 /\ k % 10 \in 0..9
        /\ l = 10 * (l \div 10) + (l % 10) /\ k = 10 * (k \div 10) + (k % 10)
    BY <1>4, <1>6, Decimal
  <2>3. digits[l] = Append(a, l % 10) /\ digits[k] = Append(b, k % 10)
    BY <1>0, <1>4, <1>6, <2>1, SMTT(30) DEF DigitsOf
  <2>4. a \in Seq(0..9) /\ b \in Seq(0..9)  BY <2>2, DigitsTyped
  <2>5. k \div 10 \notin B  BY <1>2, <1>4, <2>2
  <2>6. Len(a) = Len(b) => (l \div 10 < k \div 10 => Less(a, b))  BY <2>2, <2>5
  <2>7. l \div 10 <= k \div 10 /\ (l \div 10 = k \div 10 => l % 10 < k % 10)
    <3>. DEFINE x == l \div 10
                y == k \div 10
                e == l % 10
                f == k % 10
    <3>1. /\ x \in Nat /\ y \in Nat /\ e \in 0..9 /\ f \in 0..9
          /\ l = 10 * x + e /\ k = 10 * y + f /\ l < k
      BY <1>3, <2>2
    <3>. HIDE DEF x, y, e, f
    <3>2. x <= y /\ (x = y => e < f)  BY <3>1
    <3>. QED  BY <3>2 DEF x, y, e, f
  <2>8. l \div 10 = k \div 10 => a = b  OBVIOUS
  <2>. HIDE DEF a, b
  <2>9. /\ Len(a) \in Nat /\ n0 \in Nat
        /\ Len(digits[l]) = Len(a) + 1 /\ Len(digits[k]) = n0 + 1
        /\ \A p \in 1..Len(a) : digits[l][p] = a[p]
        /\ \A p \in 1..n0 : digits[k][p] = b[p]
        /\ digits[l][Len(a) + 1] = l % 10 /\ digits[k][n0 + 1] = k % 10
    <3>1. /\ Len(a) \in Nat /\ Len(digits[l]) = Len(a) + 1
          /\ \A p \in 1..Len(a) : digits[l][p] = a[p]
          /\ digits[l][Len(a) + 1] = l % 10
      BY <2>2, <2>3, <2>4, AppendIs
    <3>2. /\ Len(b) \in Nat /\ Len(digits[k]) = Len(b) + 1
          /\ \A p \in 1..Len(b) : digits[k][p] = b[p]
          /\ digits[k][Len(b) + 1] = k % 10
      BY <2>2, <2>3, <2>4, AppendIs
    <3>. QED  BY <3>1, <3>2
  <2>10. Len(a) = n0
    <3>1. Len(a) + 1 = n0 + 1  BY <1>3, <2>9
    <3>2. Len(a) \in Nat /\ n0 \in Nat  BY <2>9
    <3>. HIDE DEF n0
    <3>. QED  BY <3>1, <3>2
  <2>11. CASE l \div 10 < k \div 10
    <3>1. PICK q \in 1..Len(b) : /\ Len(a) >= q - 1
                                 /\ \A p \in 1..(q - 1) : a[p] = b[p]
                                 /\ Len(a) >= q => a[q] < b[q]
      BY <2>6, <2>10, <2>11 DEF Less
    <3>2. q \in 1..Len(a) /\ q \in 1..n0 /\ q \in 1..Len(digits[k])
          /\ Len(digits[l]) >= q - 1 /\ Len(a) >= q
      BY <2>9, <2>10, SMTT(30)
    <3>3. \A p \in 1..(q - 1) : p \in 1..Len(a) /\ p \in 1..n0  BY <3>2, <2>10
    <3>4. \A p \in 1..(q - 1) : digits[l][p] = digits[k][p]  BY <2>9, <3>1, <3>3
    <3>5. digits[l][q] < digits[k][q]  BY <2>9, <3>1, <3>2
    <3>. QED  BY <1>3, <3>2, <3>4, <3>5 DEF Less
  <2>12. CASE l \div 10 = k \div 10
    <3>. DEFINE q == n0 + 1
    <3>1. q \in 1..Len(digits[k]) /\ Len(digits[l]) >= q - 1  BY <2>9, <2>10
    <3>2. \A p \in 1..(q - 1) : digits[l][p] = digits[k][p]
      BY <2>8, <2>9, <2>10, <2>12, SMTT(30)
    <3>3. digits[l][q] < digits[k][q]  BY <2>7, <2>9, <2>10, <2>12
    <3>. HIDE DEF q
    <3>. QED  BY <1>3, <3>1, <3>2, <3>3 DEF Less
  <2>. QED  BY <2>2, <2>7, <2>11, <2>12
<1>. QED  BY <1>4, <1>5, <1>6

LEMMA DigitsDiffer ==
    ASSUME NEW m \in Nat, NEW n \in Nat, m # n
    PROVE  digits[m] # digits[n]
<1>1. ASSUME NEW i \in Nat, NEW j \in Nat, i < j PROVE digits[i] # digits[j]
  <2>1. SUFFICES ASSUME digits[i] = digits[j] PROVE FALSE  OBVIOUS
  <2>2. Less(digits[i], digits[i])  BY <1>1, <2>1, LengthThenNumber
  <2>3. digits[i] \in Seq(Nat)
    <3>1. digits[i] \in Seq(0..9) /\ 0..9 \subseteq Nat  BY DigitsTyped
    <3>. QED  BY <3>1, SeqMonotonic
  <2>. QED  BY <2>2, <2>3, LessIsStrict
<1>2. m < n \/ n < m  OBVIOUS
<1>. QED  BY <1>1, <1>2

\* List's order of ids is a strict total order, and first-in first-out among ids
\* of one length.
LEMMA IdOrder ==
    /\ \A i \in Nat : ~ IdLess(i, i)
    /\ \A i, j \in Nat : i # j => (IdLess(i, j) <=> ~ IdLess(j, i))
    /\ \A i, j, k \in Nat : IdLess(i, j) /\ IdLess(j, k) => IdLess(i, k)
    /\ \A i, j \in Nat : i < j /\ Len(digits[i]) = Len(digits[j]) => IdLess(i, j)
<1>1. \A i, j : IdLess(i, j) <=> Less(digits[i], digits[j])  BY DEF IdLess, Less
<1>2. \A i \in Nat : digits[i] \in Seq(Nat)
  <2>1. TAKE i \in Nat
  <2>2. digits[i] \in Seq(0..9) /\ 0..9 \subseteq Nat  BY DigitsTyped
  <2>. QED  BY <2>2, SeqMonotonic
<1>3. \A i \in Nat : ~ Less(digits[i], digits[i])  BY <1>2, LessIsStrict
<1>4. \A i, j, k \in Nat : Less(digits[i], digits[j]) /\ Less(digits[j], digits[k])
                               => Less(digits[i], digits[k])
  BY <1>2, LessIsTransitive
<1>5. \A i, j \in Nat : i # j =>
          (Less(digits[i], digits[j]) <=> ~ Less(digits[j], digits[i]))
  <2>1. \A i, j \in Nat : i # j => Less(digits[i], digits[j]) \/ Less(digits[j], digits[i])
    BY <1>2, LessIsTotal, DigitsDiffer
  <2>. QED  BY <1>3, <1>4, <2>1
<1>6. \A i, j \in Nat : i < j /\ Len(digits[i]) = Len(digits[j])
                          => Less(digits[i], digits[j])
  BY LengthThenNumber
<1>. QED  BY <1>1, <1>3, <1>4, <1>5, <1>6

-----------------------------------------------------------------------------
(* The list.                                                               *)

\* Later items are not older.
CreatedInOrder ==
    \A i, j \in Pending : i < j => items[i].createdAt <= items[j].createdAt


LEMMA StoreTypesKept == StoreTypeOK /\ [StoreNext]_storeVars => StoreTypeOK'
<1>. SUFFICES ASSUME StoreTypeOK, [StoreNext]_storeVars PROVE StoreTypeOK'  OBVIOUS
<1>1. ASSUME NEW t \in Targets \cup {NoTarget}, Add(t) PROVE StoreTypeOK'
  BY <1>1, AddAppends
<1>2. ASSUME NEW i \in Pending, Complete(i) PROVE StoreTypeOK'
  <2>1. items' = [x \in Pending \ {i} |-> items[x]]  BY <1>2 DEF Complete, Restrict
  <2>2. Pending' = Pending \ {i}  BY <2>1 DEF Pending
  <2>. QED  BY <1>2, <2>1, <2>2 DEF Complete, StoreTypeOK
<1>3. CASE Tick  BY <1>3, BoundsAssumption DEF Tick, StoreTypeOK, Pending, Item
<1>4. CASE UNCHANGED storeVars  BY <1>4 DEF storeVars, StoreTypeOK, Pending
<1>. QED  BY <1>1, <1>2, <1>3, <1>4 DEF StoreNext

LEMMA StaysInOrder ==
    ASSUME StoreTypeOK, CreatedInOrder, [StoreNext]_storeVars
    PROVE  CreatedInOrder'
<1>1. /\ nextID \in Nat /\ Pending \subseteq 1..nextID /\ clock \in Int
      /\ \A i \in Pending : items[i].createdAt <= clock
  BY BoundsAssumption DEF StoreTypeOK
<1>2. ASSUME NEW t, Add(t) PROVE CreatedInOrder'
  <2>. DEFINE new == nextID + 1
  <2>1. items' = [i \in Pending \cup {new} |->
                    IF i \in Pending THEN items[i] ELSE [target |-> t, createdAt |-> clock]]
    BY <1>2 DEF Add
  <2>2. Pending' = Pending \cup {new}  BY <2>1 DEF Pending
  <2>3. new \notin Pending /\ \A i \in Pending : i < new  BY <1>1
  <2>4. /\ \A i \in Pending : items'[i] = items[i]
        /\ items'[new].createdAt = clock
    BY <2>1, <2>3
  <2>5. \A i \in Pending : ~ (new < i)  BY <1>1
  <2>6. ~ (new < new)  BY <1>1
  <2>. HIDE DEF new
  <2>7. ASSUME NEW i \in Pending', NEW j \in Pending', i < j
        PROVE  items'[i].createdAt <= items'[j].createdAt
    <3>1. CASE i \in Pending /\ j \in Pending
      BY <2>4, <2>7, <3>1 DEF CreatedInOrder
    <3>2. CASE i \in Pending /\ j = new
      BY <1>1, <2>4, <3>2
    <3>3. CASE i = new
      BY <2>2, <2>5, <2>6, <2>7, <3>3
    <3>. QED  BY <2>2, <3>1, <3>2, <3>3
  <2>. QED  BY <2>7 DEF CreatedInOrder
<1>3. ASSUME NEW n \in Pending, Complete(n) PROVE CreatedInOrder'
  <2>1. items' = [i \in Pending \ {n} |-> items[i]]  BY <1>3 DEF Complete, Restrict
  <2>2. Pending' = Pending \ {n}  BY <2>1 DEF Pending
  <2>3. \A i \in Pending' : i \in Pending /\ items'[i] = items[i]  BY <2>1, <2>2
  <2>. QED  BY <2>3 DEF CreatedInOrder
<1>4. ASSUME items' = items PROVE CreatedInOrder'
  BY <1>4 DEF CreatedInOrder, Pending
<1>. QED  BY <1>2, <1>3, <1>4 DEF StoreNext, Tick, storeVars

-----------------------------------------------------------------------------
\* List's order is a strict total order on whatever is stored, so that sort.Slice
\* has one result; and it is the order of arrival among ids of one length
\* (store.go:52-70).  That holds wherever the list is used through its methods.
THEOREM ListIsFifo == StoreSpec => []FifoWithinIdLength
<1>1. StoreInit => StoreTypeOK /\ CreatedInOrder
  BY BoundsAssumption DEF StoreInit, StoreTypeOK, CreatedInOrder, Pending
<1>2. StoreTypeOK /\ CreatedInOrder /\ [StoreNext]_storeVars => (StoreTypeOK /\ CreatedInOrder)'
  BY StaysInOrder, StoreTypesKept
<1>3. StoreTypeOK /\ CreatedInOrder => FifoWithinIdLength
  <2>. SUFFICES ASSUME StoreTypeOK, CreatedInOrder PROVE FifoWithinIdLength  OBVIOUS
  <2>. DEFINE At(i) == items[i].createdAt
  <2>1. Pending \subseteq Nat /\ \A i \in Pending : At(i) \in Nat
    <3>1. Pending \subseteq 1..nextID /\ \A i \in Pending : items[i] \in Item
      BY DEF StoreTypeOK
    <3>. QED  BY <3>1 DEF Item
  <2>2. \A i, j \in Pending : i < j => At(i) <= At(j)  BY DEF CreatedInOrder
  <2>3. \A i, j : Precedes(i, j) <=> At(i) < At(j) \/ (At(i) = At(j) /\ IdLess(i, j))
    BY DEF Precedes
  <2>. HIDE DEF At
  <2>4. ASSUME NEW i \in Pending, NEW j \in Pending, NEW k \in Pending
        PROVE  /\ ~ Precedes(i, i)
               /\ i # j => (Precedes(i, j) <=> ~ Precedes(j, i))
               /\ Precedes(i, j) /\ Precedes(j, k) => Precedes(i, k)
    <3>1. /\ ~ IdLess(i, i)
          /\ i # j => (IdLess(i, j) <=> ~ IdLess(j, i))
          /\ IdLess(i, j) /\ IdLess(j, k) => IdLess(i, k)
      BY <2>1, IdOrder
    <3>2. At(i) \in Nat /\ At(j) \in Nat /\ At(k) \in Nat  BY <2>1
    <3>. QED  BY <2>3, <3>1, <3>2
  <2>5. ASSUME NEW i \in Pending, NEW j \in Pending, i < j, Len(digits[i]) = Len(digits[j])
        PROVE  Precedes(i, j)
    <3>1. IdLess(i, j)  BY <2>1, <2>5, IdOrder
    <3>2. At(i) <= At(j) /\ At(i) \in Nat /\ At(j) \in Nat  BY <2>1, <2>2, <2>5
    <3>. QED  BY <2>3, <3>1, <3>2
  <2>. QED  BY <2>4, <2>5 DEF FifoWithinIdLength, ListOrderIsTotal
<1>. QED  BY <1>1, <1>2, <1>3, PTL DEF StoreSpec

\* A list that is not empty has a first and a last item (List()[0] and the item
\* whose source an activation takes; agent.go:171-174, 210-221): the agent never looks
\* for one in vain.
THEOREM ListHasEnds ==
    StoreSpec => [](~ IsEmpty => /\ \E i \in Pending : IsFirst(i)
                                 /\ \E i \in Pending : IsLast(i))
<1>1. ASSUME StoreTypeOK, ListOrderIsTotal, ~ IsEmpty
      PROVE  (\E i \in Pending : IsFirst(i)) /\ (\E i \in Pending : IsLast(i))
  <2>1. IsFiniteSet(Pending)
    <3>1. nextID \in Nat /\ Pending \subseteq 1..nextID
      BY <1>1, BoundsAssumption DEF StoreTypeOK
    <3>2. IsFiniteSet(1..nextID)  BY <3>1, FS_Interval
    <3>. QED  BY <3>1, <3>2, FS_Subset
  <2>2. Pending # {}  BY <1>1 DEF IsEmpty
  <2>3. \A i, j, k \in Pending :
            /\ ~ Precedes(i, i)
            /\ i # j => (Precedes(i, j) <=> ~ Precedes(j, i))
            /\ Precedes(i, j) /\ Precedes(j, k) => Precedes(i, k)
    BY <1>1 DEF ListOrderIsTotal
  <2>4. \E i \in Pending : \A j \in Pending : ~ Precedes(j, i)
    <3>. DEFINE Before(i) == {j \in Pending : Precedes(j, i)}
                Counts == {Cardinality(Before(i)) : i \in Pending}
    <3>1. \A i \in Pending : IsFiniteSet(Before(i)) /\ Cardinality(Before(i)) \in Nat
      BY <2>1, FS_Subset, FS_CardinalityType
    <3>2. Counts \in SUBSET Nat /\ Counts # {}  BY <2>2, <3>1
    <3>3. \E n \in Counts : \A m \in Counts : n <= m
      <4>. HIDE DEF Counts
      <4>. QED  BY <3>2, LeastOf
    <3>4. PICK i \in Pending : \A j \in Pending :
                  Cardinality(Before(i)) <= Cardinality(Before(j))
      BY <3>3
    <3>5. ASSUME NEW j \in Pending, Precedes(j, i) PROVE FALSE
      <4>1. Before(j) \subseteq Before(i)  BY <2>3, <3>5
      <4>2. j \in Before(i) /\ j \notin Before(j)  BY <2>3, <3>5
      <4>3. Before(j) # Before(i)  BY <4>2
      <4>. HIDE DEF Before
      <4>4. Cardinality(Before(j)) < Cardinality(Before(i))
        BY <3>1, <4>1, <4>3, FS_Subset
      <4>. QED  BY <3>1, <3>4, <4>4
    <3>. QED  BY <3>5
  <2>5. \E i \in Pending : \A j \in Pending : ~ Precedes(i, j)
    <3>. DEFINE After(i) == {j \in Pending : Precedes(i, j)}
                Counts == {Cardinality(After(i)) : i \in Pending}
    <3>1. \A i \in Pending : IsFiniteSet(After(i)) /\ Cardinality(After(i)) \in Nat
      BY <2>1, FS_Subset, FS_CardinalityType
    <3>2. Counts \in SUBSET Nat /\ Counts # {}  BY <2>2, <3>1
    <3>3. \E n \in Counts : \A m \in Counts : n <= m
      <4>. HIDE DEF Counts
      <4>. QED  BY <3>2, LeastOf
    <3>4. PICK i \in Pending : \A j \in Pending :
                  Cardinality(After(i)) <= Cardinality(After(j))
      BY <3>3
    <3>5. ASSUME NEW j \in Pending, Precedes(i, j) PROVE FALSE
      <4>1. After(j) \subseteq After(i)  BY <2>3, <3>5
      <4>2. j \in After(i) /\ j \notin After(j)  BY <2>3, <3>5
      <4>3. After(j) # After(i)  BY <4>2
      <4>. HIDE DEF After
      <4>4. Cardinality(After(j)) < Cardinality(After(i))
        BY <3>1, <4>1, <4>3, FS_Subset
      <4>. QED  BY <3>1, <3>4, <4>4
    <3>. QED  BY <3>5
  <2>6. \E i \in Pending : IsFirst(i)
    <3>1. PICK i \in Pending : \A j \in Pending : ~ Precedes(j, i)  BY <2>4
    <3>. QED  BY <2>3, <3>1 DEF IsFirst
  <2>7. \E i \in Pending : IsLast(i)
    <3>1. PICK i \in Pending : \A j \in Pending : ~ Precedes(i, j)  BY <2>5
    <3>. QED  BY <2>3, <3>1 DEF IsLast
  <2>. QED  BY <2>6, <2>7
<1>2. StoreInit => StoreTypeOK
  BY BoundsAssumption DEF StoreInit, StoreTypeOK, Pending
<1>3. StoreSpec => []StoreTypeOK  BY <1>2, StoreTypesKept, PTL DEF StoreSpec
<1>4. FifoWithinIdLength => ListOrderIsTotal  BY DEF FifoWithinIdLength
<1>. QED  BY <1>1, <1>3, <1>4, ListIsFifo, PTL

\* The ingress and what goes on beside it use the list through its methods, so what
\* is proved of the list holds there.
THEOREM UsesTheStore == IngressSpec => StoreSpec
<1>1. IngressInit => StoreInit  BY DEF IngressInit
<1>2. ASSUME [IngressNext]_ingressVars PROVE [StoreNext]_storeVars
  <2>1. ASSUME NEW e \in Events, HandleIncomingMessage(e) PROVE [StoreNext]_storeVars
    BY <2>1, EventTarget DEF HandleIncomingMessage, StoreNext
  <2>2. ASSUME NEW c \in Callers, NEW r \in Requests, Submit(c, r) PROVE [StoreNext]_storeVars
    <3>1. [type |-> "private", id |-> r.target] \in Targets  BY <2>2, RequestTarget DEF Submit
    <3>. QED  BY <2>2, <3>1 DEF Submit, StoreNext
  <2>3. ASSUME NEW c \in Callers, NEW r \in Requests, Refuse(c, r)
        PROVE  UNCHANGED storeVars
    BY <2>3 DEF Refuse
  <2>4. ASSUME NEW c \in Callers, Accept(c) PROVE UNCHANGED storeVars
    BY <2>4 DEF Accept
  <2>5. CASE BeginReport \/ Probe \/ EndReport \/ Connect \/ Disconnect \/ DirectoryLoads
             \/ UNCHANGED ingressVars
    BY <2>5 DEF BeginReport, Probe, EndReport, Connect, Disconnect, DirectoryLoads, Observe,
                ingressVars
  <2>6. CASE Elsewhere  BY <2>6 DEF Elsewhere, StoreNext
  <2>. QED  BY <1>2, <2>1, <2>2, <2>3, <2>4, <2>5, <2>6 DEF IngressNext
<1>. QED  BY <1>1, <1>2, PTL DEF IngressSpec, StoreSpec

\* In every reachable state the list, the calls and the report are well typed,
\* and every item has a cause.
THEOREM TypeCorrect == IngressSpec => []IngressTypeOK
<1>1. Inv => IngressTypeOK  BY DEF Inv
<1>. QED  BY <1>1, InvAlways, PTL

\* However many callers submit while the agent works the list off, each one that
\* is told 202 has the id of its own item, and one that is refused has left none
\* (message.go:33-60, service.go:47-80).
THEOREM AnswersMatchItems == IngressSpec => []AnswersNameTheirItem
<1>1. Inv => AnswersNameTheirItem
  BY DEF Inv, CallsMatch, Matched, Unseen, ItemOf, AnswersNameTheirItem
<1>. QED  BY <1>1, InvAlways, PTL

\* A readiness report was true of each dependency at some moment of its making
\* (health/service.go:53-76).
THEOREM ReportsWereTrue == IngressSpec => []HealthReportWasTrue
<1>1. Inv => HealthReportWasTrue
  <2>. SUFFICES ASSUME Inv, Probed PROVE IF report.healthy
                    THEN Range(Probes) \subseteq report.up /\ loaded ELSE report.down # {}
    BY DEF HealthReportWasTrue
  <2>1. report \in Report /\ report.next > 2
    BY Probing DEF Inv, ReportMatches, Probed, NoReport
  <2>2. Range(Probes) = {"napcat", "napcat_directory"}  BY Probing DEF Dependencies
  <2>. QED  BY <2>1, <2>2 DEF Inv, ReportMatches, Probed, Report
<1>. QED  BY <1>1, InvAlways, PTL

\* What a step queues for QQ is what was asked for in it.
LEMMA AskedIsQueued ==
    ASSUME Inv, [IngressNext]_ingressVars
    PROVE  IF asked' # asked
           THEN /\ origin' = Append(origin, "qq")
                /\ items'[nextID'].target = asked'[Len(asked')]
           ELSE \/ origin' = origin
                \/ \E c \in Callers : origin' = Append(origin, c)
<1>0. StoreTypeOK /\ asked \in Seq(Chat)  BY DEF Inv, IngressTypeOK, Chat
<1>1. ASSUME NEW e \in Events, HandleIncomingMessage(e)
      PROVE  IF asked' # asked
             THEN /\ origin' = Append(origin, "qq")
                  /\ items'[nextID'].target = asked'[Len(asked')]
             ELSE origin' = origin
  <2>1. CASE Addressed(e)
    <3>. DEFINE t == ReplyTarget(e)
    <3>1. Add(t) /\ origin' = Append(origin, "qq") /\ asked' = Append(asked, t)
      BY <1>1, <2>1, AddressedIsActivated DEF HandleIncomingMessage
    <3>2. t \in Chat /\ t \in Targets \cup {NoTarget}
      BY EventTarget, ChatsTyped, AddressedIsActivated
    <3>. HIDE DEF t
    <3>3. items'[nextID'].target = t  BY <1>0, <3>1, <3>2, AddAppends
    <3>4. asked' # asked /\ asked'[Len(asked')] = t  BY <1>0, <3>1, <3>2
    <3>. QED  BY <3>1, <3>3, <3>4
  <2>2. CASE ~ Addressed(e)
    BY <1>1, <2>2, AddressedIsActivated DEF HandleIncomingMessage
  <2>. QED  BY <2>1, <2>2
<1>2. ASSUME NEW c \in Callers, NEW r \in Requests, Refuse(c, r) \/ Submit(c, r)
      PROVE  asked' = asked /\ (origin' = origin \/ origin' = Append(origin, c))
  BY <1>2 DEF Refuse, Submit
<1>3. ASSUME NEW c \in Callers, Accept(c) PROVE UNCHANGED <<asked, origin>>
  BY <1>3 DEF Accept
<1>4. CASE BeginReport \/ Probe \/ EndReport \/ Connect \/ Disconnect \/ DirectoryLoads
           \/ Elsewhere \/ UNCHANGED ingressVars
  <2>1. UNCHANGED <<asked, origin>>
    BY <1>4 DEF BeginReport, Probe, EndReport, Connect, Disconnect, DirectoryLoads,
                Observe, Elsewhere, ingressVars
  <2>. QED  BY <2>1
<1>. QED  BY <1>1, <1>2, <1>3, <1>4 DEF IngressNext

\* Whoever writes, each message that addresses the bot is queued at once and will
\* be answered where it came from, and no other message is (incoming.go:14-92).
THEOREM MentionsAreSeen == IngressSpec => QueuedIffAddressed
<1>1. Inv /\ [IngressNext]_ingressVars =>
        [IF asked' # asked
         THEN /\ origin' = Append(origin, "qq")
              /\ items'[nextID'].target = asked'[Len(asked')]
         ELSE \/ origin' = origin
              \/ \E c \in Callers : origin' = Append(origin, c)]_ingressVars
  BY AskedIsQueued
<1>. QED  BY <1>1, InvAlways, PTL DEF IngressSpec, QueuedIffAddressed
=============================================================================
