---------------------------- MODULE JudgmentProofs ----------------------------
(***************************************************************************)
(* Theorems about the two components that ask a model for a judgment:      *)
(* Tagging, for all clients, names, rules and bounds, and Moderator, for   *)
(* all comments and every threshold.  Moderator's inductive invariant says *)
(* what the scan knows between two characters: the words counted so far,   *)
(* and whether the field it is in has a word.                              *)
(***************************************************************************)
EXTENDS Tagging, Moderator, FiniteSetTheorems, TLAPS

\* The tags of a set that can be stored.
GoodTags(tags) ==
    /\ tags # {} /\ tags \subseteq Tag
    /\ \A t, u \in tags : t.name = u.name => t = u

Stored == [version : Nat, tags : SUBSET Tag]
Calls ==
    {Idle}
        \cup [pc : {"replace"}, set : SetNames, tags : SUBSET Tag]
        \cup [pc : {"ack"}, set : SetNames, version : Nat]
        \cup [pc : {"get"}, set : SetNames, since : Nat]
        \cup [pc : {"model"}, set : SetNames, since : Nat, shown : Stored]

Types ==
    /\ sets \in [SetNames -> Stored]
    /\ versions \in Nat
    /\ call \in [Clients -> Calls]
    /\ acked \in [SetNames -> Nat]
    /\ reply = [c \in Clients |-> reply[c]]

\* What is stored, and what is about to be stored, is good.
TagsGood ==
    /\ \A s \in SetNames : sets[s].version > 0 => GoodTags(sets[s].tags)
    /\ \A c \in Clients : call[c].pc = "replace" => GoodTags(call[c].tags)

\* A name's stored version never falls behind what was acknowledged for it, and
\* so what a request reads is not older than what it must see.
VersionsOrdered ==
    /\ \A s \in SetNames : acked[s] <= sets[s].version /\ sets[s].version <= versions
    /\ \A c \in Clients :
          /\ call[c].pc = "ack" => call[c].version <= sets[call[c].set].version
          /\ call[c].pc = "get" => call[c].since <= acked[call[c].set]
          /\ call[c].pc = "model" => call[c].since <= call[c].shown.version

Inv == Types /\ TagsGood /\ VersionsOrdered /\ MatchIsAsShown /\ ReadsAcknowledged

LEMMA InitInv == Init => Inv
<1> SUFFICES ASSUME Init PROVE Inv
  OBVIOUS
<1>1. Types
  BY DEF Init, Types, Stored, Calls
<1>2. TagsGood /\ VersionsOrdered
  BY DEF Init, TagsGood, VersionsOrdered, Idle
<1>3. MatchIsAsShown /\ ReadsAcknowledged
  BY DEF Init, MatchIsAsShown, ReadsAcknowledged, NoReply
<1>4. QED BY <1>1, <1>2, <1>3 DEF Inv

\* A valid request is cleaned to good tags.
LEMMA CleanedIsGood ==
    ASSUME NEW n \in Nat, NEW raws \in [1..n -> RawTag], Valid(raws)
    PROVE  GoodTags(Cleaned(raws))
<1>1. raws \in Seq(RawTag) /\ Len(raws) = n
  OBVIOUS
<1>2. n > 0
  BY <1>1 DEF Valid
<1>3. \A k \in 1..n : Trim(raws[k]) \in Tag
  BY <1>1 DEF Valid, RawTag, Tag, Trim
<1>4. \A j, k \in 1..n : Trim(raws[j]).name = Trim(raws[k]).name => j = k
  BY <1>1 DEF Valid, Trim
<1>5. QED BY <1>1, <1>2, <1>3, <1>4 DEF GoodTags, Cleaned

\* How a client's step changes the calls.
LEMMA CallUpdate ==
    ASSUME Types, NEW c \in Clients, NEW r \in Calls,
           call' = [call EXCEPT ![c] = r]
    PROVE  /\ call' \in [Clients -> Calls]
           /\ call'[c] = r
           /\ \A d \in Clients \ {c} : call'[d] = call[d]
BY DEF Types

LEMMA BeginRegisterInv ==
    ASSUME Inv, NEW c \in Clients, BeginRegister(c) PROVE Inv'
<1> USE DEF Inv
<1>1. PICK s \in SetNames, n \in 0..MaxTags : \E raws \in [1..n -> RawTag] :
          /\ Valid(raws)
          /\ call' = [call EXCEPT ![c] = [pc |-> "replace", set |-> s,
                                          tags |-> Cleaned(raws)]]
  BY DEF BeginRegister
<1>2. PICK raws \in [1..n -> RawTag] :
          /\ Valid(raws)
          /\ call' = [call EXCEPT ![c] = [pc |-> "replace", set |-> s,
                                          tags |-> Cleaned(raws)]]
  BY <1>1
<1>3. GoodTags(Cleaned(raws))
  BY <1>2, BoundsAssumption, CleanedIsGood
<1>4. [pc |-> "replace", set |-> s, tags |-> Cleaned(raws)] \in Calls
  BY <1>3 DEF GoodTags, Calls
<1>5. /\ call' \in [Clients -> Calls]
      /\ call'[c] = [pc |-> "replace", set |-> s, tags |-> Cleaned(raws)]
      /\ \A d \in Clients \ {c} : call'[d] = call[d]
  BY <1>2, <1>4, CallUpdate
<1>6. UNCHANGED <<sets, versions, acked, reply>>
  BY DEF BeginRegister
<1>7. Types'
  BY <1>5, <1>6 DEF Types
<1>8. TagsGood'
  BY <1>3, <1>5, <1>6 DEF TagsGood
<1>9. VersionsOrdered'
  BY <1>5, <1>6 DEF VersionsOrdered
<1>10. MatchIsAsShown' /\ ReadsAcknowledged'
  BY <1>6 DEF MatchIsAsShown, ReadsAcknowledged
<1>11. QED BY <1>7, <1>8, <1>9, <1>10

LEMMA ReplaceInv ==
    ASSUME Inv, NEW c \in Clients, Replace(c) PROVE Inv'
<1> DEFINE s == call[c].set
           r == [pc |-> "ack", set |-> s, version |-> versions']
<1> USE DEF Inv
<1>1. call[c] \in [pc : {"replace"}, set : SetNames, tags : SUBSET Tag]
  BY DEF Replace, Types, Calls, Idle
<1>2. s \in SetNames /\ GoodTags(call[c].tags) /\ call[c].tags \subseteq Tag
  BY <1>1 DEF TagsGood
<1>3. versions' = versions + 1 /\ versions' \in Nat /\ versions \in Nat
  BY DEF Replace, Types
<1>4. /\ sets' \in [SetNames -> Stored]
      /\ sets'[s] = [version |-> versions', tags |-> call[c].tags]
      /\ \A u \in SetNames \ {s} : sets'[u] = sets[u]
  BY <1>2, <1>3 DEF Replace, Types, Stored
<1>5. /\ call' \in [Clients -> Calls]
      /\ call'[c] = r
      /\ \A d \in Clients \ {c} : call'[d] = call[d]
  <2>1. r \in Calls
    BY <1>2, <1>3 DEF Calls
  <2>2. call' = [call EXCEPT ![c] = r]
    BY DEF Replace
  <2>3. QED BY <2>1, <2>2, CallUpdate
<1>6. UNCHANGED <<acked, reply>>
  BY DEF Replace
<1>7. Types'
  BY <1>3, <1>4, <1>5, <1>6 DEF Types
<1>8. TagsGood'
  BY <1>2, <1>4, <1>5 DEF TagsGood
<1>9. VersionsOrdered'
  <2>1. \A u \in SetNames : sets[u].version \in Nat /\ sets[u].version <= sets'[u].version
    BY <1>2, <1>3, <1>4 DEF VersionsOrdered, Types, Stored
  <2>2. \A u \in SetNames : /\ acked'[u] <= sets'[u].version
                            /\ sets'[u].version <= versions'
    BY <1>2, <1>3, <1>4, <1>6, <2>1 DEF VersionsOrdered, Types
  <2>3. ASSUME NEW d \in Clients
        PROVE  /\ call'[d].pc = "ack" => call'[d].version <= sets'[call'[d].set].version
               /\ call'[d].pc = "get" => call'[d].since <= acked'[call'[d].set]
               /\ call'[d].pc = "model" => call'[d].since <= call'[d].shown.version
    <3>1. CASE d = c
      BY <1>2, <1>3, <1>4, <1>5, <3>1
    <3>2. CASE d # c
      <4>1. call'[d] = call[d] /\ call[d] \in Calls
        BY <1>5, <3>2 DEF Types
      <4>2. call[d].pc = "ack" => call[d].set \in SetNames /\ call[d].version \in Nat
        BY <4>1 DEF Calls, Idle
      <4>3. call[d].pc = "ack" => call[d].version <= sets[call[d].set].version
        BY DEF VersionsOrdered
      <4>4. call[d].pc = "ack" => call[d].version <= sets'[call[d].set].version
        <5> SUFFICES ASSUME call[d].pc = "ack"
                     PROVE  call[d].version <= sets'[call[d].set].version
          OBVIOUS
        <5> DEFINE x == sets[call[d].set].version
                   y == sets'[call[d].set].version
        <5>1. x \in Nat /\ x <= y /\ call[d].version <= x /\ call[d].version \in Nat
          BY <2>1, <4>2, <4>3
        <5>2. y \in Nat
          BY <1>4, <4>2 DEF Stored
        <5>3. QED BY <5>1, <5>2
      <4>5. /\ call[d].pc = "get" => call[d].since <= acked[call[d].set]
            /\ call[d].pc = "model" => call[d].since <= call[d].shown.version
        BY DEF VersionsOrdered
      <4>6. QED BY <1>6, <4>1, <4>4, <4>5
    <3>3. QED BY <3>1, <3>2
  <2>4. QED BY <2>2, <2>3 DEF VersionsOrdered
<1>10. MatchIsAsShown' /\ ReadsAcknowledged'
  BY <1>6 DEF MatchIsAsShown, ReadsAcknowledged
<1>11. QED BY <1>7, <1>8, <1>9, <1>10

LEMMA AcknowledgeInv ==
    ASSUME Inv, NEW c \in Clients, Acknowledge(c) PROVE Inv'
<1> DEFINE s == call[c].set
<1> USE DEF Inv
<1>1. call[c] \in [pc : {"ack"}, set : SetNames, version : Nat]
  BY DEF Acknowledge, Types, Calls, Idle
<1>2. /\ acked' \in [SetNames -> Nat]
      /\ \A u \in SetNames : acked[u] <= acked'[u] /\ acked'[u] <= sets[u].version
  BY <1>1 DEF Acknowledge, Types, VersionsOrdered, Stored
<1>3. /\ call' \in [Clients -> Calls]
      /\ call'[c] = Idle
      /\ \A d \in Clients \ {c} : call'[d] = call[d]
  BY CallUpdate DEF Acknowledge, Calls
<1>4. UNCHANGED <<sets, versions, reply>>
  BY DEF Acknowledge
<1>5. Types' /\ TagsGood'
  BY <1>2, <1>3, <1>4 DEF Types, TagsGood, Idle
<1>6. VersionsOrdered'
  <2>1. ASSUME NEW d \in Clients
        PROVE  /\ call'[d].pc = "ack" => call'[d].version <= sets'[call'[d].set].version
               /\ call'[d].pc = "get" => call'[d].since <= acked'[call'[d].set]
               /\ call'[d].pc = "model" => call'[d].since <= call'[d].shown.version
    <3>1. CASE d = c
      BY <1>3, <3>1 DEF Idle
    <3>2. CASE d # c
      <4>1. call'[d] = call[d] /\ call[d] \in Calls
        BY <1>3, <3>2 DEF Types
      <4>2. call[d].pc = "get" => call[d].set \in SetNames /\ call[d].since \in Nat
        BY <4>1 DEF Calls, Idle
      <4>3. QED BY <1>2, <1>4, <4>1, <4>2 DEF VersionsOrdered, Types
    <3>3. QED BY <3>1, <3>2
  <2>2. QED BY <1>2, <1>4, <2>1 DEF VersionsOrdered
<1>7. MatchIsAsShown' /\ ReadsAcknowledged'
  BY <1>4 DEF MatchIsAsShown, ReadsAcknowledged
<1>8. QED BY <1>5, <1>6, <1>7

LEMMA BeginTagInv ==
    ASSUME Inv, NEW c \in Clients, BeginTag(c) PROVE Inv'
<1> USE DEF Inv
<1>1. PICK s \in SetNames :
          call' = [call EXCEPT ![c] = [pc |-> "get", set |-> s, since |-> acked[s]]]
  BY DEF BeginTag
<1>2. [pc |-> "get", set |-> s, since |-> acked[s]] \in Calls
  BY DEF Types, Calls
<1>3. /\ call' \in [Clients -> Calls]
      /\ call'[c] = [pc |-> "get", set |-> s, since |-> acked[s]]
      /\ \A d \in Clients \ {c} : call'[d] = call[d]
  BY <1>1, <1>2, CallUpdate
<1>4. UNCHANGED <<sets, versions, acked, reply>>
  BY DEF BeginTag
<1>5. Types' /\ TagsGood'
  BY <1>3, <1>4 DEF Types, TagsGood
<1>6. VersionsOrdered'
  BY <1>3, <1>4 DEF VersionsOrdered, Types
<1>7. MatchIsAsShown' /\ ReadsAcknowledged'
  BY <1>4 DEF MatchIsAsShown, ReadsAcknowledged
<1>8. QED BY <1>5, <1>6, <1>7

LEMMA GetInv ==
    ASSUME Inv, NEW c \in Clients, Get(c) PROVE Inv'
<1> DEFINE stored == sets[call[c].set]
<1> USE DEF Inv
<1>1. call[c] \in [pc : {"get"}, set : SetNames, since : Nat]
  BY DEF Get, Types, Calls, Idle
<1>2. stored \in Stored /\ call[c].since <= stored.version
  BY <1>1 DEF Get, VersionsOrdered, Types, Stored
<1>3. UNCHANGED <<sets, versions, acked>>
  BY DEF Get
<1>4. CASE stored.version = 0
  <2>1. /\ call' \in [Clients -> Calls]
        /\ call'[c] = Idle
        /\ \A d \in Clients \ {c} : call'[d] = call[d]
    BY <1>4, CallUpdate DEF Get, Calls
  <2>2. reply' = [reply EXCEPT ![c] = [status |-> "404", since |-> call[c].since]]
    BY <1>4 DEF Get
  <2>3. /\ reply'[c] = [status |-> "404", since |-> call[c].since]
        /\ \A d \in Clients \ {c} : reply'[d] = reply[d]
        /\ reply' = [d \in Clients |-> reply'[d]]
    BY <2>2 DEF Types
  <2>4. Types' /\ TagsGood'
    BY <1>3, <2>1, <2>3 DEF Types, TagsGood, Idle
  <2>5. VersionsOrdered'
    BY <1>3, <2>1 DEF VersionsOrdered, Idle
  <2>6. MatchIsAsShown' /\ ReadsAcknowledged'
    BY <1>1, <1>2, <1>4, <2>3 DEF MatchIsAsShown, ReadsAcknowledged
  <2>7. QED BY <2>4, <2>5, <2>6
<1>5. CASE stored.version # 0
  <2> DEFINE r == [pc |-> "model", set |-> call[c].set, since |-> call[c].since,
                   shown |-> stored]
  <2>1. r \in Calls
    BY <1>1, <1>2 DEF Calls
  <2>2. call' = [call EXCEPT ![c] = r] /\ UNCHANGED reply
    BY <1>5 DEF Get
  <2>3. /\ call' \in [Clients -> Calls]
        /\ call'[c] = r
        /\ \A d \in Clients \ {c} : call'[d] = call[d]
    BY <2>1, <2>2, CallUpdate
  <2>4. Types' /\ TagsGood'
    BY <1>3, <2>2, <2>3 DEF Types, TagsGood
  <2>5. VersionsOrdered'
    BY <1>2, <1>3, <2>3 DEF VersionsOrdered
  <2>6. MatchIsAsShown' /\ ReadsAcknowledged'
    BY <2>2 DEF MatchIsAsShown, ReadsAcknowledged
  <2>7. QED BY <2>4, <2>5, <2>6
<1>6. QED BY <1>4, <1>5

LEMMA ModelInv ==
    ASSUME Inv, NEW c \in Clients, ModelMatches(c) \/ ModelMatchesNone(c)
    PROVE  Inv'
<1> USE DEF Inv
<1>1. call[c] \in [pc : {"model"}, set : SetNames, since : Nat, shown : Stored]
  <2>1. call[c] \in Calls
    BY DEF Types
  <2>2. call[c].pc = "model"
    BY DEF ModelMatches, ModelMatchesNone
  <2>3. QED BY <2>1, <2>2 DEF Calls, Idle
<1>2. UNCHANGED <<sets, versions, acked>> /\ call' = [call EXCEPT ![c] = Idle]
  BY DEF ModelMatches, ModelMatchesNone
<1>3. /\ call' \in [Clients -> Calls]
      /\ call'[c] = Idle
      /\ \A d \in Clients \ {c} : call'[d] = call[d]
  BY <1>2, CallUpdate DEF Calls
<1>4. TagsGood' /\ VersionsOrdered'
  BY <1>2, <1>3 DEF TagsGood, VersionsOrdered, Idle
<1>5. CASE ModelMatches(c)
  <2>1. PICK name \in TagNames : \E t \in Matching(c, name) :
            reply' = [reply EXCEPT ![c] =
                         [status |-> "match", tag |-> t, shown |-> call[c].shown,
                          since |-> call[c].since]]
    BY <1>5 DEF ModelMatches
  <2>2. PICK t \in Matching(c, name) :
            reply' = [reply EXCEPT ![c] =
                         [status |-> "match", tag |-> t, shown |-> call[c].shown,
                          since |-> call[c].since]]
    BY <2>1
  <2>3. t \in call[c].shown.tags
    BY DEF Matching
  <2>4. /\ reply'[c] = [status |-> "match", tag |-> t, shown |-> call[c].shown,
                        since |-> call[c].since]
        /\ \A d \in Clients \ {c} : reply'[d] = reply[d]
        /\ reply' = [d \in Clients |-> reply'[d]]
    BY <2>2 DEF Types
  <2>5. call[c].shown.version >= call[c].since
    BY <1>1, <1>5 DEF ModelMatches, VersionsOrdered, Stored
  <2>6. Types' /\ MatchIsAsShown' /\ ReadsAcknowledged'
    BY <1>2, <1>3, <2>3, <2>4, <2>5 DEF Types, MatchIsAsShown, ReadsAcknowledged
  <2>7. QED BY <1>4, <2>6
<1>6. CASE ModelMatchesNone(c)
  <2>1. PICK status \in {"no match", "500"} :
            reply' = [reply EXCEPT ![c] = [status |-> status]]
    BY <1>6 DEF ModelMatchesNone
  <2>2. /\ reply'[c] = [status |-> status]
        /\ \A d \in Clients \ {c} : reply'[d] = reply[d]
        /\ reply' = [d \in Clients |-> reply'[d]]
    BY <2>1 DEF Types
  <2>3. Types'
    BY <1>2, <1>3, <2>2 DEF Types
  <2>4. reply'[c].status # "match" /\ reply'[c].status # "404"
    BY <2>1, <2>2
  <2>5. MatchIsAsShown' /\ ReadsAcknowledged'
    <3>1. ASSUME NEW d \in Clients
          PROVE  /\ reply'[d].status = "match" => reply'[d].tag \in reply'[d].shown.tags
                 /\ reply'[d].status = "404" => reply'[d].since = 0
                 /\ reply'[d].status = "match" =>
                       reply'[d].shown.version >= reply'[d].since
      <4>1. CASE d = c
        BY <2>4, <4>1
      <4>2. CASE d # c
        <5>1. reply'[d] = reply[d]
          BY <2>2, <4>2
        <5>2. QED BY <5>1 DEF MatchIsAsShown, ReadsAcknowledged
      <4>3. QED BY <4>1, <4>2
    <3>2. QED BY <3>1 DEF MatchIsAsShown, ReadsAcknowledged
  <2>6. QED BY <1>4, <2>3, <2>5
<1>7. QED BY <1>5, <1>6

LEMMA NextInv == Inv /\ [Next]_vars => Inv'
<1> SUFFICES ASSUME Inv, [Next]_vars PROVE Inv'
  OBVIOUS
<1>1. CASE Next
  <2>1. PICK c \in Clients : Register(c) \/ TagText(c)
    BY <1>1 DEF Next
  <2>2. QED
    BY <2>1, BeginRegisterInv, ReplaceInv, AcknowledgeInv, BeginTagInv, GetInv,
       ModelInv DEF Register, TagText
<1>2. CASE UNCHANGED vars
  BY <1>2 DEF vars, Inv, Types, TagsGood, VersionsOrdered, MatchIsAsShown,
              ReadsAcknowledged
<1>3. QED BY <1>1, <1>2

LEMMA InvHolds == Spec => []Inv
BY InitInv, NextInv, PTL DEF Spec

\* Whatever clients register concurrently, every stored set has tags, each with
\* a name of its own (RegisterSet and Store.Replace).
THEOREM SetsStayValid == Spec => []StoredSetsValid
<1>1. Inv => StoredSetsValid
  BY DEF Inv, TagsGood, GoodTags, StoredSetsValid
<1>2. QED BY <1>1, InvHolds, PTL

\* A match is a tag of the set as it was read and shown to the model, even if
\* the set has been replaced since (Service.Tag).
THEOREM MatchesAreAsShown == Spec => []MatchIsAsShown
<1>1. Inv => MatchIsAsShown
  BY DEF Inv
<1>2. QED BY <1>1, InvHolds, PTL

\* A tagging request is served from a version at least as new as every
\* registration acknowledged before it began.
THEOREM AcknowledgedIsRead == Spec => []ReadsAcknowledged
<1>1. Inv => ReadsAcknowledged
  BY DEF Inv
<1>2. QED BY <1>1, InvHolds, PTL

-----------------------------------------------------------------------------
(* The comment moderator.                                                  *)

Words(s, n) == {k \in 1..n : OpensWord(s, k)}

\* Does the field that reaches up to position n have a letter or digit?
OpenField(s, n) ==
    \E j \in 1..n : s[j] = "word" /\ \A i \in j..n : s[i] # "space"

Scanned ==
    step = "count" =>
        /\ count + FieldWords = WordsUpTo(comment, at - 1)
        /\ hasWordRune <=> OpenField(comment, at - 1)

LongEnough == step \in {"judge", "verdict"} => count > MinCommentWords

ModeratorInv == ModeratorTypeOK /\ Scanned /\ LongEnough /\ VerdictIsJustified

-----------------------------------------------------------------------------
(* How the number of words grows with a character.                         *)

LEMMA PartFinite ==
    ASSUME NEW n \in Nat, NEW P, P \subseteq 1..n
    PROVE  IsFiniteSet(P) /\ Cardinality(P) \in Nat
<1>1. IsFiniteSet(1..n)
  <2>1. 1 \in Int /\ n \in Int  OBVIOUS
  <2>. QED  BY <2>1, FS_Interval
<1>2. P \in SUBSET (1..n)  OBVIOUS
<1>3. IsFiniteSet(P)  BY <1>1, <1>2, FS_Subset
<1>. QED  BY <1>3, FS_CardinalityType

LEMMA SetGrows ==
    ASSUME NEW n \in Nat, NEW P, NEW Q, P \subseteq 1..n, Q = P \cup {n + 1}
    PROVE  Cardinality(P) \in Nat /\ Cardinality(Q) = Cardinality(P) + 1
<1>1. IsFiniteSet(P) /\ Cardinality(P) \in Nat  BY PartFinite
<1>2. n + 1 \notin P  OBVIOUS
<1>. QED  BY <1>1, <1>2, FS_AddElement

LEMMA WordsUpToType ==
    ASSUME NEW s, NEW n \in Nat
    PROVE  Cardinality(HanUpTo(s, n)) \in Nat /\ Cardinality(Words(s, n)) \in Nat
<1>1. HanUpTo(s, n) \subseteq 1..n /\ Words(s, n) \subseteq 1..n  BY DEF HanUpTo, Words
<1>. QED  BY <1>1, PartFinite

LEMMA HanGrows ==
    ASSUME NEW s, NEW n \in Nat
    PROVE  Cardinality(HanUpTo(s, n + 1)) =
               Cardinality(HanUpTo(s, n)) + (IF s[n + 1] = "han" THEN 1 ELSE 0)
<1>1. CASE s[n + 1] = "han"
  <2>1. HanUpTo(s, n + 1) = HanUpTo(s, n) \cup {n + 1}  BY <1>1 DEF HanUpTo
  <2>2. HanUpTo(s, n) \subseteq 1..n  BY DEF HanUpTo
  <2>. QED  BY <1>1, <2>1, <2>2, SetGrows
<1>2. CASE s[n + 1] # "han"
  <2>1. HanUpTo(s, n + 1) = HanUpTo(s, n)  BY <1>2 DEF HanUpTo
  <2>. QED  BY <1>2, <2>1, WordsUpToType
<1>. QED  BY <1>1, <1>2

LEMMA WordsGrow ==
    ASSUME NEW s, NEW n \in Nat
    PROVE  Cardinality(Words(s, n + 1)) =
               Cardinality(Words(s, n)) + (IF OpensWord(s, n + 1) THEN 1 ELSE 0)
<1>1. CASE OpensWord(s, n + 1)
  <2>1. Words(s, n + 1) = Words(s, n) \cup {n + 1}  BY <1>1 DEF Words
  <2>2. Words(s, n) \subseteq 1..n  BY DEF Words
  <2>. QED  BY <1>1, <2>1, <2>2, SetGrows
<1>2. CASE ~ OpensWord(s, n + 1)
  <2>1. Words(s, n + 1) = Words(s, n)  BY <1>2 DEF Words
  <2>. QED  BY <1>2, <2>1, WordsUpToType
<1>. QED  BY <1>1, <1>2

\* A letter or digit opens a word unless its field has one already.
LEMMA OpensIfNew ==
    ASSUME NEW s, NEW n \in Nat, s[n + 1] = "word"
    PROVE  OpensWord(s, n + 1) <=> ~ OpenField(s, n)
<1>1. \A j \in 1..n : (\E i \in j..(n + 1) : s[i] = "space")
                      <=> \E i \in j..n : s[i] = "space"
  <2>1. \A j \in 1..n : j..(n + 1) = j..n \cup {n + 1}  OBVIOUS
  <2>. QED  BY <2>1
<1>. QED  BY <1>1 DEF OpensWord, OpenField

LEMMA FieldGrows ==
    ASSUME NEW s, NEW n \in Nat
    PROVE  /\ s[n + 1] = "space" => ~ OpenField(s, n + 1)
           /\ s[n + 1] = "word" => OpenField(s, n + 1)
           /\ s[n + 1] \notin {"space", "word"} => (OpenField(s, n + 1) <=> OpenField(s, n))
<1>1. 1..(n + 1) = 1..n \cup {n + 1}  OBVIOUS
<1>2. \A j \in 1..n : j..(n + 1) = j..n \cup {n + 1}  OBVIOUS
<1>3. (n + 1)..(n + 1) = {n + 1}  OBVIOUS
<1>4. s[n + 1] = "space" => ~ OpenField(s, n + 1)
  BY <1>1, <1>2, <1>3 DEF OpenField
<1>5. s[n + 1] = "word" => OpenField(s, n + 1)
  <2>1. n + 1 \in 1..(n + 1)  OBVIOUS
  <2>. QED  BY <1>3, <2>1 DEF OpenField
<1>6. s[n + 1] \notin {"space", "word"} => (OpenField(s, n + 1) <=> OpenField(s, n))
  BY <1>1, <1>2, <1>3 DEF OpenField
<1>. QED  BY <1>4, <1>5, <1>6

\* WordsUpTo, one character on.
LEMMA OneMore ==
    ASSUME NEW s, NEW n \in Nat
    PROVE  /\ WordsUpTo(s, n) \in Nat
           /\ WordsUpTo(s, n + 1) =
                 WordsUpTo(s, n)
                 + (IF s[n + 1] = "han" THEN 1 ELSE 0)
                 + (IF s[n + 1] = "word" /\ ~ OpenField(s, n) THEN 1 ELSE 0)
<1>1. OpensWord(s, n + 1) <=> s[n + 1] = "word" /\ ~ OpenField(s, n)
  <2>1. CASE s[n + 1] = "word"  BY <2>1, OpensIfNew
  <2>2. CASE s[n + 1] # "word"  BY <2>2 DEF OpensWord
  <2>. QED  BY <2>1, <2>2
<1>2. \A m : WordsUpTo(s, m) = Cardinality(HanUpTo(s, m)) + Cardinality(Words(s, m))
  BY DEF WordsUpTo, Words
<1>. QED  BY <1>1, <1>2, HanGrows, WordsGrow, WordsUpToType

-----------------------------------------------------------------------------
LEMMA ModeratorInvInit == ModeratorInit => ModeratorInv
<1>. SUFFICES ASSUME ModeratorInit PROVE ModeratorInv  OBVIOUS
<1>. USE DEF ModeratorInit
<1>1. ModeratorTypeOK
  <2>1. comment \in Seq(Rune)  BY CommentsAssumption
  <2>2. 1 \in 1..(Len(comment) + 1)  BY <2>1
  <2>3. NoAnswer \in Answer  BY DEF NoAnswer, Answer
  <2>. QED  BY <2>1, <2>2, <2>3 DEF ModeratorTypeOK
<1>2. Scanned
  <2>1. HanUpTo(comment, 0) = {} /\ Words(comment, 0) = {}  BY DEF HanUpTo, Words
  <2>2. WordsUpTo(comment, 0) = 0  BY <2>1, FS_EmptySet DEF WordsUpTo, Words
  <2>3. ~ OpenField(comment, 0)  BY DEF OpenField
  <2>. QED  BY <2>2, <2>3 DEF Scanned, FieldWords
<1>3. LongEnough /\ VerdictIsJustified
  BY DEF LongEnough, VerdictIsJustified, WordsCounted
<1>. QED  BY <1>1, <1>2, <1>3 DEF ModeratorInv

LEMMA ModeratorInvNext == ModeratorInv /\ [ModeratorNext]_modVars => ModeratorInv'
<1>. SUFFICES ASSUME ModeratorInv, [ModeratorNext]_modVars PROVE ModeratorInv'  OBVIOUS
<1>. USE DEF ModeratorInv
<1>0. \A n \in Nat : WordsUpTo(comment, n) \in Nat  BY OneMore
<1>1. CASE CountRune
  <2>. USE <1>1 DEF CountRune
  <2>1. ModeratorTypeOK'  BY DEF ModeratorTypeOK
  <2>2. at - 1 \in Nat /\ (at - 1) + 1 = at /\ at' - 1 = (at - 1) + 1
    BY DEF ModeratorTypeOK
  <2>3. comment[at] \in {"han", "word", "other"}  BY DEF ModeratorTypeOK, Rune
  <2>4. WordsUpTo(comment, at) = WordsUpTo(comment, at - 1)
            + (IF comment[at] = "han" THEN 1 ELSE 0)
            + (IF comment[at] = "word" /\ ~ hasWordRune THEN 1 ELSE 0)
    <3>. DEFINE b == at - 1
    <3>1. WordsUpTo(comment, b + 1) = WordsUpTo(comment, b)
              + (IF comment[b + 1] = "han" THEN 1 ELSE 0)
              + (IF comment[b + 1] = "word" /\ ~ OpenField(comment, b) THEN 1 ELSE 0)
      <4>. b \in Nat  BY <2>2
      <4>. HIDE DEF b
      <4>. QED  BY OneMore
    <3>2. hasWordRune <=> OpenField(comment, b)  BY DEF Scanned
    <3>3. b + 1 = at  BY <2>2
    <3>. QED  BY <3>1, <3>2, <3>3
  <2>5. count' + FieldWords' = WordsUpTo(comment, at)
    <3>1. count + FieldWords = WordsUpTo(comment, at - 1)  BY DEF Scanned
    <3>2. CASE comment[at] = "han"
      <4>1. cjk' = cjk + 1 /\ hasWordRune' = hasWordRune
        BY <3>2 DEF ModeratorTypeOK
      <4>2. WordsUpTo(comment, at) = WordsUpTo(comment, at - 1) + 1
        BY <3>2, <2>4, <2>2, <1>0
      <4>. QED  BY <3>1, <4>1, <4>2 DEF FieldWords, ModeratorTypeOK
    <3>3. CASE comment[at] = "word"
      <4>1. cjk' = cjk /\ hasWordRune' = TRUE  BY <3>3
      <4>2. WordsUpTo(comment, at) =
                WordsUpTo(comment, at - 1) + (IF hasWordRune THEN 0 ELSE 1)
        BY <3>3, <2>4, <2>2, <1>0 DEF ModeratorTypeOK
      <4>. QED  BY <3>1, <4>1, <4>2 DEF FieldWords, ModeratorTypeOK
    <3>4. CASE comment[at] = "other"
      <4>1. cjk' = cjk /\ hasWordRune' = hasWordRune
        BY <3>4 DEF ModeratorTypeOK
      <4>2. WordsUpTo(comment, at) = WordsUpTo(comment, at - 1)
        BY <3>4, <2>4, <2>2, <1>0
      <4>. QED  BY <3>1, <4>1, <4>2 DEF FieldWords, ModeratorTypeOK
    <3>. QED  BY <2>3, <3>2, <3>3, <3>4
  <2>6. hasWordRune' <=> OpenField(comment, at)
    <3>1. comment[at] # "word" => comment[at] \notin {"space", "word"}  OBVIOUS
    <3>2. CASE comment[at] = "word"  BY <3>2, <2>2, FieldGrows
    <3>3. CASE comment[at] # "word"  BY <3>1, <3>3, <2>2, FieldGrows DEF Scanned
    <3>. QED  BY <3>2, <3>3
  <2>7. Scanned'  BY <2>2, <2>5, <2>6 DEF Scanned
  <2>. QED  BY <2>1, <2>7 DEF LongEnough, VerdictIsJustified, WordsCounted
<1>2. CASE EndField
  <2>. USE <1>2 DEF EndField
  <2>0. FieldWords \in Nat  BY DEF FieldWords, ModeratorTypeOK
  <2>1. ModeratorTypeOK'
    <3>1. count' \in Nat /\ cjk' \in Nat  BY <2>0 DEF ModeratorTypeOK
    <3>2. at' \in 1..(Len(comment) + 1)  BY DEF ModeratorTypeOK
    <3>. QED  BY <3>1, <3>2 DEF ModeratorTypeOK
  <2>2. at - 1 \in Nat /\ (at - 1) + 1 = at /\ at' - 1 = at
    BY DEF ModeratorTypeOK
  <2>3. comment[at] # "han" /\ comment[at] # "word"  OBVIOUS
  <2>4. WordsUpTo(comment, at) = WordsUpTo(comment, at - 1)
    <3>1. WordsUpTo(comment, (at - 1) + 1) = WordsUpTo(comment, at - 1) + 0 + 0
      BY <2>2, <2>3, OneMore
    <3>. QED  BY <3>1, <2>2, <1>0
  <2>5. ~ OpenField(comment, at)
    <3>1. ~ OpenField(comment, (at - 1) + 1)  BY <2>2, FieldGrows
    <3>. QED  BY <3>1, <2>2
  <2>6. Scanned'
    <3>1. count + FieldWords = WordsUpTo(comment, at - 1)  BY DEF Scanned
    <3>2. FieldWords' = 0  BY DEF FieldWords
    <3>3. count' + FieldWords' = WordsUpTo(comment, at)
      BY <2>0, <2>4, <3>1, <3>2 DEF ModeratorTypeOK
    <3>. QED  BY <2>2, <2>5, <3>3 DEF Scanned
  <2>. QED  BY <2>1, <2>6 DEF LongEnough, VerdictIsJustified, WordsCounted
<1>3. CASE EndComment
  <2>. USE <1>3 DEF EndComment
  <2>1. ModeratorTypeOK'  BY DEF ModeratorTypeOK, FieldWords
  <2>2. at - 1 = Len(comment)  BY DEF ModeratorTypeOK
  <2>3. count' = WordsUpTo(comment, Len(comment))  BY <2>2 DEF Scanned
  <2>4. step' # "count" /\ step' # "verdict"  OBVIOUS
  <2>. QED  BY <2>1, <2>3, <2>4
            DEF Scanned, LongEnough, VerdictIsJustified, WordsCounted
<1>4. CASE Judge
  <2>. USE <1>4 DEF Judge, counting
  <2>1. ModeratorTypeOK'  BY DEF ModeratorTypeOK, DenialReasons, Reasons
  <2>2. count > MinCommentWords /\ count = WordsUpTo(comment, Len(comment))
    BY DEF LongEnough, VerdictIsJustified, WordsCounted
  <2>3. CASE ValidJudgment(answer')
    <3>1. step' = "verdict" /\ verdict' = DenialReasons(answer')  BY <2>3
    <3>2. /\ answer'.summary = "text"
          /\ "personal_attack" \in verdict' => answer'.evidence = "text"
      BY <2>3, <3>1 DEF ValidJudgment, DenialReasons
    <3>3. verdict' = {} <=> answer'.substantive = "true" /\ answer'.attack # "true"
      BY <3>1 DEF DenialReasons
    <3>4. answer'.attack \in {"true", "false", "absent"}  BY DEF Answer
    <3>5. /\ verdict' = {} => answer'.substantive = "true"
          /\ answer'.attack # "absent" =>
                (verdict' = {} <=> answer'.substantive = "true" /\ answer'.attack = "false")
      BY <3>3, <3>4
    <3>6. Scanned' /\ LongEnough' /\ WordsCounted'
      BY <2>2, <3>1 DEF Scanned, LongEnough, WordsCounted
    <3>. QED  BY <2>1, <2>2, <3>1, <3>2, <3>5, <3>6 DEF VerdictIsJustified
  <2>4. CASE ~ ValidJudgment(answer')
    BY <2>1, <2>2, <2>4 DEF Scanned, LongEnough, VerdictIsJustified, WordsCounted
  <2>. QED  BY <2>3, <2>4
<1>5. CASE NoJudgment
  BY <1>5 DEF NoJudgment, counting, ModeratorTypeOK, Scanned, LongEnough,
              VerdictIsJustified, WordsCounted
<1>6. CASE UNCHANGED modVars
  BY <1>6 DEF modVars, ModeratorTypeOK, Scanned, FieldWords, LongEnough,
              VerdictIsJustified, WordsCounted
<1>. QED  BY <1>1, <1>2, <1>3, <1>4, <1>5, <1>6 DEF ModeratorNext

\* The scan counts the words of the definition, whatever the text, and a comment
\* is allowed only if it is long enough and the model has affirmed its substance
\* and, where it says anything of an attack, denied one (word_count.go:23-56,
\* agent.go:65-136).
THEOREM VerdictsAreJustified == ModeratorSpec => []VerdictIsJustified
<1>1. ModeratorInv => VerdictIsJustified  BY DEF ModeratorInv
<1>. QED  BY ModeratorInvInit, ModeratorInvNext, <1>1, PTL DEF ModeratorSpec

=============================================================================
