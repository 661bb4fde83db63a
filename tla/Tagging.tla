------------------------------- MODULE Tagging --------------------------------
(***************************************************************************)
(* The tagging service of internal/tagging with the tagger agent of        *)
(* internal/agent/tagger: HTTP clients register tag sets and have texts    *)
(* tagged against them, concurrently.                                      *)
(*                                                                         *)
(* A tag is its name and its rule (its description goes with the rule).    *)
(* What clients and the language model send may be blank or padded with    *)
(* white space.  The language model is external: it answers with any name  *)
(* and with or without a reason, or fails.  Answers that end a call are    *)
(* named by their HTTP status.                                             *)
(***************************************************************************)
EXTENDS Integers, Sequences, FiniteSets

CONSTANTS
    Clients,        \* concurrent HTTP requests
    SetNames,       \* names of tag sets
    TagNames,       \* names of tags
    Rules,          \* apply rules
    Blank,          \* a text that is empty, or empty after trimming
    MaxVersions,    \* bound: registrations accepted
    MaxTags         \* bound: tags in one registration

ASSUME BlankAssumption == Blank \notin SetNames \cup TagNames \cup Rules
ASSUME BoundsAssumption == MaxVersions \in Nat /\ MaxTags \in Nat

\* A tag as it is sent, and as it is stored.
RawTag == [name : TagNames \cup {Blank}, padded : BOOLEAN, rule : Rules \cup {Blank}]
Tag == [name : TagNames, rule : Rules]

VARIABLES
    sets,       \* Store.sets: per name the version stored (0: none) and its tags
    versions,   \* number of registrations that reached the store
    call,       \* per client: the request it runs
    acked,      \* history: per name, the newest version reported as stored
    reply       \* history: per client, its last answer to a tagging request

vars == <<sets, versions, call, acked, reply>>

Idle == [pc |-> "idle"]
NoReply == [status |-> "none"]

Init ==
    /\ sets = [s \in SetNames |-> [version |-> 0, tags |-> {}]]
    /\ versions = 0
    /\ call = [c \in Clients |-> Idle]
    /\ acked = [s \in SetNames |-> 0]
    /\ reply = [c \in Clients |-> NoReply]

-----------------------------------------------------------------------------
(* RegisterSet.                                                            *)

Trim(raw) == [name |-> raw.name, rule |-> raw.rule]
Cleaned(raws) == {Trim(raws[k]) : k \in 1..Len(raws)}

\* Mutant of Valid: names are compared before they are trimmed.
ValidUntrimmed(raws) ==
    /\ raws # <<>>
    /\ \A k \in 1..Len(raws) : raws[k].name # Blank /\ raws[k].rule # Blank
    /\ \A j, k \in 1..Len(raws) :
          j # k => <<raws[j].name, raws[j].padded>> # <<raws[k].name, raws[k].padded>>

\* There are tags, none of them lacks its name or rule, and no two share a name.
Valid(raws) ==
    /\ raws # <<>>
    /\ \A k \in 1..Len(raws) : raws[k].name # Blank /\ raws[k].rule # Blank
    /\ \A j, k \in 1..Len(raws) : j # k => raws[j].name # raws[k].name

\* Bound: registrations on their way to the store count.
Replacing == Cardinality({c \in Clients : call[c].pc = "replace"})

\* A request with a blank set name or prompt, or invalid tags, ends with an
\* error and without a trace.
BeginRegister(c) ==
    /\ call[c] = Idle /\ versions + Replacing < MaxVersions
    /\ \E s \in SetNames, n \in 0..MaxTags : \E raws \in [1..n -> RawTag] :
          /\ Valid(raws)
          /\ call' = [call EXCEPT ![c] = [pc |-> "replace", set |-> s,
                                          tags |-> Cleaned(raws)]]
    /\ UNCHANGED <<sets, versions, acked, reply>>

\* Mutant of Replace: an existing set is kept.
ReplaceAbsent(c) ==
    /\ call[c].pc = "replace"
    /\ versions' = versions + 1
    /\ sets' = IF sets[call[c].set].version > 0 THEN sets
               ELSE [sets EXCEPT ![call[c].set] =
                        [version |-> versions', tags |-> call[c].tags]]
    /\ call' = [call EXCEPT ![c] = [pc |-> "ack", set |-> call[c].set,
                                    version |-> versions']]
    /\ UNCHANGED <<acked, reply>>

Replace(c) ==
    /\ call[c].pc = "replace"
    /\ versions' = versions + 1
    /\ sets' = [sets EXCEPT ![call[c].set] =
                    [version |-> versions', tags |-> call[c].tags]]
    /\ call' = [call EXCEPT ![c] = [pc |-> "ack", set |-> call[c].set,
                                    version |-> versions']]
    /\ UNCHANGED <<acked, reply>>

\* The handler answers 200.
Acknowledge(c) ==
    /\ call[c].pc = "ack"
    /\ acked' = [acked EXCEPT ![call[c].set] =
                    IF @ < call[c].version THEN call[c].version ELSE @]
    /\ call' = [call EXCEPT ![c] = Idle]
    /\ UNCHANGED <<sets, versions, reply>>

-----------------------------------------------------------------------------
(* Tag.                                                                    *)

BeginTag(c) ==
    /\ call[c] = Idle
    /\ \E s \in SetNames :
          call' = [call EXCEPT ![c] = [pc |-> "get", set |-> s, since |-> acked[s]]]
    /\ UNCHANGED <<sets, versions, acked, reply>>

\* Store.Get; the set it returns stays as it is, for Replace copies the tags
\* and stores a new value.  An unknown set is answered with 404.
Get(c) ==
    /\ call[c].pc = "get"
    /\ LET stored == sets[call[c].set] IN
       IF stored.version = 0
       THEN /\ call' = [call EXCEPT ![c] = Idle]
            /\ reply' = [reply EXCEPT ![c] = [status |-> "404",
                                              since |-> call[c].since]]
       ELSE /\ call' = [call EXCEPT ![c] =
                           [pc |-> "model", set |-> call[c].set,
                            since |-> call[c].since, shown |-> stored]]
            /\ UNCHANGED reply
    /\ UNCHANGED <<sets, versions, acked>>

\* Mutant of Matching: looks the chosen name up in the store again.
MatchingNow(c, name) == {t \in sets[call[c].set].tags : t.name = name}

\* The tags of the set, as it was read, that have the chosen name.
Matching(c, name) == {t \in call[c].shown.tags : t.name = name}

\* The model chose a name, padded or not; normalizeResult takes a name that is
\* not in the set for none.
ModelMatches(c) ==
    /\ call[c].pc = "model"
    /\ \E name \in TagNames : \E t \in Matching(c, name) :
          reply' = [reply EXCEPT ![c] =
                       [status |-> "match", tag |-> t, shown |-> call[c].shown,
                        since |-> call[c].since]]
    /\ call' = [call EXCEPT ![c] = Idle]
    /\ UNCHANGED <<sets, versions, acked>>

\* The model chose no name, or one it invented; or it failed, its answer
\* cannot be parsed or lacks a reason.
ModelMatchesNone(c) ==
    /\ call[c].pc = "model"
    /\ \E status \in {"no match", "500"} :
          reply' = [reply EXCEPT ![c] = [status |-> status]]
    /\ call' = [call EXCEPT ![c] = Idle]
    /\ UNCHANGED <<sets, versions, acked>>

-----------------------------------------------------------------------------
Register(c) == BeginRegister(c) \/ Replace(c) \/ Acknowledge(c)
TagText(c)  == BeginTag(c) \/ Get(c) \/ ModelMatches(c) \/ ModelMatchesNone(c)

Next == \E c \in Clients : Register(c) \/ TagText(c)

Spec == Init /\ [][Next]_vars

-----------------------------------------------------------------------------
(* Properties.                                                             *)

\* What is stored can be judged by the tagger and has one tag per name
\* (RegisterSet, service.go:48-78), however the request was padded.
StoredSetsValid ==
    \A s \in SetNames : sets[s].version > 0 =>
        /\ sets[s].tags # {} /\ sets[s].tags \subseteq Tag
        /\ \A t, u \in sets[s].tags : t.name = u.name => t = u

\* A match is a tag the model was shown, with the rule it was shown, even if
\* the set has been replaced while the model was thinking.
MatchIsAsShown ==
    \A c \in Clients :
        reply[c].status = "match" => reply[c].tag \in reply[c].shown.tags

\* A client whose registration was acknowledged before it asked is never told
\* that the set does not exist, nor served from an older version.
ReadsAcknowledged ==
    \A c \in Clients :
        /\ reply[c].status = "404" => reply[c].since = 0
        /\ reply[c].status = "match" => reply[c].shown.version >= reply[c].since
=============================================================================
