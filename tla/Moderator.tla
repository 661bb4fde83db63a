------------------------------ MODULE Moderator -------------------------------
(***************************************************************************)
(* The comment moderator of internal/agent/moderator, run once by          *)
(* cmd/moderator: it counts the words of the comment, has the model judge  *)
(* a comment that is long enough, and builds the verdict in code.          *)
(*                                                                         *)
(* A comment is a sequence of characters, of which the count tells four    *)
(* kinds apart.  The model is external: it may leave any field of its      *)
(* answer out, answer with something that is no JSON object, or fail.      *)
(***************************************************************************)
EXTENDS Integers, Sequences, FiniteSets

CONSTANTS
    Comments,           \* the comments read
    MinCommentWords     \* a comment needs more words than this, 100 in the code

Rune == {"space", "han", "word", "other"}

ASSUME CommentsAssumption == Comments \subseteq Seq(Rune)
ASSUME MinAssumption == MinCommentWords \in Nat

VARIABLES
    step,       \* where the program is; "refused", "error" and "verdict" end it
    comment,    \* the comment
    at,         \* CountWords: the next character
    count,      \* CountWords: words of the fields that are finished
    cjk,        \* CountWords: Han characters of this field
    hasWordRune,\* CountWords: has this field a letter or digit?
    answer,     \* history: what the model said, field by field
    verdict     \* DenialReasons of the Verdict

modVars == <<step, comment, at, count, cjk, hasWordRune, answer, verdict>>
counting == <<comment, at, count, cjk, hasWordRune>>

\* What an answer may say of a flag, and of a text.
Answer == [substantive : {"true", "false", "absent"}, summary : {"text", "absent"},
           attack : {"true", "false", "absent"}, evidence : {"text", "absent"}]
NoAnswer == [substantive |-> "absent", summary |-> "absent",
             attack |-> "absent", evidence |-> "absent"]
Reasons == {"lacks_substantive_argument", "personal_attack"}

ModeratorInit ==
    /\ step = "count" /\ comment \in Comments
    /\ at = 1 /\ count = 0 /\ cjk = 0 /\ hasWordRune = FALSE
    /\ answer = NoAnswer /\ verdict = {}

-----------------------------------------------------------------------------
(* CountWords.                                                             *)

CountRune ==
    /\ step = "count" /\ at <= Len(comment) /\ comment[at] # "space"
    /\ at' = at + 1
    /\ cjk' = IF comment[at] = "han" THEN cjk + 1 ELSE cjk
    /\ hasWordRune' = (hasWordRune \/ comment[at] = "word")
    /\ UNCHANGED <<step, comment, count, answer, verdict>>

FieldWords == cjk + (IF hasWordRune THEN 1 ELSE 0)

\* Mutant of EndField: a word that touches a Han character is not counted.
EndFieldEither ==
    /\ step = "count" /\ at <= Len(comment) /\ comment[at] = "space"
    /\ at' = at + 1
    /\ count' = count + IF cjk > 0 THEN cjk ELSE FieldWords
    /\ cjk' = 0 /\ hasWordRune' = FALSE
    /\ UNCHANGED <<step, comment, answer, verdict>>

EndField ==
    /\ step = "count" /\ at <= Len(comment) /\ comment[at] = "space"
    /\ at' = at + 1
    /\ count' = count + FieldWords
    /\ cjk' = 0 /\ hasWordRune' = FALSE
    /\ UNCHANGED <<step, comment, answer, verdict>>

\* The last field ends with the comment; a short comment never meets the model.
EndComment ==
    /\ step = "count" /\ at > Len(comment)
    /\ count' = count + FieldWords
    /\ step' = IF count' > MinCommentWords THEN "judge" ELSE "refused"
    /\ UNCHANGED <<comment, at, cjk, hasWordRune, answer, verdict>>

-----------------------------------------------------------------------------
(* Run.                                                                    *)

\* parseJudgment: a flag that is absent is decoded as false; the texts are
\* asked for.
ValidJudgment(a) ==
    /\ a.summary = "text"
    /\ a.attack = "true" => a.evidence = "text"

DenialReasons(a) ==
    (IF a.substantive = "true" THEN {} ELSE {"lacks_substantive_argument"})
    \cup (IF a.attack = "true" THEN {"personal_attack"} ELSE {})

Judge ==
    /\ step = "judge"
    /\ answer' \in Answer
    /\ IF ValidJudgment(answer')
       THEN step' = "verdict" /\ verdict' = DenialReasons(answer')
       ELSE step' = "error" /\ UNCHANGED verdict
    /\ UNCHANGED counting

\* The model fails, or what it wrote contains no JSON object.
NoJudgment ==
    /\ step = "judge"
    /\ step' = "error"
    /\ UNCHANGED <<counting, answer, verdict>>

ModeratorNext == CountRune \/ EndField \/ EndComment \/ Judge \/ NoJudgment

ModeratorSpec == ModeratorInit /\ [][ModeratorNext]_modVars

-----------------------------------------------------------------------------
(* Properties.                                                             *)

\* The values of a run have their types.
ModeratorTypeOK ==
    /\ step \in {"count", "judge", "refused", "error", "verdict"}
    /\ comment \in Seq(Rune) /\ at \in 1..(Len(comment) + 1)
    /\ count \in Nat /\ cjk \in Nat /\ hasWordRune \in BOOLEAN
    /\ answer \in Answer /\ verdict \subseteq Reasons

\* The words up to a position, as the doc of CountWords defines them: each Han
\* character, and each field with a letter or digit, counted where it has its
\* first.
HanUpTo(s, n) == {k \in 1..n : s[k] = "han"}
OpensWord(s, k) ==
    /\ s[k] = "word"
    /\ \A j \in 1..(k - 1) : s[j] = "word" => \E i \in j..k : s[i] = "space"
WordsUpTo(s, n) == Cardinality(HanUpTo(s, n)) + Cardinality({k \in 1..n : OpensWord(s, k)})

\* The scan of fields and characters finds just the words of the definition,
\* in text that mixes scripts within one field (word_count.go:12-40).
WordsCounted == step # "count" => count = WordsUpTo(comment, Len(comment))

\* A verdict is given on comments of more than the minimum of words only, on an
\* answer that carries a summary and quotes the attack it claims.  No comment is
\* allowed unless the model has affirmed its substance; when the model says
\* whether it attacks anybody, it is allowed just if there is substance and no
\* attack (agent.go:65-136, types.go:21-26).  For an answer that does not say, see
\* NoVerdictFromMissingFields.
VerdictIsJustified ==
    /\ WordsCounted
    /\ step = "verdict" =>
          /\ WordsUpTo(comment, Len(comment)) > MinCommentWords
          /\ answer.summary = "text"
          /\ "personal_attack" \in verdict => answer.evidence = "text"
          /\ verdict = {} => answer.substantive = "true"
          /\ answer.attack # "absent" =>
                (verdict = {} <=> answer.substantive = "true" /\ answer.attack = "false")

\* validateJudgment at agent.go:126-127: "rejects judgments missing the fields the
\* prompt requires, so a verdict is never built from degenerate model output".
\* The prompt requires both flags and the summary in every answer.
NoVerdictFromMissingFields ==
    step = "verdict" =>
        "absent" \notin {answer.substantive, answer.summary, answer.attack}
=============================================================================
