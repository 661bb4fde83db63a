-------------------------- MODULE ConversationProofs --------------------------
(***************************************************************************)
(* Theorems about Conversation, for every set of call ids, every length of *)
(* the history and any number of rounds.  The transcript is a sequence     *)
(* providers accept (Closed); the history is an end of it, cut anywhere;   *)
(* and SanitizeHistory gives what a sequence cut out of an accepted one    *)
(* needs: it drops the tool messages it begins with, and nothing else.     *)
(***************************************************************************)
EXTENDS Conversation, FiniteSetTheorems, SequenceTheorems, WellFoundedInduction,
        TLAPS

LEMMA LeastOf ==
    ASSUME NEW S \in SUBSET Nat, S # {}
    PROVE  \E x \in S : \A y \in S : x <= y
<1>. DEFINE R == OpToRel(<, Nat)
<1>1. IsWellFoundedOn(R, Nat)  BY NatLessThanWellFounded
<1>2. \A x, y \in Nat : <<y, x>> \in R <=> y < x  BY DEF OpToRel
<1>. HIDE DEF R
<1>3. PICK x \in S : \A y \in S : ~ (<<y, x>> \in R)  BY <1>1, WFMin
<1>4. \A y \in S : x \in Nat /\ y \in Nat /\ ~ (y < x)  BY <1>2, <1>3
<1>. QED  BY <1>3, <1>4

-----------------------------------------------------------------------------
(* The pass of sanitizeHistory is the function its equation describes.     *)

NothingYet == [out |-> <<>>, pending |-> {}]

IsPass(ms, n, f) ==
    f = [k \in 0..n |-> IF k = 0 THEN NothingYet ELSE SanitizeStep(f[k - 1], ms[k])]

LEMMA PassExists ==
    ASSUME NEW ms, NEW n \in Nat
    PROVE  \E f : IsPass(ms, n, f)
<1>. DEFINE B == {m \in Nat : ~ \E f : IsPass(ms, m, f)}
<1>1. SUFFICES ASSUME B # {} PROVE FALSE  OBVIOUS
<1>2. PICK m \in B : \A k \in B : m <= k
  <2>. HIDE DEF B
  <2>1. B \in SUBSET Nat  BY DEF B
  <2>. QED  BY <1>1, <2>1, LeastOf
<1>3. m \in Nat /\ \A f : ~ IsPass(ms, m, f)  OBVIOUS
<1>4. CASE m = 0
  <2>. DEFINE f == [k \in 0..0 |-> NothingYet]
  <2>1. f = [k \in 0..0 |-> IF k = 0 THEN NothingYet
                            ELSE SanitizeStep(f[k - 1], ms[k])]
    OBVIOUS
  <2>2. IsPass(ms, 0, f)  BY <2>1 DEF IsPass
  <2>. QED  BY <1>3, <1>4, <2>2
<1>5. CASE m # 0
  <2>1. m - 1 \in Nat /\ m - 1 \notin B  BY <1>2, <1>3, <1>5
  <2>2. PICK f : IsPass(ms, m - 1, f)  BY <2>1
  <2>. DEFINE g == [k \in 0..m |-> IF k = m THEN SanitizeStep(f[m - 1], ms[m])
                                   ELSE f[k]]
  <2>3. ASSUME NEW k \in 0..m
        PROVE  g[k] = IF k = 0 THEN NothingYet ELSE SanitizeStep(g[k - 1], ms[k])
    <3>1. CASE k = m  BY <1>3, <1>5, <3>1
    <3>2. CASE k # m
      <4>1. k \in 0..(m - 1) /\ g[k] = f[k]  BY <1>3, <3>2
      <4>2. f[k] = IF k = 0 THEN NothingYet ELSE SanitizeStep(f[k - 1], ms[k])
        BY <2>2, <4>1 DEF IsPass
      <4>3. k # 0 => g[k - 1] = f[k - 1]  BY <1>3, <4>1
      <4>. QED  BY <4>1, <4>2, <4>3
    <3>. QED  BY <3>1, <3>2
  <2>4. IsPass(ms, m, g)
    <3>1. g = [k \in 0..m |-> g[k]]  OBVIOUS
    <3>. HIDE DEF g
    <3>. QED  BY <2>3, <3>1 DEF IsPass
  <2>. QED  BY <1>3, <2>4
<1>. QED  BY <1>4, <1>5

LEMMA PassUnfolds ==
    ASSUME NEW ms, Len(ms) \in Nat
    PROVE  IsPass(ms, Len(ms), SanitizePass(ms))
<1>1. SanitizePass(ms) = CHOOSE f : IsPass(ms, Len(ms), f)
  BY DEF SanitizePass, IsPass, NothingYet
<1>2. \E f : IsPass(ms, Len(ms), f)  BY PassExists
<1>. QED  BY <1>1, <1>2

-----------------------------------------------------------------------------
(* Messages, and the calls open after some of them.                        *)

LEMMA MessageRoles ==
    ASSUME NEW m \in Message
    PROVE  /\ m.role \in {"user", "assistant", "tool"}
           /\ m.role = "assistant" => m.calls \subseteq CallIDs
           /\ m.role = "tool" => m.answers \in CallIDs
BY DEF Message

LEMMA MessagesMade ==
    ASSUME NEW r \in Rounds, NEW cs \in SUBSET CallIDs, NEW c \in CallIDs
    PROVE  /\ UserMsg(r) \in Message /\ UserMsg(r).role = "user"
           /\ AssistantMsg(r, cs) \in Message
           /\ AssistantMsg(r, cs).role = "assistant"
           /\ AssistantMsg(r, cs).calls = cs
           /\ ToolMsg(r, c) \in Message /\ ToolMsg(r, c).role = "tool"
           /\ ToolMsg(r, c).answers = c
BY DEF UserMsg, AssistantMsg, ToolMsg, Message

\* What is open depends on the last message that is not a result, and on what
\* follows it, wherever the sequence begins.
LEMMA UnansweredShift ==
    ASSUME NEW s, NEW t, NEW d \in Nat, NEW k \in Nat,
           \A h \in 1..k : s[h] = t[d + h],
           d = 0 \/ \E h \in 1..k : s[h].role # "tool"
    PROVE  Unanswered(s, k) = Unanswered(t, d + k)
<1>1. ASSUME NEW c \in CallIDs, c \in Unanswered(s, k)
      PROVE  c \in Unanswered(t, d + k)
  <2>1. PICK h \in 1..k :
            /\ s[h].role = "assistant" /\ c \in s[h].calls
            /\ \A j \in (h + 1)..k : s[j].role = "tool" /\ s[j].answers # c
    BY <1>1 DEF Unanswered
  <2>2. d + h \in 1..(d + k) /\ t[d + h] = s[h]  OBVIOUS
  <2>3. ASSUME NEW j \in (d + h + 1)..(d + k)
        PROVE  t[j].role = "tool" /\ t[j].answers # c
    <3>1. j - d \in (h + 1)..k /\ j - d \in 1..k /\ d + (j - d) = j  OBVIOUS
    <3>2. t[j] = s[j - d]  BY <3>1
    <3>. QED  BY <2>1, <3>1, <3>2
  <2>. QED  BY <2>1, <2>2, <2>3 DEF Unanswered
<1>2. ASSUME NEW c \in CallIDs, c \in Unanswered(t, d + k)
      PROVE  c \in Unanswered(s, k)
  <2>1. PICK h \in 1..(d + k) :
            /\ t[h].role = "assistant" /\ c \in t[h].calls
            /\ \A j \in (h + 1)..(d + k) : t[j].role = "tool" /\ t[j].answers # c
    BY <1>2 DEF Unanswered
  <2>2. h > d
    <3>1. CASE d = 0  BY <3>1
    <3>2. CASE \E g \in 1..k : s[g].role # "tool"
      <4>1. PICK g \in 1..k : s[g].role # "tool"  BY <3>2
      <4>2. t[d + g].role # "tool" /\ d + g \in 1..(d + k)  BY <4>1
      <4>3. d + g \notin (h + 1)..(d + k)  BY <2>1, <4>2
      <4>. QED  BY <4>2, <4>3
    <3>. QED  BY <3>1, <3>2
  <2>3. h - d \in 1..k /\ s[h - d] = t[h]  BY <2>2
  <2>4. ASSUME NEW j \in (h - d + 1)..k
        PROVE  s[j].role = "tool" /\ s[j].answers # c
    <3>1. d + j \in (h + 1)..(d + k) /\ j \in 1..k  BY <2>3
    <3>. QED  BY <2>1, <3>1
  <2>. QED  BY <2>1, <2>3, <2>4 DEF Unanswered
<1>. QED  BY <1>1, <1>2 DEF Unanswered

LEMMA UnansweredPrefix ==
    ASSUME NEW s, NEW t, NEW k \in Nat, \A h \in 1..k : s[h] = t[h]
    PROVE  Unanswered(s, k) = Unanswered(t, k)
<1>1. \A h \in 1..k : \A j \in (h + 1)..k : j \in 1..k  OBVIOUS
<1>. QED  BY <1>1 DEF Unanswered

\* After an assistant message its calls are open, a result closes its call,
\* and nothing is open after a user message.
LEMMA UnansweredNext ==
    ASSUME NEW s \in Seq(Message), NEW k \in 1..Len(s)
    PROVE  /\ s[k].role = "assistant" => Unanswered(s, k) = s[k].calls
           /\ s[k].role = "tool" =>
                 Unanswered(s, k) = Unanswered(s, k - 1) \ {s[k].answers}
           /\ s[k].role = "user" => Unanswered(s, k) = {}
<1>1. s[k] \in Message /\ k \in Nat \ {0}  BY ElementOfSeq
<1>2. ASSUME s[k].role # "tool", NEW c \in CallIDs
      PROVE  c \in Unanswered(s, k) <=> s[k].role = "assistant" /\ c \in s[k].calls
  <2>1. \A h \in 1..k : h # k => k \in (h + 1)..k  BY <1>1
  <2>2. \A j \in (k + 1)..k : FALSE  BY <1>1
  <2>. QED  BY <1>1, <1>2, <2>1, <2>2 DEF Unanswered
<1>3. ASSUME s[k].role = "tool", NEW c \in CallIDs
      PROVE  c \in Unanswered(s, k) <=> c \in Unanswered(s, k - 1) /\ c # s[k].answers
  <2>1. \A h \in 1..k : s[h].role = "assistant" => h \in 1..(k - 1)  BY <1>1, <1>3
  <2>2. \A h \in 1..(k - 1) : h \in 1..k /\ k \in (h + 1)..k
                              /\ (h + 1)..k = ((h + 1)..(k - 1)) \cup {k}
    BY <1>1
  <2>. QED  BY <1>3, <2>1, <2>2 DEF Unanswered
<1>4. s[k].role = "assistant" => s[k].calls \subseteq CallIDs  BY <1>1, MessageRoles
<1>5. Unanswered(s, k) \subseteq CallIDs /\ Unanswered(s, k - 1) \subseteq CallIDs
  BY DEF Unanswered
<1>6. ASSUME s[k].role = "assistant" PROVE Unanswered(s, k) = s[k].calls
  BY <1>2, <1>4, <1>5, <1>6
<1>7. ASSUME s[k].role = "tool"
      PROVE  Unanswered(s, k) = Unanswered(s, k - 1) \ {s[k].answers}
  BY <1>3, <1>5, <1>7
<1>8. ASSUME s[k].role = "user" PROVE Unanswered(s, k) = {}
  BY <1>2, <1>5, <1>8
<1>. QED  BY <1>6, <1>7, <1>8

LEMMA UnansweredOfNone == \A s : Unanswered(s, 0) = {}
BY DEF Unanswered

-----------------------------------------------------------------------------
(* Sequences that providers accept.                                        *)

LEMMA AcceptsAppend ==
    ASSUME NEW s \in Seq(Message), ProviderAccepts(s),
           NEW m \in Message, MayFollow(s, Len(s), m)
    PROVE  ProviderAccepts(Append(s, m))
<1>. DEFINE t == Append(s, m)
<1>1. /\ Len(s) \in Nat /\ t \in Seq(Message) /\ Len(t) = Len(s) + 1
      /\ t[Len(s) + 1] = m /\ \A h \in 1..Len(s) : t[h] = s[h]
  BY AppendProperties, LenProperties
<1>. HIDE DEF t
<1>2. \A k \in 0..Len(s) : Unanswered(t, k) = Unanswered(s, k)
  <2>1. TAKE k \in 0..Len(s)
  <2>2. k \in Nat /\ \A h \in 1..k : t[h] = s[h]  BY <1>1
  <2>. QED  BY <2>2, UnansweredPrefix
<1>3. ASSUME NEW k \in 1..Len(t) PROVE MayFollow(t, k - 1, t[k])
  <2>1. CASE k = Len(t)  BY <1>1, <1>2, <2>1 DEF MayFollow
  <2>2. CASE k # Len(t)
    <3>1. k \in 1..Len(s) /\ k - 1 \in 0..Len(s)  BY <1>1, <2>2
    <3>2. MayFollow(s, k - 1, s[k])  BY <3>1 DEF ProviderAccepts
    <3>. QED  BY <1>1, <1>2, <3>1, <3>2 DEF MayFollow
  <2>. QED  BY <2>1, <2>2
<1>. QED  BY <1>3 DEF ProviderAccepts, t

\* A whole round follows what was closed.
LEMMA AcceptsConcat ==
    ASSUME NEW s \in Seq(Message), ProviderAccepts(s), Unanswered(s, Len(s)) = {},
           NEW r \in Seq(Message), ProviderAccepts(r), r # <<>>
    PROVE  /\ ProviderAccepts(s \o r)
           /\ Unanswered(s \o r, Len(s \o r)) = Unanswered(r, Len(r))
<1>. DEFINE t == s \o r
<1>1. /\ Len(s) \in Nat /\ Len(r) \in Nat \ {0}
      /\ t \in Seq(Message) /\ Len(t) = Len(s) + Len(r)
  BY ConcatProperties, LenProperties, EmptySeq
<1>2. \A h \in 1..Len(s) : t[h] = s[h]
  BY <1>1, ConcatProperties
<1>3. \A h \in 1..Len(r) : r[h] = t[Len(s) + h]
  <2>1. TAKE h \in 1..Len(r)
  <2>2. Len(s) + h \in 1..(Len(s) + Len(r)) /\ ~ (Len(s) + h <= Len(s))
        /\ Len(s) + h - Len(s) = h
    BY <1>1
  <2>. QED  BY <2>2, ConcatProperties
<1>. HIDE DEF t
<1>4. r[1].role # "tool"
  <2>1. 1 \in 1..Len(r) /\ 1 - 1 = 0  BY <1>1
  <2>2. MayFollow(r, 0, r[1])  BY <2>1 DEF ProviderAccepts
  <2>. QED  BY <2>2, UnansweredOfNone DEF MayFollow
<1>5. \A k \in 0..Len(s) : Unanswered(t, k) = Unanswered(s, k)
  <2>1. TAKE k \in 0..Len(s)
  <2>2. k \in Nat /\ \A h \in 1..k : t[h] = s[h]  BY <1>1, <1>2
  <2>. QED  BY <2>2, UnansweredPrefix
<1>6. \A k \in 1..Len(r) : Unanswered(r, k) = Unanswered(t, Len(s) + k)
  <2>1. TAKE k \in 1..Len(r)
  <2>2. /\ k \in Nat /\ Len(s) \in Nat /\ 1 \in 1..k
        /\ \A h \in 1..k : r[h] = t[Len(s) + h]
    BY <1>1, <1>3
  <2>. QED  BY <1>4, <2>2, UnansweredShift
<1>7. ASSUME NEW k \in 1..Len(t) PROVE MayFollow(t, k - 1, t[k])
  <2>1. CASE k <= Len(s)
    <3>1. k \in 1..Len(s) /\ k - 1 \in 0..Len(s)  BY <1>1, <2>1
    <3>2. MayFollow(s, k - 1, s[k])  BY <3>1 DEF ProviderAccepts
    <3>. QED  BY <1>2, <1>5, <3>1, <3>2 DEF MayFollow
  <2>2. CASE k = Len(s) + 1
    <3>1. t[k] = r[1] /\ k - 1 = Len(s) /\ Len(s) \in 0..Len(s)
      BY <1>1, <1>3, <2>2
    <3>. QED  BY <1>4, <1>5, <3>1 DEF MayFollow
  <2>3. CASE k > Len(s) + 1
    <3>1. /\ k - Len(s) \in 1..Len(r) /\ (k - Len(s)) - 1 \in 1..Len(r)
          /\ Len(s) + (k - Len(s)) = k /\ Len(s) + ((k - Len(s)) - 1) = k - 1
      BY <1>1, <2>3
    <3>2. MayFollow(r, (k - Len(s)) - 1, r[k - Len(s)])
      BY <3>1 DEF ProviderAccepts
    <3>3. t[k] = r[k - Len(s)]  BY <1>3, <3>1
    <3>4. Unanswered(t, k - 1) = Unanswered(r, (k - Len(s)) - 1)  BY <1>6, <3>1
    <3>. QED  BY <3>2, <3>3, <3>4 DEF MayFollow
  <2>. QED  BY <1>1, <2>1, <2>2, <2>3, SMTT(30)
<1>8. ProviderAccepts(t)  BY <1>7 DEF ProviderAccepts
<1>9. Unanswered(t, Len(t)) = Unanswered(r, Len(r))  BY <1>1, <1>6
<1>. QED  BY <1>8, <1>9 DEF t

\* What is left of an accepted sequence is accepted if it does not begin with
\* a result, and the same calls are open at its end.
LEMMA AcceptsTail ==
    ASSUME NEW t \in Seq(Message), ProviderAccepts(t),
           NEW n \in 1..Len(t), t[n].role # "tool"
    PROVE  LET s == SubSeq(t, n, Len(t))
           IN  /\ ProviderAccepts(s)
               /\ Unanswered(s, Len(s)) = Unanswered(t, Len(t))
<1>. DEFINE s == SubSeq(t, n, Len(t))
            d == n - 1
<1>1. /\ Len(t) \in Nat /\ d \in Nat /\ s \in Seq(Message)
      /\ Len(s) = Len(t) - d /\ Len(s) \in Nat \ {0}
      /\ \A h \in 1..Len(s) : s[h] = t[d + h]
  <2>1. Len(t) \in Nat /\ \A h \in 1..Len(t) : t[h] \in Message
    BY LenProperties, ElementOfSeq
  <2>2. /\ s \in Seq(Message) /\ Len(s) = Len(t) - n + 1
        /\ \A h \in 1..(Len(t) - n + 1) : s[h] = t[n + h - 1]
    BY <2>1, SubSeqProperties
  <2>3. \A h \in 1..Len(s) : n + h - 1 = d + h  BY <2>1
  <2>. QED  BY <2>1, <2>2, <2>3
<1>2. s[1] = t[n]  BY <1>1
<1>. HIDE DEF s
<1>3. \A k \in 1..Len(s) : Unanswered(s, k) = Unanswered(t, d + k)
  <2>1. TAKE k \in 1..Len(s)
  <2>2. k \in Nat /\ 1 \in 1..k /\ \A h \in 1..k : s[h] = t[d + h]  BY <1>1
  <2>3. \E h \in 1..k : s[h].role # "tool"  BY <1>2, <2>2
  <2>4. d \in Nat  BY <1>1
  <2>. HIDE DEF d
  <2>. QED  BY <2>2, <2>3, <2>4, UnansweredShift
<1>4. ASSUME NEW k \in 1..Len(s) PROVE MayFollow(s, k - 1, s[k])
  <2>1. CASE k = 1  BY <1>2, <2>1, UnansweredOfNone DEF MayFollow
  <2>2. CASE k # 1
    <3>1. /\ k - 1 \in 1..Len(s) /\ d + k \in 1..Len(t) /\ (d + k) - 1 = d + (k - 1)
          /\ s[k] = t[d + k]
      BY <1>1, <2>2
    <3>2. MayFollow(t, (d + k) - 1, t[d + k])  BY <3>1 DEF ProviderAccepts
    <3>3. Unanswered(s, k - 1) = Unanswered(t, (d + k) - 1)  BY <1>3, <3>1
    <3>. QED  BY <3>1, <3>2, <3>3 DEF MayFollow
  <2>. QED  BY <2>1, <2>2
<1>5. Len(s) \in 1..Len(s) /\ d + Len(s) = Len(t)  BY <1>1
<1>6. Unanswered(s, Len(s)) = Unanswered(t, Len(t))  BY <1>3, <1>5
<1>. QED  BY <1>4, <1>6 DEF ProviderAccepts, s

-----------------------------------------------------------------------------
(* What sanitizeHistory returns.                                           *)

\* Whatever was cut out of an accepted sequence: sanitizeHistory drops the
\* results it begins with, up to its first other message, and nothing else.
LEMMA SanitizeOfTail ==
    ASSUME NEW t \in Seq(Message), ProviderAccepts(t),
           NEW i \in 1..(Len(t) + 1), NEW n \in i..(Len(t) + 1),
           \A j \in i..(n - 1) : t[j].role = "tool",
           n = Len(t) + 1 \/ t[n].role # "tool"
    PROVE  SanitizeHistory(SubSeq(t, i, Len(t))) = SubSeq(t, n, Len(t))
<1>. DEFINE s == SubSeq(t, i, Len(t))
            d == i - 1
            f == n - d
            pass == SanitizePass(s)
            \* What the pass holds after k messages.
            Holds(k) == /\ pass[k].out = SubSeq(s, f, k)
                        /\ pass[k].pending = Unanswered(s, k)
            B == {k \in 0..Len(s) : ~ Holds(k)}
<1>1. /\ Len(t) \in Nat /\ d \in Nat /\ s \in Seq(Message)
      /\ Len(s) \in Nat /\ Len(s) = Len(t) - d /\ f \in 1..(Len(s) + 1)
      /\ \A h \in 1..Len(s) : s[h] = t[d + h] /\ s[h] \in Message
  <2>1. Len(t) \in Nat /\ \A h \in 1..Len(t) : t[h] \in Message
    BY LenProperties, ElementOfSeq
  <2>2. /\ s \in Seq(Message) /\ Len(s) = IF i <= Len(t) THEN Len(t) - i + 1 ELSE 0
        /\ \A h \in 1..(Len(t) - i + 1) : s[h] = t[i + h - 1]
    BY <2>1, SubSeqProperties
  <2>3. \A h \in 1..Len(s) : i + h - 1 = d + h /\ d + h \in 1..Len(t)  BY <2>1, <2>2
  <2>4. Len(s) = Len(t) - d /\ Len(s) \in Nat  BY <2>1, <2>2
  <2>. HIDE DEF s
  <2>5. \A h \in 1..Len(s) : h \in 1..(Len(t) - i + 1)  BY <2>1, <2>4
  <2>. QED  BY <2>1, <2>2, <2>3, <2>4, <2>5
<1>2. /\ \A h \in 1..(f - 1) : h \in 1..Len(s) /\ s[h].role = "tool"
      /\ f <= Len(s) => s[f].role # "tool"
  <2>. HIDE DEF s
  <2>1. i \in Nat /\ n \in Nat /\ i = d + 1 /\ n = d + f  BY <1>1
  <2>. HIDE DEF d, f
  <2>2. \A h \in 1..(f - 1) : h \in 1..Len(s) /\ d + h \in i..(n - 1)
    BY <1>1, <2>1
  <2>3. f <= Len(s) => n # Len(t) + 1 /\ f \in 1..Len(s) /\ d + f = n
    BY <1>1, <2>1
  <2>4. \A h \in 1..(f - 1) : s[h].role = "tool"  BY <1>1, <2>2
  <2>5. f <= Len(s) => s[f].role # "tool"  BY <1>1, <2>3
  <2>. QED  BY <2>2, <2>4, <2>5
<1>. HIDE DEF s
<1>3. \A k \in 0..(f - 1) : Unanswered(s, k) = {}
  BY <1>1, <1>2 DEF Unanswered
<1>4. ASSUME NEW k \in f..Len(s) PROVE MayFollow(s, k - 1, s[k])
  <2>1. CASE k = f
    <3>1. f - 1 \in 0..(f - 1)
      <4>. HIDE DEF f
      <4>. QED  BY <1>1
    <3>. QED  BY <1>2, <1>3, <2>1, <3>1 DEF MayFollow
  <2>2. CASE k # f
    <3>1. /\ k \in 1..Len(s) /\ k - 1 \in Nat /\ f \in 1..(k - 1)
          /\ d + k \in 1..Len(t) /\ (d + k) - 1 = d + (k - 1) /\ d \in Nat
          /\ \A h \in 1..(k - 1) : s[h] = t[d + h]
      BY <1>1, <2>2
    <3>2. \E h \in 1..(k - 1) : s[h].role # "tool"  BY <1>2, <3>1
    <3>. HIDE DEF d, f
    <3>3. Unanswered(s, k - 1) = Unanswered(t, d + (k - 1))
      BY <3>1, <3>2, UnansweredShift, ZenonT(40)
    <3>4. MayFollow(t, (d + k) - 1, t[d + k])  BY <3>1 DEF ProviderAccepts
    <3>5. s[k] = t[d + k]  BY <1>1, <3>1
    <3>. QED  BY <3>1, <3>3, <3>4, <3>5 DEF MayFollow
  <2>. QED  BY <2>1, <2>2
<1>. HIDE DEF d, f
<1>5. pass = [k \in 0..Len(s) |-> IF k = 0 THEN NothingYet
                                  ELSE SanitizeStep(pass[k - 1], s[k])]
  BY <1>1, PassUnfolds DEF IsPass
<1>. HIDE DEF pass
<1>6. Holds(0)
  <2>1. pass[0] = NothingYet  BY <1>1, <1>5
  <2>2. SubSeq(s, f, 0) = <<>>  BY <1>1, SubSeqEmpty
  <2>3. pass[0].out = <<>> /\ pass[0].pending = {}  BY <2>1 DEF NothingYet
  <2>. QED  BY <2>2, <2>3, UnansweredOfNone
<1>7. ASSUME NEW k \in 1..Len(s), Holds(k - 1) PROVE Holds(k)
  <2>1. /\ k \in 0..Len(s) /\ k # 0 /\ k - 1 \in 0..Len(s) /\ f \in Nat \ {0}
        /\ s[k] \in Message
    BY <1>1
  <2>2. pass[k] = SanitizeStep(pass[k - 1], s[k])  BY <1>5, <2>1
  <2>3. /\ s[k].role = "assistant" => Unanswered(s, k) = s[k].calls
        /\ s[k].role = "tool" =>
              Unanswered(s, k) = Unanswered(s, k - 1) \ {s[k].answers}
        /\ s[k].role = "user" => Unanswered(s, k) = {}
    BY <1>1, UnansweredNext
  <2>4. s[k].role \in {"user", "assistant", "tool"}  BY <2>1, MessageRoles
  <2>5. CASE k < f
    <3>1. k - 1 \in 0..(f - 1) /\ k \in 0..(f - 1) /\ k \in 1..(f - 1)
          /\ k - 1 < f /\ k \in Int /\ k - 1 \in Int /\ f \in Int
      BY <2>1, <2>5
    <3>2. s[k].role = "tool" /\ s[k].answers \notin pass[k - 1].pending
      BY <1>2, <1>3, <1>7, <3>1
    <3>3. pass[k] = pass[k - 1]  BY <2>2, <3>2 DEF SanitizeStep
    <3>4. SubSeq(s, f, k) = <<>> /\ SubSeq(s, f, k - 1) = <<>>
      BY <2>5, <3>1, SubSeqEmpty
    <3>. QED  BY <1>3, <1>7, <3>1, <3>3, <3>4
  <2>6. CASE k >= f
    <3>1. k \in f..Len(s) /\ f \in 1..Len(s)  BY <1>1, <2>1, <2>6
    <3>2. MayFollow(s, k - 1, s[k])  BY <1>4, <3>1
    <3>3. ~ (s[k].role = "tool" /\ s[k].answers \notin pass[k - 1].pending)
      BY <1>7, <3>2 DEF MayFollow
    <3>4. /\ pass[k].out = Append(pass[k - 1].out, s[k])
          /\ pass[k].pending = CASE s[k].role = "assistant" -> s[k].calls
                                 [] s[k].role = "tool" ->
                                       pass[k - 1].pending \ {s[k].answers}
                                 [] OTHER -> pass[k - 1].pending
      BY <2>2, <3>3 DEF SanitizeStep
    <3>5. pass[k].pending = Unanswered(s, k)
      <4>1. CASE s[k].role = "assistant"  BY <2>3, <3>4, <4>1
      <4>2. CASE s[k].role = "tool"  BY <1>7, <2>3, <3>4, <4>2
      <4>3. CASE s[k].role = "user"
        <5>1. pass[k].pending = pass[k - 1].pending  BY <3>4, <4>3
        <5>2. Unanswered(s, k - 1) = {}  BY <3>2, <4>3 DEF MayFollow
        <5>. QED  BY <1>7, <2>3, <4>3, <5>1, <5>2
      <4>. QED  BY <2>4, <4>1, <4>2, <4>3
    <3>6. SubSeq(s, f, k) = SubSeq(s, f, k - 1) \o <<s[k]>>
      BY <1>1, <3>1, SubSeqRecursiveSecond
    <3>7. SubSeq(s, f, k - 1) \in Seq(Message)
      <4>1. f \in Int /\ k - 1 \in Int /\ \A h \in f..(k - 1) : s[h] \in Message
        BY <1>1, <2>1
      <4>. QED  BY <4>1, SubSeqProperties
    <3>8. SubSeq(s, f, k) = Append(SubSeq(s, f, k - 1), s[k])
      BY <2>1, <3>6, <3>7, AppendIsConcat
    <3>. QED  BY <1>7, <3>4, <3>5, <3>8
  <2>. QED  BY <1>1, <2>1, <2>5, <2>6
<1>8. B = {}
  <2>1. SUFFICES ASSUME B # {} PROVE FALSE  OBVIOUS
  <2>2. PICK k \in B : \A h \in B : k <= h
    <3>1. B \in SUBSET Nat  OBVIOUS
    <3>. HIDE DEF B
    <3>. QED  BY <2>1, <3>1, LeastOf
  <2>3. k \in 0..Len(s) /\ ~ Holds(k)  OBVIOUS
  <2>. HIDE DEF Holds
  <2>4. k # 0  BY <1>6, <2>3
  <2>5. k \in 1..Len(s) /\ k - 1 \in 0..Len(s) /\ ~ (k <= k - 1)  BY <1>1, <2>3, <2>4
  <2>6. Holds(k - 1)  BY <2>2, <2>5
  <2>. QED  BY <1>7, <2>3, <2>5, <2>6
<1>9. SanitizeHistory(s) = SubSeq(s, f, Len(s))
  <2>1. Len(s) \in 0..Len(s)  BY <1>1
  <2>2. Holds(Len(s))  BY <1>8, <2>1
  <2>. QED  BY <2>2 DEF SanitizeHistory, pass
<1>10. SubSeq(s, f, Len(s)) = SubSeq(t, n, Len(t))
  <2>1. CASE n = Len(t) + 1
    <3>1. Len(s) < f /\ Len(t) < n /\ f \in Int /\ Len(s) \in Int
          /\ n \in Int /\ Len(t) \in Int
      BY <1>1, <2>1 DEF f, d
    <3>. QED  BY <3>1, SubSeqEmpty
  <2>2. CASE n # Len(t) + 1
    <3>1. /\ i \in 1..Len(t) /\ Len(t) \in 1..Len(t)
          /\ f \in 1..(Len(t) - i + 1) /\ Len(s) \in 1..(Len(t) - i + 1)
          /\ i + f - 1 = n /\ i + Len(s) - 1 = Len(t)
      BY <1>1, <2>2 DEF f, d
    <3>2. SubSeq(SubSeq(t, i, Len(t)), f, Len(s))
             = SubSeq(t, i + f - 1, i + Len(s) - 1)
      <4>. HIDE DEF f
      <4>. DEFINE e == Len(s)
                  l == Len(t)
      <4>1. i \in 1..Len(t) /\ l \in 1..Len(t) /\ f \in 1..(l - i + 1)
            /\ e \in 1..(l - i + 1)
        BY <3>1
      <4>. HIDE DEF e, l
      <4>2. SubSeq(SubSeq(t, i, l), f, e) = SubSeq(t, i + f - 1, i + e - 1)
        BY <4>1, SubSeqOfSubSeq
      <4>. QED  BY <4>2 DEF e, l
    <3>. QED  BY <3>1, <3>2 DEF s
  <2>. QED  BY <2>1, <2>2
<1>. QED  BY <1>9, <1>10 DEF s

-----------------------------------------------------------------------------
(* The history is an end of the transcript.                                *)

Closed(ms) == ProviderAccepts(ms) /\ Unanswered(ms, Len(ms)) = {}

Inv ==
    /\ MemoryTypeOK
    /\ Closed(transcript)
    /\ HistoryIsRecent
    /\ RequestsAccepted
    /\ ProviderAccepts(runMsgs)
    /\ sending # <<>> => tried \in Rounds

LEMMA FirstOther ==
    ASSUME NEW t \in Seq(Message), NEW i \in 1..(Len(t) + 1)
    PROVE  \E n \in i..(Len(t) + 1) :
               /\ \A j \in i..(n - 1) : t[j].role = "tool"
               /\ n = Len(t) + 1 \/ t[n].role # "tool"
<1>. DEFINE Q == {n \in i..(Len(t) + 1) : n = Len(t) + 1 \/ t[n].role # "tool"}
<1>1. Len(t) \in Nat  BY LenProperties
<1>2. Len(t) + 1 \in Q /\ Q \in SUBSET Nat  BY <1>1
<1>3. PICK n \in Q : \A m \in Q : n <= m
  <2>. HIDE DEF Q
  <2>. QED  BY <1>2, LeastOf
<1>4. ASSUME NEW j \in i..(n - 1) PROVE t[j].role = "tool"
  <2>1. j \in i..(Len(t) + 1) /\ ~ (n <= j)  BY <1>1
  <2>. QED  BY <1>3, <2>1
<1>. QED  BY <1>4

LEMMA TailProperties ==
    ASSUME NEW t \in Seq(Message), NEW i \in 1..(Len(t) + 1)
    PROVE  /\ SubSeq(t, i, Len(t)) \in Seq(Message)
           /\ Len(SubSeq(t, i, Len(t))) = Len(t) - i + 1
           /\ \A h \in 1..(Len(t) - i + 1) :
                  SubSeq(t, i, Len(t))[h] = t[i + h - 1]
<1>1. /\ Len(t) \in Int /\ i \in Int /\ \A h \in i..Len(t) : t[h] \in Message
  BY LenProperties, ElementOfSeq
<1>2. (IF i <= Len(t) THEN Len(t) - i + 1 ELSE 0) = Len(t) - i + 1
  BY <1>1
<1>. QED  BY <1>1, <1>2, SubSeqProperties

\* What follows a tail continues it.
LEMMA TailGrows ==
    ASSUME NEW t \in Seq(Message), NEW new \in Seq(Message),
           NEW i \in 1..(Len(t) + 1)
    PROVE  SubSeq(t, i, Len(t)) \o new = SubSeq(t \o new, i, Len(t \o new))
<1>. DEFINE a == SubSeq(t, i, Len(t))
            u == t \o new
            b == SubSeq(u, i, Len(u))
<1>1. /\ u \in Seq(Message) /\ Len(u) = Len(t) + Len(new)
      /\ \A h \in 1..(Len(t) + Len(new)) :
            u[h] = IF h <= Len(t) THEN t[h] ELSE new[h - Len(t)]
      /\ Len(t) \in Nat /\ Len(new) \in Nat
  BY ConcatProperties, LenProperties
<1>2. /\ a \in Seq(Message) /\ Len(a) = Len(t) - i + 1
      /\ \A h \in 1..(Len(t) - i + 1) : a[h] = t[i + h - 1]
  BY TailProperties
<1>. HIDE DEF u
<1>3. i \in 1..(Len(u) + 1)  BY <1>1
<1>4. /\ b \in Seq(Message) /\ Len(b) = Len(u) - i + 1
      /\ \A h \in 1..(Len(u) - i + 1) : b[h] = u[i + h - 1]
  BY <1>1, <1>3, TailProperties
<1>. HIDE DEF a, b
<1>5. /\ a \o new \in Seq(Message) /\ Len(a \o new) = Len(a) + Len(new)
      /\ \A h \in 1..(Len(a) + Len(new)) :
            (a \o new)[h] = IF h <= Len(a) THEN a[h] ELSE new[h - Len(a)]
  BY <1>2, ConcatProperties
<1>6. Len(a \o new) = Len(b)  BY <1>1, <1>2, <1>4, <1>5
<1>7. ASSUME NEW h \in 1..Len(a \o new) PROVE (a \o new)[h] = b[h]
  <2>1. h \in 1..(Len(u) - i + 1) /\ h \in 1..(Len(a) + Len(new))
        /\ i + h - 1 \in 1..(Len(t) + Len(new))
    BY <1>1, <1>2, <1>5
  <2>2. b[h] = u[i + h - 1]  BY <1>4, <2>1
  <2>3. CASE h <= Len(a)
    <3>1. h \in 1..(Len(t) - i + 1) /\ i + h - 1 <= Len(t)  BY <1>1, <1>2, <2>1, <2>3
    <3>. QED  BY <1>1, <1>2, <1>5, <2>1, <2>2, <2>3, <3>1
  <2>4. CASE h > Len(a)
    <3>1. ~ (i + h - 1 <= Len(t)) /\ i + h - 1 - Len(t) = h - Len(a) /\ ~ (h <= Len(a))
      BY <1>1, <1>2, <2>1, <2>4
    <3>2. u[i + h - 1] = new[i + h - 1 - Len(t)]  BY <1>1, <2>1, <3>1, SMTT(30)
    <3>3. (a \o new)[h] = new[h - Len(a)]  BY <1>5, <2>1, <3>1
    <3>. QED  BY <2>2, <3>1, <3>2, <3>3
  <2>. QED  BY <1>1, <1>2, <2>1, <2>3, <2>4
<1>. QED  BY <1>4, <1>5, <1>6, <1>7, SeqEqual DEF a, b, u

\* The stored history, sanitized, is closed, whatever trimHistory cut off.
LEMMA SanitizedHistory ==
    ASSUME Inv
    PROVE  /\ SanitizeHistory(history) \in Seq(Message)
           /\ Len(SanitizeHistory(history)) <= Len(history)
           /\ Closed(SanitizeHistory(history))
<1>. DEFINE t == transcript
            i == Len(t) - Len(history) + 1
<1>1. /\ t \in Seq(Message) /\ history \in Seq(Message) /\ Closed(t)
      /\ Len(history) <= Len(t) /\ history = LastN(t, Len(history))
  BY DEF Inv, MemoryTypeOK, HistoryIsRecent
<1>2. Len(t) \in Nat /\ Len(history) \in Nat  BY <1>1, LenProperties
<1>3. history = SubSeq(t, i, Len(t)) /\ i \in 1..(Len(t) + 1)
  BY <1>1, <1>2 DEF LastN
<1>. HIDE DEF t
<1>4. i \in Nat /\ Len(history) = Len(t) - i + 1  BY <1>1, <1>2
<1>. HIDE DEF i
<1>5. PICK n \in i..(Len(t) + 1) :
          /\ \A j \in i..(n - 1) : t[j].role = "tool"
          /\ n = Len(t) + 1 \/ t[n].role # "tool"
  BY <1>1, <1>3, FirstOther
<1>6. n \in 1..(Len(t) + 1) /\ n \in Nat /\ n >= i  BY <1>2, <1>4, <1>3
<1>7. SanitizeHistory(history) = SubSeq(t, n, Len(t))
  BY <1>1, <1>3, <1>5, SanitizeOfTail DEF Closed
<1>8. /\ SubSeq(t, n, Len(t)) \in Seq(Message)
      /\ Len(SubSeq(t, n, Len(t))) = Len(t) - n + 1
  BY <1>1, <1>6, TailProperties
<1>9. Closed(SubSeq(t, n, Len(t)))
  <2>1. CASE n = Len(t) + 1
    <3>1. SubSeq(t, n, Len(t)) = <<>>
      <4>1. Len(t) < n /\ n \in Int /\ Len(t) \in Int  BY <1>2, <1>6, <2>1
      <4>. QED  BY <4>1, SubSeqEmpty
    <3>2. Len(<<>>) = 0 /\ \A k \in 1..0 : FALSE  BY EmptySeq
    <3>. QED  BY <3>1, <3>2, UnansweredOfNone DEF Closed, ProviderAccepts
  <2>2. CASE n # Len(t) + 1
    <3>1. n \in 1..Len(t) /\ t[n].role # "tool"  BY <1>2, <1>5, <1>6, <2>2
    <3>. QED  BY <1>1, <3>1, AcceptsTail DEF Closed
  <2>. QED  BY <2>1, <2>2
<1>10. Len(SubSeq(t, n, Len(t))) <= Len(history)  BY <1>2, <1>4, <1>6, <1>8
<1>. QED  BY <1>7, <1>8, <1>9, <1>10

-----------------------------------------------------------------------------
(* The rounds keep the invariant.                                          *)

\* A user message may follow what is closed, and opens nothing.
LEMMA UserFollows ==
    ASSUME NEW s \in Seq(Message), Closed(s), NEW r \in Rounds
    PROVE  /\ WithUserMessage(s, UserMsg(r)) \in Seq(Message)
           /\ Len(WithUserMessage(s, UserMsg(r))) = Len(s) + 1
           /\ Closed(WithUserMessage(s, UserMsg(r)))
<1>. DEFINE u == UserMsg(r)
            t == Append(s, u)
<1>1. u \in Message /\ u.role = "user"  BY DEF UserMsg, Message
<1>. HIDE DEF u
<1>2. Len(s) \in Nat /\ t \in Seq(Message) /\ Len(t) = Len(s) + 1 /\ t[Len(t)] = u
  BY <1>1, AppendProperties, LenProperties
<1>3. MayFollow(s, Len(s), u)  BY <1>1 DEF MayFollow, Closed
<1>4. ProviderAccepts(t)  BY <1>1, <1>3, AcceptsAppend DEF Closed
<1>. HIDE DEF t
<1>5. Unanswered(t, Len(t)) = {}
  <2>1. Len(t) \in 1..Len(t)  BY <1>2
  <2>. QED  BY <1>1, <1>2, <2>1, UnansweredNext
<1>. QED  BY <1>2, <1>4, <1>5 DEF t, u, Closed, WithUserMessage

\* The round's last message leaves nothing open.
LEMMA AnswerFollows ==
    ASSUME NEW s \in Seq(Message), Closed(s), NEW r \in Rounds
    PROVE  /\ Append(s, AssistantMsg(r, {})) \in Seq(Message)
           /\ Append(s, AssistantMsg(r, {})) # <<>>
           /\ Closed(Append(s, AssistantMsg(r, {})))
<1>. DEFINE a == AssistantMsg(r, {})
            t == Append(s, a)
<1>1. a \in Message /\ a.role = "assistant" /\ a.calls = {}
  BY DEF AssistantMsg, Message
<1>. HIDE DEF a
<1>2. /\ Len(s) \in Nat /\ t \in Seq(Message) /\ t # <<>> /\ Len(t) = Len(s) + 1
      /\ t[Len(t)] = a
  BY <1>1, AppendProperties, LenProperties
<1>3. MayFollow(s, Len(s), a)  BY <1>1 DEF MayFollow, Closed
<1>4. ProviderAccepts(t)  BY <1>1, <1>3, AcceptsAppend DEF Closed
<1>. HIDE DEF t
<1>5. Unanswered(t, Len(t)) = {}
  <2>1. Len(t) \in 1..Len(t)  BY <1>2
  <2>. QED  BY <1>1, <1>2, <2>1, UnansweredNext
<1>. QED  BY <1>2, <1>4, <1>5 DEF t, a, Closed

LEMMA InitInv ==
    ASSUME ConversationInit
    PROVE  Inv
<1>1. <<>> \in Seq(Message) /\ Len(<<>>) = 0  BY EmptySeq
<1>2. ProviderAccepts(<<>>)  BY <1>1 DEF ProviderAccepts
<1>3. Closed(<<>>)  BY <1>1, <1>2, UnansweredOfNone DEF Closed
<1>4. SubSeq(<<>>, 0 - 0 + 1, 0) = <<>>  BY SubSeqEmpty
<1>5. HistoryIsRecent
  <2>1. LastN(<<>>, Len(<<>>)) = <<>>  BY <1>1, <1>4 DEF LastN
  <2>2. 1..(Len(<<>>) - Len(<<>>)) = {}  BY <1>1
  <2>. QED  BY <1>1, <2>1, <2>2 DEF ConversationInit, HistoryIsRecent
<1>6. MemoryTypeOK  BY <1>1, HistoryAssumption DEF ConversationInit, MemoryTypeOK
<1>. QED  BY <1>2, <1>3, <1>5, <1>6 DEF ConversationInit, Inv, RequestsAccepted

LEMMA StartRoundKeepsInv ==
    ASSUME Inv, StartRound
    PROVE  Inv'
<1>. DEFINE s == SanitizeHistory(history)
            r == tried + 1
<1>1. /\ tried \in 0..MaxRounds /\ tried < MaxRounds
      /\ Len(history) <= MaxHistoryMessages /\ history \in Seq(Message)
  BY DEF Inv, MemoryTypeOK, StartRound
<1>2. r \in Rounds /\ tried' = r /\ r \in 0..MaxRounds
  BY <1>1, HistoryAssumption DEF StartRound, Rounds
<1>3. s \in Seq(Message) /\ Len(s) <= Len(history) /\ Closed(s)
  BY SanitizedHistory
<1>4. sending' = WithUserMessage(s, UserMsg(r))  BY DEF StartRound
<1>. HIDE DEF s, r
<1>5. sending' \in Seq(Message) /\ Len(sending') = Len(s) + 1 /\ Closed(sending')
  BY <1>2, <1>3, <1>4, UserFollows
<1>6. Len(sending') <= MaxHistoryMessages + 1
  <2>1. Len(s) \in Nat /\ Len(history) \in Nat  BY <1>1, <1>3, LenProperties
  <2>. QED  BY <1>1, <1>3, <1>5, <2>1, HistoryAssumption
<1>7. UNCHANGED <<history, runMsgs, transcript>>  BY DEF StartRound
<1>8. MemoryTypeOK'  BY <1>2, <1>5, <1>6, <1>7 DEF Inv, MemoryTypeOK
<1>9. RequestsAccepted'  BY <1>5 DEF RequestsAccepted, Closed
<1>10. HistoryIsRecent' /\ Closed(transcript)' /\ ProviderAccepts(runMsgs)'
  <2>1. HistoryIsRecent /\ Closed(transcript) /\ ProviderAccepts(runMsgs)  BY DEF Inv
  <2>2. HistoryIsRecent'  BY <1>7, <2>1 DEF HistoryIsRecent, LastN
  <2>3. Closed(transcript)' /\ ProviderAccepts(runMsgs)'  BY <1>7, <2>1
  <2>. QED  BY <2>2, <2>3
<1>. QED  BY <1>2, <1>8, <1>9, <1>10 DEF Inv

\* The events of a round only add to what it has reported.
LEMMA ReportKeepsInv ==
    ASSUME Inv, NEW m \in Message, MayFollow(runMsgs, Len(runMsgs), m),
           runMsgs' = Append(runMsgs, m),
           UNCHANGED <<history, sending, tried, transcript>>
    PROVE  Inv'
<1>1. runMsgs \in Seq(Message) /\ ProviderAccepts(runMsgs)  BY DEF Inv, MemoryTypeOK
<1>2. ProviderAccepts(runMsgs')  BY <1>1, AcceptsAppend
<1>3. runMsgs' \in Seq(Message)  BY <1>1, AppendProperties
<1>4. MemoryTypeOK'  BY <1>3 DEF Inv, MemoryTypeOK
<1>5. ProviderAccepts(runMsgs)'  BY <1>2
<1>6. HistoryIsRecent' /\ Closed(transcript)' /\ RequestsAccepted'
  <2>1. HistoryIsRecent /\ Closed(transcript) /\ RequestsAccepted  BY DEF Inv
  <2>2. HistoryIsRecent'  BY <2>1 DEF HistoryIsRecent, LastN
  <2>3. Closed(transcript)'
    <3>1. transcript' = transcript  OBVIOUS
    <3>. QED  BY <2>1, <3>1
  <2>4. sending' = sending  OBVIOUS
  <2>5. ProviderAccepts(sending')  BY <2>1, <2>4 DEF RequestsAccepted
  <2>6. RequestsAccepted'  BY <2>5 DEF RequestsAccepted
  <2>. QED  BY <2>2, <2>3, <2>6
<1>. QED  BY <1>4, <1>5, <1>6 DEF Inv

LEMMA ModelCallsToolsKeepsInv ==
    ASSUME Inv, ModelCallsTools
    PROVE  Inv'
<1>1. tried \in Rounds  BY DEF Inv, ModelCallsTools
<1>2. PICK cs \in SUBSET CallIDs : runMsgs' = Append(runMsgs, AssistantMsg(tried, cs))
  BY DEF ModelCallsTools
<1>. DEFINE m == AssistantMsg(tried, cs)
<1>3. m \in Message /\ m.role = "assistant"  BY <1>1 DEF AssistantMsg, Message
<1>. HIDE DEF m
<1>4. MayFollow(runMsgs, Len(runMsgs), m)
  BY <1>3 DEF MayFollow, ModelCallsTools
<1>5. runMsgs' = Append(runMsgs, m)  BY <1>2 DEF m
<1>6. UNCHANGED <<history, sending, tried, transcript>>  BY DEF ModelCallsTools
<1>. QED  BY <1>3, <1>4, <1>5, <1>6, ReportKeepsInv

LEMMA ToolAnswersKeepsInv ==
    ASSUME Inv, ToolAnswers
    PROVE  Inv'
<1>1. tried \in Rounds  BY DEF Inv, ToolAnswers
<1>2. PICK c \in Unanswered(runMsgs, Len(runMsgs)) :
          runMsgs' = Append(runMsgs, ToolMsg(tried, c))
  BY DEF ToolAnswers
<1>. DEFINE m == ToolMsg(tried, c)
<1>3. c \in CallIDs  BY DEF Unanswered
<1>4. m \in Message /\ m.role = "tool" /\ m.answers = c
  BY <1>1, <1>3 DEF ToolMsg, Message
<1>. HIDE DEF m
<1>5. MayFollow(runMsgs, Len(runMsgs), m)  BY <1>4 DEF MayFollow
<1>6. runMsgs' = Append(runMsgs, m)  BY <1>2 DEF m
<1>7. UNCHANGED <<history, sending, tried, transcript>>  BY DEF ToolAnswers
<1>. QED  BY <1>4, <1>5, <1>6, <1>7, ReportKeepsInv

LEMMA RoundFailsKeepsInv ==
    ASSUME Inv, RoundFails
    PROVE  Inv'
<1>1. /\ sending' = <<>> /\ runMsgs' = <<>>
      /\ UNCHANGED <<history, tried, transcript>>
  BY DEF RoundFails
<1>2. <<>> \in Seq(Message) /\ Len(<<>>) = 0  BY EmptySeq
<1>3. ProviderAccepts(<<>>)  BY <1>2 DEF ProviderAccepts
<1>4. MemoryTypeOK'  BY <1>1, <1>2, HistoryAssumption DEF Inv, MemoryTypeOK
<1>5. RequestsAccepted' /\ ProviderAccepts(runMsgs)'
  BY <1>1, <1>3 DEF RequestsAccepted
<1>6. HistoryIsRecent' /\ Closed(transcript)'
  <2>1. HistoryIsRecent /\ Closed(transcript)  BY DEF Inv
  <2>2. HistoryIsRecent'  BY <1>1, <2>1 DEF HistoryIsRecent, LastN
  <2>3. Closed(transcript)'  BY <1>1, <2>1
  <2>. QED  BY <2>2, <2>3
<1>. QED  BY <1>1, <1>4, <1>5, <1>6 DEF Inv

\* trimHistory of an end of a sequence is an end of it, of at most max messages.
LEMMA TrimOfTail ==
    ASSUME NEW t \in Seq(Message), NEW n \in 1..(Len(t) + 1),
           NEW max \in Nat \ {0}
    PROVE  \E m \in n..(Len(t) + 1) :
               /\ TrimHistory(SubSeq(t, n, Len(t)), max) = SubSeq(t, m, Len(t))
               /\ Len(t) - m + 1 <= max
               /\ m = n \/ m = Len(t) - max + 1
<1>. DEFINE s == SubSeq(t, n, Len(t))
<1>1. Len(t) \in Nat /\ n \in Nat /\ Len(s) = Len(t) - n + 1
  BY LenProperties, TailProperties
<1>2. CASE Len(s) <= max
  <2>1. TrimHistory(s, max) = s  BY <1>2 DEF TrimHistory
  <2>2. n \in n..(Len(t) + 1) /\ Len(t) - n + 1 <= max  BY <1>1, <1>2
  <2>. QED  BY <2>1, <2>2
<1>3. CASE ~ (Len(s) <= max)
  <2>. DEFINE m == Len(t) - max + 1
              l == Len(t)
              e == Len(s)
              f == e - max + 1
  <2>1. /\ m \in n..(l + 1) /\ l - m + 1 <= max
        /\ n \in 1..l /\ l \in 1..l /\ f \in 1..(l - n + 1) /\ e \in 1..(l - n + 1)
        /\ n + f - 1 = m /\ n + e - 1 = l
    BY <1>1, <1>3
  <2>2. TrimHistory(s, max) = SubSeq(s, f, e)  BY <1>3 DEF TrimHistory, LastN
  <2>. HIDE DEF f, e, l, m
  <2>3. SubSeq(SubSeq(t, n, l), f, e) = SubSeq(t, n + f - 1, n + e - 1)
    <3>1. n \in 1..Len(t) /\ l \in 1..Len(t)  BY <2>1 DEF l
    <3>. QED  BY <2>1, <3>1, SubSeqOfSubSeq
  <2>4. TrimHistory(s, max) = SubSeq(t, m, Len(t))  BY <2>1, <2>2, <2>3 DEF l
  <2>. QED  BY <2>1, <2>4 DEF m, l
<1>. QED  BY <1>2, <1>3

\* runOnce's commit: the history it leaves is again an end of the transcript.
LEMMA CommitKeepsRecent ==
    ASSUME NEW t \in Seq(Message), NEW new \in Seq(Message), new # <<>>,
           new[1].role # "tool", ProviderAccepts(t \o new),
           NEW i \in 1..(Len(t) + 1),
           \A k \in 1..(i - 1) :
               k > Len(t) - MaxHistoryMessages => t[k].role = "tool"
    PROVE  \E m \in 1..(Len(t \o new) + 1) :
               /\ TrimHistory(SanitizeHistory(SubSeq(t, i, Len(t)) \o new),
                              MaxHistoryMessages)
                     = SubSeq(t \o new, m, Len(t \o new))
               /\ Len(t \o new) - m + 1 <= MaxHistoryMessages
               /\ \A k \in 1..(m - 1) :
                     k > Len(t \o new) - MaxHistoryMessages
                        => (t \o new)[k].role = "tool"
<1>. DEFINE u == t \o new
            max == MaxHistoryMessages
<1>1. /\ Len(t) \in Nat /\ Len(new) \in Nat \ {0} /\ Len(u) = Len(t) + Len(new)
      /\ u \in Seq(Message) /\ u[Len(t) + 1] = new[1]
      /\ \A k \in 1..Len(t) : u[k] = t[k]
  <2>1. /\ Len(t) \in Nat /\ Len(new) \in Nat \ {0}  BY LenProperties, EmptySeq
  <2>2. /\ Len(u) = Len(t) + Len(new) /\ u \in Seq(Message)
        /\ \A k \in 1..(Len(t) + Len(new)) :
              u[k] = IF k <= Len(t) THEN t[k] ELSE new[k - Len(t)]
    BY ConcatProperties
  <2>3. Len(t) + 1 \in 1..(Len(t) + Len(new)) /\ ~ (Len(t) + 1 <= Len(t))
        /\ Len(t) + 1 - Len(t) = 1
    BY <2>1
  <2>4. u[Len(t) + 1] = new[1]  BY <2>2, <2>3
  <2>5. \A k \in 1..Len(t) : k \in 1..(Len(t) + Len(new)) /\ k <= Len(t)  BY <2>1
  <2>. QED  BY <2>1, <2>2, <2>4, <2>5
<1>2. SubSeq(t, i, Len(t)) \o new = SubSeq(u, i, Len(u))  BY TailGrows
<1>. HIDE DEF u
<1>3. i \in 1..(Len(u) + 1)  BY <1>1
<1>4. PICK n \in i..(Len(u) + 1) :
          /\ \A j \in i..(n - 1) : u[j].role = "tool"
          /\ n = Len(u) + 1 \/ u[n].role # "tool"
  BY <1>1, <1>3, FirstOther
<1>5. n \in 1..(Len(u) + 1) /\ n \in Nat /\ i \in Nat  BY <1>1, <1>3
<1>6. SanitizeHistory(SubSeq(u, i, Len(u))) = SubSeq(u, n, Len(u))
  <2>1. ProviderAccepts(u)  BY DEF u
  <2>. QED  BY <1>1, <1>3, <1>4, <2>1, SanitizeOfTail
<1>7. max \in Nat \ {0}  BY HistoryAssumption
<1>8. PICK m \in n..(Len(u) + 1) :
          /\ TrimHistory(SubSeq(u, n, Len(u)), max) = SubSeq(u, m, Len(u))
          /\ Len(u) - m + 1 <= max
          /\ m = n \/ m = Len(u) - max + 1
  <2>. HIDE DEF max
  <2>. QED  BY <1>1, <1>5, <1>7, TrimOfTail
<1>9. ASSUME NEW k \in 1..(m - 1), k > Len(u) - max PROVE u[k].role = "tool"
  <2>1. m = n  BY <1>1, <1>5, <1>7, <1>8, <1>9
  <2>2. n <= Len(t) + 1
    <3>1. SUFFICES ASSUME n > Len(t) + 1 PROVE FALSE  BY <1>1, <1>5
    <3>2. Len(t) + 1 \in i..(n - 1)  BY <1>1, <1>5, <3>1
    <3>. QED  BY <1>1, <1>4, <3>2
  <2>3. CASE k < i
    <3>1. k \in 1..(i - 1) /\ k > Len(t) - max /\ k \in 1..Len(t)
      BY <1>1, <1>5, <1>7, <1>9, <2>3
    <3>. QED  BY <1>1, <3>1
  <2>4. CASE k >= i
    <3>1. k \in i..(n - 1)  BY <1>5, <2>1, <2>4
    <3>. QED  BY <1>4, <3>1
  <2>. QED  BY <1>5, <2>3, <2>4
<1>10. m \in 1..(Len(u) + 1)  BY <1>1, <1>5
<1>. QED  BY <1>2, <1>6, <1>8, <1>9, <1>10 DEF u

LEMMA RoundSucceedsKeepsInv ==
    ASSUME Inv, RoundSucceeds
    PROVE  Inv'
<1>. DEFINE t == transcript
            u == UserMsg(tried)
            run == Append(runMsgs, AssistantMsg(tried, {}))
            new == <<u>> \o run
            i == Len(t) - Len(history) + 1
            max == MaxHistoryMessages
<1>1. /\ t \in Seq(Message) /\ history \in Seq(Message) /\ runMsgs \in Seq(Message)
      /\ Closed(t) /\ Closed(runMsgs) /\ tried \in Rounds
      /\ Len(history) <= Len(t) /\ history = LastN(t, Len(history))
      /\ \A k \in 1..(Len(t) - Len(history)) :
            k > Len(t) - max => t[k].role = "tool"
  BY DEF Inv, MemoryTypeOK, HistoryIsRecent, RoundSucceeds, Closed
<1>2. u \in Message /\ u.role = "user"  BY <1>1 DEF UserMsg, Message
<1>3. run \in Seq(Message) /\ run # <<>> /\ Closed(run)  BY <1>1, AnswerFollows
<1>4. WithUserMessage(t, u) \in Seq(Message) /\ Closed(WithUserMessage(t, u))
  BY <1>1, UserFollows
<1>5. /\ history' = TrimHistory(SanitizeHistory(WithUserMessage(history, u) \o run), max)
      /\ t' = WithUserMessage(t, u) \o run
      /\ sending' = <<>> /\ runMsgs' = <<>> /\ tried' = tried
  BY DEF RoundSucceeds
<1>. HIDE DEF run, u
<1>6. new \in Seq(Message) /\ new # <<>> /\ new[1] = u
  <2>1. <<u>> \in Seq(Message) /\ Len(<<u>>) = 1 /\ <<u>>[1] = u  BY <1>2
  <2>2. Len(run) \in Nat  BY <1>3, LenProperties
  <2>3. /\ new \in Seq(Message) /\ Len(new) = 1 + Len(run)
        /\ \A k \in 1..(1 + Len(run)) :
              new[k] = IF k <= 1 THEN <<u>>[k] ELSE run[k - 1]
    BY <1>3, <2>1, ConcatProperties
  <2>4. 1 \in 1..(1 + Len(run)) /\ 1 + Len(run) # 0  BY <2>2
  <2>. QED  BY <2>1, <2>3, <2>4, EmptySeq
<1>7. \A s \in Seq(Message) : WithUserMessage(s, u) \o run = s \o new
  <2>1. TAKE s \in Seq(Message)
  <2>2. <<u>> \in Seq(Message)  BY <1>2
  <2>3. WithUserMessage(s, u) = s \o <<u>>  BY <1>2, AppendIsConcat DEF WithUserMessage
  <2>. QED  BY <1>3, <2>2, <2>3, ConcatAssociative
<1>. HIDE DEF new
<1>8. Closed(t \o new)
  <2>1. Closed(WithUserMessage(t, u) \o run)
    BY <1>3, <1>4, AcceptsConcat DEF Closed
  <2>. QED  BY <1>1, <1>7, <2>1
<1>9. Len(t) \in Nat /\ Len(history) \in Nat  BY <1>1, LenProperties
<1>. HIDE DEF t
<1>10. /\ history = SubSeq(t, i, Len(t)) /\ i \in 1..(Len(t) + 1)
       /\ i - 1 = Len(t) - Len(history)
  BY <1>1, <1>9 DEF LastN
<1>. HIDE DEF i, max
<1>11. PICK m \in 1..(Len(t \o new) + 1) :
           /\ TrimHistory(SanitizeHistory(SubSeq(t, i, Len(t)) \o new), max)
                 = SubSeq(t \o new, m, Len(t \o new))
           /\ Len(t \o new) - m + 1 <= max
           /\ \A k \in 1..(m - 1) :
                 k > Len(t \o new) - max => (t \o new)[k].role = "tool"
  <2>1. new[1].role # "tool" /\ ProviderAccepts(t \o new)  BY <1>2, <1>6, <1>8 DEF Closed
  <2>2. \A k \in 1..(i - 1) : k > Len(t) - MaxHistoryMessages => t[k].role = "tool"
    BY <1>1, <1>10 DEF max
  <2>. QED  BY <1>1, <1>6, <1>10, <2>1, <2>2, CommitKeepsRecent DEF max
<1>. DEFINE w == t \o new
<1>12. t' = w /\ w \in Seq(Message) /\ Len(w) \in Nat
  BY <1>1, <1>5, <1>6, <1>7, ConcatProperties, LenProperties
<1>13. history' = SubSeq(w, m, Len(w))
  BY <1>1, <1>5, <1>7, <1>10, <1>11
<1>14. /\ m \in 1..(Len(w) + 1) /\ Len(w) - m + 1 <= max
       /\ \A k \in 1..(m - 1) : k > Len(w) - max => w[k].role = "tool"
  BY <1>11
<1>. HIDE DEF w
<1>15. history' \in Seq(Message) /\ Len(history') = Len(w) - m + 1
  BY <1>12, <1>13, <1>14, TailProperties
<1>16. HistoryIsRecent'
  <2>1. Len(history') <= Len(w) /\ Len(w) - Len(history') + 1 = m
        /\ Len(w) - Len(history') = m - 1
    BY <1>12, <1>14, <1>15
  <2>2. history' = LastN(w, Len(history'))  BY <1>13, <2>1 DEF LastN
  <2>. QED  BY <1>12, <1>14, <2>1, <2>2 DEF HistoryIsRecent, t, max
<1>17. <<>> \in Seq(Message) /\ Len(<<>>) = 0 /\ ProviderAccepts(<<>>)
  BY EmptySeq DEF ProviderAccepts
<1>18. MemoryTypeOK'
  <2>1. Len(history') <= MaxHistoryMessages  BY <1>14, <1>15 DEF max
  <2>2. sending' \in Seq(Message) /\ Len(sending') <= MaxHistoryMessages + 1
    BY <1>5, <1>17, HistoryAssumption
  <2>3. transcript' \in Seq(Message) /\ runMsgs' \in Seq(Message)
    BY <1>5, <1>12, <1>17 DEF t
  <2>4. tried' \in 0..MaxRounds  BY <1>5 DEF Inv, MemoryTypeOK
  <2>. QED  BY <1>15, <2>1, <2>2, <2>3, <2>4 DEF MemoryTypeOK
<1>19. RequestsAccepted' /\ ProviderAccepts(runMsgs)'
  BY <1>5, <1>17 DEF RequestsAccepted
<1>20. Closed(transcript)'  BY <1>8, <1>12 DEF w, t
<1>. QED  BY <1>5, <1>16, <1>18, <1>19, <1>20 DEF Inv

-----------------------------------------------------------------------------
(* The theorems.                                                           *)

LEMMA InvAlways == ConversationSpec => []Inv
<1>1. ConversationInit => Inv  BY InitInv
<1>2. Inv /\ [ConversationNext]_memoryVars => Inv'
  <2>. SUFFICES ASSUME Inv, [ConversationNext]_memoryVars PROVE Inv'  OBVIOUS
  <2>1. CASE StartRound  BY <2>1, StartRoundKeepsInv
  <2>2. CASE ModelCallsTools  BY <2>2, ModelCallsToolsKeepsInv
  <2>3. CASE ToolAnswers  BY <2>3, ToolAnswersKeepsInv
  <2>4. CASE RoundFails  BY <2>4, RoundFailsKeepsInv
  <2>5. CASE RoundSucceeds  BY <2>5, RoundSucceedsKeepsInv
  <2>6. CASE UNCHANGED memoryVars
    <3>1. UNCHANGED <<history, sending, runMsgs, tried, transcript>>
      BY <2>6 DEF memoryVars
    <3>2. MemoryTypeOK'  BY <3>1 DEF Inv, MemoryTypeOK
    <3>3. HistoryIsRecent'  BY <3>1 DEF Inv, HistoryIsRecent, LastN
    <3>4. Closed(transcript)'  BY <3>1 DEF Inv
    <3>5. RequestsAccepted'  BY <3>1 DEF Inv, RequestsAccepted
    <3>6. ProviderAccepts(runMsgs)'  BY <3>1 DEF Inv
    <3>. QED  BY <3>1, <3>2, <3>3, <3>4, <3>5, <3>6 DEF Inv
  <2>. QED  BY <2>1, <2>2, <2>3, <2>4, <2>5, <2>6 DEF ConversationNext
<1>. QED  BY <1>1, <1>2, PTL DEF ConversationSpec

\* The history never grows beyond its limit, and a request is at most one
\* message longer (agent.go:231, agent.go:275).
THEOREM TypeCorrect == ConversationSpec => []MemoryTypeOK
<1>1. Inv => MemoryTypeOK  BY DEF Inv
<1>. QED  BY <1>1, InvAlways, PTL

\* Wherever trimHistory cuts, what runOnce sends is a sequence a strict
\* provider accepts: no result without its call, no call without its result
\* (agent.go:231, agent.go:280-315).
THEOREM RequestsAreAccepted == ConversationSpec => []RequestsAccepted
<1>1. Inv => RequestsAccepted  BY DEF Inv
<1>. QED  BY <1>1, InvAlways, PTL

\* Cleaning and cutting after every round lose nothing of the most recent
\* messages but the results of calls that were cut off (agent.go:275).
THEOREM NothingRecentIsLost == ConversationSpec => []HistoryIsRecent
<1>1. Inv => HistoryIsRecent  BY DEF Inv
<1>. QED  BY <1>1, InvAlways, PTL

=============================================================================
