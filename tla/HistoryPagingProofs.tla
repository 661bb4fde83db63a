-------------------------- MODULE HistoryPagingProofs --------------------------
(***************************************************************************)
(* Theorems about HistoryPaging, for every size of a page, every cap and   *)
(* every chat.  What a page is, and what one turn of the loop adds to the  *)
(* collection, are lemmas; the invariant Collected is what paging keeps:   *)
(* the collection reaches down to its oldest message without a gap.        *)
(***************************************************************************)
EXTENDS HistoryPaging, FiniteSetTheorems, WellFoundedInduction, TLAPS

\* Messages arrive in the order of their seconds, not too many in one of them.
Chronology ==
    /\ \A s \in Seqs : Time(s) <= clock
    /\ \A r, s \in Seqs : r <= s => Time(r) <= Time(s)
    /\ \A t \in Nat : Cardinality({s \in Seqs : Time(s) = t}) <= MaxPerSecond

\* There is no gap in a collection: what is newer than a part of it, and was
\* there all the time, belongs to it.
NoGap(msgs) == \A r \in msgs, s \in present \ recalled : r <= s => s \in msgs

Multiple(n) == \E k \in Nat : n = k * PageSize

\* A loop that goes on has fetched full pages only, or all there was.
Collected ==
    /\ pc = "idle" => nextSeq = 0 /\ prevSeq = 0 /\ all = {} /\ total = 0
    /\ pc = "page" =>
          /\ nextSeq = prevSeq
          /\ IF nextSeq = 0 THEN all = {} ELSE nextSeq \in all
          /\ NoGap(all)
          /\ Cardinality(all) <= total /\ total < MaxFetch
          /\ Multiple(total) \/ (nextSeq # 0 /\ Before(nextSeq) \subseteq all)

Inv == TypeOK /\ Chronology /\ Collected /\ FetchBounded

-----------------------------------------------------------------------------
(* Sets of numbers.                                                        *)

LEMMA LeastOf ==
    ASSUME NEW S \in SUBSET Nat, S # {}
    PROVE  \E x \in S : \A y \in S : x <= y
<1>. DEFINE R == OpToRel(<, Nat)
<1>1. IsWellFoundedOn(R, Nat)  BY NatLessThanWellFounded
<1>2. \A x, y \in Nat : <<y, x>> \in R <=> y < x  BY DEF OpToRel
<1>. HIDE DEF R
<1>3. PICK x \in S : \A y \in S : ~ (<<y, x>> \in R)  BY <1>1, WFMin
<1>4. \A y \in S : x \in Nat /\ y \in Nat /\ ~ (y < x)  BY <1>2, <1>3
<1>. QED  BY <1>3, <1>4

LEMMA GreatestOf ==
    ASSUME NEW n \in Nat, NEW S \in SUBSET (1..n), S # {}
    PROVE  \E x \in S : \A y \in S : y <= x
<1>. DEFINE Up == {m \in Nat : \A y \in S : y <= m}
<1>1. n \in Up  OBVIOUS
<1>2. PICK m \in Up : \A k \in Up : m <= k  BY <1>1, LeastOf
<1>3. CASE m \in S  BY <1>2, <1>3
<1>4. CASE m \notin S
  <2>1. \A y \in S : y <= m - 1  BY <1>2, <1>4
  <2>2. PICK y \in S : TRUE  OBVIOUS
  <2>3. m - 1 \in Nat  BY <1>2, <2>1, <2>2
  <2>4. m - 1 \in Up  BY <2>1, <2>3
  <2>. QED  BY <1>2, <2>3, <2>4
<1>. QED  BY <1>3, <1>4

\* Two finite sets, one inside the other.
LEMMA Fewer ==
    ASSUME NEW S, IsFiniteSet(S), NEW T \in SUBSET S
    PROVE  /\ IsFiniteSet(T)
           /\ Cardinality(T) \in Nat /\ Cardinality(S) \in Nat
           /\ Cardinality(T) <= Cardinality(S)
BY FS_Subset, FS_CardinalityType

-----------------------------------------------------------------------------
(* A page: the newest n of the messages before a message.                  *)

LEMMA SeqsFinite ==
    ASSUME chat \in Seq(1..MaxClock)
    PROVE  Len(chat) \in Nat /\ IsFiniteSet(Seqs)
BY FS_Interval DEF Seqs

LEMMA TimeIsNatural ==
    ASSUME TypeOK, NEW s \in Seqs
    PROVE  Time(s) \in Nat
BY BoundsAssumption, SMTT(30) DEF TypeOK, Seqs, Time

LEMMA BeforeIsFinite ==
    ASSUME chat \in Seq(1..MaxClock), NEW seq
    PROVE  Before(seq) \subseteq Seqs /\ IsFiniteSet(Before(seq))
<1>1. Before(seq) \subseteq Seqs  BY DEF Before, Live
<1>. QED  BY <1>1, SeqsFinite, FS_Subset

\* What is newer than a member of a page is on the page.
LEMMA PageReachesDown ==
    ASSUME chat \in Seq(1..MaxClock), NEW seq, NEW n \in Nat,
           NEW p \in Page(seq, n), NEW s \in Before(seq), p <= s
    PROVE  s \in Page(seq, n)
<1>. DEFINE Above(x) == {r \in Before(seq) : r > x}
<1>1. Before(seq) \subseteq Nat  BY BeforeIsFinite, SeqsFinite DEF Seqs
<1>2. p \in Nat /\ s \in Nat  BY <1>1 DEF Page
<1>3. Above(s) \subseteq Above(p)  BY <1>1, <1>2
<1>4. IsFiniteSet(Above(p))  BY BeforeIsFinite, FS_Subset
<1>5. /\ Cardinality(Above(s)) \in Nat /\ Cardinality(Above(p)) \in Nat
      /\ Cardinality(Above(s)) <= Cardinality(Above(p))
  <2>. HIDE DEF Above
  <2>. QED  BY <1>3, <1>4, Fewer
<1>6. Cardinality(Above(p)) < n  BY DEF Page
<1>7. Cardinality(Above(s)) < n  BY <1>5, <1>6
<1>. QED  BY <1>7 DEF Page

LEMMA PageHasAtMost ==
    ASSUME chat \in Seq(1..MaxClock), NEW seq, NEW n \in Nat
    PROVE  /\ IsFiniteSet(Page(seq, n))
           /\ Cardinality(Page(seq, n)) \in 0..n
<1>. DEFINE P == Page(seq, n)
            Above(x) == {r \in Before(seq) : r > x}
<1>1. P \subseteq Before(seq)  BY DEF Page
<1>2. IsFiniteSet(P) /\ Cardinality(P) \in Nat  BY <1>1, BeforeIsFinite, Fewer
<1>3. CASE P = {}  BY <1>3, FS_EmptySet
<1>4. CASE P # {}
  <2>1. P \in SUBSET Nat  BY <1>1, BeforeIsFinite, SeqsFinite DEF Seqs
  <2>2. PICK m \in P : \A y \in P : m <= y
    <3>. HIDE DEF P
    <3>. QED  BY <1>4, <2>1, LeastOf
  <2>3. P \ {m} \subseteq Above(m)  BY <1>1, <2>1, <2>2
  <2>4. IsFiniteSet(Above(m))  BY BeforeIsFinite, FS_Subset
  <2>5. Cardinality(Above(m)) < n  BY <2>2 DEF Page
  <2>6. Cardinality(P \ {m}) = Cardinality(P) - 1
    <3>. HIDE DEF P
    <3>. QED  BY <1>2, <2>2, FS_RemoveElement
  <2>7. /\ Cardinality(P \ {m}) \in Nat /\ Cardinality(Above(m)) \in Nat
        /\ Cardinality(P \ {m}) <= Cardinality(Above(m))
    <3>. HIDE DEF P, Above
    <3>. QED  BY <2>3, <2>4, Fewer
  <2>. QED
    <3>. HIDE DEF P, Above
    <3>1. Cardinality(P) \in 0..n  BY <1>2, <2>5, <2>6, <2>7
    <3>. QED  BY <1>2, <3>1 DEF P
<1>. QED  BY <1>3, <1>4

\* A page that is short has everything there is.
LEMMA ShortPageIsAll ==
    ASSUME chat \in Seq(1..MaxClock), NEW seq, NEW n \in Nat,
           Cardinality(Page(seq, n)) < n
    PROVE  Page(seq, n) = Before(seq)
<1>. DEFINE P == Page(seq, n)
            B == Before(seq)
            Above(x) == {r \in B : r > x}
<1>1. P \subseteq B  BY DEF Page
<1>2. B \ P \in SUBSET (1..Len(chat))  BY BeforeIsFinite DEF Seqs
<1>3. SUFFICES ASSUME B \ P # {} PROVE FALSE  BY <1>1
<1>4. PICK x \in B \ P : \A y \in B \ P : y <= x
  <2>. HIDE DEF P, B
  <2>. QED  BY <1>2, <1>3, SeqsFinite, GreatestOf
<1>5. Above(x) \subseteq P
  <2>1. B \subseteq Nat  BY BeforeIsFinite, SeqsFinite DEF Seqs
  <2>. SUFFICES ASSUME NEW y \in B, y > x PROVE y \in P  OBVIOUS
  <2>. HIDE DEF P, B
  <2>2. y \in Nat /\ x \in Nat  BY <1>4, <2>1
  <2>. QED  BY <1>4, <2>2
<1>6. IsFiniteSet(P)  BY PageHasAtMost
<1>7. /\ Cardinality(Above(x)) \in Nat /\ Cardinality(P) \in Nat
      /\ Cardinality(Above(x)) <= Cardinality(P)
  <2>. HIDE DEF P, Above
  <2>. QED  BY <1>5, <1>6, Fewer
<1>8. Cardinality(Above(x)) < n
  <2>. HIDE DEF Above
  <2>. QED  BY <1>7
<1>. QED  BY <1>4, <1>8 DEF Page

\* The last message of a sorted page: one of its oldest second, the first or the
\* last of it in the chat's order.
LEMMA OldestIsLast ==
    ASSUME TypeOK, NEW page \in SUBSET Seqs, page # {}
    PROVE  /\ Oldest(page) \in page
           /\ \A r \in page : \/ Time(Oldest(page)) < Time(r)
                              \/ /\ Time(Oldest(page)) = Time(r)
                                 /\ IF ascending THEN r <= Oldest(page)
                                    ELSE Oldest(page) <= r
<1>. DEFINE Last(s) == \A r \in page :
                \/ Time(s) < Time(r)
                \/ Time(s) = Time(r) /\ IF ascending THEN r <= s ELSE s <= r
<1>1. \A s \in page : Time(s) \in Nat /\ s \in Nat
  BY TimeIsNatural DEF TypeOK, Seqs
<1>2. PICK s0 \in page : \A r \in page : Time(s0) <= Time(r)
  <2>. DEFINE Times == {Time(s) : s \in page}
  <2>1. Times \in SUBSET Nat /\ Times # {}  BY <1>1
  <2>2. PICK t \in Times : \A u \in Times : t <= u
    <3>. HIDE DEF Times
    <3>. QED  BY <2>1, LeastOf
  <2>. QED  BY <2>2
<1>. DEFINE First == {s \in page : Time(s) = Time(s0)}
<1>3. First # {} /\ First \in SUBSET Nat /\ First \in SUBSET (1..Len(chat))
  BY <1>1 DEF Seqs
<1>4. \E s \in First : \A r \in First : IF ascending THEN r <= s ELSE s <= r
  <2>. HIDE DEF First
  <2>. QED  BY <1>3, LeastOf, GreatestOf, SeqsFinite DEF TypeOK
<1>5. PICK s \in First : \A r \in First : IF ascending THEN r <= s ELSE s <= r
  BY <1>4
<1>6. Last(s)
  <2>. TAKE r \in page
  <2>1. CASE Time(r) = Time(s0)  BY <1>5, <2>1
  <2>2. CASE Time(r) # Time(s0)  BY <1>1, <1>2, <1>5, <2>2
  <2>. QED  BY <2>1, <2>2
<1>7. \E x \in page : Last(x)  BY <1>5, <1>6
<1>. QED  BY <1>7 DEF Oldest

-----------------------------------------------------------------------------
(* One turn of the loop.                                                   *)

\* What a page adds leaves no gap.
LEMMA PageLeavesNoGap ==
    ASSUME TypeOK, Collected, pc = "page"
    PROVE  NoGap(all \cup Page(nextSeq, PageSize))
<1>. DEFINE P == Page(nextSeq, PageSize)
<1>. SUFFICES ASSUME NEW r \in all \cup P, NEW s \in present \ recalled, r <= s
              PROVE  s \in all \cup P
  BY DEF NoGap
<1>1. P \subseteq Before(nextSeq) /\ Before(nextSeq) \subseteq Seqs
  BY BeforeIsFinite DEF Page, TypeOK
<1>2. s \in Live /\ s \in Nat /\ nextSeq \in Nat  BY SeqsFinite DEF TypeOK, Live, Seqs
<1>3. CASE r \in all  BY <1>3 DEF Collected, NoGap
<1>4. CASE s \in Before(nextSeq) /\ r \in P
  BY <1>4, PageReachesDown, PagesAssumption DEF TypeOK
<1>5. CASE s \notin Before(nextSeq)
  <2>1. nextSeq # 0 /\ nextSeq <= s  BY <1>2, <1>5 DEF Before
  <2>. QED  BY <2>1 DEF Collected, NoGap
<1>. QED  BY <1>3, <1>4, <1>5

\* The loop ends without having reached the start or the cap only if nothing
\* older is left.
LEMMA NothingOlder ==
    ASSUME Inv, MaxPerSecond < PageSize, pc = "page",
           NEW page, page = Page(nextSeq, PageSize),
           page = {} \/ NoProgress(Oldest(page)),
           NEW s \in present \ recalled
    PROVE  s \in all \cup page
<1>. USE DEF Inv
<1>1. /\ page \subseteq Before(nextSeq) /\ Before(nextSeq) \subseteq Seqs
      /\ IsFiniteSet(page) /\ Cardinality(page) \in 0..PageSize
  BY BeforeIsFinite, PageHasAtMost, PagesAssumption DEF Page, TypeOK
<1>2. s \in Live /\ s \in Nat /\ nextSeq \in Nat  BY SeqsFinite DEF TypeOK, Live, Seqs
<1>3. page = Before(nextSeq)
  <2>1. CASE page = {}
    <3>1. Cardinality(page) < PageSize  BY <2>1, FS_EmptySet, PagesAssumption
    <3>. QED  BY <3>1, ShortPageIsAll, PagesAssumption DEF TypeOK
  <2>2. CASE page # {}
    <3>. DEFINE c == Oldest(page)
    <3>1. c \in page /\ c \in Nat \ {0}  BY <1>1, <2>2, OldestIsLast DEF Seqs
    <3>2. c = nextSeq  BY <2>2, <3>1 DEF NoProgress, Collected
    <3>3. \A p \in page : p <= c
      <4>1. \A p \in Before(nextSeq) : p <= nextSeq
        BY <1>1, <1>2, <3>1, <3>2 DEF Before, Live, Seqs
      <4>. QED  BY <1>1, <3>2, <4>1
    <3>4. \A p \in page : Time(p) = Time(c)
      <4>. TAKE p \in page
      <4>1. p \in Seqs /\ c \in Seqs  BY <1>1, <3>1
      <4>2. Time(p) <= Time(c)  BY <3>3, <4>1 DEF Chronology
      <4>3. Time(p) \in Nat /\ Time(c) \in Nat
        BY <4>1, TimeIsNatural
      <4>4. Time(c) <= Time(p)  BY <1>1, <2>2, <4>3, OldestIsLast
      <4>. QED  BY <4>2, <4>3, <4>4
    <3>5. Time(c) \in Nat
      BY <1>1, <3>1, TimeIsNatural
    <3>. DEFINE Second == {x \in Seqs : Time(x) = Time(c)}
    <3>6. page \subseteq Second  BY <1>1, <3>4
    <3>7. IsFiniteSet(Second)  BY SeqsFinite, FS_Subset DEF TypeOK
    <3>8. Cardinality(Second) <= MaxPerSecond  BY <3>5 DEF Chronology
    <3>9. Cardinality(page) <= Cardinality(Second) /\ Cardinality(Second) \in Nat
      <4>. HIDE DEF Second
      <4>. QED  BY <3>6, <3>7, Fewer
    <3>10. Cardinality(page) < PageSize
      <4>. HIDE DEF Second, c
      <4>. QED  BY <1>1, <3>8, <3>9, BoundsAssumption, PagesAssumption
    <3>. QED  BY <3>10, ShortPageIsAll, PagesAssumption DEF TypeOK
  <2>. QED  BY <2>1, <2>2
<1>4. CASE s \in Before(nextSeq)  BY <1>3, <1>4
<1>5. CASE s \notin Before(nextSeq)
  <2>1. nextSeq # 0 /\ nextSeq <= s  BY <1>2, <1>5 DEF Before
  <2>. QED  BY <2>1 DEF Collected, NoGap
<1>. QED  BY <1>4, <1>5

\* Full pages fill the cap exactly.
LEMMA CapIsFull ==
    ASSUME NEW n \in Nat, Multiple(n), n < MaxFetch
    PROVE  n + PageSize <= MaxFetch /\ Multiple(n + PageSize)
<1>1. PICK m \in Nat : MaxFetch = m * PageSize
  <2>1. MaxFetch \in Nat /\ PageSize \in Nat \ {0} /\ MaxFetch % PageSize = 0
    BY PagesAssumption
  <2>2. MaxFetch \div PageSize \in Nat  BY <2>1
  <2>3. MaxFetch = (MaxFetch \div PageSize) * PageSize  BY <2>1
  <2>. QED  BY <2>2, <2>3
<1>2. PICK k \in Nat : n = k * PageSize  BY DEF Multiple
<1>3. PageSize \in Nat  BY PagesAssumption
<1>4. k < m
  <2>1. SUFFICES ASSUME m <= k PROVE FALSE  OBVIOUS
  <2>2. m * PageSize <= k * PageSize  BY <1>3, <2>1
  <2>. QED  BY <1>1, <1>2, <1>3, <2>2
<1>5. n + PageSize = (k + 1) * PageSize  BY <1>2, <1>3
<1>6. (k + 1) * PageSize <= m * PageSize  BY <1>3, <1>4
<1>. QED  BY <1>1, <1>5, <1>6 DEF Multiple

\* A further page brings the collection up to the cap at most, and all there was
\* if it was not full.
LEMMA PageIsPaidFor ==
    ASSUME TypeOK, Collected, pc = "page",
           NEW page, page = Page(nextSeq, PageSize)
    PROVE  /\ Cardinality(page) \in 0..PageSize
           /\ Cardinality(all \cup page) \in Nat
           /\ Cardinality(all \cup page) <= MaxFetch
           /\ Cardinality(all \cup page) <= total + Cardinality(page)
           /\ \/ Multiple(total + Cardinality(page))
              \/ Before(nextSeq) \subseteq all \cup page
<1>1. /\ page \subseteq Before(nextSeq)
      /\ IsFiniteSet(page) /\ Cardinality(page) \in 0..PageSize
  BY PageHasAtMost, PagesAssumption DEF Page, TypeOK
<1>2. IsFiniteSet(all) /\ Cardinality(all) \in Nat
  BY SeqsFinite, Fewer DEF TypeOK
<1>3. /\ Cardinality(all \cup page) \in Nat
      /\ Cardinality(all \cup page) <= Cardinality(all) + Cardinality(page)
  <2>1. IsFiniteSet(all \cup page) /\ IsFiniteSet(all \cap page)
    BY <1>1, <1>2, FS_Union, FS_Intersection
  <2>2. Cardinality(all \cup page) \in Nat /\ Cardinality(all \cap page) \in Nat
    BY <2>1, FS_CardinalityType
  <2>3. Cardinality(all \cup page)
          = Cardinality(all) + Cardinality(page) - Cardinality(all \cap page)
    BY <1>1, <1>2, FS_Union
  <2>. QED  BY <1>1, <1>2, <2>2, <2>3
<1>4. /\ total \in Nat /\ total < MaxFetch /\ Cardinality(all) <= total
      /\ PageSize \in Nat /\ MaxFetch \in Nat
  BY PagesAssumption DEF TypeOK, Collected
<1>5. Cardinality(all \cup page) <= total + Cardinality(page)
  BY <1>1, <1>2, <1>3, <1>4
<1>6. CASE Before(nextSeq) \subseteq all
  <2>1. all \cup page = all  BY <1>1, <1>6
  <2>2. Cardinality(all \cup page) = Cardinality(all)  BY <2>1
  <2>3. Cardinality(all \cup page) <= MaxFetch  BY <1>2, <1>4, <2>2
  <2>4. Before(nextSeq) \subseteq all \cup page  BY <1>6
  <2>. QED  BY <1>1, <1>3, <1>5, <2>3, <2>4
<1>7. CASE Multiple(total)
  <2>1. total + PageSize <= MaxFetch  BY <1>4, <1>7, CapIsFull
  <2>2. Cardinality(all \cup page) <= MaxFetch  BY <1>1, <1>3, <1>4, <1>5, <2>1
  <2>3. CASE Cardinality(page) = PageSize
    <3>1. Multiple(total + Cardinality(page))  BY <1>4, <1>7, <2>3, CapIsFull
    <3>. QED  BY <1>1, <1>3, <1>5, <2>2, <3>1
  <2>4. CASE Cardinality(page) < PageSize
    <3>1. page = Before(nextSeq)
      BY <2>4, ShortPageIsAll, PagesAssumption DEF TypeOK
    <3>. QED  BY <1>1, <1>3, <1>5, <2>2, <3>1
  <2>. QED  BY <1>1, <1>4, <2>3, <2>4
<1>. QED  BY <1>6, <1>7 DEF Collected

-----------------------------------------------------------------------------
(* The invariant.                                                          *)

LEMMA InvInit == Init => Inv
<1>. SUFFICES ASSUME Init PROVE Inv  OBVIOUS
<1>. USE DEF Init
<1>1. Seqs = {} /\ Len(chat) = 0  BY DEF Seqs
<1>2. TypeOK
  <2>1. chat \in Seq(1..MaxClock) /\ clock \in 1..MaxClock  BY BoundsAssumption
  <2>2. {recalled, all, result, present} \subseteq SUBSET Seqs  OBVIOUS
  <2>3. /\ {start, end} \subseteq 0..MaxClock /\ {nextSeq, prevSeq} \subseteq 0..Len(chat)
        /\ total \in Nat
    BY <1>1, BoundsAssumption
  <2>4. count \in 0..MaxCount  BY CountsAssumption
  <2>5. {ascending, inclusive, capped} \subseteq BOOLEAN  OBVIOUS
  <2>. HIDE DEF Init
  <2>6. pc = "idle"  BY DEF Init
  <2>. QED  BY <2>1, <2>2, <2>3, <2>4, <2>5, <2>6 DEF TypeOK
<1>3. Chronology
  <2>1. \A t \in Nat : {s \in Seqs : Time(s) = t} = {}  BY <1>1
  <2>. QED  BY <1>1, <2>1, FS_EmptySet, BoundsAssumption DEF Chronology
<1>4. FetchBounded  BY FS_EmptySet, PagesAssumption DEF FetchBounded
<1>. QED  BY <1>2, <1>3, <1>4 DEF Inv, Collected

\* A new message is the newest, in the current second.
LEMMA ArriveKeepsInv ==
    ASSUME Inv, Arrive
    PROVE  Inv'
<1>. DEFINE n == Len(chat) + 1
<1>1. /\ TypeOK /\ chat \in Seq(1..MaxClock) /\ clock \in 1..MaxClock
      /\ chat' = Append(chat, clock) /\ UNCHANGED <<recalled, clock, ascending, inclusive, callVars>>
  BY DEF Inv, TypeOK, Arrive
<1>2. /\ Len(chat) \in Nat /\ n \in Nat /\ Len(chat') = n /\ chat' \in Seq(1..MaxClock)
      /\ Seqs' = Seqs \cup {n} /\ n \notin Seqs /\ Seqs \subseteq Nat
      /\ chat'[n] = clock /\ \A s \in Seqs : chat'[s] = chat[s]
  BY <1>1 DEF Seqs
<1>. HIDE DEF n
<1>3. TypeOK'
  <2>1. {nextSeq, prevSeq} \subseteq 0..Len(chat')  BY <1>1, <1>2 DEF TypeOK, Seqs
  <2>. QED  BY <1>1, <1>2, <2>1 DEF TypeOK, callVars
<1>4. Chronology'
  <2>1. \A s \in Seqs' : chat'[s] <= clock'
    <3>1. \A s \in Seqs : chat'[s] <= clock  BY <1>2 DEF Inv, Chronology, Time
    <3>2. clock \in Nat /\ clock' = clock  BY <1>1, BoundsAssumption
    <3>. QED  BY <1>2, <3>1, <3>2
  <2>2. \A r, s \in Seqs' : r <= s => chat'[r] <= chat'[s]
    <3>. SUFFICES ASSUME NEW r \in Seqs', NEW s \in Seqs', r <= s
                  PROVE  chat'[r] <= chat'[s]
      OBVIOUS
    <3>1. CASE s = n  BY <1>1, <1>2, <2>1, <3>1
    <3>2. CASE s # n
      <4>1. s \in Seqs /\ s \in 1..Len(chat)  BY <1>2, <3>2 DEF Seqs
      <4>2. r \in Seqs  BY <1>2, <4>1 DEF n
      <4>. QED  BY <1>2, <4>1, <4>2 DEF Inv, Chronology, Time
    <3>. QED  BY <3>1, <3>2
  <2>3. \A t \in Nat : Cardinality({s \in Seqs' : chat'[s] = t}) <= MaxPerSecond
    <3>. SUFFICES ASSUME NEW t \in Nat
                  PROVE  Cardinality({s \in Seqs' : chat'[s] = t}) <= MaxPerSecond
      OBVIOUS
    <3>. DEFINE Old == {s \in Seqs : Time(s) = t}
    <3>1. Cardinality(Old) <= MaxPerSecond  BY DEF Inv, Chronology
    <3>2. IsFiniteSet(Old) /\ Cardinality(Old) \in Nat
      BY <1>1, SeqsFinite, Fewer
    <3>3. CASE t # clock
      <4>1. {s \in Seqs' : chat'[s] = t} = Old  BY <1>2, <3>3 DEF Time
      <4>. QED  BY <3>1, <4>1
    <3>4. CASE t = clock
      <4>1. {s \in Seqs' : chat'[s] = t} = Old \cup {n}  BY <1>2, <3>4 DEF Time
      <4>2. n \notin Old  BY <1>2
      <4>3. Cardinality(Old) < MaxPerSecond  BY <3>4 DEF Arrive
      <4>4. Cardinality(Old \cup {n}) = Cardinality(Old) + 1
        <5>. HIDE DEF Old
        <5>. QED  BY <3>2, <4>2, FS_AddElement
      <4>. QED
        <5>. HIDE DEF Old
        <5>. QED  BY <3>2, <4>1, <4>3, <4>4, BoundsAssumption
    <3>. QED  BY <3>3, <3>4
  <2>. QED  BY <2>1, <2>2, <2>3 DEF Chronology, Time
<1>5. Collected'
  <2>1. nextSeq # 0 => Before(nextSeq)' = Before(nextSeq)
    <3>1. Seqs' = Seqs \cup {n} /\ n > nextSeq  BY <1>1, <1>2 DEF TypeOK, n
    <3>2. nextSeq \in Nat /\ nextSeq' = nextSeq /\ recalled' = recalled
          /\ inclusive' = inclusive
      BY <1>1, <1>2 DEF TypeOK, callVars
    <3>. SUFFICES ASSUME nextSeq # 0 PROVE Before(nextSeq)' = Before(nextSeq)  OBVIOUS
    <3>3. Before(nextSeq) = {s \in Live : s < nextSeq \/ (inclusive /\ s = nextSeq)}
      BY DEF Before
    <3>4. Before(nextSeq)' = {s \in Live' : s < nextSeq \/ (inclusive /\ s = nextSeq)}
      BY <3>2 DEF Before
    <3>5. \A s \in Live' : s \in Live \/ s > nextSeq  BY <3>1, <3>2 DEF Live
    <3>6. Live \subseteq Live' /\ \A s \in Live' : s \in Nat
      BY <1>2, <3>1, <3>2 DEF Live
    <3>7. \A s \in Live' : s > nextSeq => ~ (s < nextSeq) /\ s # nextSeq
      BY <3>2, <3>6
    <3>. QED  BY <3>3, <3>4, <3>5, <3>6, <3>7
  <2>. QED  BY <1>1, <2>1 DEF Inv, Collected, NoGap, Multiple, callVars
<1>. QED  BY <1>1, <1>3, <1>4, <1>5 DEF Inv, FetchBounded, callVars

LEMMA RecallKeepsInv ==
    ASSUME Inv, Recall
    PROVE  Inv'
<1>1. /\ UNCHANGED <<chat, clock, ascending, inclusive, callVars>>
      /\ recalled \subseteq recalled' /\ recalled' \subseteq Seqs /\ Seqs' = Seqs
  BY DEF Inv, TypeOK, Recall, Live, Seqs
<1>2. TypeOK' /\ Chronology'
  BY <1>1 DEF Inv, TypeOK, Chronology, Seqs, Time, callVars
<1>3. Before(nextSeq)' \subseteq Before(nextSeq)
  BY <1>1 DEF Before, Live, callVars
<1>4. Collected'
  BY <1>1, <1>3 DEF Inv, Collected, NoGap, Multiple, callVars
<1>. QED  BY <1>1, <1>2, <1>4 DEF Inv, FetchBounded, callVars

\* The other steps leave the chat as it is.
LEMMA ChronologyKept ==
    ASSUME Inv, UNCHANGED chat, clock <= clock', clock' \in Nat
    PROVE  Chronology'
<1>1. Seqs' = Seqs /\ \A s \in Seqs : Time(s)' = Time(s)  BY DEF Seqs, Time
<1>2. \A s \in Seqs : Time(s) \in Nat  BY TimeIsNatural DEF Inv
<1>3. clock \in Nat  BY BoundsAssumption DEF Inv, TypeOK
<1>4. \A s \in Seqs' : Time(s)' <= clock'  BY <1>1, <1>2, <1>3 DEF Inv, Chronology
<1>. QED  BY <1>1, <1>4 DEF Inv, Chronology, Seqs, Time

LEMMA FetchKeepsInv ==
    ASSUME Inv, FetchPage
    PROVE  Inv'
<1>. DEFINE page == Page(nextSeq, PageSize)
            seq == IF page = {} THEN 0 ELSE Cursor(page)
            full == page # {} /\ ~ Covers(page) /\ CapReached(total + Cardinality(page))
            last == page = {} \/ Covers(page) \/ full \/ NoProgress(seq)
<1>1. /\ pc = "page" /\ UNCHANGED <<chatVars, start, end, count, present>>
      /\ all' = all \cup page /\ total' = total + Cardinality(page) /\ capped' = full
      /\ last => pc' = "done" /\ result' = Selected(all') /\ UNCHANGED <<nextSeq, prevSeq>>
      /\ ~ last => nextSeq' = seq /\ prevSeq' = seq /\ UNCHANGED <<pc, result>>
  BY DEF FetchPage
<1>2. /\ TypeOK /\ Collected /\ chat \in Seq(1..MaxClock)
      /\ page \subseteq Before(nextSeq) /\ Before(nextSeq) \subseteq Seqs
  BY BeforeIsFinite DEF Inv, TypeOK, Page
<1>3. /\ Cardinality(page) \in 0..PageSize
      /\ Cardinality(all \cup page) \in Nat
      /\ Cardinality(all \cup page) <= MaxFetch
      /\ Cardinality(all \cup page) <= total + Cardinality(page)
      /\ \/ Multiple(total + Cardinality(page))
         \/ Before(nextSeq) \subseteq all \cup page
  BY <1>1, <1>2, PageIsPaidFor
<1>4. NoGap(all \cup page)  BY <1>1, <1>2, PageLeavesNoGap
<1>5. /\ total \in Nat /\ Cardinality(page) \in Nat /\ Len(chat) \in Nat
      /\ nextSeq \in 0..Len(chat)
  BY <1>2, <1>3, PagesAssumption DEF TypeOK
<1>6. page # {} => seq \in page /\ seq \in 1..Len(chat)
  BY <1>2, OldestIsLast DEF Cursor, Seqs
<1>7. ~ last => /\ page # {} /\ ~ full
                /\ total + Cardinality(page) < MaxFetch
  BY <1>5, PagesAssumption DEF CapReached
<1>8. Selected(all') \subseteq Seqs
  BY <1>1, <1>2 DEF Selected, TypeOK
<1>. HIDE DEF page, seq, full, last
<1>9. TypeOK'
  <2>1. full \in BOOLEAN /\ last \in BOOLEAN  BY DEF full, last, NoProgress, Covers
  <2>2. Seqs' = Seqs /\ all' \subseteq Seqs /\ total' \in Nat
    BY <1>1, <1>2, <1>5 DEF Seqs, chatVars, TypeOK
  <2>3. {nextSeq', prevSeq'} \subseteq 0..Len(chat)
    BY <1>1, <1>2, <1>5, <1>6, <1>7, <2>1 DEF TypeOK
  <2>4. /\ pc' \in {"page", "done"} /\ result' \subseteq Seqs
    BY <1>1, <1>2, <1>8, <2>1 DEF TypeOK
  <2>5. /\ {recalled', present'} \subseteq SUBSET Seqs
        /\ {start', end'} \subseteq 0..MaxClock /\ count' \in 0..MaxCount
        /\ clock' \in 1..MaxClock /\ chat' \in Seq(1..MaxClock)
        /\ {ascending', inclusive'} \subseteq BOOLEAN /\ Len(chat') = Len(chat)
    BY <1>1, <1>2 DEF TypeOK, chatVars
  <2>. QED  BY <1>1, <2>1, <2>2, <2>3, <2>4, <2>5 DEF TypeOK
<1>10. Chronology'
  BY <1>1, <1>2, BoundsAssumption, ChronologyKept DEF chatVars, TypeOK
<1>11. FetchBounded'  BY <1>1, <1>3 DEF FetchBounded
<1>12. Collected'
  <2>1. CASE last
    BY <1>1, <2>1 DEF Collected
  <2>2. CASE ~ last
    <3>1. /\ nextSeq' = seq /\ prevSeq' = seq /\ pc' = "page" /\ all' = all \cup page
          /\ seq # 0 /\ seq \in all'
      BY <1>1, <1>6, <1>7, <2>2
    <3>2. NoGap(all)'  BY <1>1, <1>4, <3>1 DEF NoGap, chatVars
    <3>3. Cardinality(all') <= total' /\ total' < MaxFetch
      BY <1>1, <1>3, <1>7, <2>2
    <3>4. Before(nextSeq)' = Before(seq)
      BY <1>1, <3>1 DEF Before, Live, Seqs, chatVars
    <3>5. Before(seq) \subseteq Before(nextSeq)
      <4>1. seq \in Before(nextSeq) /\ seq \in Nat /\ nextSeq \in Nat
        BY <1>2, <1>5, <1>6, <1>7, <2>2
      <4>2. Before(seq) \subseteq Live /\ Live \subseteq Nat
        BY <1>5 DEF Before, Live, Seqs
      <4>. SUFFICES ASSUME NEW s \in Before(seq) PROVE s \in Before(nextSeq)  OBVIOUS
      <4>3. s \in Live /\ s \in Nat /\ (s < seq \/ s = seq)  BY <3>1, <4>2 DEF Before
      <4>4. CASE nextSeq = 0  BY <4>3, <4>4 DEF Before
      <4>5. CASE nextSeq # 0 /\ s < seq
        <5>1. seq <= nextSeq  BY <4>1, <4>5 DEF Before
        <5>2. s < nextSeq  BY <4>1, <4>3, <4>5, <5>1
        <5>. QED  BY <4>3, <4>5, <5>2 DEF Before
      <4>6. CASE s = seq  BY <4>1, <4>6
      <4>. QED  BY <4>3, <4>4, <4>5, <4>6
    <3>6. Multiple(total)' \/ Before(nextSeq)' \subseteq all'
      BY <1>1, <1>3, <3>4, <3>5 DEF Multiple
    <3>. QED  BY <3>1, <3>2, <3>3, <3>6 DEF Collected
  <2>. QED  BY <2>1, <2>2
<1>. QED  BY <1>9, <1>10, <1>11, <1>12 DEF Inv

LEMMA InvNext == Inv /\ [Next]_vars => Inv'
<1>. SUFFICES ASSUME Inv, [Next]_vars PROVE Inv'  OBVIOUS
<1>0. TypeOK /\ clock \in Nat  BY BoundsAssumption DEF Inv, TypeOK
<1>1. CASE ClockTick
  <2>1. /\ clock' \in 1..MaxClock /\ clock <= clock' /\ clock' \in Nat
        /\ UNCHANGED <<chat, recalled, ascending, inclusive, callVars>>
    BY <1>0, <1>1, BoundsAssumption DEF ClockTick, TypeOK
  <2>2. TypeOK'  BY <2>1 DEF Inv, TypeOK, Seqs, callVars
  <2>3. Collected' /\ FetchBounded'
    BY <2>1 DEF Inv, Collected, NoGap, Multiple, Before, Live, Seqs, FetchBounded, callVars
  <2>. QED  BY <2>1, <2>2, <2>3, ChronologyKept DEF Inv
<1>2. ASSUME NEW from \in 0..MaxClock, NEW to \in 0..MaxClock, CallInRange(from, to)
      PROVE  Inv'
  <2>1. /\ pc = "idle" /\ pc' = "page" /\ start' = from /\ end' \in 0..MaxClock
        /\ present' = Live
        /\ UNCHANGED <<chatVars, nextSeq, prevSeq, all, total, capped, count, result, pages>>
    BY <1>0, <1>2, BoundsAssumption DEF CallInRange, TypeOK
  <2>2. TypeOK'  BY <1>0, <2>1 DEF TypeOK, Seqs, Live, chatVars
  <2>3. /\ nextSeq' = 0 /\ prevSeq' = 0 /\ all' = {} /\ total' = 0
    BY <2>1 DEF Inv, Collected
  <2>4. Multiple(0) /\ 0 < MaxFetch  BY PagesAssumption DEF Multiple
  <2>5. Collected'  BY <2>1, <2>3, <2>4, FS_EmptySet DEF Collected, NoGap, Multiple
  <2>. QED  BY <1>0, <2>1, <2>2, <2>5, ChronologyKept DEF Inv, FetchBounded, chatVars
<1>3. ASSUME NEW n \in 0..(MaxCount + 1), CallByCount(n)
      PROVE  Inv'
  <2>1. /\ pc' = "latest" /\ count' \in 0..MaxCount
        /\ UNCHANGED <<chatVars, start, end, nextSeq, prevSeq, all, total, capped,
                       result, present, pages>>
    BY <1>3, CountsAssumption DEF CallByCount, NormalizeCount
  <2>2. TypeOK'  BY <1>0, <2>1 DEF TypeOK, Seqs, chatVars
  <2>. QED  BY <1>0, <2>1, <2>2, ChronologyKept DEF Inv, Collected, FetchBounded, chatVars
<1>4. CASE FetchLatest
  <2>1. /\ pc' = "latestDone" /\ result' = Page(0, count) /\ present' = Live
        /\ UNCHANGED <<chatVars, start, end, nextSeq, prevSeq, all, total, capped,
                       count, pages>>
    BY <1>4 DEF FetchLatest
  <2>2. Page(0, count) \subseteq Seqs /\ Live \subseteq Seqs  BY DEF Page, Before, Live
  <2>3. TypeOK'  BY <1>0, <2>1, <2>2 DEF TypeOK, Seqs, chatVars
  <2>. QED  BY <1>0, <2>1, <2>3, ChronologyKept DEF Inv, Collected, FetchBounded, chatVars
<1>5. CASE FetchFails
  <2>1. /\ pc' = "failed"
        /\ UNCHANGED <<chatVars, start, end, nextSeq, prevSeq, all, total, capped,
                       count, result, present, pages>>
    BY <1>5 DEF FetchFails
  <2>2. TypeOK'  BY <1>0, <2>1 DEF TypeOK, Seqs, chatVars
  <2>. QED  BY <1>0, <2>1, <2>2, ChronologyKept DEF Inv, Collected, FetchBounded, chatVars
<1>6. CASE UNCHANGED vars
  BY <1>6 DEF vars, chatVars, callVars, Inv, TypeOK, Chronology, Collected, FetchBounded,
              NoGap, Multiple, Before, Live, Seqs, Time
<1>. QED
  BY <1>1, <1>2, <1>3, <1>4, <1>5, <1>6, ArriveKeepsInv, RecallKeepsInv, FetchKeepsInv
     DEF Next

LEMMA InvAlways == Spec => []Inv
BY InvInit, InvNext, PTL DEF Spec

-----------------------------------------------------------------------------
\* When the call returns, the range is complete.
LEMMA WindowNext ==
    ASSUME MaxPerSecond < PageSize, Inv, WindowComplete, [Next]_vars
    PROVE  WindowComplete'
<1>1. CASE FetchPage
  <2>. DEFINE page == Page(nextSeq, PageSize)
              seq == IF page = {} THEN 0 ELSE Cursor(page)
              full == page # {} /\ ~ Covers(page) /\ CapReached(total + Cardinality(page))
              last == page = {} \/ Covers(page) \/ full \/ NoProgress(seq)
  <2>1. /\ pc = "page" /\ UNCHANGED <<chatVars, start, end, count, present>>
        /\ all' = all \cup page /\ capped' = full
        /\ last => result' = Selected(all')
        /\ ~ last => pc' = "page"
    BY <1>1 DEF FetchPage
  <2>2. TypeOK /\ Collected /\ page \subseteq Seqs /\ all \subseteq Seqs
    BY BeforeIsFinite DEF Inv, TypeOK, Page
  <2>3. NoGap(all \cup page)  BY <2>1, <2>2, PageLeavesNoGap
  <2>4. Inv'  BY <1>1, FetchKeepsInv
  <2>. SUFFICES ASSUME pc' = "done" PROVE WindowComplete'  BY DEF WindowComplete
  <2>5. last /\ result' = Selected(all')  BY <2>1
  <2>6. ASSUME NEW s \in Selected(present \ recalled),
               ~ full \/ \E r \in all \cup page : r <= s
        PROVE  s \in all \cup page
    <3>1. s \in present \ recalled /\ start <= Time(s)  BY DEF Selected
    <3>2. CASE \E r \in all \cup page : r <= s  BY <2>3, <3>1, <3>2 DEF NoGap
    <3>3. CASE page = {} \/ (page # {} /\ NoProgress(seq))
      <4>1. page = {} \/ NoProgress(Oldest(page))  BY <3>3 DEF Cursor
      <4>. HIDE DEF page
      <4>. QED  BY <2>1, <3>1, <4>1, NothingOlder DEF page
    <3>4. CASE page # {} /\ Covers(page)
      <4>. DEFINE c == Oldest(page)
      <4>1. c \in page /\ c \in Seqs /\ s \in Seqs
        BY <2>2, <3>1, <3>4, OldestIsLast DEF TypeOK
      <4>2. Time(c) < start  BY <3>4 DEF Covers
      <4>. HIDE DEF c
      <4>3. Time(c) \in Nat /\ Time(s) \in Nat /\ start \in Nat /\ c \in Nat /\ s \in Nat
        <5>1. Time(c) \in Nat /\ Time(s) \in Nat  BY <2>2, <4>1, TimeIsNatural
        <5>2. start \in Nat  BY <2>2, BoundsAssumption DEF TypeOK
        <5>3. c \in Nat /\ s \in Nat  BY <4>1 DEF Seqs
        <5>. QED  BY <5>1, <5>2, <5>3
      <4>4. ~ (s <= c)
        <5>1. s <= c => Time(s) <= Time(c)  BY <4>1 DEF Inv, Chronology
        <5>. QED  BY <3>1, <4>2, <4>3, <5>1
      <4>5. c <= s  BY <4>3, <4>4
      <4>. QED  BY <2>3, <3>1, <4>1, <4>5 DEF NoGap
    <3>. QED  BY <2>5, <2>6, <3>2, <3>3, <3>4
  <2>7. /\ Selected(all \cup page)' = Selected(all \cup page)'
        /\ \A s \in Selected(present \ recalled) : s \in all \cup page =>
              s \in Selected(all \cup page)
        /\ Selected(all \cup page) \subseteq Selected(Seqs)
    BY <2>2 DEF Selected
  <2>8. /\ Selected(present \ recalled)' = Selected(present \ recalled)
        /\ Selected(Seqs)' = Selected(Seqs)
        /\ Selected(all') = Selected(all \cup page)
        /\ result' = Selected(all \cup page)
    BY <2>1, <2>5 DEF Selected, Seqs, Time, chatVars
  <2>. HIDE DEF page, seq, full, last
  <2>. QED  BY <2>1, <2>6, <2>7, <2>8 DEF WindowComplete
<1>2. CASE UNCHANGED vars
  BY <1>2 DEF vars, chatVars, callVars, WindowComplete, Selected, Seqs, Time
<1>3. CASE Next /\ ~ FetchPage
  <2>1. pc' # "done"
    BY <1>3 DEF Next, Arrive, Recall, ClockTick, Following, CallInRange, CallByCount,
                FetchLatest, FetchFails, callVars
  <2>. QED  BY <2>1 DEF WindowComplete
<1>. QED  BY <1>1, <1>2, <1>3

-----------------------------------------------------------------------------
(* How many pages a call asks for.                                         *)

FullPages == MaxFetch \div PageSize
Below(seq) == {s \in Live : s < seq}

\* While pages are full the cap pays for them; after a short one each page goes
\* on at an older message, and few are left.
PagesPaidFor ==
    /\ pages \in Nat
    /\ pc = "idle" => pages = 0
    /\ pc = "page" =>
          \/ pages * PageSize = total
          \/ nextSeq # 0 /\ pages + Cardinality(Below(nextSeq)) < FullPages + MaxPerSecond
    /\ PagesBounded

LEMMA FullPagesFit ==
    /\ FullPages \in Nat
    /\ \A n \in Nat : n * PageSize < MaxFetch => n < FullPages
<1>1. MaxFetch \in Nat /\ PageSize \in Nat \ {0} /\ MaxFetch % PageSize = 0
  BY PagesAssumption
<1>2. FullPages \in Nat /\ MaxFetch = FullPages * PageSize  BY <1>1 DEF FullPages
<1>. HIDE DEF FullPages
<1>3. ASSUME NEW n \in Nat, FullPages <= n PROVE MaxFetch <= n * PageSize
  <2>1. FullPages * PageSize <= n * PageSize  BY <1>1, <1>2, <1>3
  <2>. QED  BY <1>2, <2>1
<1>4. \A n \in Nat : n * PageSize \in Nat  BY <1>1
<1>. QED  BY <1>1, <1>2, <1>3, <1>4

LEMMA BelowIsFinite ==
    ASSUME TypeOK, NEW seq \in Nat
    PROVE  IsFiniteSet(Below(seq)) /\ Cardinality(Below(seq)) \in Nat
<1>1. Below(seq) \subseteq Seqs  BY DEF Below, Live
<1>. QED  BY <1>1, SeqsFinite, Fewer DEF TypeOK

\* An older message leaves fewer below it.
LEMMA BelowShrinks ==
    ASSUME TypeOK, NEW seq \in Live, NEW S, IsFiniteSet(S),
           Below(seq) \subseteq S, seq \in S
    PROVE  Cardinality(Below(seq)) < Cardinality(S) /\ Cardinality(S) \in Nat
<1>1. seq \in Nat /\ ~ (seq < seq)  BY SeqsFinite DEF TypeOK, Live, Seqs
<1>2. IsFiniteSet(Below(seq)) /\ Cardinality(Below(seq)) \in Nat
  BY <1>1, BelowIsFinite
<1>3. seq \notin Below(seq)  BY <1>1 DEF Below
<1>4. Cardinality(Below(seq) \cup {seq}) = Cardinality(Below(seq)) + 1
  BY <1>2, <1>3, FS_AddElement
<1>5. /\ Cardinality(Below(seq) \cup {seq}) <= Cardinality(S)
      /\ Cardinality(S) \in Nat
  <2>1. Below(seq) \cup {seq} \subseteq S  OBVIOUS
  <2>. QED  BY <2>1, Fewer
<1>. QED  BY <1>2, <1>4, <1>5

LEMMA FetchPaysForPages ==
    ASSUME Inv, PagesPaidFor, FetchPage
    PROVE  PagesPaidFor'
<1>. DEFINE page == Page(nextSeq, PageSize)
            seq == IF page = {} THEN 0 ELSE Cursor(page)
            full == page # {} /\ ~ Covers(page) /\ CapReached(total + Cardinality(page))
            last == page = {} \/ Covers(page) \/ full \/ NoProgress(seq)
<1>1. /\ pc = "page" /\ UNCHANGED chatVars /\ pages' = pages + 1
      /\ total' = total + Cardinality(page)
      /\ last => pc' = "done"
      /\ ~ last => nextSeq' = seq /\ pc' = pc
  BY DEF FetchPage
<1>2. /\ TypeOK /\ Collected /\ Chronology /\ chat \in Seq(1..MaxClock)
      /\ page \subseteq Before(nextSeq) /\ Before(nextSeq) \subseteq Live
      /\ Live \subseteq Seqs
  BY DEF Inv, TypeOK, Page, Before, Live
<1>3. /\ pages \in Nat /\ total \in Nat /\ total < MaxFetch
      /\ PageSize \in Nat /\ MaxPerSecond \in Nat /\ FullPages \in Nat
      /\ nextSeq \in Nat /\ prevSeq = nextSeq
      /\ Cardinality(page) \in 0..PageSize
  <2>1. Len(chat) \in Nat  BY <1>2, SeqsFinite
  <2>. QED
    BY <1>1, <1>2, <2>1, PageHasAtMost, FullPagesFit, PagesAssumption, BoundsAssumption
       DEF PagesPaidFor, TypeOK, Collected
<1>4. CASE last
  <2>1. pages' <= FullPages + MaxPerSecond
    <3>1. CASE pages * PageSize = total
      <4>1. pages < FullPages  BY <1>3, <3>1, FullPagesFit
      <4>. QED  BY <1>1, <1>3, <4>1
    <3>2. CASE pages + Cardinality(Below(nextSeq)) < FullPages + MaxPerSecond
      <4>1. Cardinality(Below(nextSeq)) \in Nat  BY <1>2, <1>3, BelowIsFinite
      <4>. HIDE DEF page
      <4>. QED  BY <1>1, <1>3, <3>2, <4>1
    <3>. QED  BY <1>1, <3>1, <3>2 DEF PagesPaidFor
  <2>2. pages' \in Nat /\ pc' = "done"  BY <1>1, <1>3, <1>4
  <2>. QED  BY <2>1, <2>2 DEF PagesPaidFor, PagesBounded, FullPages
<1>5. CASE ~ last
  <2>1. /\ page # {} /\ seq = Oldest(page) /\ seq # nextSeq
        /\ seq \in page /\ seq \in Live /\ seq \in Seqs /\ seq \in Nat \ {0}
    <3>1. page # {} /\ seq = Oldest(page) /\ seq # nextSeq
      BY <1>3, <1>5 DEF NoProgress, Cursor
    <3>2. page \in SUBSET Seqs  BY <1>2
    <3>. HIDE DEF page
    <3>3. Oldest(page) \in page  BY <1>2, <3>1, <3>2, OldestIsLast
    <3>4. Oldest(page) \in Live /\ Oldest(page) \in Seqs  BY <1>2, <3>3
    <3>5. Oldest(page) \in Nat \ {0}  BY <3>4 DEF Seqs
    <3>. HIDE DEF seq
    <3>. QED  BY <3>1, <3>3, <3>4, <3>5
  <2>2. nextSeq # 0 => seq < nextSeq
    <3>1. seq \in Before(nextSeq)  BY <1>2, <2>1
    <3>2. nextSeq # 0 => seq < nextSeq \/ seq = nextSeq  BY <3>1 DEF Before
    <3>. QED  BY <2>1, <3>2
  <2>3. /\ pc' = "page" /\ nextSeq' = seq /\ Below(nextSeq)' = Below(seq)
        /\ pages' \in Nat /\ nextSeq' # 0
    <3>1. pc' = "page" /\ nextSeq' = seq /\ Live' = Live
      BY <1>1, <1>5 DEF chatVars, Live, Seqs
    <3>. HIDE DEF seq
    <3>. QED  BY <1>1, <1>3, <2>1, <3>1 DEF Below
  <2>4. ASSUME pages * PageSize = total, Cardinality(page) = PageSize
        PROVE  pages' * PageSize = total'
    <3>1. (pages + 1) * PageSize = pages * PageSize + PageSize  BY <1>3
    <3>. QED  BY <1>1, <2>4, <3>1
  <2>5. ASSUME pages * PageSize = total, Cardinality(page) < PageSize
        PROVE  pages + 1 + Cardinality(Below(seq)) < FullPages + MaxPerSecond
    <3>1. page = Before(nextSeq)  BY <1>2, <1>3, <2>5, ShortPageIsAll
    <3>. DEFINE Second == {x \in Seqs : Time(x) = Time(seq)}
    <3>2. ASSUME NEW s \in Below(seq) PROVE s \in Second
      <4>1. s \in Live /\ s \in Seqs /\ s \in Nat /\ s < seq
        BY <1>2 DEF Below, Seqs
      <4>2. s \in Before(nextSeq)
        <5>1. nextSeq # 0 => s < nextSeq
          <6>. HIDE DEF seq
          <6>. QED  BY <1>3, <2>1, <2>2, <4>1
        <5>. QED  BY <4>1, <5>1 DEF Before
      <4>3. Time(s) \in Nat /\ Time(seq) \in Nat  BY <1>2, <2>1, <4>1, TimeIsNatural
      <4>4. Time(s) <= Time(seq)
        <5>. HIDE DEF seq
        <5>. QED  BY <1>2, <2>1, <4>1 DEF Chronology
      <4>5. Time(seq) <= Time(s)
        <5>1. page \in SUBSET Seqs  BY <1>2
        <5>2. s \in page  BY <3>1, <4>2
        <5>. HIDE DEF page
        <5>3. \/ Time(Oldest(page)) < Time(s)
              \/ Time(Oldest(page)) = Time(s)
          BY <1>2, <2>1, <5>1, <5>2, OldestIsLast
        <5>4. seq = Oldest(page)  BY <2>1
        <5>. HIDE DEF seq
        <5>. QED  BY <4>3, <5>3, <5>4
      <4>. QED
        <5>. HIDE DEF seq
        <5>. QED  BY <4>1, <4>3, <4>4, <4>5
    <3>3. IsFiniteSet(Second) /\ seq \in Second
      <4>. HIDE DEF seq
      <4>. QED  BY <1>2, <2>1, SeqsFinite, FS_Subset
    <3>4. Cardinality(Second) <= MaxPerSecond
      <4>1. Time(seq) \in Nat  BY <1>2, <2>1, TimeIsNatural
      <4>. HIDE DEF seq
      <4>. QED  BY <1>2, <4>1 DEF Chronology
    <3>5. Cardinality(Below(seq)) < Cardinality(Second) /\ Cardinality(Second) \in Nat
      <4>1. Below(seq) \subseteq Second  BY <3>2
      <4>. HIDE DEF seq, Second
      <4>. QED  BY <1>2, <2>1, <3>3, <4>1, BelowShrinks
    <3>6. pages < FullPages  BY <1>3, <2>5, FullPagesFit
    <3>7. Cardinality(Below(seq)) \in Nat
      <4>. HIDE DEF seq
      <4>. QED  BY <1>2, <2>1, BelowIsFinite
    <3>. HIDE DEF seq, Second, page
    <3>. QED  BY <1>3, <3>4, <3>5, <3>6, <3>7
  <2>6. ASSUME nextSeq # 0, pages + Cardinality(Below(nextSeq)) < FullPages + MaxPerSecond
        PROVE  pages + 1 + Cardinality(Below(seq)) < FullPages + MaxPerSecond
    <3>. HIDE DEF seq
    <3>1. IsFiniteSet(Below(nextSeq)) /\ seq \in Below(nextSeq)
      BY <1>2, <1>3, <2>1, <2>2, <2>6, BelowIsFinite DEF Below
    <3>2. Below(seq) \subseteq Below(nextSeq)
      <4>1. \A s \in Live : s \in Nat  BY <1>2 DEF Seqs
      <4>2. seq < nextSeq /\ seq \in Nat /\ nextSeq \in Nat  BY <1>3, <2>1, <2>2, <2>6
      <4>3. \A s \in Live : s < seq => s < nextSeq  BY <4>1, <4>2
      <4>. QED  BY <4>3 DEF Below
    <3>3. /\ Cardinality(Below(seq)) < Cardinality(Below(nextSeq))
          /\ Cardinality(Below(nextSeq)) \in Nat
      BY <1>2, <2>1, <3>1, <3>2, BelowShrinks
    <3>4. Cardinality(Below(seq)) \in Nat  BY <1>2, <2>1, BelowIsFinite
    <3>. HIDE DEF page
    <3>. QED  BY <1>3, <2>6, <3>3, <3>4
  <2>7. \/ pages' * PageSize = total'
        \/ pages' + Cardinality(Below(nextSeq)') < FullPages + MaxPerSecond
    <3>1. CASE pages * PageSize = total
      <4>1. Cardinality(page) = PageSize \/ Cardinality(page) < PageSize  BY <1>3
      <4>. HIDE DEF page, seq
      <4>. QED  BY <1>1, <2>3, <2>4, <2>5, <3>1, <4>1
    <3>2. CASE nextSeq # 0 /\ pages + Cardinality(Below(nextSeq)) < FullPages + MaxPerSecond
      <4>. HIDE DEF page, seq
      <4>. QED  BY <1>1, <2>3, <2>6, <3>2
    <3>. QED  BY <1>1, <3>1, <3>2 DEF PagesPaidFor
  <2>8. pages' <= FullPages + MaxPerSecond
    <3>1. CASE pages * PageSize = total
      <4>1. pages < FullPages  BY <1>3, <3>1, FullPagesFit
      <4>. HIDE DEF page, seq
      <4>. QED  BY <1>1, <1>3, <4>1
    <3>2. CASE pages + Cardinality(Below(nextSeq)) < FullPages + MaxPerSecond
      <4>1. Cardinality(Below(nextSeq)) \in Nat  BY <1>2, <1>3, BelowIsFinite
      <4>. HIDE DEF page, seq
      <4>. QED  BY <1>1, <1>3, <3>2, <4>1
    <3>. QED  BY <1>1, <3>1, <3>2 DEF PagesPaidFor
  <2>. HIDE DEF page, seq
  <2>. QED  BY <2>3, <2>7, <2>8 DEF PagesPaidFor, PagesBounded, FullPages
<1>. QED  BY <1>4, <1>5

\* What arrives is newer than the page to fetch; what is recalled leaves less.
LEMMA ChatLeavesPagesPaidFor ==
    ASSUME Inv, PagesPaidFor, Arrive \/ Recall \/ ClockTick
    PROVE  PagesPaidFor'
<1>1. /\ TypeOK /\ UNCHANGED callVars /\ nextSeq \in Nat /\ Len(chat) \in Nat
      /\ nextSeq <= Len(chat)
  BY SeqsFinite DEF Inv, TypeOK, Arrive, Recall, ClockTick
<1>2. Below(nextSeq)' \subseteq Below(nextSeq)
  <2>1. nextSeq' = nextSeq  BY <1>1 DEF callVars
  <2>. SUFFICES ASSUME NEW s \in Below(nextSeq)' PROVE s \in Below(nextSeq)  OBVIOUS
  <2>2. s \in Live' /\ s < nextSeq  BY <2>1 DEF Below
  <2>3. s \in Live
    <3>1. CASE Arrive
      <4>1. Len(chat') = Len(chat) + 1 /\ recalled' = recalled
        BY <1>1, <3>1 DEF Arrive, TypeOK
      <4>. QED  BY <1>1, <2>2, <4>1 DEF Live, Seqs
    <3>2. CASE Recall  BY <2>2, <3>2 DEF Recall, Live, Seqs
    <3>3. CASE ClockTick  BY <2>2, <3>3 DEF ClockTick, Live, Seqs
    <3>. QED  BY <3>1, <3>2, <3>3
  <2>. QED  BY <2>2, <2>3 DEF Below
<1>3. /\ Cardinality(Below(nextSeq)') \in Nat /\ Cardinality(Below(nextSeq)) \in Nat
      /\ Cardinality(Below(nextSeq)') <= Cardinality(Below(nextSeq))
  <2>1. IsFiniteSet(Below(nextSeq))  BY <1>1, BelowIsFinite
  <2>. QED  BY <1>2, <2>1, Fewer
<1>4. FullPages \in Nat /\ MaxPerSecond \in Nat  BY FullPagesFit, BoundsAssumption
<1>5. ASSUME pages + Cardinality(Below(nextSeq)) < FullPages + MaxPerSecond
      PROVE  pages' + Cardinality(Below(nextSeq)') < FullPages + MaxPerSecond
  <2>1. pages \in Nat /\ pages' = pages  BY <1>1 DEF PagesPaidFor, callVars
  <2>. QED  BY <1>3, <1>4, <1>5, <2>1
<1>6. UNCHANGED <<pages, pc, total, nextSeq>>  BY <1>1 DEF callVars
<1>. QED  BY <1>5, <1>6 DEF PagesPaidFor, PagesBounded

LEMMA PagesPaidForAlways == Spec => []PagesPaidFor
<1>1. Init => PagesPaidFor
  <2>. SUFFICES ASSUME Init PROVE PagesPaidFor  OBVIOUS
  <2>1. pages = 0 /\ pc = "idle"  BY DEF Init
  <2>2. FullPages \in Nat /\ MaxPerSecond \in Nat  BY FullPagesFit, BoundsAssumption
  <2>. QED  BY <2>1, <2>2 DEF PagesPaidFor, PagesBounded, FullPages
<1>2. Inv /\ PagesPaidFor /\ [Next]_vars => PagesPaidFor'
  <2>. SUFFICES ASSUME Inv, PagesPaidFor, [Next]_vars PROVE PagesPaidFor'  OBVIOUS
  <2>1. CASE FetchPage  BY <2>1, FetchPaysForPages
  <2>2. CASE Arrive \/ Recall \/ ClockTick  BY <2>2, ChatLeavesPagesPaidFor
  <2>3. ASSUME NEW from \in 0..MaxClock, NEW to \in 0..MaxClock, CallInRange(from, to)
        PROVE  PagesPaidFor'
    <3>1. pc = "idle" /\ pc' = "page" /\ UNCHANGED <<pages, total>>
      BY <2>3 DEF CallInRange
    <3>2. pages = 0 /\ total = 0  BY <3>1 DEF Inv, Collected, PagesPaidFor
    <3>3. 0 * PageSize = 0  BY PagesAssumption
    <3>. QED  BY <3>1, <3>2, <3>3 DEF PagesPaidFor, PagesBounded
  <2>4. ASSUME NEW n \in 0..(MaxCount + 1), CallByCount(n) PROVE PagesPaidFor'
    <3>1. pc' = "latest" /\ UNCHANGED pages  BY <2>4 DEF CallByCount
    <3>. QED  BY <3>1 DEF PagesPaidFor, PagesBounded
  <2>5. CASE FetchLatest \/ FetchFails
    <3>1. pc' \in {"latestDone", "failed"} /\ UNCHANGED pages
      BY <2>5 DEF FetchLatest, FetchFails
    <3>. QED  BY <3>1 DEF PagesPaidFor, PagesBounded
  <2>6. CASE UNCHANGED vars
    BY <2>6 DEF vars, chatVars, callVars, PagesPaidFor, PagesBounded, Below, Live, Seqs
  <2>. QED  BY <2>1, <2>2, <2>3, <2>4, <2>5, <2>6 DEF Next
<1>. QED  BY <1>1, <1>2, InvAlways, PTL DEF Spec

-----------------------------------------------------------------------------
\* In every reachable state of a call and its chat each variable has its type
\* (getter.go:55-156).
THEOREM TypeCorrect == Spec => []TypeOK
<1>1. Inv => TypeOK  BY DEF Inv
<1>. QED  BY <1>1, InvAlways, PTL

\* For every size of a page and every cap that is a multiple of it, the messages
\* collected never exceed the cap, although pages may repeat messages and the
\* cap is compared after a page has been added (getter.go:97-156).
THEOREM CapIsKept == Spec => []FetchBounded
<1>1. Inv => FetchBounded  BY DEF Inv
<1>. QED  BY <1>1, InvAlways, PTL

\* For every chat, whatever arrives or is recalled while it is read, the loop asks
\* for no more pages than the cap is worth and the chat has messages in one
\* second: it cannot go round in circles (getter.go:114-144).
THEOREM PagesAreBounded == Spec => []PagesBounded
<1>1. PagesPaidFor => PagesBounded  BY DEF PagesPaidFor
<1>. QED  BY <1>1, PagesPaidForAlways, PTL

\* With fewer messages per second than a page holds, a range comes back whole,
\* in either order of pages, with or without the message a page was asked
\* before, and whatever arrives or is recalled (getter.go:97-156).
THEOREM RangeIsComplete ==
    ASSUME MaxPerSecond < PageSize
    PROVE  Spec => []WindowComplete
<1>1. Init => WindowComplete  BY DEF Init, WindowComplete
<1>2. Inv /\ WindowComplete /\ [Next]_vars => WindowComplete'  BY WindowNext
<1>. QED  BY <1>1, <1>2, InvAlways, PTL DEF Spec
=============================================================================
