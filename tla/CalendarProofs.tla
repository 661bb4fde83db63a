---------------------------- MODULE CalendarProofs ----------------------------
(***************************************************************************)
(* Proofs about Calendar: that a waiting task fires at the first moment of *)
(* its rule after now, that a delay is never longer than was asked for,    *)
(* and that a repeating task has a next firing time, for leap days until   *)
(* the last one before the year 2100.                                      *)
(*                                                                         *)
(* The calendar's formulas are inverted: the days of 400 years, an era,    *)
(* are written as 36524 c + 1461 q + 365 s + x, the x-th day of the s-th   *)
(* year of the q-th four years of the c-th century.  Then the same date of *)
(* the next year is given, and not searched for.                           *)
(***************************************************************************)
EXTENDS Calendar, WellFoundedInduction, TLAPS

LEMMA LeastOf ==
    ASSUME NEW S \in SUBSET Nat, S # {}
    PROVE  \E x \in S : \A y \in S : x <= y
<1>. DEFINE R == OpToRel(<, Nat)
<1>1. IsWellFoundedOn(R, Nat)  BY NatLessThanWellFounded
<1>2. \A x, y \in Nat : <<y, x>> \in R <=> y < x  BY DEF OpToRel
<1>. HIDE DEF R
<1>3. PICK x \in S : \A y \in S : ~ (<<y, x>> \in R)  BY <1>1, WFMin
<1>4. \A y \in S : x \in Nat /\ y \in Nat /\ ~ (y < x)  BY <1>2, <1>3
<1>. QED  BY <1>3, <1>4

-----------------------------------------------------------------------------
(* The calendar.                                                           *)

Start(c, q, s) == 36524 * c + 1461 * q + 365 * s

\* The years whose last day is a February 29th.
YearDay(c, q, s, x) ==
    c <= 3 /\ q <= 24 /\ s <= 3 /\ x <= 365 /\ (x = 365 => s = 3 /\ (q < 24 \/ c = 3))

LEMMA DivIs ==
    ASSUME NEW a \in Int, NEW b \in Nat, NEW k \in Int, NEW r \in Nat,
           b \in {4, 100, 365, 1460, 36524, 146096}, a = b * k + r, r < b
    PROVE  a \div b = k
OBVIOUS

\* The formulas of the calendar, on the x-th day of a year.
LEMMA FormulasAt ==
    ASSUME NEW d \in Nat, NEW c \in Nat, NEW q \in Nat, NEW s \in Nat, NEW x \in Nat,
           YearDay(c, q, s, x), Era(d) = Start(c, q, s) + x
    PROVE  DayOfYear(d) = x
<1>. DEFINE e == Era(d)
            y == 100 * c + 4 * q + s
            k == IF 24 * c + q + 365 * s + x >= 1460 THEN 1 ELSE 0
<1>1. e = 36524 * c + 1461 * q + 365 * s + x  BY DEF Start
<1>2. k \in 0..1 /\ (k = 1 => x >= 1) /\ (x = 365 => k = 1) /\ x <= 365
  BY DEF YearDay
<1>3. e \in Nat /\ e <= 146096
  BY <1>1 DEF YearDay
<1>. HIDE DEF e
<1>4. e \div 1460 = 25 * c + q + k
  <2>. DEFINE r == 24 * c + q + 365 * s + x - 1460 * k
  <2>1. r \in Nat /\ r < 1460 /\ e = 1460 * (25 * c + q + k) + r
    BY <1>1 DEF YearDay
  <2>. HIDE DEF r, k
  <2>. QED  BY <1>2, <1>3, <2>1, DivIs
<1>5. e \div 36524 - e \div 146096 = c
  <2>1. CASE e = 146096
    <3>1. c = 3  BY <1>1, <2>1 DEF YearDay
    <3>2. e \div 36524 = 4 /\ e \div 146096 = 1  BY <2>1
    <3>. QED  BY <3>1, <3>2
  <2>2. CASE e # 146096
    <3>1. e \div 146096 = 0  BY <1>3, <2>2
    <3>. DEFINE r == 1461 * q + 365 * s + x
    <3>2. r \in Nat /\ r < 36524 /\ e = 36524 * c + r
      BY <1>1, <2>2 DEF YearDay
    <3>. HIDE DEF r
    <3>3. e \div 36524 = c  BY <1>3, <3>2, DivIs
    <3>. QED  BY <3>1, <3>3
  <2>. QED  BY <2>1, <2>2
<1>6. YearOfEra(d) = y
  <2>. DEFINE a == e - e \div 1460 + e \div 36524 - e \div 146096
  <2>1. YearOfEra(d) = a \div 365  BY DEF YearOfEra, e
  <2>2. a = 365 * y + (x - k)
    <3>1. e \div 1460 \in Int /\ e \div 36524 \in Int /\ e \div 146096 \in Int  BY <1>3
    <3>2. a = e - (25 * c + q + k) + c
      <4>. HIDE DEF k
      <4>. QED  BY <1>2, <1>3, <1>4, <1>5, <3>1
    <3>. HIDE DEF a, k
    <3>. QED  BY <1>1, <1>2, <3>2
  <2>3. x - k \in Nat /\ x - k < 365 /\ y \in Int /\ a \in Int
    <3>1. y \in Int  OBVIOUS
    <3>. HIDE DEF a, y, k
    <3>. QED  BY <1>2, <2>2, <3>1
  <2>. HIDE DEF a, y, k
  <2>. QED  BY <2>1, <2>2, <2>3, DivIs
<1>7. y \div 4 = 25 * c + q /\ y \div 100 = c
  <2>1. /\ y = 4 * (25 * c + q) + s /\ s < 4 /\ s \in Nat /\ 25 * c + q \in Int
        /\ y = 100 * c + (4 * q + s) /\ 4 * q + s < 100 /\ 4 * q + s \in Nat
        /\ y \in Int
    BY DEF YearDay
  <2>. HIDE DEF y
  <2>. QED  BY <2>1, DivIs
<1>8. DayOfYear(d) = e - (365 * y + y \div 4 - y \div 100)
  <2>. HIDE DEF y
  <2>. QED  BY <1>6 DEF DayOfYear, e
<1>. QED  BY <1>1, <1>7, <1>8

IsDayOfSomeYear(d) ==
    \E c, q, s, x \in Nat : YearDay(c, q, s, x) /\ Era(d) = Start(c, q, s) + x

\* Every day is the x-th of some year.
LEMMA Decomposed ==
    ASSUME NEW d \in Nat
    PROVE  IsDayOfSomeYear(d)
<1>. DEFINE e == Era(d)
            c == IF e >= 3 * 36524 THEN 3 ELSE e \div 36524
            f == e - 36524 * c
            q == f \div 1461
            g == f - 1461 * q
            s == IF g >= 3 * 365 THEN 3 ELSE g \div 365
            x == g - 365 * s
<1>1. e \in Nat /\ e <= 146096  BY DEF Era
<1>. HIDE DEF e
<1>2. c \in Nat /\ c <= 3 /\ f \in Nat /\ f <= 36524 /\ (f = 36524 => c = 3)  BY <1>1
<1>. HIDE DEF c, f
<1>3. q \in Nat /\ q <= 24 /\ g \in Nat /\ g <= 1460 /\ (g = 1460 => q < 24 \/ c = 3)  BY <1>2
<1>. HIDE DEF q, g
<1>4. s \in Nat /\ s <= 3 /\ x \in Nat /\ x <= 365 /\ (x = 365 => s = 3 /\ g = 1460)  BY <1>3
<1>5. x = g - 365 * s /\ g = f - 1461 * q /\ f = e - 36524 * c  BY DEF f, g
<1>. HIDE DEF s, x
<1>6. e = Start(c, q, s) + x  BY <1>1, <1>2, <1>3, <1>4, <1>5 DEF Start
<1>7. YearDay(c, q, s, x)  BY <1>2, <1>3, <1>4 DEF YearDay
<1>8. \E c1, q1, s1, x1 \in Nat : YearDay(c1, q1, s1, x1) /\ e = Start(c1, q1, s1) + x1
  BY <1>2, <1>3, <1>4, <1>6, <1>7
<1>. QED  BY <1>8 DEF IsDayOfSomeYear, e

\* After h days the era has gone on by h, or a new one has begun.
LEMMA EraLater ==
    ASSUME NEW d \in Nat, NEW h \in Nat, h <= 1500
    PROVE  Era(d + h) = IF Era(d) + h < 146097 THEN Era(d) + h ELSE Era(d) + h - 146097
BY DEF Era

\* Any day of the year but a leap day comes again within 366 days.
LEMMA DayRecurs ==
    ASSUME NEW d \in Nat, NEW x \in Nat, x <= 364
    PROVE  \E h \in Nat : h >= 1 /\ h <= 366 /\ DayOfYear(d + h) = x
<1>0. IsDayOfSomeYear(d)  BY Decomposed
<1>1. PICK c, q, s, x0 \in Nat : YearDay(c, q, s, x0) /\ Era(d) = Start(c, q, s) + x0
  BY <1>0, Zenon DEF IsDayOfSomeYear
<1>3. /\ Era(d) = 36524 * c + 1461 * q + 365 * s + x0
      /\ Era(d) \in Nat /\ Era(d) <= 146096
      /\ c <= 3 /\ q <= 24 /\ s <= 3 /\ x0 <= 365
  BY <1>1 DEF Start, YearDay
<1>4. CASE x0 < x
  <2>1. x - x0 \in Nat /\ x - x0 >= 1 /\ x - x0 <= 366  BY <1>4
  <2>2. Era(d + (x - x0)) = Start(c, q, s) + x
    <3>1. Era(d) + (x - x0) = Start(c, q, s) + x /\ Era(d) + (x - x0) < 146097
      BY <1>3 DEF Start
    <3>2. x - x0 \in Nat /\ x - x0 <= 1500  BY <2>1
    <3>. QED  BY <3>1, <3>2, EraLater
  <2>3. YearDay(c, q, s, x)  BY <1>3 DEF YearDay
  <2>. DEFINE h == x - x0
  <2>4. h \in Nat /\ d + h \in Nat /\ Era(d + h) = Start(c, q, s) + x  BY <2>1, <2>2
  <2>. HIDE DEF h
  <2>5. DayOfYear(d + h) = x  BY <2>3, <2>4, FormulasAt
  <2>. QED  BY <2>1, <2>4, <2>5 DEF h
<1>5. CASE x <= x0 /\ s < 3
  <2>. DEFINE h == 365 - x0 + x
  <2>1. h \in Nat /\ h >= 1 /\ h <= 366 /\ h <= 1500  BY <1>1, <1>5 DEF YearDay
  <2>2. s + 1 \in Nat /\ s + 1 <= 3  BY <1>5
  <2>3. Era(d) + h = Start(c, q, s + 1) + x /\ Era(d) + h < 146097
    BY <1>3, <1>5 DEF Start
  <2>. HIDE DEF h
  <2>4. Era(d + h) = Start(c, q, s + 1) + x  BY <2>1, <2>3, EraLater
  <2>. DEFINE c1 == c
              q1 == q
              s1 == s + 1
  <2>5. /\ c1 \in Nat /\ q1 \in Nat /\ s1 \in Nat /\ c1 <= 3 /\ q1 <= 24 /\ s1 <= 3
        /\ Era(d + h) = Start(c1, q1, s1) + x
    BY <1>3, <2>2, <2>4
  <2>. HIDE DEF c1, q1, s1
  <2>6. YearDay(c1, q1, s1, x) /\ d + h \in Nat  BY <2>1, <2>5 DEF YearDay
  <2>7. DayOfYear(d + h) = x  BY <2>5, <2>6, FormulasAt
  <2>. QED  BY <2>1, <2>7
<1>6. CASE x <= x0 /\ s = 3 /\ q < 24
  <2>. DEFINE h == 366 - x0 + x
  <2>1. h \in Nat /\ h >= 1 /\ h <= 366 /\ h <= 1500  BY <1>3, <1>6
  <2>2. q + 1 \in Nat /\ q + 1 <= 24 /\ 0 \in Nat /\ 0 <= 3  BY <1>6
  <2>3. Era(d) + h = Start(c, q + 1, 0) + x /\ Era(d) + h < 146097
    BY <1>3, <1>6 DEF Start
  <2>. HIDE DEF h
  <2>4. Era(d + h) = Start(c, q + 1, 0) + x  BY <2>1, <2>3, EraLater
  <2>5. YearDay(c, q + 1, 0, x)  BY <1>3, <2>2 DEF YearDay
  <2>6. d + h \in Nat  BY <2>1
  <2>7. DayOfYear(d + h) = x  BY <2>2, <2>4, <2>5, <2>6, FormulasAt
  <2>. QED  BY <2>1, <2>7
<1>7. CASE x <= x0 /\ s = 3 /\ q = 24 /\ c < 3
  <2>. DEFINE h == 365 - x0 + x
  <2>1. h \in Nat /\ h >= 1 /\ h <= 366 /\ h <= 1500  BY <1>1, <1>7 DEF YearDay
  <2>2. c + 1 \in Nat /\ c + 1 <= 3 /\ 0 \in Nat /\ 0 <= 24 /\ 0 <= 3  BY <1>7
  <2>3. Era(d) + h = Start(c + 1, 0, 0) + x /\ Era(d) + h < 146097
    BY <1>3, <1>7 DEF Start
  <2>. HIDE DEF h
  <2>4. Era(d + h) = Start(c + 1, 0, 0) + x  BY <2>1, <2>3, EraLater
  <2>. DEFINE c1 == c + 1
              q1 == 0
              s1 == 0
  <2>5. /\ c1 \in Nat /\ q1 \in Nat /\ s1 \in Nat /\ c1 <= 3 /\ q1 <= 24 /\ s1 <= 3
        /\ Era(d + h) = Start(c1, q1, s1) + x
    BY <1>3, <2>2, <2>4
  <2>. HIDE DEF c1, q1, s1
  <2>6. YearDay(c1, q1, s1, x) /\ d + h \in Nat  BY <2>1, <2>5 DEF YearDay
  <2>7. DayOfYear(d + h) = x  BY <2>5, <2>6, FormulasAt
  <2>. QED  BY <2>1, <2>7
<1>8. CASE x <= x0 /\ s = 3 /\ q = 24 /\ c = 3
  <2>. DEFINE h == 366 - x0 + x
  <2>1. h \in Nat /\ h >= 1 /\ h <= 366 /\ h <= 1500  BY <1>3, <1>8
  <2>2. 0 \in Nat /\ 0 <= 24 /\ 0 <= 3  OBVIOUS
  <2>3. Era(d) + h - 146097 = Start(0, 0, 0) + x /\ ~ (Era(d) + h < 146097)
    BY <1>3, <1>8 DEF Start
  <2>. HIDE DEF h
  <2>4. Era(d + h) = Start(0, 0, 0) + x  BY <2>1, <2>3, EraLater
  <2>. DEFINE c1 == 0
              q1 == 0
              s1 == 0
  <2>5. /\ c1 \in Nat /\ q1 \in Nat /\ s1 \in Nat /\ c1 <= 3 /\ q1 <= 24 /\ s1 <= 3
        /\ Era(d + h) = Start(c1, q1, s1) + x
    BY <1>3, <2>2, <2>4
  <2>. HIDE DEF c1, q1, s1
  <2>6. YearDay(c1, q1, s1, x) /\ d + h \in Nat  BY <2>1, <2>5 DEF YearDay
  <2>7. DayOfYear(d + h) = x  BY <2>5, <2>6, FormulasAt
  <2>. QED  BY <2>1, <2>7
<1>. QED  BY <1>3, <1>4, <1>5, <1>6, <1>7, <1>8

\* 2096-02-29.  The next one is in 2104.
LastLeapDay == 46080

\* Before it, a leap day comes again within four years.
LEMMA LeapDayRecurs ==
    ASSUME NEW d \in Nat, d < LastLeapDay
    PROVE  \E h \in Nat : h >= 1 /\ h <= 1461 /\ DayOfYear(d + h) = 365
<1>. DEFINE e == Era(d)
<1>1. ASSUME NEW h \in Nat, h >= 1, h <= 1461, NEW c \in Nat, NEW q \in Nat, c <= 3, q <= 24,
             q < 24 \/ c = 3, Era(d + h) = Start(c, q, 3) + 365
      PROVE  \E i \in Nat : i >= 1 /\ i <= 1461 /\ DayOfYear(d + i) = 365
  <2>1. d + h \in Nat /\ YearDay(c, q, 3, 365)  BY <1>1 DEF YearDay
  <2>2. DayOfYear(d + h) = 365  BY <1>1, <2>1, FormulasAt
  <2>. QED  BY <1>1, <2>2
<1>2. CASE d >= 11017
  <2>. DEFINE q == e \div 1461
              f == e - 1461 * q
  <2>1. e = d - 11017 /\ e \in Nat /\ e <= 35062  BY <1>2 DEF Era, LastLeapDay
  <2>. HIDE DEF e
  <2>2. q \in Nat /\ q <= 23 /\ f \in Nat /\ f <= 1460 /\ e = 1461 * q + f /\ (f = 1460 => q < 23)
    BY <2>1
  <2>. HIDE DEF q, f
  <2>3. CASE f < 1460
    <3>1. /\ 1460 - f \in Nat /\ 1460 - f >= 1 /\ 1460 - f <= 1461 /\ 1460 - f <= 1500
          /\ q <= 24 /\ q < 24 /\ 0 \in Nat /\ 0 <= 3
      BY <2>2, <2>3
    <3>2. e + (1460 - f) = Start(0, q, 3) + 365 /\ e + (1460 - f) < 146097
      BY <2>1, <2>2 DEF Start
    <3>3. Era(d + (1460 - f)) = Start(0, q, 3) + 365  BY <3>1, <3>2, EraLater DEF e
    <3>. DEFINE h == 1460 - f
    <3>4. /\ h \in Nat /\ h >= 1 /\ h <= 1461 /\ Era(d + h) = Start(0, q, 3) + 365
          /\ 0 \in Nat /\ 0 <= 3
      BY <3>1, <3>3
    <3>. HIDE DEF h
    <3>. QED  BY <1>1, <2>2, <3>1, <3>4
  <2>4. CASE f = 1460
    <3>1. /\ q + 1 \in Nat /\ q + 1 <= 24 /\ q + 1 < 24 /\ 0 \in Nat /\ 0 <= 3
          /\ 1461 \in Nat /\ 1461 >= 1 /\ 1461 <= 1461 /\ 1461 <= 1500
      BY <2>2, <2>4
    <3>2. e + 1461 = Start(0, q + 1, 3) + 365 /\ e + 1461 < 146097
      BY <2>1, <2>2, <2>4 DEF Start
    <3>3. Era(d + 1461) = Start(0, q + 1, 3) + 365  BY <3>1, <3>2, EraLater DEF e
    <3>. QED  BY <1>1, <3>1, <3>3
  <2>. QED  BY <2>2, <2>3, <2>4
<1>3. CASE d < 11017
  <2>. DEFINE q == (e - 109572) \div 1461
              f == e - 109572 - 1461 * q
  <2>1. e = d + 135080 /\ e \in Nat /\ e >= 135080 /\ e <= 146096  BY <1>3 DEF Era
  <2>. HIDE DEF e
  <2>2. q \in Nat /\ q <= 24 /\ f \in Nat /\ f <= 1460 /\ e = 109572 + 1461 * q + f
    BY <2>1
  <2>. HIDE DEF q, f
  <2>3. CASE f < 1460
    <3>1. /\ 1460 - f \in Nat /\ 1460 - f >= 1 /\ 1460 - f <= 1461 /\ 1460 - f <= 1500
          /\ 3 \in Nat /\ 3 <= 3
      BY <2>2, <2>3
    <3>2. e + (1460 - f) = Start(3, q, 3) + 365 /\ e + (1460 - f) < 146097
      BY <2>1, <2>2 DEF Start
    <3>3. Era(d + (1460 - f)) = Start(3, q, 3) + 365  BY <3>1, <3>2, EraLater DEF e
    <3>. DEFINE h == 1460 - f
    <3>4. /\ h \in Nat /\ h >= 1 /\ h <= 1461 /\ Era(d + h) = Start(3, q, 3) + 365
          /\ 3 \in Nat /\ 3 <= 3
      BY <3>1, <3>3
    <3>. HIDE DEF h
    <3>. QED  BY <1>1, <2>2, <3>1, <3>4
  <2>4. CASE f = 1460 /\ q < 24
    <3>1. /\ q + 1 \in Nat /\ q + 1 <= 24 /\ 3 \in Nat /\ 3 <= 3
          /\ 1461 \in Nat /\ 1461 >= 1 /\ 1461 <= 1461 /\ 1461 <= 1500
      BY <2>2, <2>4
    <3>2. e + 1461 = Start(3, q + 1, 3) + 365 /\ e + 1461 < 146097
      BY <2>1, <2>2, <2>4 DEF Start
    <3>3. Era(d + 1461) = Start(3, q + 1, 3) + 365  BY <3>1, <3>2, EraLater DEF e
    <3>. QED  BY <1>1, <3>1, <3>3
  <2>5. CASE f = 1460 /\ q = 24
    <3>1. /\ 0 \in Nat /\ 0 <= 24 /\ 0 <= 3 /\ 0 < 24
          /\ 1461 \in Nat /\ 1461 >= 1 /\ 1461 <= 1461 /\ 1461 <= 1500
      OBVIOUS
    <3>2. e + 1461 - 146097 = Start(0, 0, 3) + 365 /\ ~ (e + 1461 < 146097)
      BY <2>1, <2>2, <2>5 DEF Start
    <3>3. Era(d + 1461) = Start(0, 0, 3) + 365  BY <3>1, <3>2, EraLater DEF e
    <3>. QED  BY <1>1, <3>1, <3>3
  <2>. QED  BY <2>2, <2>3, <2>4, <2>5
<1>. QED  BY <1>2, <1>3

-----------------------------------------------------------------------------
(* The schedules.                                                          *)

IsLeapDay(s) == s.kind = "yearly" /\ s.on = 229

LEMMA DayOfInstant ==
    ASSUME NEW i \in Nat
    PROVE  /\ DayOf(i) \in Nat
           /\ MinutesPerDay * DayOf(i) <= i /\ i < MinutesPerDay * DayOf(i) + MinutesPerDay
BY DEF DayOf, MinutesPerDay

LEMMA DayOfAt ==
    ASSUME NEW s, NEW d \in Nat, s.time \in Nat, s.time < MinutesPerDay
    PROVE  At(s, d) \in Nat /\ DayOf(At(s, d)) = d
BY DEF At, DayOf, MinutesPerDay

\* The month and the day of the month follow from the day of the year.
LEMMA SameDate ==
    ASSUME NEW d, NEW e, DayOfYear(d) = DayOfYear(e)
    PROVE  MonthOf(d) = MonthOf(e) /\ DayOfMonth(d) = DayOfMonth(e)
BY DEF MonthOf, DayOfMonth, MonthFromMarch

LEMMA YearDays ==
    ASSUME NEW d \in Nat
    PROVE  DayOfYear(d) \in Nat /\ DayOfYear(d) <= 365
<1>0. IsDayOfSomeYear(d)  BY Decomposed
<1>1. PICK c, q, s, x \in Nat : YearDay(c, q, s, x) /\ Era(d) = Start(c, q, s) + x
  BY <1>0, Zenon DEF IsDayOfSomeYear
<1>2. DayOfYear(d) = x  BY <1>1, FormulasAt
<1>. QED  BY <1>1, <1>2 DEF YearDay

LEMMA LeapDate ==
    ASSUME NEW d, DayOfYear(d) = 365
    PROVE  MonthOf(d) = 2 /\ DayOfMonth(d) = 29
<1>1. MonthFromMarch(d) = 11  BY DEF MonthFromMarch
<1>. QED  BY <1>1 DEF MonthOf, DayOfMonth

\* Every month of March has each of 31 days.
LEMMA MarchDate ==
    ASSUME NEW d, DayOfYear(d) \in Nat, DayOfYear(d) <= 30
    PROVE  DayOfMonth(d) = DayOfYear(d) + 1
<1>1. MonthFromMarch(d) = 0  BY DEF MonthFromMarch
<1>. QED  BY <1>1 DEF DayOfMonth

LEMMA DateTyped ==
    ASSUME NEW d, DayOfYear(d) \in Nat, DayOfYear(d) <= 365
    PROVE  DayOfMonth(d) \in Nat /\ DayOfMonth(d) < 100 /\ MonthOf(d) \in Nat
<1>. DEFINE x == DayOfYear(d)
            m == MonthFromMarch(d)
<1>1. m = (5 * x + 2) \div 153  BY DEF MonthFromMarch
<1>2. /\ DayOfMonth(d) = x - (153 * m + 2) \div 5 + 1
      /\ MonthOf(d) = IF m < 10 THEN m + 3 ELSE m - 9
  BY DEF DayOfMonth, MonthOf
<1>3. x \in Nat /\ x <= 365  OBVIOUS
<1>. HIDE DEF x, m
<1>4. m \in Nat /\ 153 * m <= 5 * x + 2 /\ 5 * x + 2 < 153 * m + 153  BY <1>1, <1>3
<1>5. (153 * m + 2) \div 5 \in Nat /\ (153 * m + 2) \div 5 <= x
      /\ x - (153 * m + 2) \div 5 < 99
  BY <1>3, <1>4
<1>. QED  BY <1>2, <1>3, <1>4, <1>5

\* An accepted schedule that repeats fires within its horizon, but on a leap day
\* only up to 2096.
LEMMA FiresAgain ==
    ASSUME NEW s, s.on \in Nat, s.time \in Nat, Accepts(s), Repeats(s), NEW d \in Nat,
           IsLeapDay(s) => d < LastLeapDay
    PROVE  \E h \in Nat : h >= 1 /\ h <= Horizon(s) - 1 /\ FiresOn(s, d + h)
<1>1. CASE s.kind = "daily"
  BY <1>1 DEF FiresOn, Horizon
<1>2. CASE s.kind = "weekly"
  <2>. DEFINE h == 1 + ((s.on - (d + 5)) % 7)
  <2>1. s.on \in Nat /\ s.on <= 6  BY <1>2 DEF Accepts
  <2>2. h \in Nat /\ h >= 1 /\ h <= 7  OBVIOUS
  <2>3. (d + h + 4) % 7 = s.on  BY <2>1
  <2>. HIDE DEF h
  <2>4. FiresOn(s, d + h)  BY <1>2, <2>3 DEF FiresOn, Weekday
  <2>5. Horizon(s) = 8  BY <1>2 DEF Horizon
  <2>. QED  BY <2>2, <2>4, <2>5
<1>3. CASE s.kind = "monthly"
  <2>1. s.on \in 1..31  BY <1>3 DEF Accepts
  <2>. DEFINE x == s.on - 1
  <2>2. x \in Nat /\ x <= 364 /\ x <= 30 /\ x + 1 = s.on  BY <2>1
  <2>. HIDE DEF x
  <2>3. PICK h \in Nat : h >= 1 /\ h <= 366 /\ DayOfYear(d + h) = x
    BY <2>2, DayRecurs
  <2>4. DayOfMonth(d + h) = s.on  BY <2>2, <2>3, MarchDate
  <2>5. FiresOn(s, d + h)  BY <1>3, <2>4 DEF FiresOn
  <2>6. Horizon(s) = 370  BY <1>3 DEF Horizon
  <2>. QED  BY <2>3, <2>5, <2>6
<1>4. CASE s.kind = "yearly"
  <2>1. PICK n : n \in Nat /\ s.on = 100 * MonthOf(n) + DayOfMonth(n)
    BY <1>4 DEF Accepts, ValidDate
  <2>2. DayOfYear(n) \in Nat /\ DayOfYear(n) <= 365  BY <2>1, YearDays
  <2>3. \E h \in Nat : h >= 1 /\ h <= 1461 /\ DayOfYear(d + h) = DayOfYear(n)
    <3>1. CASE DayOfYear(n) <= 364
      <4>. DEFINE x == DayOfYear(n)
      <4>1. x \in Nat /\ x <= 364  BY <2>2, <3>1
      <4>. HIDE DEF x
      <4>2. PICK h \in Nat : h >= 1 /\ h <= 366 /\ DayOfYear(d + h) = x
        BY <4>1, DayRecurs
      <4>. QED  BY <4>2 DEF x
    <3>2. CASE DayOfYear(n) = 365
      <4>1. s.on = 229  BY <2>1, <3>2, LeapDate
      <4>. QED  BY <1>4, <3>2, <4>1, LeapDayRecurs DEF IsLeapDay
    <3>. QED  BY <2>2, <3>1, <3>2
  <2>4. PICK h \in Nat : h >= 1 /\ h <= 1461 /\ DayOfYear(d + h) = DayOfYear(n)
    BY <2>3
  <2>5. s.on = 100 * MonthOf(d + h) + DayOfMonth(d + h)  BY <2>1, <2>4, SameDate
  <2>6. DayOfMonth(d + h) \in Nat /\ DayOfMonth(d + h) < 100 /\ MonthOf(d + h) \in Nat
    BY <2>2, <2>4, DateTyped
  <2>7. s.on % 100 = DayOfMonth(d + h) /\ s.on \div 100 = MonthOf(d + h)
    BY <2>5, <2>6
  <2>8. FiresOn(s, d + h)  BY <1>4, <2>7 DEF FiresOn
  <2>9. Horizon(s) = 1500  BY <1>4 DEF Horizon
  <2>. QED  BY <2>4, <2>8, <2>9
<1>. QED  BY <1>1, <1>2, <1>3, <1>4 DEF Repeats

LEMMA RepeatingFirst ==
    ASSUME NEW s, Repeats(s), NEW i
    PROVE  NextFiring(s, i) =
               {At(s, d) : d \in {h \in Hits(s, i) : \A g \in Hits(s, i) : h <= g}}
BY DEF Repeats, NextFiring

LEMMA HitsTyped ==
    ASSUME NEW s, Repeats(s), NEW i \in Nat
    PROVE  /\ DayOf(i) \in Nat /\ Horizon(s) \in Nat
           /\ \A d \in Hits(s, i) : d \in Nat
<1>1. DayOf(i) \in Nat  BY DayOfInstant
<1>2. Horizon(s) \in Nat  BY DEF Repeats, Horizon
<1>. QED  BY <1>1, <1>2 DEF Hits

LEMMA FiresInTime ==
    ASSUME NEW s, s.on \in Nat, s.time \in Nat, Accepts(s), Repeats(s), NEW i \in Nat,
           IsLeapDay(s) => DayOf(i) < LastLeapDay
    PROVE  NextFiring(s, i) # {}
<1>. DEFINE D == DayOf(i)
<1>1. D \in Nat /\ i < MinutesPerDay * D + MinutesPerDay  BY DayOfInstant
<1>2. PICK h \in Nat : h >= 1 /\ h <= Horizon(s) - 1 /\ FiresOn(s, D + h)
  BY <1>1, FiresAgain
<1>3. D + h \in Hits(s, i)
  <2>1. Horizon(s) \in Nat  BY HitsTyped
  <2>2. D + h \in D..(D + Horizon(s) - 1)  BY <1>1, <1>2, <2>1
  <2>3. At(s, D + h) > i  BY <1>1, <1>2 DEF At, MinutesPerDay
  <2>. QED  BY <1>2, <2>2, <2>3 DEF Hits
<1>4. Hits(s, i) \in SUBSET Nat  BY HitsTyped
<1>5. PICK d \in Hits(s, i) : \A g \in Hits(s, i) : d <= g
  <2>. DEFINE H == Hits(s, i)
  <2>1. H \in SUBSET Nat /\ H # {}  BY <1>3, <1>4
  <2>. HIDE DEF H
  <2>2. \E d \in H : \A g \in H : d <= g  BY <2>1, LeastOf
  <2>. QED  BY <2>2 DEF H
<1>6. d \in {h1 \in Hits(s, i) : \A g \in Hits(s, i) : h1 <= g}  BY <1>5
<1>7. NextFiring(s, i) =
          {At(s, e) : e \in {h1 \in Hits(s, i) : \A g \in Hits(s, i) : h1 <= g}}
  BY RepeatingFirst
<1>. QED  BY <1>6, <1>7

LEMMA FirstOfRepeating ==
    ASSUME NEW s, s.time \in Nat, Accepts(s), Repeats(s), NEW i \in Nat,
           NEW t \in NextFiring(s, i)
    PROVE  /\ t \in Nat /\ t > i /\ t = At(s, DayOf(t)) /\ FiresOn(s, DayOf(t))
           /\ \A d \in DayOf(i)..(DayOf(t) - 1) : FiresOn(s, d) => At(s, d) <= i
<1>1. PICK d \in Hits(s, i) : t = At(s, d) /\ \A g \in Hits(s, i) : d <= g
  BY RepeatingFirst
<1>2. d \in Nat /\ DayOf(i) \in Nat /\ Horizon(s) \in Nat  BY HitsTyped
<1>3. d \in DayOf(i)..(DayOf(i) + Horizon(s) - 1) /\ FiresOn(s, d) /\ At(s, d) > i
  BY DEF Hits
<1>4. t \in Nat /\ DayOf(t) = d
  <2>1. s.time < MinutesPerDay  BY DEF Accepts
  <2>. QED  BY <1>1, <1>2, <2>1, DayOfAt
<1>5. ASSUME NEW g \in DayOf(i)..(d - 1), FiresOn(s, g) PROVE At(s, g) <= i
  <2>1. g \in Nat /\ ~ (d <= g)  BY <1>2
  <2>2. g \in DayOf(i)..(DayOf(i) + Horizon(s) - 1)  BY <1>2, <1>3
  <2>3. g \notin Hits(s, i)  BY <1>1, <2>1
  <2>4. ~ (At(s, g) > i)  BY <1>5, <2>2, <2>3 DEF Hits
  <2>5. At(s, g) \in Nat  BY <2>1 DEF At, MinutesPerDay
  <2>. QED  BY <2>4, <2>5
<1>. QED  BY <1>1, <1>3, <1>4, <1>5

\* The hypothesis about leap days is needed: on the day LastLeapDay, once its time
\* of day has come, the days searched hold no other February 29th.
LEMMA LeapDate229 ==
    ASSUME NEW d \in Nat, MonthOf(d) = 2, DayOfMonth(d) = 29
    PROVE  DayOfYear(d) = 365
<1>. DEFINE x == DayOfYear(d)
            m == MonthFromMarch(d)
<1>1. m = (5 * x + 2) \div 153  BY DEF MonthFromMarch
<1>2. /\ x - ((153 * m + 2) \div 5) + 1 = 29
      /\ 2 = IF m < 10 THEN m + 3 ELSE m - 9
  BY DEF DayOfMonth, MonthOf
<1>3. x \in Nat /\ x <= 365  BY YearDays
<1>. HIDE DEF x, m
<1>4. m \in Nat  BY <1>1, <1>3
<1>5. m = 11  BY <1>2, <1>4
<1>6. x = 365  BY <1>2, <1>3, <1>5
<1>. QED  BY <1>6 DEF x

EndsAYear(d) ==
    \E c, q \in Nat : /\ c <= 3 /\ q <= 24 /\ (q < 24 \/ c = 3)
                      /\ Era(d) = 36524 * c + 1461 * q + 1460

LEMMA LeapDayPlace ==
    ASSUME NEW d \in Nat, DayOfYear(d) = 365
    PROVE  EndsAYear(d)
<1>1. IsDayOfSomeYear(d)  BY Decomposed
<1>2. PICK c, q, s, x \in Nat : YearDay(c, q, s, x) /\ Era(d) = Start(c, q, s) + x
  BY <1>1, Zenon DEF IsDayOfSomeYear
<1>3. x = 365  BY <1>2, FormulasAt
<1>4. c <= 3 /\ q <= 24 /\ s = 3 /\ (q < 24 \/ c = 3)  BY <1>2, <1>3 DEF YearDay
<1>5. Era(d) = 36524 * c + 1461 * q + 1460  BY <1>2, <1>3, <1>4 DEF Start
<1>. QED  BY <1>4, <1>5 DEF EndsAYear

LEMMA NoLeapDaySoon ==
    ASSUME NEW d \in Nat, d > LastLeapDay, d < LastLeapDay + 1500
    PROVE  DayOfYear(d) # 365
<1>1. SUFFICES ASSUME DayOfYear(d) = 365 PROVE FALSE  OBVIOUS
<1>2. EndsAYear(d)  BY <1>1, LeapDayPlace
<1>3. Era(d) > 35063 /\ Era(d) < 36563
  BY DEF Era, LastLeapDay
<1>. QED  BY <1>2, <1>3 DEF EndsAYear

-----------------------------------------------------------------------------
(* Delays.                                                                 *)

\* A positive result of the 64-bit arithmetic is at most the sum that was meant,
\* and is that sum if it is in range.
LEMMA WrapIs ==
    ASSUME NEW a \in Nat
    PROVE  /\ Wrap(a) \in Int /\ Wrap(a) <= a
           /\ a < DurationRange \div 2 => Wrap(a) = a
<1>. DEFINE R == DurationRange
            h == DurationRange \div 2
            k == (a + h) \div R
            r == (a + h) % R
<1>1. R \in Nat /\ R > 0 /\ h \in Nat /\ R = 2 * h  BY DurationAssumption
<1>2. Wrap(a) = r - h  BY DEF Wrap
<1>3. r \in Nat /\ r < R /\ k \in Nat /\ a + h = R * k + r
  <2>. HIDE DEF h, R
  <2>. QED  BY <1>1
<1>. HIDE DEF R, h, k, r
<1>4. R * k \in Nat /\ (k >= 1 => R * k >= R) /\ (k = 0 => R * k = 0)  BY <1>1, <1>3
<1>5. r <= a + h  BY <1>1, <1>3, <1>4
<1>6. a < h => r = a + h
  <2>1. SUFFICES ASSUME a < h PROVE r = a + h  OBVIOUS
  <2>2. a + h < R  BY <1>1, <2>1
  <2>3. k = 0  BY <1>1, <1>3, <1>4, <2>2
  <2>. QED  BY <1>1, <1>3, <1>4, <2>3
<1>7. Wrap(a) \in Int /\ Wrap(a) <= a /\ (a < h => Wrap(a) = a)
  BY <1>1, <1>2, <1>3, <1>5, <1>6
<1>. QED  BY <1>7 DEF h

-----------------------------------------------------------------------------
(* The life of a task.                                                     *)

\* A task waits for a firing time that Next gave it, and one that is gone does
\* not repeat, or names a leap day after the last before 2100.
Inv ==
    /\ rule \in Requests /\ now \in Nat
    /\ pc \in {"built", "waiting"} => Accepts(rule)
    /\ pc = "waiting" => nextRun \in NextFiring(rule, now)
    /\ pc = "gone" /\ Repeats(rule) => IsLeapDay(rule) /\ DayOf(now) >= LastLeapDay

LEMMA FiringTyped ==
    ASSUME NEW s \in Requests, Accepts(s), NEW i \in Nat, NEW t \in NextFiring(s, i)
    PROVE  t \in Nat /\ t > i
<1>1. s.kind \in Kinds /\ s.on \in Nat /\ s.time \in Nat  BY RequestsAssumption
<1>2. CASE s.kind = "once"  BY <1>1, <1>2 DEF NextFiring
<1>3. CASE s.kind = "relative"
  <2>1. t = i + Delay(s)  BY <1>3 DEF NextFiring
  <2>2. Delay(s) > 0  BY <1>3 DEF Accepts, NewRelative
  <2>3. Delay(s) \in Int
    <3>1. Asked(s) \in Nat  BY <1>1 DEF Asked, MinutesPerDay
    <3>. QED  BY <3>1, WrapIs DEF Delay
  <2>. QED  BY <2>1, <2>2, <2>3
<1>4. CASE Repeats(s)  BY <1>1, <1>4, FirstOfRepeating
<1>. QED  BY <1>1, <1>2, <1>3, <1>4 DEF Kinds, Repeats

LEMMA InvInit == Init => Inv
BY InstantsAssumption DEF Init, Inv

LEMMA InvNext == Inv /\ [Next]_vars => Inv'
<1>. SUFFICES ASSUME Inv, [Next]_vars PROVE Inv'  OBVIOUS
<1>1. /\ rule \in Requests /\ now \in Nat
      /\ rule.kind \in Kinds /\ rule.on \in Nat /\ rule.time \in Nat
  BY RequestsAssumption DEF Inv
<1>2. CASE BuildSchedule
  <2>1. /\ rule' = rule /\ now' = now /\ pc' \in {"built", "refused"}
        /\ pc' = "built" => Accepts(rule)
    BY <1>2 DEF BuildSchedule
  <2>2. pc' = "built" => Accepts(rule)'  BY <2>1
  <2>. QED  BY <1>1, <2>1, <2>2 DEF Inv
<1>3. CASE AddAt
  <2>1. Accepts(rule) /\ rule' = rule /\ now' = now  BY <1>3 DEF AddAt, Inv
  <2>2. Accepts(rule)'  BY <2>1
  <2>3. CASE NextFiring(rule, now) = {}
    <3>1. pc' = "gone"  BY <1>3, <2>3 DEF AddAt
    <3>2. Repeats(rule) => IsLeapDay(rule) /\ DayOf(now) >= LastLeapDay
      <4>1. SUFFICES ASSUME Repeats(rule)
                     PROVE  IsLeapDay(rule) /\ DayOf(now) >= LastLeapDay
        OBVIOUS
      <4>2. IsLeapDay(rule) /\ ~ (DayOf(now) < LastLeapDay)
        BY <1>1, <2>1, <2>3, <4>1, FiresInTime
      <4>3. DayOf(now) \in Nat  BY <1>1, DayOfInstant
      <4>. QED  BY <4>2, <4>3 DEF LastLeapDay
    <3>3. (Repeats(rule) => IsLeapDay(rule) /\ DayOf(now) >= LastLeapDay)'
      BY <2>1, <3>2
    <3>. QED  BY <1>1, <2>1, <3>1, <3>3 DEF Inv
  <2>4. CASE NextFiring(rule, now) # {}
    <3>1. pc' = "waiting" /\ nextRun' \in NextFiring(rule, now)  BY <1>3, <2>4 DEF AddAt
    <3>2. NextFiring(rule, now)' = NextFiring(rule, now)  BY <2>1
    <3>. QED  BY <1>1, <2>1, <2>2, <3>1, <3>2 DEF Inv
  <2>. QED  BY <2>3, <2>4
<1>4. CASE Dispatch
  <2>1. Accepts(rule) /\ nextRun \in NextFiring(rule, now) /\ rule' = rule
    BY <1>4 DEF Dispatch, Inv
  <2>2. now' \in Nat
    <3>1. PICK late \in Delays : now' = nextRun + late  BY <1>4 DEF Dispatch
    <3>2. nextRun \in Nat  BY <1>1, <2>1, FiringTyped
    <3>. QED  BY <3>1, <3>2, InstantsAssumption
  <2>3. Accepts(rule)'  BY <2>1
  <2>4. CASE ~ Repeats(rule)
    <3>1. pc' = "gone"  BY <1>4, <2>4 DEF Dispatch
    <3>2. ~ Repeats(rule)'  BY <2>1, <2>4
    <3>. QED  BY <1>1, <2>1, <2>2, <3>1, <3>2 DEF Inv
  <2>5. CASE Repeats(rule) /\ NextFiring(rule, now') = {}
    <3>1. pc' = "gone"  BY <1>4, <2>5 DEF Dispatch
    <3>2. IsLeapDay(rule) /\ ~ (DayOf(now') < LastLeapDay)
      BY <1>1, <2>1, <2>2, <2>5, FiresInTime
    <3>3. DayOf(now') \in Nat  BY <2>2, DayOfInstant
    <3>4. DayOf(now') >= LastLeapDay  BY <3>2, <3>3 DEF LastLeapDay
    <3>5. IsLeapDay(rule)' /\ DayOf(now)' >= LastLeapDay
      BY <2>1, <3>2, <3>4
    <3>. QED  BY <1>1, <2>1, <2>2, <3>1, <3>5 DEF Inv
  <2>6. CASE Repeats(rule) /\ NextFiring(rule, now') # {}
    <3>1. pc' = "waiting" /\ nextRun' \in NextFiring(rule, now')
      BY <1>4, <2>6 DEF Dispatch, Inv
    <3>2. NextFiring(rule, now)' = NextFiring(rule, now')  BY <2>1
    <3>. QED  BY <1>1, <2>1, <2>2, <2>3, <3>1, <3>2 DEF Inv
  <2>. QED  BY <2>4, <2>5, <2>6
<1>5. CASE UNCHANGED vars
  <2>1. UNCHANGED <<pc, rule, now, nextRun>>  BY <1>5 DEF vars
  <2>2. /\ NextFiring(rule, now)' = NextFiring(rule, now)
        /\ Accepts(rule)' = Accepts(rule) /\ Repeats(rule)' = Repeats(rule)
        /\ IsLeapDay(rule)' = IsLeapDay(rule) /\ DayOf(now)' = DayOf(now)
    BY <2>1
  <2>. QED  BY <2>1, <2>2 DEF Inv, LastLeapDay
<1>. QED  BY <1>2, <1>3, <1>4, <1>5 DEF Next

LEMMA InvAlways == Spec => []Inv
BY InvInit, InvNext, PTL DEF Spec

-----------------------------------------------------------------------------
\* Whatever is asked for and however late its firings are handled, a task waits
\* for the first moment of its rule after now (schedule.go:59-116).
THEOREM WaitsForTheFirst == Spec => []NextIsFirst
<1>1. Inv => NextIsFirst
  <2>. SUFFICES ASSUME Inv, pc = "waiting"
                PROVE  /\ nextRun > now
                       /\ Repeats(rule) =>
                              /\ nextRun = At(rule, DayOf(nextRun))
                              /\ FiresOn(rule, DayOf(nextRun))
                              /\ \A d \in DayOf(now)..(DayOf(nextRun) - 1) :
                                     FiresOn(rule, d) => At(rule, d) <= now
    BY DEF NextIsFirst
  <2>1. /\ rule \in Requests /\ now \in Nat /\ Accepts(rule) /\ rule.time \in Nat
        /\ nextRun \in NextFiring(rule, now)
    BY RequestsAssumption DEF Inv
  <2>2. nextRun > now  BY <2>1, FiringTyped
  <2>. QED  BY <2>1, <2>2, FirstOfRepeating
<1>. QED  BY <1>1, InvAlways, PTL

\* A delay is never longer than was asked for, and is that long up to half of the
\* range of a duration, whatever the range is (tool.go:117-120).
THEOREM DelaysAreAsAsked == Spec => []DelayAsAsked
<1>1. Inv => DelayAsAsked
  <2>. SUFFICES ASSUME Inv, pc = "waiting", rule.kind = "relative"
                PROVE  /\ nextRun - now \in 1..Asked(rule)
                       /\ Asked(rule) < DurationRange \div 2 => nextRun - now = Asked(rule)
    BY DEF DelayAsAsked
  <2>1. /\ rule.on \in Nat /\ rule.time \in Nat /\ now \in Nat /\ Accepts(rule)
        /\ nextRun = now + Delay(rule)
    BY RequestsAssumption DEF Inv, NextFiring
  <2>2. Asked(rule) \in Nat  BY <2>1 DEF Asked, MinutesPerDay
  <2>3. Delay(rule) > 0  BY <2>1 DEF Accepts, NewRelative
  <2>4. /\ Delay(rule) \in Int /\ Delay(rule) <= Asked(rule)
        /\ Asked(rule) < DurationRange \div 2 => Delay(rule) = Asked(rule)
    BY <2>2, WrapIs DEF Delay
  <2>5. nextRun - now = Delay(rule)  BY <2>1, <2>4
  <2>. QED  BY <2>2, <2>3, <2>4, <2>5
<1>. QED  BY <1>1, InvAlways, PTL

\* A repeating task is never refused for want of a next time nor deleted when it
\* has fired; one for a leap day as long as the last call of Next was before
\* 2096-02-29, from where its horizon does not reach 2104 (schedule.go:59-116).
THEOREM RepeatsUntilTheGap ==
    Spec => []((IsLeapDay(rule) => DayOf(now) < LastLeapDay) => RepeatsForEver)
<1>1. Inv => ((IsLeapDay(rule) => DayOf(now) < LastLeapDay) => RepeatsForEver)
  <2>. SUFFICES ASSUME Inv, IsLeapDay(rule) => DayOf(now) < LastLeapDay,
                       pc = "gone", Repeats(rule)
                PROVE  FALSE
    BY DEF RepeatsForEver
  <2>1. DayOf(now) < LastLeapDay /\ DayOf(now) >= LastLeapDay  BY DEF Inv
  <2>2. DayOf(now) \in Nat  BY DayOfInstant DEF Inv
  <2>. QED  BY <2>1, <2>2 DEF LastLeapDay
<1>. QED  BY <1>1, InvAlways, PTL

\* That hypothesis cannot be spared, although a February 29th comes again in 2104: a
\* yearly task for leap days has no next time after its firing of 2096, because four
\* years are searched (schedule.go:96-116).
THEOREM LeapDayGap ==
    ASSUME NEW s, s.kind = "yearly", s.on = 229, s.time \in Nat, NEW i \in Nat,
           DayOf(i) = LastLeapDay, At(s, LastLeapDay) <= i
    PROVE  NextFiring(s, i) = {}
<1>1. SUFFICES ASSUME NEW d \in Hits(s, i) PROVE FALSE
  BY RepeatingFirst DEF Repeats
<1>2. Horizon(s) = 1500  BY DEF Horizon
<1>3. d \in LastLeapDay..(LastLeapDay + 1500 - 1) /\ FiresOn(s, d) /\ At(s, d) > i
  BY <1>2 DEF Hits
<1>4. d \in Nat /\ d >= LastLeapDay /\ d < LastLeapDay + 1500
  <2>1. LastLeapDay \in Nat  BY DEF LastLeapDay
  <2>. QED  BY <1>3, <2>1
<1>5. d # LastLeapDay
  <2>1. SUFFICES ASSUME d = LastLeapDay PROVE FALSE  OBVIOUS
  <2>2. At(s, LastLeapDay) > i /\ At(s, LastLeapDay) \in Int
    BY <1>3, <2>1 DEF At, LastLeapDay, MinutesPerDay
  <2>. QED  BY <2>2
<1>6. DayOfYear(d) # 365
  <2>1. d > LastLeapDay  BY <1>4, <1>5 DEF LastLeapDay
  <2>. QED  BY <1>4, <2>1, NoLeapDaySoon
<1>7. 229 % 100 = DayOfMonth(d) /\ 229 \div 100 = MonthOf(d)  BY <1>3 DEF FiresOn
<1>8. DayOfMonth(d) = 29 /\ MonthOf(d) = 2  BY <1>7
<1>. QED  BY <1>4, <1>6, <1>8, LeapDate229
=============================================================================
