------------------------ MODULE LocationHistoryProofs ------------------------
(***************************************************************************)
(* The prune of RecordHistory and the answers of QueryHistory for every    *)
(* clock, every number of fixes, every interval and every limit.  SQLite   *)
(* sorts texts, not times: that their order is total and never contradicts *)
(* the order of the seconds is what the proofs rest on.                    *)
(***************************************************************************)
EXTENDS LocationHistory, FiniteSetTheorems, TLAPS

-------------------------------------------------------------------------------
(* Division *)

(* A quotient and a remainder *)
LEMMA DivMod ==
    ASSUME NEW a \in Nat, NEW b \in Nat \ {0}
    PROVE  /\ a \div b \in Nat /\ a % b \in 0..(b - 1)
           /\ a = b * (a \div b) + (a % b)
  OBVIOUS

(* Dividing twice, and by the same *)
LEMMA DivDiv ==
    ASSUME NEW a \in Nat, NEW b \in Nat \ {0}, NEW c \in Nat \ {0}
    PROVE  (a \div c) \div b = a \div (b * c)
  OBVIOUS

LEMMA DivMonotonic ==
    ASSUME NEW a \in Nat, NEW b \in Nat, a <= b, NEW c \in Nat \ {0}
    PROVE  a \div c <= b \div c
  OBVIOUS

(* Sets of naturals have a least element, bounded ones a greatest. *)
LEMMA LeastOf ==
    ASSUME NEW S, S \subseteq Nat, S # {}
    PROVE  \E n \in S : \A m \in S : n <= m
  <1>1. PICK n \in S : \A m \in S : ~(<<m, n>> \in OpToRel(<, Nat))
    BY NatLessThanWellFounded, WFMin, Zenon
  <1>2. ASSUME NEW m \in S, m < n
        PROVE  FALSE
    <2>1. <<m, n>> \in Nat \X Nat /\ <<m, n>>[1] = m /\ <<m, n>>[2] = n
      OBVIOUS
    <2>2. <<m, n>> \in OpToRel(<, Nat)
      BY <1>2, <2>1, Zenon DEF OpToRel
    <2> QED
      BY <1>1, <2>2, Zenon
  <1> QED
    BY <1>2

LEMMA GreatestOf ==
    ASSUME NEW b \in Nat, NEW S, S \subseteq 0..b, S # {}
    PROVE  \E n \in S : \A m \in S : m <= n
  <1> DEFINE T == {b - n : n \in S}
  <1>1. T \subseteq Nat /\ T # {}
    <2>1. \A n \in S : b - n \in Nat
      BY SMT
    <2> QED
      BY <2>1, Zenon
  <1>2. PICK x \in T : \A y \in T : x <= y
    BY <1>1, LeastOf, Zenon
  <1>3. PICK n \in S : x = b - n
    OBVIOUS
  <1>4. ASSUME NEW m \in S
        PROVE  m <= n
    <2>1. b - m \in T
      BY Zenon
    <2> QED
      BY <1>2, <1>3, <2>1
  <1> QED
    BY <1>4

-------------------------------------------------------------------------------
(* The fraction of a second *)

(* What the assumptions say of the constants *)
LEMMA Constants ==
    /\ Digits \in Nat \ {0} /\ Base \in Nat \ {0} /\ Base > 1
    /\ MaxPoints \in Nat \ {0} /\ MaxSecond \in Nat /\ Second \in Nat \ {0}
  BY HistoryAssumption, PowersAssumption DEF Second

(* A time is determined by its second and the digits of its fraction. *)
LEMMA DigitsDetermine ==
    ASSUME NEW s \in Nat, NEW t \in Nat, SecondOf(s) = SecondOf(t), Fraction(s) = Fraction(t)
    PROVE  s = t
  <1> USE Constants
  <1> DEFINE S == {k \in 0..Digits : s \div Base ^ k # t \div Base ^ k}
  <1>1. SUFFICES ASSUME S # {} PROVE FALSE
    <2>1. 0 \notin S
      BY <1>1
    <2>2. Base ^ 0 = 1
      BY PowersAssumption
    <2> QED
      BY <2>1, <2>2
  <1>2. PICK k \in S : \A j \in S : j <= k
    <2>1. S \subseteq 0..Digits /\ Digits \in Nat
      OBVIOUS
    <2> HIDE DEF S
    <2> QED
      BY <1>1, <2>1, GreatestOf, Zenon
  <1>3. k \in 0..(Digits - 1)
    BY DEF SecondOf, Second
  <1>4. s \div Base ^ (k + 1) = t \div Base ^ (k + 1)
    BY <1>2, <1>3
  <1>5. PICK p \in Nat \ {0} : p = Base ^ k /\ Base ^ (k + 1) = Base * p
    BY <1>3, PowersAssumption
  <1>6. (s \div p) % Base = (t \div p) % Base
    <2>1. Digits - k \in 1..Digits /\ Digits - (Digits - k) = k
      BY <1>3
    <2>2. Fraction(s)[Digits - k] = (s \div p) % Base /\ Fraction(t)[Digits - k] = (t \div p) % Base
      BY <1>5, <2>1 DEF Fraction
    <2> QED
      BY <2>2
  <1>7. (s \div p) \div Base = (t \div p) \div Base
    <2>1. /\ (s \div p) \div Base = s \div (Base * p)
          /\ (t \div p) \div Base = t \div (Base * p)
      BY DivDiv, ZenonT(30)
    <2> QED
      BY <1>4, <1>5, <2>1, Zenon
  <1>8. s \div p = t \div p
    <2>1. PICK x \in Nat, y \in Nat : x = s \div p /\ y = t \div p
      BY DivMod, Zenon
    <2>2. x \div Base = y \div Base /\ x % Base = y % Base
      BY <1>6, <1>7, <2>1
    <2>3. x = Base * (x \div Base) + (x % Base) /\ y = Base * (y \div Base) + (y % Base)
      BY DivMod, Zenon
    <2> QED
      BY <2>1, <2>2, <2>3, Zenon
  <1> QED
    BY <1>5, <1>8

(* All the digits of a fraction, before the trailing zeros are dropped *)
Written == [1..Digits -> 0..(Base - 1)]

(* Fraction takes them from any time. *)
LEMMA FractionWritten ==
    ASSUME NEW t \in Nat
    PROVE  Fraction(t) \in Written
  <1> USE Constants
  <1>1. ASSUME NEW d \in 1..Digits
        PROVE  (t \div Base ^ (Digits - d)) % Base \in 0..(Base - 1)
    <2>1. PICK p \in Nat \ {0} : p = Base ^ (Digits - d)
      <3>1. Digits - d \in 0..Digits
        OBVIOUS
      <3> QED
        BY <3>1, PowersAssumption
    <2> QED
      BY <2>1, DivMod
  <1> QED
    BY <1>1 DEF Fraction, Written

(* A start of the digits is left, and all that is cut off is zero. *)
LEMMA Trimmed ==
    ASSUME NEW ds \in Written
    PROVE  \E n \in 0..Digits :
              /\ Trim(ds) = SubSeq(ds, 1, n)
              /\ \A d \in 1..Digits : d > n => ds[d] = 0
  <1> USE Constants
  <1> DEFINE S == {0} \cup {d \in DOMAIN ds : ds[d] # 0}
  <1>1. S \subseteq 0..Digits /\ S # {} /\ DOMAIN ds = 1..Digits
    BY DEF Written
  <1>2. \E n \in S : \A m \in S : m <= n
    <2> HIDE DEF S
    <2> QED
      BY <1>1, GreatestOf, Zenon
  <1>3. \E n \in S : \A m \in S : n >= m
    BY <1>1, <1>2
  <1>4. PICK n : n = Max(S)
    OBVIOUS
  <1>5. n \in S /\ \A m \in S : n >= m
    BY <1>3, <1>4, Zenon DEF Max
  <1>6. \A d \in 1..Digits : d > n => ds[d] = 0
    BY <1>1, <1>5
  <1>7. Trim(ds) = SubSeq(ds, 1, n)
    BY <1>4, Zenon DEF Trim
  <1> QED
    BY <1>1, <1>5, <1>6, <1>7

(* The start of a sequence *)
LEMMA Start ==
    ASSUME NEW S, NEW s \in Seq(S), NEW n \in 0..Len(s)
    PROVE  /\ SubSeq(s, 1, n) \in Seq(S)
           /\ Len(SubSeq(s, 1, n)) = n
           /\ \A i \in 1..n : SubSeq(s, 1, n)[i] = s[i]
  OBVIOUS

(* Sequences with the same elements are the same. *)
LEMMA SameSeq ==
    ASSUME NEW S, NEW s \in Seq(S), NEW t \in Seq(S), Len(s) = Len(t),
           \A i \in 1..Len(s) : s[i] = t[i]
    PROVE  s = t
  OBVIOUS

(* The digits are a sequence. *)
LEMMA WrittenSeq ==
    ASSUME NEW ds \in Written
    PROVE  ds \in Seq(0..(Base - 1)) /\ Len(ds) = Digits
  BY Constants DEF Written

(* Trimming loses nothing. *)
LEMMA TrimInjective ==
    ASSUME NEW ds \in Written, NEW es \in Written, Trim(ds) = Trim(es)
    PROVE  ds = es
  <1> USE Constants
  <1>1. PICK n \in 0..Digits : /\ Trim(ds) = SubSeq(ds, 1, n)
                               /\ \A d \in 1..Digits : d > n => ds[d] = 0
    BY Trimmed
  <1>2. PICK m \in 0..Digits : /\ Trim(es) = SubSeq(es, 1, m)
                               /\ \A d \in 1..Digits : d > m => es[d] = 0
    BY Trimmed
  <1>3. /\ Len(SubSeq(ds, 1, n)) = n /\ \A i \in 1..n : SubSeq(ds, 1, n)[i] = ds[i]
        /\ Len(SubSeq(es, 1, m)) = m /\ \A i \in 1..m : SubSeq(es, 1, m)[i] = es[i]
    BY WrittenSeq, Start
  <1>4. n = m /\ \A i \in 1..n : ds[i] = es[i]
    BY <1>1, <1>2, <1>3, Zenon
  <1>5. \A i \in 1..Digits : ds[i] = es[i]
    BY <1>1, <1>2, <1>4
  <1> QED
    BY <1>5 DEF Written

-------------------------------------------------------------------------------
(* The texts and their order *)

(* The text x of t: its second, and the digits ds between a point and Z,   *)
(* which sorts after all that is between the second and it                 *)
TextOf(x, t, ds) ==
    /\ x \in Seq(Int)
    /\ Len(x) = IF Len(ds) = 0 THEN 2 ELSE Len(ds) + 3
    /\ x[1] = SecondOf(t) /\ x[Len(x)] = Zulu
    /\ \A i \in 2..(Len(x) - 1) : x[i] < Zulu
    /\ Len(ds) > 0 => \A i \in 1..Len(ds) : x[i + 2] = ds[i]

(* Text makes it so. *)
LEMMA TextShape ==
    ASSUME NEW t \in Nat
    PROVE  /\ Trim(Fraction(t)) \in Seq(0..(Base - 1))
           /\ TextOf(Text(t), t, Trim(Fraction(t)))
  <1> USE Constants
  <1>1. PICK ds : ds = Trim(Fraction(t))
    OBVIOUS
  <1>2. ds \in Seq(0..(Base - 1))
    <2>1. PICK fs \in Written : fs = Fraction(t)
      BY FractionWritten
    <2>2. PICK n \in 0..Digits : Trim(fs) = SubSeq(fs, 1, n)
      BY Trimmed
    <2>3. fs \in Seq(0..(Base - 1)) /\ n \in 0..Len(fs)
      BY WrittenSeq
    <2>4. SubSeq(fs, 1, n) \in Seq(0..(Base - 1))
      BY <2>3, Start
    <2> QED
      BY <1>1, <2>1, <2>2, <2>4, Zenon
  <1>3. PICK u \in Nat : u = SecondOf(t)
    BY DivMod DEF SecondOf
  <1>4. CASE ds = <<>>
    <2>1. Text(t) = <<u>> \o <<Zulu>>
      BY <1>1, <1>3, <1>4, Zenon DEF Text
    <2>2. PICK a \in Seq(Int), b \in Seq(Int) :
             /\ a = <<u>> /\ Len(a) = 1 /\ a[1] = u
             /\ b = <<Zulu>> /\ Len(b) = 1 /\ b[1] = Base
      <3>1. ASSUME NEW v \in Int
            PROVE  <<v>> \in Seq(Int) /\ Len(<<v>>) = 1 /\ <<v>>[1] = v
        OBVIOUS
      <3>2. u \in Int /\ Base \in Int
        OBVIOUS
      <3> QED
        BY <3>1, <3>2, Zenon DEF Zulu
    <2>3. a \o b \in Seq(Int) /\ Len(a \o b) = 2 /\ (a \o b)[1] = u /\ (a \o b)[2] = Base
      BY <2>2
    <2>4. PICK x \in Seq(Int) : x = Text(t) /\ Len(x) = 2 /\ x[1] = u /\ x[2] = Base
      BY <2>1, <2>2, <2>3, Zenon
    <2> QED
      BY <1>1, <1>3, <1>4, <2>4 DEF TextOf, Zulu
  <1>5. CASE ds # <<>>
    <2>1. Text(t) = <<u>> \o (<<Point>> \o ds \o <<Zulu>>)
      BY <1>1, <1>3, <1>5, Zenon DEF Text
    <2>2. Len(ds) \in Nat \ {0} /\ \A i \in 1..Len(ds) : ds[i] \in 0..(Base - 1)
      BY <1>2, <1>5
    <2>3. Text(t) \in Seq(Int) /\ Len(Text(t)) = Len(ds) + 3
      BY <1>2, <2>1 DEF Point, Zulu
    <2>4. Text(t)[1] = u /\ Text(t)[2] = -1 /\ Text(t)[Len(ds) + 3] = Base
      BY <1>2, <2>1 DEF Point, Zulu
    <2>5. \A i \in 1..Len(ds) : Text(t)[i + 2] = ds[i]
      BY <1>2, <2>1 DEF Point, Zulu
    <2>6. ASSUME NEW i \in 2..(Len(ds) + 2)
          PROVE  Text(t)[i] < Base
      <3>1. CASE i = 2
        BY <2>4, <3>1
      <3>2. CASE i # 2
        <4>1. i - 2 \in 1..Len(ds) /\ i = (i - 2) + 2
          BY <2>2, <3>2
        <4>2. Text(t)[i] = ds[i - 2]
          BY <2>5, <4>1
        <4> QED
          BY <2>2, <4>1, <4>2
      <3> QED
        BY <3>1, <3>2
    <2> QED
      BY <1>1, <1>2, <1>3, <2>2, <2>3, <2>4, <2>5, <2>6 DEF TextOf, Zulu
  <1> QED
    BY <1>1, <1>2, <1>4, <1>5

(* Two times never have the same text. *)
LEMMA TextInjective ==
    ASSUME NEW s \in Nat, NEW t \in Nat, Text(s) = Text(t)
    PROVE  s = t
  <1>1. PICK ds \in Seq(0..(Base - 1)) : ds = Trim(Fraction(s)) /\ TextOf(Text(s), s, ds)
    BY TextShape
  <1>2. PICK es \in Seq(0..(Base - 1)) : es = Trim(Fraction(t)) /\ TextOf(Text(s), t, es)
    BY TextShape
  <1>3. Len(ds) \in Nat /\ Len(es) \in Nat
    OBVIOUS
  <1>4. SecondOf(s) = SecondOf(t) /\ Len(ds) = Len(es)
    <2>1. SecondOf(s) = SecondOf(t)
      BY <1>1, <1>2, Zenon DEF TextOf
    <2>2. /\ Len(Text(s)) = IF Len(ds) = 0 THEN 2 ELSE Len(ds) + 3
          /\ Len(Text(s)) = IF Len(es) = 0 THEN 2 ELSE Len(es) + 3
      BY <1>1, <1>2, Zenon DEF TextOf
    <2>3. ASSUME NEW m \in Nat, NEW n \in Nat,
                 (IF m = 0 THEN 2 ELSE m + 3) = IF n = 0 THEN 2 ELSE n + 3
          PROVE  m = n
      BY <2>3
    <2> QED
      BY <1>3, <2>1, <2>2, <2>3, Zenon
  <1>5. \A i \in 1..Len(ds) : ds[i] = es[i]
    BY <1>1, <1>2, <1>3, <1>4 DEF TextOf
  <1>6. ds = es
    BY <1>4, <1>5, SameSeq, Zenon
  <1>7. Fraction(s) = Fraction(t)
    BY <1>1, <1>2, <1>6, FractionWritten, TrimInjective, Zenon
  <1> QED
    BY <1>4, <1>7, DigitsDetermine

(* Where two texts part *)
PartAt(a, b, n) ==
    /\ n \in 1..Len(a) /\ n <= Len(b)
    /\ \A i \in 1..(n - 1) : a[i] = b[i]
    /\ a[n] < b[n]

(* A text is before another if it is smaller where they part. *)
LEMMA BeforeParts ==
    ASSUME NEW a \in Seq(Int), NEW b \in Seq(Int)
    PROVE  Before(a, b) <=> \E n \in Nat : PartAt(a, b, n)
  <1>1. ASSUME NEW n \in 1..Len(a), n <= Len(b)
        PROVE  SubSeq(a, 1, n - 1) = SubSeq(b, 1, n - 1) <=> \A i \in 1..(n - 1) : a[i] = b[i]
    <2>1. n - 1 \in 0..Len(a) /\ n - 1 \in 0..Len(b)
      BY <1>1
    <2>2. PICK x \in Seq(Int) : x = SubSeq(a, 1, n - 1) /\ Len(x) = n - 1 /\ \A i \in 1..(n - 1) : x[i] = a[i]
      BY <2>1, Start, Zenon
    <2>3. PICK y \in Seq(Int) : y = SubSeq(b, 1, n - 1) /\ Len(y) = n - 1 /\ \A i \in 1..(n - 1) : y[i] = b[i]
      BY <2>1, Start, Zenon
    <2>4. x = y <=> \A i \in 1..(n - 1) : x[i] = y[i]
      BY <2>2, <2>3
    <2> QED
      BY <2>2, <2>3, <2>4, Zenon
  <1>2. 1..Len(a) \subseteq Nat
    OBVIOUS
  <1> QED
    BY <1>1, <1>2, Zenon DEF Before, PartAt

(* What the order needs of a text *)
LEMMA TextEnds ==
    ASSUME NEW t \in Nat
    PROVE  /\ Text(t) \in Seq(Int) /\ Len(Text(t)) \in Nat /\ Len(Text(t)) >= 2
           /\ Text(t)[1] = SecondOf(t) /\ Text(t)[Len(Text(t))] = Zulu
           /\ \A i \in 2..(Len(Text(t)) - 1) : Text(t)[i] < Zulu
  <1>1. PICK ds \in Seq(0..(Base - 1)) : TextOf(Text(t), t, ds)
    BY TextShape
  <1>2. Len(ds) \in Nat
    OBVIOUS
  <1> QED
    BY <1>1, <1>2 DEF TextOf

(* The order of the texts is a strict order. *)
LEMMA EarlierIrreflexive ==
    ASSUME NEW t \in Nat
    PROVE  ~Earlier(t, t)
  <1>1. PICK a \in Seq(Int) : a = Text(t)
    BY TextEnds
  <1>2. ASSUME NEW n \in Nat, PartAt(a, a, n)
        PROVE  FALSE
    <2>1. a[n] \in Int /\ a[n] < a[n]
      BY <1>2 DEF PartAt
    <2> QED
      BY <2>1
  <1> QED
    BY <1>1, <1>2, BeforeParts, Zenon DEF Earlier

(* Three texts: the earlier of the two places where they part counts. *)
LEMMA EarlierTransitive ==
    ASSUME NEW r \in Nat, NEW s \in Nat, NEW t \in Nat, Earlier(r, s), Earlier(s, t)
    PROVE  Earlier(r, t)
  <1>1. PICK a \in Seq(Int), b \in Seq(Int), c \in Seq(Int) :
            a = Text(r) /\ b = Text(s) /\ c = Text(t)
    BY TextEnds
  <1>2. PICK n \in Nat : PartAt(a, b, n)
    BY <1>1, BeforeParts, Zenon DEF Earlier
  <1>3. PICK m \in Nat : PartAt(b, c, m)
    BY <1>1, BeforeParts, Zenon DEF Earlier
  <1>4. \E k \in Nat : PartAt(a, c, k)
    <2>1. CASE n <= m
      <3>1. n \in 1..Len(a) /\ n <= Len(c)
        BY <1>2, <1>3, <2>1 DEF PartAt
      <3>2. \A i \in 1..(n - 1) : a[i] = c[i]
        BY <1>2, <1>3, <2>1 DEF PartAt
      <3>3. n \in 1..Len(b) /\ n \in 1..Len(c)
        BY <1>2, <1>3, <2>1 DEF PartAt
      <3>4. a[n] < c[n]
        <4>1. a[n] \in Int /\ b[n] \in Int /\ c[n] \in Int
          BY <3>1, <3>3
        <4>2. a[n] < b[n]
          BY <1>2, Zenon DEF PartAt
        <4>3. CASE n = m
          <5>1. b[n] < c[n]
            BY <1>3, <4>3, Zenon DEF PartAt
          <5>2. \A x, y, z \in Int : x < y /\ y < z => x < z
            OBVIOUS
          <5> QED
            BY <4>1, <4>2, <5>1, <5>2, Zenon
        <4>4. CASE n # m
          <5>1. n \in 1..(m - 1)
            BY <2>1, <3>1, <4>4
          <5>2. b[n] = c[n]
            BY <1>3, <5>1, Zenon DEF PartAt
          <5> QED
            BY <4>2, <5>2
        <4> QED
          BY <4>3, <4>4
      <3> QED
        BY <3>1, <3>2, <3>4 DEF PartAt
    <2>2. CASE m < n
      <3>1. m \in 1..Len(a) /\ m <= Len(c)
        BY <1>2, <1>3, <2>2 DEF PartAt
      <3>2. \A i \in 1..(m - 1) : a[i] = c[i]
        BY <1>2, <1>3, <2>2 DEF PartAt
      <3>3. a[m] = b[m]
        BY <1>2, <1>3, <2>2 DEF PartAt
      <3>4. a[m] < c[m]
        BY <1>3, <3>3 DEF PartAt
      <3> QED
        BY <3>1, <3>2, <3>4 DEF PartAt
    <2> QED
      BY <2>1, <2>2
  <1> QED
    BY <1>1, <1>4, BeforeParts, Zenon DEF Earlier

(* No text is the start of another. *)
LEMMA TextsPart ==
    ASSUME NEW s \in Nat, NEW t \in Nat, s # t, Len(Text(s)) <= Len(Text(t))
    PROVE  \E n \in 1..Len(Text(s)) : Text(s)[n] # Text(t)[n]
  <1>1. PICK a \in Seq(Int) : /\ a = Text(s) /\ Len(a) \in Nat /\ Len(a) >= 2 /\ a[Len(a)] = Zulu
    BY TextEnds
  <1>2. PICK b \in Seq(Int) : /\ b = Text(t) /\ Len(b) \in Nat
                              /\ \A i \in 2..(Len(b) - 1) : b[i] < Zulu
    BY TextEnds
  <1>3. a # b /\ Len(a) <= Len(b)
    BY <1>1, <1>2, TextInjective
  <1>4. SUFFICES ASSUME \A n \in 1..Len(a) : a[n] = b[n]
                 PROVE  FALSE
    BY <1>1, <1>2, <1>4, Zenon
  <1>5. ASSUME Len(a) = Len(b) PROVE FALSE
    <2>1. a = b
      BY <1>4, <1>5, SameSeq, Zenon
    <2> QED
      BY <1>3, <2>1
  <1>6. Len(a) \in 2..(Len(b) - 1) /\ Len(a) \in 1..Len(a)
    BY <1>1, <1>2, <1>3, <1>5
  <1>7. Zulu < Zulu
    BY <1>1, <1>2, <1>4, <1>6, Zenon
  <1> QED
    BY <1>7, Constants DEF Zulu

(* The order is total: of two times one has the earlier text. *)
LEMMA EarlierTotal ==
    ASSUME NEW s \in Nat, NEW t \in Nat, s # t
    PROVE  Earlier(s, t) \/ Earlier(t, s)
  <1>1. PICK a \in Seq(Int), b \in Seq(Int) :
            a = Text(s) /\ b = Text(t) /\ Len(a) \in Nat /\ Len(b) \in Nat
    BY TextEnds
  <1> DEFINE D == {n \in Nat : n \in 1..Len(a) /\ n \in 1..Len(b) /\ a[n] # b[n]}
  <1>2. D # {}
    <2>1. CASE Len(a) <= Len(b)
      <3>1. PICK n \in 1..Len(a) : a[n] # b[n]
        BY <1>1, <2>1, TextsPart, Zenon
      <3>2. n \in D
        BY <1>1, <2>1, <3>1
      <3> QED
        BY <3>2
    <2>2. CASE Len(b) <= Len(a)
      <3>1. PICK n \in 1..Len(b) : b[n] # a[n]
        BY <1>1, <2>2, TextsPart, Zenon
      <3>2. n \in D
        BY <1>1, <2>2, <3>1
      <3> QED
        BY <3>2
    <2> QED
      BY <1>1, <2>1, <2>2
  <1>3. PICK k \in D : \A m \in D : k <= m
    <2>1. D \subseteq Nat
      OBVIOUS
    <2> HIDE DEF D
    <2> QED
      BY <1>2, <2>1, LeastOf, Zenon
  <1>4. ASSUME NEW i \in 1..(k - 1)
        PROVE  a[i] = b[i]
    <2>1. i \in Nat /\ i \in 1..Len(a) /\ i \in 1..Len(b) /\ ~(k <= i)
      BY <1>1
    <2> QED
      BY <1>3, <2>1, Zenon
  <1>5. a[k] \in Int /\ b[k] \in Int /\ a[k] # b[k]
    OBVIOUS
  <1>6. PartAt(a, b, k) \/ PartAt(b, a, k)
    BY <1>1, <1>4, <1>5 DEF PartAt
  <1>7. k \in Nat
    OBVIOUS
  <1> QED
    BY <1>1, <1>6, <1>7, BeforeParts, Zenon DEF Earlier

(* It agrees with the order of the seconds, not with that of the times. *)
LEMMA EarlierSeconds ==
    ASSUME NEW s \in Nat, NEW t \in Nat, Earlier(s, t)
    PROVE  SecondOf(s) <= SecondOf(t)
  <1>1. PICK a \in Seq(Int), b \in Seq(Int) :
            a = Text(s) /\ b = Text(t) /\ a[1] = SecondOf(s) /\ b[1] = SecondOf(t)
    BY TextEnds
  <1>2. PICK n \in Nat : PartAt(a, b, n)
    BY <1>1, BeforeParts, Zenon DEF Earlier
  <1>3. a[1] \in Int /\ b[1] \in Int
    BY <1>2 DEF PartAt
  <1>4. a[1] <= b[1]
    <2>1. CASE n = 1
      BY <1>2, <1>3, <2>1 DEF PartAt
    <2>2. CASE n # 1
      <3>1. 1 \in 1..(n - 1)
        BY <1>2, <2>2 DEF PartAt
      <3> QED
        BY <1>2, <1>3, <3>1 DEF PartAt
    <2> QED
      BY <2>1, <2>2
  <1> QED
    BY <1>1, <1>4

(* What ORDER BY and the bounds of the window rest on: the texts of        *)
(* time.RFC3339Nano, although they drop trailing zeros, are one strict     *)
(* order of all times, and it never sets a later second first.             *)
THEOREM TextOrder ==
    \A r, s, t \in Nat :
        /\ ~Earlier(t, t)
        /\ Earlier(r, s) /\ Earlier(s, t) => Earlier(r, t)
        /\ s # t => Earlier(s, t) \/ Earlier(t, s)
        /\ SecondOf(s) < SecondOf(t) => Earlier(s, t)
  <1> TAKE r, s, t \in Nat
  <1>1. ~Earlier(t, t) /\ (s # t => Earlier(s, t) \/ Earlier(t, s))
    BY EarlierIrreflexive, EarlierTotal
  <1>2. Earlier(r, s) /\ Earlier(s, t) => Earlier(r, t)
    BY EarlierTransitive
  <1>3. ASSUME SecondOf(s) < SecondOf(t)
        PROVE  Earlier(s, t)
    <2>1. SecondOf(s) \in Nat /\ SecondOf(t) \in Nat
      BY Constants, DivMod DEF SecondOf
    <2>2. s # t /\ ~Earlier(t, s)
      BY <1>3, <2>1, EarlierSeconds
    <2> QED
      BY <1>1, <2>2
  <1> QED
    BY <1>1, <1>2, <1>3

-------------------------------------------------------------------------------
(* The prune *)

(* Of finitely many times one has the first text. *)
LEMMA FirstOf ==
    ASSUME NEW S, S \subseteq Nat, IsFiniteSet(S), S # {}
    PROVE  \E m \in S : \A u \in S \ {m} : Earlier(m, u)
  <1> DEFINE P(t) == {u \in S : Earlier(u, t)}
             C == {Cardinality(P(t)) : t \in S}
  <1>1. ASSUME NEW t \in S
        PROVE  IsFiniteSet(P(t)) /\ Cardinality(P(t)) \in Nat
    <2>1. P(t) \subseteq S
      OBVIOUS
    <2> HIDE DEF P
    <2> QED
      BY <2>1, FS_Subset, FS_CardinalityType, Zenon
  <1>2. PICK m \in S : \A t \in S : Cardinality(P(m)) <= Cardinality(P(t))
    <2>1. C \subseteq Nat /\ C # {}
      BY <1>1, Zenon
    <2>2. PICK c \in C : \A d \in C : c <= d
      <3> HIDE DEF C
      <3> QED
        BY <2>1, LeastOf, Zenon
    <2> QED
      BY <2>2, Zenon
  <1>3. ASSUME NEW u \in S \ {m}, ~Earlier(m, u)
        PROVE  FALSE
    <2>1. m \in Nat /\ u \in Nat /\ Earlier(u, m)
      BY <1>3, EarlierTotal, Zenon
    <2>2. P(u) \subseteq P(m) /\ u \in P(m) /\ u \notin P(u)
      <3>1. u \in P(m) /\ u \notin P(u)
        BY <2>1, EarlierIrreflexive, Zenon
      <3>2. ASSUME NEW v \in P(u)
            PROVE  v \in P(m)
        <4>1. v \in S /\ v \in Nat /\ Earlier(v, u)
          BY Zenon
        <4>2. Earlier(v, m)
          BY <2>1, <4>1, EarlierTransitive, Zenon
        <4> QED
          BY <4>1, <4>2
      <3> QED
        BY <3>1, <3>2, Zenon
    <2>3. Cardinality(P(m)) <= Cardinality(P(u))
      BY <1>2
    <2> HIDE DEF P
    <2>4. Cardinality(P(u)) <= Cardinality(P(m)) /\ Cardinality(P(u)) # Cardinality(P(m))
      <3>1. P(u) # P(m)
        BY <2>2
      <3> QED
        BY <1>1, <2>2, <3>1, FS_Subset, Zenon
    <2> QED
      BY <1>1, <2>3, <2>4
  <1> QED
    BY <1>3, Zenon

(* A table within the limit loses nothing. *)
LEMMA NothingPruned ==
    ASSUME NEW rows, rows \subseteq Nat, IsFiniteSet(rows), Cardinality(rows) <= MaxPoints
    PROVE  MostRecent(rows) = rows
  <1> USE Constants
  <1>1. ASSUME NEW t \in rows
        PROVE  Cardinality({u \in rows : Earlier(t, u)}) < MaxPoints
    <2> DEFINE Q == {u \in rows : Earlier(t, u)}
    <2>1. Q \subseteq rows \ {t}
      BY EarlierIrreflexive, Zenon
    <2>2. /\ IsFiniteSet(rows \ {t}) /\ Cardinality(rows \ {t}) = Cardinality(rows) - 1
      BY FS_RemoveElement, Zenon
    <2>3. Cardinality(Q) <= Cardinality(rows \ {t}) /\ IsFiniteSet(Q)
      <3> HIDE DEF Q
      <3> QED
        BY <2>1, <2>2, FS_Subset, Zenon
    <2>4. Cardinality(Q) \in Nat /\ Cardinality(rows) \in Nat
      <3> HIDE DEF Q
      <3> QED
        BY <2>3, FS_CardinalityType, Zenon
    <2> HIDE DEF Q
    <2>5. Cardinality(Q) < MaxPoints
      BY <2>2, <2>3, <2>4
    <2> QED
      BY <2>5 DEF Q
  <1> QED
    BY <1>1, Zenon DEF MostRecent

(* A table one over the limit loses the row with the first text. *)
LEMMA FirstPruned ==
    ASSUME NEW rows, rows \subseteq Nat, IsFiniteSet(rows), Cardinality(rows) = MaxPoints + 1
    PROVE  \E m \in rows : /\ \A u \in rows \ {m} : Earlier(m, u)
                           /\ MostRecent(rows) = rows \ {m}
  <1> USE Constants
  <1>1. rows # {}
    <2>1. Cardinality({}) = 0
      BY FS_EmptySet, Zenon
    <2> QED
      BY <2>1
  <1>2. PICK m \in rows : \A u \in rows \ {m} : Earlier(m, u)
    BY <1>1, FirstOf, Zenon
  <1> DEFINE Q(t) == {u \in rows : Earlier(t, u)}
             Rest == rows \ {m}
  <1>3. IsFiniteSet(Rest) /\ Cardinality(Rest) = MaxPoints
    <2>1. Cardinality(rows \ {m}) = Cardinality(rows) - 1 /\ IsFiniteSet(rows \ {m})
      BY FS_RemoveElement, Zenon
    <2> QED
      BY <2>1
  <1>4. ~(Cardinality(Q(m)) < MaxPoints)
    <2>1. Q(m) = Rest
      BY <1>2, EarlierIrreflexive, Zenon
    <2> QED
      BY <1>3, <2>1
  <1>5. ASSUME NEW t \in Rest
        PROVE  Cardinality(Q(t)) < MaxPoints
    <2>1. t \in Nat /\ m \in Nat /\ Earlier(m, t)
      BY <1>2, Zenon
    <2>2. ~Earlier(t, m)
      BY <2>1, EarlierIrreflexive, EarlierTransitive, Zenon
    <2>3. Q(t) \subseteq Rest \ {t}
      BY <2>1, <2>2, EarlierIrreflexive, Zenon
    <2> HIDE DEF Rest, Q
    <2>4. IsFiniteSet(Rest \ {t}) /\ Cardinality(Rest \ {t}) = Cardinality(Rest) - 1
      BY <1>3, FS_RemoveElement, Zenon
    <2>5. Cardinality(Q(t)) <= Cardinality(Rest \ {t}) /\ IsFiniteSet(Q(t))
      BY <2>3, <2>4, FS_Subset, Zenon
    <2>6. Cardinality(Q(t)) \in Nat
      BY <2>5, FS_CardinalityType, Zenon
    <2> QED
      BY <1>3, <2>4, <2>5, <2>6
  <1>6. MostRecent(rows) = Rest
    BY <1>4, <1>5, Zenon DEF MostRecent
  <1> QED
    BY <1>2, <1>6, Zenon

-------------------------------------------------------------------------------
(* The table *)

(* The smaller of two *)
LEMMA MinOf ==
    ASSUME NEW a \in Nat, NEW b \in Nat
    PROVE  Min({a, b}) = IF a <= b THEN a ELSE b
  <1>1. ASSUME NEW x \in Nat, NEW y \in Nat, x <= y
        PROVE  \A z \in {x, y} : (\A w \in {x, y} : z <= w) <=> z = x
    BY <1>1
  <1>2. CASE a <= b
    <2>1. Min({a, b}) = a
      BY <1>1, <1>2, Zenon DEF Min
    <2> QED
      BY <1>2, <2>1
  <1>3. CASE ~(a <= b)
    <2>1. b <= a /\ {a, b} = {b, a}
      BY <1>3
    <2>2. Min({b, a}) = b
      BY <1>1, <2>1, Zenon DEF Min
    <2> QED
      BY <1>3, <2>1, <2>2
  <1> QED
    BY <1>2, <1>3

(* The inductive invariant: nothing was recorded later than now, and so    *)
(* the fix that is recorded is in no earlier second than any before it.    *)
Recorded ==
    /\ now \in Nat /\ ever \subseteq Nat /\ IsFiniteSet(ever)
    /\ \A t \in ever : t <= now
    /\ PrunedOldest

(* RecordHistory below the limit deletes nothing, at the limit one row. *)
LEMMA RecordHistoryKeeps ==
    ASSUME Recorded, RecordHistory
    PROVE  Recorded'
  <1> USE Constants
  <1> DEFINE rows == table \cup {now}
  <1>1. /\ now \in Nat /\ ever \subseteq Nat /\ IsFiniteSet(ever) /\ now \notin ever
        /\ table \subseteq ever /\ now \notin table
        /\ table' = MostRecent(rows) /\ ever' = ever \cup {now} /\ now' = now
    BY Zenon DEF Recorded, PrunedOldest, RecordHistory
  <1>2. \A t \in ever : t <= now /\ t \in Nat
    BY <1>1, Zenon DEF Recorded
  <1>3. IsFiniteSet(table)
    BY <1>1, FS_Subset, Zenon
  <1>4. PICK c \in Nat, n \in Nat : c = Cardinality(ever) /\ n = Cardinality(table)
    BY <1>1, <1>3, FS_CardinalityType, Zenon
  <1>5. /\ IsFiniteSet(ever') /\ Cardinality(ever') = c + 1
        /\ IsFiniteSet(rows) /\ Cardinality(rows) = n + 1
    BY <1>1, <1>3, <1>4, FS_AddElement, Zenon
  <1>6. n = IF MaxPoints <= c THEN MaxPoints ELSE c
    BY <1>4, MinOf, Zenon DEF Recorded, PrunedOldest
  <1>7. rows \subseteq Nat /\ rows \subseteq ever'
    BY <1>1
  <1>8. /\ now' \in Nat /\ ever' \subseteq Nat /\ IsFiniteSet(ever')
        /\ \A t \in ever' : t <= now'
    BY <1>1, <1>2, <1>5
  <1>9. Min({MaxPoints, Cardinality(ever')}) = IF MaxPoints <= c + 1 THEN MaxPoints ELSE c + 1
    <2>1. c + 1 \in Nat
      OBVIOUS
    <2> QED
      BY <1>5, <2>1, MinOf, Zenon
  <1> HIDE DEF rows
  <1>10. CASE n < MaxPoints
    <2>1. n = c /\ n + 1 <= MaxPoints
      BY <1>6, <1>10
    <2>2. table = ever
      BY <1>1, <1>4, <2>1, FS_Subset, Zenon
    <2>3. table' = rows
      BY <1>1, <1>5, <1>7, <2>1, NothingPruned, Zenon
    <2>4. table' = ever'
      BY <1>1, <2>2, <2>3 DEF rows
    <2>5. Cardinality(table') = Min({MaxPoints, Cardinality(ever')})
      BY <1>5, <1>9, <2>1, <2>4
    <2> QED
      BY <1>8, <2>4, <2>5 DEF Recorded, PrunedOldest
  <1>11. CASE ~(n < MaxPoints)
    <2>1. n = MaxPoints /\ MaxPoints <= c
      BY <1>6, <1>11
    <2>2. PICK m \in rows : /\ \A u \in rows \ {m} : Earlier(m, u)
                            /\ MostRecent(rows) = rows \ {m}
      BY <1>5, <1>7, <2>1, FirstPruned, Zenon
    <2>3. table' = rows \ {m} /\ table' \subseteq ever'
      BY <1>1, <1>7, <2>2
    <2>4. Cardinality(table') = n
      <3>1. Cardinality(rows \ {m}) = (n + 1) - 1
        BY <1>5, FS_RemoveElement, Zenon
      <3> QED
        BY <2>3, <3>1
    <2>5. Cardinality(table') = Min({MaxPoints, Cardinality(ever')})
      BY <1>9, <2>1, <2>4
    <2>6. ASSUME NEW kept \in table', NEW pruned \in ever' \ table'
          PROVE  SecondOf(pruned) <= SecondOf(kept)
      <3>1. CASE pruned = m
        <4>1. kept \in Nat /\ m \in Nat /\ Earlier(m, kept)
          BY <1>7, <2>2, <2>3, Zenon
        <4> QED
          BY <3>1, <4>1, EarlierSeconds, Zenon
      <3>2. CASE pruned # m
        <4>1. pruned \in ever \ table
          BY <1>1, <2>3, <3>2 DEF rows
        <4>2. CASE kept \in table
          BY <4>1, <4>2, Zenon DEF Recorded, PrunedOldest
        <4>3. CASE kept = now
          BY <1>1, <1>2, <4>1, <4>3, DivMonotonic, Zenon DEF SecondOf
        <4> QED
          BY <2>3, <4>2, <4>3 DEF rows
      <3> QED
        BY <3>1, <3>2
    <2> QED
      BY <1>8, <2>3, <2>5, <2>6 DEF Recorded, PrunedOldest, SecondOf
  <1> QED
    BY <1>10, <1>11

(* Every step of the table keeps the invariant. *)
LEMMA Records == Spec => []Recorded
  <1>1. Init => Recorded
    <2>1. IsFiniteSet({}) /\ Cardinality({}) = 0
      BY FS_EmptySet, Zenon
    <2>2. Min({MaxPoints, 0}) = 0
      BY Constants, MinOf
    <2> QED
      BY <2>1, <2>2 DEF Init, Recorded, PrunedOldest
  <1>2. Recorded /\ [Next]_vars => Recorded'
    <2> SUFFICES ASSUME Recorded, [Next]_vars PROVE Recorded'
      OBVIOUS
    <2>1. CASE RecordHistory
      BY <2>1, RecordHistoryKeeps
    <2>2. CASE Tick
      <3>1. now' \in Nat /\ now' > now /\ table' = table /\ ever' = ever
        BY <2>2 DEF Tick, Times
      <3>2. /\ now \in Nat /\ ever \subseteq Nat /\ IsFiniteSet(ever) /\ PrunedOldest
            /\ \A t \in ever : t <= now
        BY Zenon DEF Recorded
      <3>3. \A t \in ever : t <= now'
        BY <3>1, <3>2
      <3>4. PrunedOldest'
        BY <3>1, <3>2, Zenon DEF PrunedOldest, SecondOf
      <3> QED
        BY <3>1, <3>2, <3>3, <3>4, Zenon DEF Recorded
    <2>3. CASE UNCHANGED vars
      BY <2>3, Zenon DEF vars, Recorded, PrunedOldest, SecondOf
    <2> QED
      BY <2>1, <2>2, <2>3 DEF Next
  <1> QED
    BY <1>1, <1>2, PTL DEF Spec

(* RecordHistory prunes what is oldest: the table never holds more than    *)
(* maxHistoryPointsPerTarget fixes nor fewer than it could, and no fix it  *)
(* deleted is in a later second than one it holds, though the texts that   *)
(* SQLite sorts drop the trailing zeros of the fraction.                   *)
THEOREM Pruning == Spec => []PrunedOldest
  <1>1. Recorded => PrunedOldest
    BY DEF Recorded
  <1> QED
    BY <1>1, Records, PTL

-------------------------------------------------------------------------------
(* The rows in the order of their texts *)

(* s lists the rows, the one with the earlier text first. *)
Lists(s, rows) ==
    /\ s \in [1..Cardinality(rows) -> rows]
    /\ \A i, j \in 1..Cardinality(rows) : i < j => Earlier(s[i], s[j])

(* A list with one row put before it *)
LEMMA ListWithFirst ==
    ASSUME NEW rows, rows \subseteq Nat, IsFiniteSet(rows), NEW m \in rows,
           \A u \in rows \ {m} : Earlier(m, u),
           NEW s, Lists(s, rows \ {m})
    PROVE  \E r : Lists(r, rows)
  <1>1. PICK n \in Nat \ {0} : n = Cardinality(rows) /\ n - 1 = Cardinality(rows \ {m})
    <2>1. /\ Cardinality(rows) \in Nat /\ Cardinality(rows \ {m}) \in Nat
          /\ Cardinality(rows \ {m}) = Cardinality(rows) - 1
      BY FS_RemoveElement, FS_CardinalityType, Zenon
    <2> QED
      BY <2>1
  <1>2. /\ s \in [1..(n - 1) -> rows \ {m}]
        /\ \A i, j \in 1..(n - 1) : i < j => Earlier(s[i], s[j])
    BY <1>1, Zenon DEF Lists
  <1> DEFINE r == [i \in 1..n |-> IF i = 1 THEN m ELSE s[i - 1]]
  <1>3. \A i \in 1..n : i # 1 => i - 1 \in 1..(n - 1)
    OBVIOUS
  <1>4. \A i \in 1..n : i # 1 => s[i - 1] \in rows \ {m}
    BY <1>2, <1>3, Zenon
  <1>5. r \in [1..n -> rows]
    BY <1>4, Zenon
  <1>6. ASSUME NEW i \in 1..n, NEW j \in 1..n, i < j
        PROVE  Earlier(r[i], r[j])
    <2>1. j # 1 /\ r[j] = s[j - 1]
      BY <1>6
    <2>2. CASE i = 1
      BY <1>4, <2>1, <2>2, Zenon
    <2>3. CASE i # 1
      <3>1. r[i] = s[i - 1] /\ i - 1 < j - 1
        BY <1>6, <2>3
      <3> QED
        BY <1>2, <1>3, <2>1, <2>3, <3>1, Zenon
    <2> QED
      BY <2>2, <2>3
  <1> HIDE DEF r
  <1> QED
    BY <1>1, <1>5, <1>6, Zenon DEF Lists

(* Every table can be listed: one that cannot be and has the fewest rows   *)
(* would have a first row, and the others could be listed.                 *)
LEMMA ListExists ==
    ASSUME NEW rows, rows \subseteq Nat, IsFiniteSet(rows)
    PROVE  \E s : Lists(s, rows)
  <1> DEFINE Bad(T) == T \subseteq Nat /\ IsFiniteSet(T) /\ ~\E s : Lists(s, T)
             C == {n \in Nat : \E T : Bad(T) /\ n = Cardinality(T)}
  <1>1. SUFFICES ASSUME C # {} PROVE FALSE
    <2>1. Cardinality(rows) \in Nat
      BY FS_CardinalityType, Zenon
    <2> QED
      BY <2>1, Zenon
  <1>2. PICK n \in C : \A k \in C : n <= k
    <2>1. C \subseteq Nat
      OBVIOUS
    <2> HIDE DEF C
    <2> QED
      BY <1>1, <2>1, LeastOf, Zenon
  <1>3. PICK T : Bad(T) /\ n = Cardinality(T)
    BY <1>2, Zenon
  <1>4. T # {}
    <2>1. Cardinality({}) = 0
      BY FS_EmptySet, Zenon
    <2>2. [i \in 1..0 |-> 0] \in [1..0 -> {}] /\ ~\E i : i \in 1..0
      OBVIOUS
    <2>3. Lists([i \in 1..0 |-> 0], {})
      BY <2>1, <2>2, Zenon DEF Lists
    <2> QED
      BY <1>3, <2>3, Zenon
  <1>5. PICK m \in T : \A u \in T \ {m} : Earlier(m, u)
    BY <1>3, <1>4, FirstOf, Zenon
  <1>6. /\ T \ {m} \subseteq Nat /\ IsFiniteSet(T \ {m})
        /\ Cardinality(T \ {m}) = n - 1 /\ Cardinality(T \ {m}) \in Nat
    BY <1>3, FS_RemoveElement, FS_CardinalityType, Zenon
  <1>7. ~Bad(T \ {m})
    <2>1. n - 1 \notin C
      BY <1>2
    <2> QED
      BY <1>6, <2>1, Zenon
  <1>8. PICK s : Lists(s, T \ {m})
    BY <1>6, <1>7, Zenon
  <1> QED
    BY <1>3, <1>5, <1>8, ListWithFirst, Zenon

(* ORDER BY recorded_at: each row once, the earlier text first *)
LEMMA OrderedLists ==
    ASSUME NEW rows, rows \subseteq Nat, IsFiniteSet(rows)
    PROVE  /\ Lists(Ordered(rows), rows)
           /\ \A t \in rows : \E i \in 1..Cardinality(rows) : Ordered(rows)[i] = t
  <1>1. PICK n \in Nat : n = Cardinality(rows)
    BY FS_CardinalityType, Zenon
  <1>2. ASSUME NEW s, Lists(s, rows)
        PROVE  s \in SetToSeqs(rows)
    <2>1. ASSUME NEW i \in 1..n, NEW j \in 1..n, i # j
          PROVE  s[i] # s[j]
      <3>1. i < j \/ j < i
        BY <2>1
      <3>2. s[i] \in Nat /\ s[j] \in Nat
        BY <1>1, <1>2, Zenon DEF Lists
      <3> QED
        BY <1>1, <1>2, <3>1, <3>2, EarlierIrreflexive, Zenon DEF Lists
    <2> QED
      BY <1>1, <1>2, <2>1, Zenon DEF Lists, SetToSeqs
  <1>3. \A s \in SetToSeqs(rows) :
            /\ Lists(s, rows) <=> \A i, j \in DOMAIN s : i < j => Earlier(s[i], s[j])
            /\ s \in [1..n -> rows] /\ \A i, j \in 1..n : i # j => s[i] # s[j]
    BY <1>1, Zenon DEF Lists, SetToSeqs
  <1>4. Ordered(rows) \in SetToSeqs(rows) /\ Lists(Ordered(rows), rows)
    <2>1. \E s \in SetToSeqs(rows) : \A i, j \in DOMAIN s : i < j => Earlier(s[i], s[j])
      BY <1>2, <1>3, ListExists, Zenon
    <2> QED
      BY <1>3, <2>1, Zenon DEF Ordered
  <1>5. \A t \in rows : \E i \in 1..n : Ordered(rows)[i] = t
    <2>1. PICK s : s = Ordered(rows)
      OBVIOUS
    <2>2. s \in [1..n -> rows] /\ \A i, j \in 1..n : s[i] = s[j] => i = j
      BY <1>3, <1>4, <2>1, Zenon
    <2>3. s \in Injection(1..n, rows)
      BY <2>2, Zenon DEF Injection, IsInjective
    <2>4. IsFiniteSet(1..n) /\ Cardinality(1..n) = n
      <3>1. 1 \in Int /\ n \in Int
        OBVIOUS
      <3>2. IsFiniteSet(1..n) /\ Cardinality(1..n) = IF 1 > n THEN 0 ELSE n - 1 + 1
        BY <3>1, FS_Interval, Zenon
      <3> QED
        BY <3>2
    <2>5. s \in Surjection(1..n, rows)
      BY <1>1, <2>3, <2>4, FS_Injection, Zenon
    <2> QED
      BY <2>1, <2>5, Zenon DEF Surjection
  <1> QED
    BY <1>1, <1>4, <1>5, Zenon
-------------------------------------------------------------------------------
(* The thinning loop *)

(* One round of the loop, over the row p *)
KeepNext(out, p, m) ==
    IF out = <<>> \/ p - Last(out) >= m THEN Append(out, p) ELSE out

(* f is the fold of the rows whose indices are in a set of S. *)
Folds(f, rows, m, S) ==
    f = [s \in S |-> IF s = {} THEN <<>> ELSE KeepNext(f[s \ {Max(s)}], rows[Max(s)], m)]

(* Thin with the fold written out *)
LEMMA ThinDef ==
    ASSUME NEW rows, NEW m \in Int, m > 0
    PROVE  Thin(rows, m) = (CHOOSE f : Folds(f, rows, m, SUBSET DOMAIN rows))[DOMAIN rows]
  BY DEF Thin, FoldLeft, MapThenFoldSet, Folds, KeepNext

(* The fold takes the last index first. *)
LEMMA MaxOf ==
    ASSUME NEW k \in Nat, NEW s, s \subseteq 1..k, k \in s
    PROVE  Max(s) = k
  <1>1. \A x \in s : (\A y \in s : x >= y) <=> x = k
    OBVIOUS
  <1> QED
    BY <1>1, Zenon DEF Max

(* The fold is there: one over the first k - 1 rows extends to the k-th. *)
LEMMA FoldExtends ==
    ASSUME NEW rows, NEW m, NEW k \in Nat \ {0}, NEW f, Folds(f, rows, m, SUBSET (1..(k - 1)))
    PROVE  \E g : Folds(g, rows, m, SUBSET (1..k))
  <1> DEFINE S == SUBSET (1..(k - 1))
             T == SUBSET (1..k)
             g == [s \in T |-> IF k \in s THEN KeepNext(f[s \ {k}], rows[k], m) ELSE f[s]]
             h == [s \in T |-> IF s = {} THEN <<>> ELSE KeepNext(g[s \ {Max(s)}], rows[Max(s)], m)]
  <1>1. \A s \in T : IF k \in s THEN s \ {k} \in S /\ s # {} /\ Max(s) = k ELSE s \in S
    <2>1. ASSUME NEW s \in T, k \in s
          PROVE  s \ {k} \in S /\ s # {} /\ Max(s) = k
      <3>1. s \ {k} \in S /\ s # {}
        BY <2>1
      <3>2. Max(s) = k
        BY <2>1, MaxOf, Zenon
      <3> QED
        BY <3>1, <3>2
    <2>2. ASSUME NEW s \in T, k \notin s
          PROVE  s \in S
      BY <2>2
    <2> QED
      BY <2>1, <2>2, Zenon
  <1>2. \A s \in S : s \in T /\ k \notin s /\ g[s] = f[s]
    <2>1. \A s \in S : s \in T /\ k \notin s
      OBVIOUS
    <2> QED
      BY <2>1, Zenon
  <1>3. \A s \in S : s \ {Max(s)} \in S
    BY Zenon
  <1>4. \A s \in S : f[s] = IF s = {} THEN <<>> ELSE KeepNext(f[s \ {Max(s)}], rows[Max(s)], m)
    BY Zenon DEF Folds
  <1>5. ASSUME NEW s \in T
        PROVE  g[s] = h[s]
    <2>1. CASE k \in s
      <3>1. s \ {k} \in S /\ s # {} /\ Max(s) = k
        BY <1>1, <2>1, Zenon
      <3>2. g[s] = KeepNext(f[s \ {k}], rows[k], m) /\ g[s \ {k}] = f[s \ {k}]
        BY <1>2, <2>1, <3>1, Zenon
      <3>3. h[s] = KeepNext(g[s \ {k}], rows[k], m)
        BY <3>1, Zenon
      <3> QED
        BY <3>2, <3>3, Zenon
    <2>2. CASE k \notin s
      <3>1. s \in S
        BY <1>1, <2>2, Zenon
      <3>2. g[s] = f[s] /\ g[s \ {Max(s)}] = f[s \ {Max(s)}]
        BY <1>2, <1>3, <3>1, Zenon
      <3>3. h[s] = IF s = {} THEN <<>> ELSE KeepNext(g[s \ {Max(s)}], rows[Max(s)], m)
        BY Zenon
      <3> HIDE DEF g, h, S, T
      <3> QED
        BY <1>4, <3>1, <3>2, <3>3, Zenon
    <2> QED
      BY <2>1, <2>2
  <1>6. g = h
    BY <1>5, Zenon
  <1>7. Folds(g, rows, m, T)
    BY <1>6, Zenon DEF Folds
  <1> QED
    BY <1>7, Zenon

(* So every list of rows has its fold. *)
LEMMA FoldExists ==
    ASSUME NEW rows, NEW m, NEW n \in Nat
    PROVE  \E f : Folds(f, rows, m, SUBSET (1..n))
  <1> DEFINE B == {k \in Nat : ~\E f : Folds(f, rows, m, SUBSET (1..k))}
  <1>1. SUFFICES ASSUME B # {} PROVE FALSE
    BY Zenon
  <1>2. PICK k \in B : \A j \in B : k <= j
    <2>1. B \subseteq Nat
      OBVIOUS
    <2> HIDE DEF B
    <2> QED
      BY <1>1, <2>1, LeastOf, Zenon
  <1>3. k # 0
    <2>1. SUBSET (1..0) = {{}}
      OBVIOUS
    <2>2. Folds([s \in {{}} |-> <<>>], rows, m, {{}})
      BY Zenon DEF Folds
    <2> QED
      BY <2>1, <2>2, Zenon
  <1>4. k \in Nat \ {0} /\ k - 1 \in Nat /\ k - 1 \notin B
    <2>1. k \in Nat
      BY Zenon
    <2> HIDE DEF B
    <2> QED
      BY <1>2, <1>3, <2>1
  <1>5. PICK f : Folds(f, rows, m, SUBSET (1..(k - 1)))
    BY <1>4, Zenon
  <1> HIDE DEF B
  <1>6. \E g : Folds(g, rows, m, SUBSET (1..k))
    BY <1>4, <1>5, FoldExtends, Zenon
  <1> QED
    BY <1>2, <1>6, Zenon DEF B

(* What the loop has kept after each row *)
LEMMA ThinRounds ==
    ASSUME NEW n \in Nat, NEW S, NEW rows \in [1..n -> S], NEW m \in Int, m > 0
    PROVE  \E out : /\ out[0] = <<>> /\ out[n] = Thin(rows, m)
                    /\ \A k \in 1..n : out[k] = KeepNext(out[k - 1], rows[k], m)
  <1> DEFINE f == CHOOSE f : Folds(f, rows, m, SUBSET (1..n))
             out == [k \in 0..n |-> f[1..k]]
  <1>1. Folds(f, rows, m, SUBSET (1..n))
    BY FoldExists, Zenon
  <1> HIDE DEF f
  <1>2. \A s \in SUBSET (1..n) :
            f[s] = IF s = {} THEN <<>> ELSE KeepNext(f[s \ {Max(s)}], rows[Max(s)], m)
    BY <1>1, Zenon DEF Folds
  <1>3. out[0] = <<>>
    <2>1. 1..0 = {} /\ 0 \in 0..n
      OBVIOUS
    <2>2. f[{}] = <<>>
      BY <1>2, Zenon
    <2> QED
      BY <2>1, <2>2, Zenon
  <1>4. out[n] = Thin(rows, m)
    <2>1. DOMAIN rows = 1..n /\ n \in 0..n
      OBVIOUS
    <2> QED
      BY <2>1, ThinDef, Zenon DEF f
  <1>5. ASSUME NEW k \in 1..n
        PROVE  out[k] = KeepNext(out[k - 1], rows[k], m)
    <2>1. /\ k \in Nat /\ k \in 0..n /\ k - 1 \in 0..n
          /\ 1..k \in SUBSET (1..n) /\ 1..k # {} /\ k \in 1..k /\ (1..k) \ {k} = 1..(k - 1)
      OBVIOUS
    <2>2. Max(1..k) = k
      BY <2>1, MaxOf, Zenon
    <2> QED
      BY <1>2, <2>1, <2>2, Zenon
  <1> HIDE DEF out
  <1> QED
    BY <1>3, <1>4, <1>5, Zenon
(* What holds of the rows kept among the first k: neighbours are m apart,  *)
(* and each of the k rows was kept or is less than m after a row that was  *)
(* kept and comes before it.                                               *)
Thinned(out, rows, k, m) ==
    /\ out \in Seq(Nat)
    /\ \A i \in 1..Len(out) : \E j \in 1..k : out[i] = rows[j]
    /\ \A i \in 1..(Len(out) - 1) : out[i + 1] - out[i] >= m
    /\ \A j \in 1..k : \E i \in 1..Len(out) :
           \/ out[i] = rows[j]
           \/ rows[j] - out[i] < m /\ \E h \in 1..(j - 1) : out[i] = rows[h]

(* A round keeps this. *)
LEMMA KeepNextThins ==
    ASSUME NEW n \in Nat, NEW rows \in [1..n -> Nat], NEW m \in Int, NEW k \in 1..n,
           NEW out, Thinned(out, rows, k - 1, m)
    PROVE  Thinned(KeepNext(out, rows[k], m), rows, k, m)
  <1>1. PICK p \in Nat : p = rows[k]
    OBVIOUS
  <1>2. /\ out \in Seq(Nat) /\ Len(out) \in Nat
        /\ \A i \in 1..Len(out) : out[i] \in Nat /\ \E j \in 1..(k - 1) : out[i] = rows[j]
        /\ \A i \in 1..(Len(out) - 1) : out[i + 1] - out[i] >= m
        /\ \A j \in 1..(k - 1) : \E i \in 1..Len(out) :
               \/ out[i] = rows[j]
               \/ rows[j] - out[i] < m /\ \E h \in 1..(j - 1) : out[i] = rows[h]
    BY DEF Thinned
  <1>3. \A j \in 1..k : j \in 1..(k - 1) \/ j = k
    OBVIOUS
  <1>4. \A j \in 1..(k - 1) : j \in 1..k
    OBVIOUS
  <1>5. CASE out = <<>> \/ p - Last(out) >= m
    <2>1. PICK o : o = Append(out, p)
      BY Zenon
    <2>2. /\ o \in Seq(Nat) /\ Len(o) = Len(out) + 1 /\ o[Len(out) + 1] = p
          /\ \A i \in 1..Len(out) : o[i] = out[i]
      BY <1>2, <2>1
    <2>3. ASSUME NEW i \in 1..Len(o)
          PROVE  \E j \in 1..k : o[i] = rows[j]
      <3>1. CASE i \in 1..Len(out)
        BY <1>2, <1>4, <2>2, <3>1, Zenon
      <3>2. CASE i \notin 1..Len(out)
        <4>1. i = Len(out) + 1 /\ k \in 1..k
          BY <1>2, <2>2, <3>2
        <4> QED
          BY <1>1, <2>2, <4>1, Zenon
      <3> QED
        BY <3>1, <3>2
    <2>4. ASSUME NEW i \in 1..(Len(o) - 1)
          PROVE  o[i + 1] - o[i] >= m
      <3>1. CASE i \in 1..(Len(out) - 1)
        BY <1>2, <2>2, <3>1
      <3>2. CASE i \notin 1..(Len(out) - 1)
        <4>1. i = Len(out) /\ i \in 1..Len(out) /\ out # <<>>
          BY <1>2, <2>2, <3>2
        <4>2. p - out[i] >= m
          BY <1>5, <4>1 DEF Last
        <4> QED
          BY <2>2, <4>1, <4>2
      <3> QED
        BY <3>1, <3>2
    <2>5. ASSUME NEW j \in 1..k
          PROVE  \E i \in 1..Len(o) :
                     \/ o[i] = rows[j]
                     \/ rows[j] - o[i] < m /\ \E h \in 1..(j - 1) : o[i] = rows[h]
      <3>1. CASE j = k
        <4>1. Len(out) + 1 \in 1..Len(o)
          BY <1>2, <2>2
        <4> QED
          BY <1>1, <2>2, <3>1, <4>1, Zenon
      <3>2. CASE j \in 1..(k - 1)
        <4>1. \A i \in 1..Len(out) : i \in 1..Len(o) /\ o[i] = out[i]
          BY <1>2, <2>2
        <4>2. PICK i \in 1..Len(out) :
                  \/ out[i] = rows[j]
                  \/ rows[j] - out[i] < m /\ \E h \in 1..(j - 1) : out[i] = rows[h]
          BY <1>2, <3>2, Zenon
        <4>3. i \in 1..Len(o) /\ o[i] = out[i]
          BY <4>1
        <4> QED
          BY <4>2, <4>3, Zenon
      <3> QED
        BY <1>3, <3>1, <3>2
    <2>6. Thinned(o, rows, k, m)
      BY <2>2, <2>3, <2>4, <2>5, Zenon DEF Thinned
    <2> QED
      BY <1>1, <1>5, <2>1, <2>6, Zenon DEF KeepNext
  <1>6. CASE ~(out = <<>> \/ p - Last(out) >= m)
    <2>1. PICK l \in 1..Len(out) : l = Len(out) /\ p - out[l] < m
      <3>1. Len(out) \in 1..Len(out)
        BY <1>2, <1>6
      <3>2. PICK x \in Nat : x = out[Len(out)]
        BY <1>2, <3>1, Zenon
      <3>3. ~(p - x >= m)
        BY <1>6, <3>2, Zenon DEF Last
      <3>4. p - x < m
        BY <3>3
      <3> QED
        BY <3>1, <3>2, <3>4, Zenon
    <2>2. \A j \in 1..k : \E i \in 1..Len(out) :
              \/ out[i] = rows[j]
              \/ rows[j] - out[i] < m /\ \E h \in 1..(j - 1) : out[i] = rows[h]
      BY <1>1, <1>2, <1>3, <2>1, Zenon
    <2>3. \A i \in 1..Len(out) : \E j \in 1..k : out[i] = rows[j]
      BY <1>2, <1>4, Zenon
    <2>4. Thinned(out, rows, k, m)
      BY <1>2, <2>2, <2>3, Zenon DEF Thinned
    <2> QED
      BY <1>1, <1>6, <2>4, Zenon DEF KeepNext
  <1> QED
    BY <1>5, <1>6

(* The loop thins: the first round after which it had not would come after *)
(* one that had.                                                           *)
LEMMA ThinThins ==
    ASSUME NEW n \in Nat, NEW rows \in [1..n -> Nat], NEW m \in Int, m > 0
    PROVE  Thinned(Thin(rows, m), rows, n, m)
  <1>1. PICK out : /\ out[0] = <<>> /\ out[n] = Thin(rows, m)
                   /\ \A k \in 1..n : out[k] = KeepNext(out[k - 1], rows[k], m)
    BY ThinRounds, Zenon
  <1> DEFINE B == {k \in 0..n : ~Thinned(out[k], rows, k, m)}
  <1>2. SUFFICES ASSUME B # {} PROVE FALSE
    <2>1. n \in 0..n
      OBVIOUS
    <2> QED
      BY <1>1, <2>1, Zenon
  <1>3. PICK k \in B : \A j \in B : k <= j
    <2>1. B \subseteq Nat
      OBVIOUS
    <2> HIDE DEF B
    <2> QED
      BY <1>2, <2>1, LeastOf, Zenon
  <1>4. k # 0
    <2>1. Thinned(<<>>, rows, 0, m)
      BY DEF Thinned
    <2> QED
      BY <1>1, <2>1, Zenon
  <1>5. k \in 1..n /\ k - 1 \in 0..n /\ k - 1 \notin B
    <2>1. k \in 0..n
      BY Zenon
    <2> HIDE DEF B
    <2> QED
      BY <1>3, <1>4, <2>1
  <1>6. Thinned(out[k - 1], rows, k - 1, m)
    BY <1>5, Zenon
  <1>7. Thinned(out[k], rows, k, m)
    BY <1>1, <1>5, <1>6, KeepNextThins, Zenon
  <1> QED
    BY <1>7, Zenon

-------------------------------------------------------------------------------
(* The answers *)

(* The fields of a query *)
LEMMA QueryFields ==
    ASSUME Recorded, NEW q \in Queries
    PROVE  q.start \in Nat /\ q.stop \in Nat /\ q.minInterval \in Int /\ q.limit \in Nat
  <1> USE Constants
  <1>1. \A t \in WholeSeconds : t \in Nat
    BY DEF WholeSeconds
  <1>2. \A secs \in Intervals : Duration(secs) \in Int
    <2>1. ASSUME NEW d \in Nat
          PROVE  d % (2 * MaxDuration) \in Int
      BY HistoryAssumption
    <2>2. \A secs \in Intervals : secs * Second \in Nat
      BY HistoryAssumption
    <2>3. \A d \in Int : d - 2 * MaxDuration \in Int
      BY HistoryAssumption
    <2> QED
      BY <2>1, <2>2, <2>3, Zenon DEF Duration
  <1>3. now \in Nat /\ Limits \subseteq Nat
    BY HistoryAssumption DEF Recorded
  <1>4. /\ q.start \in WholeSeconds /\ q.stop \in WholeSeconds \cup {now}
        /\ q.minInterval \in {Duration(secs) : secs \in Intervals} /\ q.limit \in Limits
    BY DEF Queries
  <1> QED
    BY <1>1, <1>2, <1>3, <1>4, Zenon
(* The answer to q from these rows: what AnswerComplete says of one query *)
Complete(answer, rows, q) ==
    /\ q.minInterval > 0 =>
         \A n \in 1..(Len(answer) - 1) : answer[n + 1] - answer[n] >= q.minInterval
    /\ q.limit > 0 => Len(answer) <= q.limit
    /\ q.limit = 0 \/ Len(answer) < q.limit =>
         \A t \in rows :
             SecondOf(q.start) < SecondOf(t) /\ SecondOf(t) < SecondOf(q.stop) =>
                 \E n \in DOMAIN answer :
                     \/ answer[n] = t
                     \/ /\ q.minInterval > 0 /\ t - answer[n] < q.minInterval
                        /\ SecondOf(answer[n]) <= SecondOf(t)

(* What QueryHistory answers from the rows of a table *)
LEMMA SelectAnswers ==
    ASSUME NEW rows, rows \subseteq Nat, IsFiniteSet(rows), NEW q,
           q.start \in Nat, q.stop \in Nat, q.minInterval \in Int, q.limit \in Nat,
           NEW answer, answer = Select(rows, q)
    PROVE  Complete(answer, rows, q)
  <1>1. PICK start \in Nat, stop \in Nat, m \in Int, limit \in Nat :
            q.start = start /\ q.stop = stop /\ q.minInterval = m /\ q.limit = limit
    OBVIOUS
  <1>2. PICK w : w = Window(rows, start, stop)
    OBVIOUS
  <1>3. w \subseteq rows /\ w \subseteq Nat /\ IsFiniteSet(w)
    <2>1. w \subseteq rows
      BY <1>2, Zenon DEF Window
    <2> QED
      BY <2>1, FS_Subset, Zenon
  <1>4. PICK n \in Nat : n = Cardinality(w)
    BY <1>3, FS_CardinalityType, Zenon
  <1>5. PICK r : r = Ordered(w)
    OBVIOUS
  <1>6. /\ r \in [1..n -> w] /\ r \in [1..n -> Nat]
        /\ \A i, j \in 1..n : i < j => Earlier(r[i], r[j])
        /\ \A t \in w : \E i \in 1..n : r[i] = t
    <2>1. /\ r \in [1..n -> w]
          /\ \A i, j \in 1..n : i < j => Earlier(r[i], r[j])
          /\ \A t \in w : \E i \in 1..n : r[i] = t
      BY <1>3, <1>4, <1>5, OrderedLists, Zenon DEF Lists
    <2> QED
      BY <1>3, <2>1, Zenon
  <1>7. PICK out : out = Thin(r, m)
    OBVIOUS
  <1> DEFINE Near(x, t) == m > 0 /\ t - x < m /\ SecondOf(x) <= SecondOf(t)
  <1>8. /\ out \in Seq(Nat)
        /\ m > 0 => \A i \in 1..(Len(out) - 1) : out[i + 1] - out[i] >= m
        /\ \A t \in w : \E i \in 1..Len(out) : out[i] = t \/ Near(out[i], t)
    <2>1. CASE m > 0
      <3>1. Thinned(out, r, n, m)
        BY <1>6, <1>7, <2>1, ThinThins, Zenon
      <3>2. ASSUME NEW t \in w
            PROVE  \E i \in 1..Len(out) : out[i] = t \/ Near(out[i], t)
        <4>1. PICK j \in 1..n : r[j] = t
          BY <1>6, Zenon
        <4>2. PICK i \in 1..Len(out) :
                  \/ out[i] = r[j]
                  \/ r[j] - out[i] < m /\ \E h \in 1..(j - 1) : out[i] = r[h]
          BY <3>1, Zenon DEF Thinned
        <4>3. CASE out[i] = r[j]
          BY <4>1, <4>3, Zenon
        <4>4. ASSUME r[j] - out[i] < m, NEW h \in 1..(j - 1), out[i] = r[h]
              PROVE  Near(out[i], t)
          <5>1. h \in 1..n /\ h < j
            OBVIOUS
          <5>2. Earlier(r[h], r[j]) /\ r[h] \in Nat /\ r[j] \in Nat
            BY <1>6, <5>1, Zenon
          <5>3. SecondOf(r[h]) <= SecondOf(r[j])
            BY <5>2, EarlierSeconds, Zenon
          <5> QED
            BY <2>1, <4>1, <4>4, <5>3, Zenon
        <4> HIDE DEF Near
        <4> QED
          BY <4>2, <4>3, <4>4, Zenon
      <3> QED
        BY <3>1, <3>2, Zenon DEF Thinned
    <2>2. CASE ~(m > 0)
      <3>1. out = r
        <4>1. m <= 0
          BY <2>2
        <4> QED
          BY <1>7, <4>1, Zenon DEF Thin
      <3>2. r \in Seq(Nat) /\ Len(r) = n
        BY <1>6
      <3>3. \A t \in w : \E i \in 1..Len(out) : out[i] = t
        BY <1>6, <3>1, <3>2, Zenon
      <3> HIDE DEF Near
      <3> QED
        BY <2>2, <3>1, <3>2, <3>3, Zenon
    <2> QED
      BY <2>1, <2>2
  <1>9. answer = IF limit > 0 /\ Len(out) > limit THEN SubSeq(out, 1, limit) ELSE out
    BY <1>1, <1>2, <1>5, <1>7, Zenon DEF Select
  <1>10. Len(out) \in Nat
    BY <1>8
  <1>11. ASSUME NEW t \in rows, SecondOf(start) < SecondOf(t), SecondOf(t) < SecondOf(stop)
         PROVE  t \in w
    <2>1. SecondOf(start) \in Nat /\ SecondOf(t) \in Nat /\ SecondOf(stop) \in Nat /\ t \in Nat
      BY Constants, DivMod, Zenon DEF SecondOf
    <2>2. ~(SecondOf(t) <= SecondOf(start)) /\ ~(SecondOf(stop) <= SecondOf(t))
      BY <1>11, <2>1
    <2> QED
      BY <1>2, <2>1, <2>2, EarlierSeconds, Zenon DEF Window
  <1>12. CASE limit > 0 /\ Len(out) > limit
    <2>1. /\ Len(answer) = limit
          /\ \A i \in 1..limit : answer[i] = out[i]
      BY <1>8, <1>9, <1>10, <1>12, Start
    <2>2. ASSUME m > 0, NEW i \in 1..(Len(answer) - 1)
          PROVE  answer[i + 1] - answer[i] >= m
      <3>1. i \in 1..limit /\ i + 1 \in 1..limit /\ i \in 1..(Len(out) - 1)
        BY <1>10, <1>12, <2>1
      <3> QED
        BY <1>8, <2>1, <2>2, <3>1, Zenon
    <2>3. limit # 0 /\ ~(Len(answer) < limit) /\ Len(answer) <= limit
      BY <1>12, <2>1
    <2> QED
      BY <1>1, <2>2, <2>3, Zenon DEF Complete
  <1>13. CASE ~(limit > 0 /\ Len(out) > limit)
    <2>1. answer = out /\ DOMAIN out = 1..Len(out)
      BY <1>8, <1>9, <1>13
    <2>2. limit > 0 => Len(answer) <= limit
      BY <1>10, <1>13, <2>1
    <2>3. ASSUME NEW t \in rows, SecondOf(start) < SecondOf(t), SecondOf(t) < SecondOf(stop)
          PROVE  \E i \in DOMAIN answer : answer[i] = t \/ Near(answer[i], t)
      <3> HIDE DEF Near
      <3> QED
        BY <1>8, <1>11, <2>1, <2>3, Zenon
    <2> QED
      BY <1>1, <1>8, <2>1, <2>2, <2>3, Zenon DEF Complete
  <1> QED
    BY <1>12, <1>13

(* QueryHistory leaves out no fix of the seconds inside the window: each   *)
(* one it held is in the answer or is less than the interval after one     *)
(* that is and that is not in a later second, unless the limit cut the     *)
(* answer off; and what it answers is the interval apart.                  *)
THEOREM Answers == Spec => []AnswerComplete
  <1>1. Recorded => AnswerComplete
    <2> SUFFICES ASSUME Recorded PROVE AnswerComplete
      OBVIOUS
    <2>1. table \subseteq Nat /\ IsFiniteSet(table)
      <3>1. table \subseteq ever /\ ever \subseteq Nat /\ IsFiniteSet(ever)
        BY Zenon DEF Recorded, PrunedOldest
      <3> QED
        BY <3>1, FS_Subset, Zenon
    <2>2. \A q \in Queries :
              q.start \in Nat /\ q.stop \in Nat /\ q.minInterval \in Int /\ q.limit \in Nat
      BY QueryFields, Zenon
    <2>3. \A q \in Queries : Complete(QueryHistory(q), table, q)
      BY <2>1, <2>2, SelectAnswers, Zenon DEF QueryHistory
    <2> QED
      BY <2>3, Zenon DEF AnswerComplete, Complete
  <1>2. Spec => []Recorded
    BY Records
  <1> QED
    BY <1>1, <1>2, PTL
===============================================================================
