-------------------------- MODULE PositioningProofs --------------------------
(***************************************************************************)
(* The conversions of Codecs for every input, where the runs take samples, *)
(* and then Positioning for every set of requests and answers, every grant *)
(* and every number of attempts: the network is asked what the client      *)
(* asked, what it answered is final, and a position answered to the client *)
(* is traceable to, and the same place and size as, the one estimate of    *)
(* the answer it comes from.                                               *)
(***************************************************************************)
EXTENDS Positioning, TLAPS

LOCAL INSTANCE WellFoundedInduction

-------------------------------------------------------------------------------
(* Sequences *)

LEMMA SeqOfFunction ==
    ASSUME NEW S, NEW n \in Nat, NEW f \in [1..n -> S]
    PROVE  f \in Seq(S) /\ Len(f) = n
  OBVIOUS

LEMMA ElementOfSeq ==
    ASSUME NEW S, NEW s \in Seq(S), NEW i \in 1..Len(s)
    PROVE  s[i] \in S
  OBVIOUS

LEMMA SeqEqual ==
    ASSUME NEW S, NEW s \in Seq(S), NEW t \in Seq(S), Len(s) = Len(t),
           \A i \in 1..Len(s) : s[i] = t[i]
    PROVE  s = t
  OBVIOUS

LEMMA EmptySeq ==
    ASSUME NEW S, NEW s \in Seq(S), s # <<>>
    PROVE  Len(s) \in Nat \ {0}
  OBVIOUS

-------------------------------------------------------------------------------
(* Digits and octets *)

(* Half an octet each: packing and unpacking are inverse *)
LEMMA Nibbles ==
    \A lo, hi \in 0..15 : (lo + 16 * hi) % 16 = lo /\ (lo + 16 * hi) \div 16 = hi
  OBVIOUS

(* A digit fits in half an octet. *)
LEMMA DigitOf ==
    ASSUME NEW s \in Seq(Digit), NEW j \in 1..Len(s)
    PROVE  s[j] \in 0..15
  <1>1. s[j] \in Digit
    OBVIOUS
  <1> QED
    BY <1>1 DEF Digit

(* The octets EncodeMSISDN makes of digits, seen half by half *)
LEMMA Packed ==
    ASSUME NEW s \in Seq(Digit), NEW i \in 1..((Len(s) + 1) \div 2)
    PROVE  /\ EncodeMSISDN(s)[i] % 16 = s[2 * i - 1]
           /\ EncodeMSISDN(s)[i] \div 16 = IF 2 * i <= Len(s) THEN s[2 * i] ELSE Filler
  <1> DEFINE lo == s[2 * i - 1]
  <1> DEFINE hi == IF 2 * i <= Len(s) THEN s[2 * i] ELSE Filler
  <1>1. 2 * i - 1 \in 1..Len(s)
    OBVIOUS
  <1>2. lo \in 0..15
    BY <1>1, DigitOf, Zenon
  <1>3. hi \in 0..15
    <2>1. CASE 2 * i <= Len(s)
      <3>1. 2 * i \in 1..Len(s)
        BY <2>1
      <3>2. s[2 * i] \in 0..15
        BY <3>1, DigitOf, Zenon
      <3> QED
        BY <2>1, <3>2
    <2>2. CASE ~(2 * i <= Len(s))
      BY <2>2 DEF Filler
    <2> QED
      BY <2>1, <2>2
  <1>4. EncodeMSISDN(s)[i] = lo + 16 * hi
    BY DEF EncodeMSISDN
  <1> HIDE DEF lo, hi
  <1>5. EncodeMSISDN(s)[i] % 16 = lo /\ EncodeMSISDN(s)[i] \div 16 = hi
    BY <1>2, <1>3, <1>4, Nibbles
  <1> QED
    BY <1>5 DEF lo, hi

(* What EncodeMSISDN returns is a sequence of octets, half as long *)
LEMMA EncodedLength ==
    ASSUME NEW s \in Seq(Digit)
    PROVE  /\ EncodeMSISDN(s) \in Seq(Int)
           /\ Len(EncodeMSISDN(s)) = (Len(s) + 1) \div 2
  <1> DEFINE n == (Len(s) + 1) \div 2
  <1>1. n \in Nat
    OBVIOUS
  <1>2. ASSUME NEW i \in 1..n PROVE EncodeMSISDN(s)[i] \in Int
    <2>1. 2 * i - 1 \in 1..Len(s) /\ (2 * i <= Len(s) => 2 * i \in 1..Len(s))
      OBVIOUS
    <2>2. s[2 * i - 1] \in Int /\ (2 * i <= Len(s) => s[2 * i] \in Int)
      BY <2>1 DEF Digit
    <2> QED
      BY <2>2 DEF EncodeMSISDN, Filler
  <1>3. EncodeMSISDN(s) = [i \in 1..n |-> EncodeMSISDN(s)[i]]
    BY DEF EncodeMSISDN
  <1> HIDE DEF n
  <1>4. EncodeMSISDN(s) \in [1..n -> Int]
    BY <1>2, <1>3
  <1>5. EncodeMSISDN(s) \in Seq(Int)
    BY <1>1, <1>4, SeqOfFunction
  <1>6. Len(EncodeMSISDN(s)) = n
    BY <1>1, <1>4, SeqOfFunction
  <1> QED
    BY <1>5, <1>6 DEF n

(* slh.DecodeMSISDN accepts and undoes slh.EncodeMSISDN for every sequence *)
(* of digits: what the network reads in the MSISDN AVP of a RIR or a PLR   *)
(* is the number the client asked for.                                     *)
THEOREM MsisdnRoundTrip ==
    ASSUME NEW s \in Seq(Digit)
    PROVE  IsTBCD(EncodeMSISDN(s)) /\ DecodeMSISDN(EncodeMSISDN(s)) = s
  <1> DEFINE b == EncodeMSISDN(s)
             n == (Len(s) + 1) \div 2
             High(i) == IF 2 * i <= Len(s) THEN s[2 * i] ELSE Filler
  <1>1. Len(b) = n /\ n \in Nat
    BY EncodedLength
  <1>2. \A i \in 1..n : b[i] % 16 = s[2 * i - 1] /\ b[i] \div 16 = High(i)
    BY Packed
  <1>3. \A j \in 1..Len(s) : s[j] \in Digit
    OBVIOUS
  <1>4. \A i \in 1..n : 2 * i - 1 \in 1..Len(s) /\ (2 * i <= Len(s) => 2 * i \in 1..Len(s))
    OBVIOUS
  <1> HIDE DEF b
  <1>5. IsTBCD(b)
    <2> SUFFICES ASSUME NEW i \in 1..n
                 PROVE  /\ b[i] % 16 \in Digit
                        /\ b[i] \div 16 \in Digit \/ (b[i] \div 16 = Filler /\ i = Len(b))
      BY <1>1 DEF IsTBCD
    <2>1. b[i] % 16 \in Digit
      BY <1>2, <1>3, <1>4
    <2>2. CASE 2 * i <= Len(s)
      BY <2>1, <2>2, <1>2, <1>3, <1>4
    <2>3. CASE ~(2 * i <= Len(s))
      <3>1. i = Len(b)
        BY <2>3, <1>1
      <3>2. b[i] \div 16 = Filler
        BY <2>3, <1>2
      <3> QED
        BY <2>1, <3>1, <3>2
    <2> QED
      BY <2>2, <2>3
  <1> DEFINE filled == Len(b) > 0 /\ b[Len(b)] \div 16 = Filler
             m == IF filled THEN 2 * Len(b) - 1 ELSE 2 * Len(b)
  <1>6. m = Len(s)
    <2>1. CASE Len(s) = 0
      BY <2>1, <1>1
    <2>2. CASE Len(s) # 0
      <3>1. n \in 1..n /\ n > 0
        BY <2>2
      <3>2. b[n] \div 16 = High(n)
        BY <3>1, <1>2
      <3>3. CASE 2 * n <= Len(s)
        <4>1. s[2 * n] \in Digit
          BY <3>1, <3>3, <1>3, <1>4
        <4>2. s[2 * n] # Filler
          BY <4>1 DEF Digit, Filler
        <4>3. ~filled
          BY <3>2, <3>3, <4>2, <1>1
        <4> QED
          BY <4>3, <3>3, <1>1
      <3>4. CASE ~(2 * n <= Len(s))
        <4>1. filled
          BY <3>1, <3>2, <3>4, <1>1
        <4> QED
          BY <4>1, <3>4, <1>1
      <3> QED
        BY <3>3, <3>4
    <2> QED
      BY <2>1, <2>2
  <1>7. ASSUME NEW j \in 1..Len(s)
        PROVE  s[j] = IF j % 2 = 1 THEN b[(j + 1) \div 2] % 16 ELSE b[j \div 2] \div 16
    <2>1. CASE j % 2 = 1
      <3>1. (j + 1) \div 2 \in 1..n /\ 2 * ((j + 1) \div 2) - 1 = j
        BY <2>1
      <3> QED
        BY <2>1, <3>1, <1>2
    <2>2. CASE ~(j % 2 = 1)
      <3>1. j \div 2 \in 1..n /\ 2 * (j \div 2) = j
        BY <2>2
      <3> QED
        BY <2>2, <3>1, <1>2
    <2> QED
      BY <2>1, <2>2
  <1>8. DecodeMSISDN(b) = [j \in 1..Len(s) |-> s[j]]
    BY <1>6, <1>7 DEF DecodeMSISDN
  <1>9. s = [j \in 1..Len(s) |-> s[j]]
    OBVIOUS
  <1> QED
    BY <1>5, <1>8, <1>9 DEF b

-------------------------------------------------------------------------------
(* Coordinates *)

Octet == 0..255

(* gad.decodePoint: every six octets are a point on the globe, less than a *)
(* pole or the antimeridian on the positive side, so that its checks for   *)
(* ErrLatitude and ErrLongitude never fail.                                 *)
THEOREM PointsOnGlobe ==
    ASSUME NEW a \in Octet, NEW b \in Octet, NEW c \in Octet
    PROVE  LET lat == Latitude(Uint24(a, b, c))
               lon == Longitude(Uint24(a, b, c))
           IN /\ lat \in Int /\ -SignBit < lat /\ lat < SignBit
              /\ lon \in Int /\ -SignBit <= lon /\ lon < SignBit
  <1>1. Uint24(a, b, c) \in Nat /\ Uint24(a, b, c) < 2 * SignBit
    BY SMT DEF Octet, Uint24, SignBit
  <1>2. ASSUME NEW raw \in Nat, raw < 2 * SignBit
        PROVE  /\ Latitude(raw) \in Int /\ -SignBit < Latitude(raw) /\ Latitude(raw) < SignBit
               /\ Longitude(raw) \in Int /\ -SignBit <= Longitude(raw) /\ Longitude(raw) < SignBit
    BY <1>2, SMT DEF Latitude, Longitude, SignBit
  <1> QED
    BY <1>1, <1>2

(* MilliArcSec, written in parts that fit 32 bits, is the quotient rounded *)
(* half up that math.Round gives                                           *)
LEMMA Rounding ==
    ASSUME NEW code \in Nat, NEW step \in {LatitudeStep, LongitudeStep}
    PROVE  /\ MilliArcSec(code, step) \in Nat
           /\ 2 * (code * 1265625) < 2 * (MilliArcSec(code, step) * step) + step
           /\ 2 * (MilliArcSec(code, step) * step) <= 2 * (code * 1265625) + step
  <1>1. CASE step = LatitudeStep
    BY <1>1, SMTT(60) DEF LatitudeStep, MilliArcSec
  <1>2. CASE step = LongitudeStep
    BY <1>2, SMTT(60) DEF LongitudeStep, MilliArcSec
  <1> QED
    BY <1>1, <1>2, SMT

(* The parts of encodeDMSH add up to the total they are cut from *)
LEMMA Sexagesimal ==
    ASSUME NEW total \in Nat
    PROVE  LET deg == total \div 3600000
               rem == total - deg * 3600000
               min == rem \div 60000
               msec == rem - min * 60000
           IN /\ deg \in Nat /\ min \in 0..59 /\ msec \in Nat /\ msec < 60000
              /\ 3600000 * deg + 60000 * min + msec = total
  BY SMT

(* v thousandths of a second are code * 1265625 / step, to half a unit *)
Rounds(v, code, step) ==
    /\ 2 * (code * 1265625) <= 2 * (v * step) + step
    /\ 2 * (v * step) <= 2 * (code * 1265625) + step

(* Minutes and thousandths of a second of a rendered coordinate in range *)
Sexagesimals(c) == c.min \in 0..59 /\ c.msec \in Nat /\ c.msec < 60000

(* mlp.encodeDMSH, for every coordinate code: minutes and seconds are in   *)
(* range ("can't round up into an invalid 60.000"), and decodeDMSH reads   *)
(* back the code to half a thousandth of a second.                          *)
THEOREM DmshRendering ==
    ASSUME NEW code \in Int, NEW step \in {LatitudeStep, LongitudeStep},
           NEW positiveHemi \in {"N", "E"}, NEW negativeHemi \in {"S", "W"}
    PROVE  LET c == EncodeDMSH(code, step, positiveHemi, negativeHemi)
           IN /\ Sexagesimals(c)
              /\ DecodeDMSH(c) \in Int
              /\ Rounds(DecodeDMSH(c), code, step)
  <1> DEFINE size == IF code < 0 THEN -code ELSE code
             c == EncodeDMSH(code, step, positiveHemi, negativeHemi)
             total == MilliArcSec(size, step)
  <1>1. size \in Nat
    OBVIOUS
  <1>2. /\ total \in Nat
        /\ 2 * (size * 1265625) < 2 * (total * step) + step
        /\ 2 * (total * step) <= 2 * (size * 1265625) + step
    BY <1>1, Rounding, SMT
  <1>3. step \in Nat
    BY DEF LatitudeStep, LongitudeStep
  <1>4. /\ c.min \in 0..59 /\ c.msec \in Nat /\ c.msec < 60000
        /\ 3600000 * c.deg + 60000 * c.min + c.msec = total
    BY <1>2, Sexagesimal, SMT DEF EncodeDMSH
  <1>5. c.hemi = IF code < 0 THEN negativeHemi ELSE positiveHemi
    BY SMT DEF EncodeDMSH
  <1> HIDE DEF c, total
  <1>6. DecodeDMSH(c) = IF code < 0 THEN -total ELSE total
    BY <1>4, <1>5, SMT DEF DecodeDMSH
  <1>7. DecodeDMSH(c) \in Int /\ Rounds(DecodeDMSH(c), code, step)
    BY <1>1, <1>2, <1>3, <1>6, SMT DEF Rounds
  <1>8. Sexagesimals(c)
    BY <1>4, SMT DEF Sexagesimals
  <1> QED
    BY <1>7, <1>8, Zenon DEF c

(* No two coordinates look the same to the client: a code stands for more  *)
(* than the thousandth of a second encodeDMSH prints.                       *)
THEOREM DmshFaithful ==
    ASSUME NEW c1 \in Int, NEW c2 \in Int, NEW step \in {LatitudeStep, LongitudeStep},
           NEW positiveHemi \in {"N", "E"}, NEW negativeHemi \in {"S", "W"},
           EncodeDMSH(c1, step, positiveHemi, negativeHemi)
             = EncodeDMSH(c2, step, positiveHemi, negativeHemi)
    PROVE  c1 = c2
  <1> DEFINE e(c) == EncodeDMSH(c, step, positiveHemi, negativeHemi)
             v == DecodeDMSH(e(c1))
  <1>a. ASSUME NEW c \in Int
        PROVE  DecodeDMSH(e(c)) \in Int /\ Rounds(DecodeDMSH(e(c)), c, step)
    BY DmshRendering, Zenon
  <1>b. e(c1) = e(c2)
    OBVIOUS
  <1> HIDE DEF e
  <1>1. v \in Int /\ Rounds(v, c1, step) /\ Rounds(v, c2, step)
    BY <1>a, <1>b, Zenon
  <1> HIDE DEF v
  <1>2. step \in Nat /\ step < 1265625
    BY SMT DEF LatitudeStep, LongitudeStep
  <1> DEFINE t == v * step
  <1>3. t \in Int
    BY <1>1, <1>2
  <1>4. /\ 2 * (c1 * 1265625) <= 2 * t + step /\ 2 * t <= 2 * (c1 * 1265625) + step
        /\ 2 * (c2 * 1265625) <= 2 * t + step /\ 2 * t <= 2 * (c2 * 1265625) + step
    BY <1>1, SMT DEF Rounds
  <1> HIDE DEF t
  <1> QED
    BY <1>2, <1>3, <1>4, SMT

-------------------------------------------------------------------------------
(* Uncertainty codes *)

(* A set of codes that holds 0 has a greatest element. *)
LEMMA GreatestCode ==
    ASSUME NEW n \in Nat, NEW S, S \subseteq 0..n, 0 \in S
    PROVE  \E k \in S : \A j \in S : j <= k
  <1> DEFINE T == {n - k : k \in S}
  <1>1. T \subseteq Nat /\ T # {}
    <2>1. \A k \in S : n - k \in Nat
      BY SMT
    <2> QED
      BY <2>1, Zenon
  <1>2. PICK x \in T : \A y \in T : ~(<<y, x>> \in OpToRel(<, Nat))
    BY <1>1, NatLessThanWellFounded, WFMin, Zenon
  <1>3. \A y \in T : ~(y < x)
    <2>1. ASSUME NEW y \in T, y < x
          PROVE  <<y, x>> \in OpToRel(<, Nat)
      <3>1. <<y, x>> \in Nat \X Nat /\ <<y, x>>[1] = y /\ <<y, x>>[2] = x
        BY <1>1
      <3> QED
        BY <2>1, <3>1, Zenon DEF OpToRel
    <2> QED
      BY <1>2, <2>1, Zenon
  <1>4. PICK k \in S : x = n - k
    OBVIOUS
  <1>5. ASSUME NEW j \in S
        PROVE  j <= k
    <2>1. n - j \in T
      BY Zenon
    <2> QED
      BY <1>3, <1>4, <2>1, SMT
  <1> QED
    BY <1>5

(* What Reaches says of a code, however its logarithm is rounded *)
LEMMA Rounded ==
    ASSUME NEW m \in Int, NEW k, Powers(k)
    PROVE  /\ Reaches(k, m) => Within(k, m)
           /\ ~Reaches(k, m) => AtLeast(k, m)
  <1> DEFINE a == 10 * Parts * 11 ^ k
             b == (m + 10 * Parts) * 10 ^ k
  <1>1. a \in Int /\ b \in Int
    BY CodeAssumption DEF Powers
  <1>2. (Within(k, m) <=> a <= b) /\ (AtLeast(k, m) <=> b <= a)
    BY DEF Within, AtLeast
  <1> HIDE DEF a, b
  <1>3. a <= b \/ b <= a
    BY <1>1
  <1> QED
    BY <1>2, <1>3, Zenon DEF Reaches

(* gad.EncodeUncertaintyValue, for every accuracy asked that is a multiple *)
(* of 1 / Parts metres and every rounding of the logarithms: the code sent *)
(* never stands for more metres than the caller asked for, and the next    *)
(* code, if there is one, stands for no fewer.                             *)
THEOREM AccuracyEncoded ==
    ASSUME NEW m \in Int, m > 0, \A k \in 0..(MaxUncertaintyCode + 1) : Powers(k)
    PROVE  LET k == EncodeUncertaintyValue(m)
           IN /\ k \in 0..MaxUncertaintyCode
              /\ Within(k, m)
              /\ k = MaxUncertaintyCode \/ AtLeast(k + 1, m)
  <1> DEFINE S == {k \in 0..MaxUncertaintyCode : Reaches(k, m)}
             Fits(k) == Reaches(k, m) /\ (k = MaxUncertaintyCode \/ ~Reaches(k + 1, m))
  <1>1. MaxUncertaintyCode \in Nat /\ 0 \in 0..MaxUncertaintyCode
    BY CodeAssumption, SMT
  <1>2. Reaches(0, m)
    <2>1. Powers(0) /\ 0 \notin FallsShort /\ Parts \in Nat
      BY <1>1, CodeAssumption, SMT
    <2>2. Within(0, m)
      BY <2>1, SMT DEF Powers, Within
    <2> QED
      BY <2>1, <2>2, Zenon DEF Reaches
  <1>3. PICK k \in S : \A j \in S : j <= k
    BY <1>1, <1>2, GreatestCode, Zenon
  <1>4. k \in 0..MaxUncertaintyCode /\ Fits(k)
    <2>1. CASE k = MaxUncertaintyCode
      BY <2>1, <1>1
    <2>2. CASE k # MaxUncertaintyCode
      <3>1. k + 1 \in 0..MaxUncertaintyCode /\ ~(k + 1 <= k)
        BY <2>2, <1>1, SMT
      <3>2. k + 1 \notin S
        BY <1>3, <3>1, Zenon
      <3> QED
        BY <3>1, <3>2, Zenon
    <2> QED
      BY <2>1, <2>2
  <1>5. EncodeUncertaintyValue(m) = CHOOSE j \in 0..MaxUncertaintyCode : Fits(j)
    <2>1. ~(m <= 0)
      BY SMT
    <2> QED
      BY <2>1, Zenon DEF EncodeUncertaintyValue
  <1> HIDE DEF Fits
  <1>6. /\ EncodeUncertaintyValue(m) \in 0..MaxUncertaintyCode
        /\ Fits(EncodeUncertaintyValue(m))
    BY <1>4, <1>5, Zenon
  <1> DEFINE c == EncodeUncertaintyValue(m)
  <1>7. Within(c, m)
    <2>1. c \in 0..(MaxUncertaintyCode + 1)
      BY <1>1, <1>6, SMT
    <2> QED
      BY <1>6, <2>1, Rounded, Zenon DEF Fits
  <1>8. ASSUME c # MaxUncertaintyCode
        PROVE  AtLeast(c + 1, m)
    <2>1. c + 1 \in 0..(MaxUncertaintyCode + 1)
      BY <1>1, <1>6, SMT
    <2> QED
      BY <1>6, <1>8, <2>1, Rounded, Zenon DEF Fits
  <1> QED
    BY <1>6, <1>7, <1>8, Zenon

(* gad.decodeUncertaintyValue, for every octet: the metres answered to the *)
(* client are those of the code, to half a metre.                          *)
THEOREM RadiusDecoded ==
    ASSUME NEW octet \in Octet, Powers(octet % 128)
    PROVE  LET k == octet % 128
               e == (UncertaintyMeters(octet) + 10) * 10 ^ k - 10 * 11 ^ k
           IN /\ UncertaintyMeters(octet) \in Int
              /\ -(10 ^ k) <= 2 * e /\ 2 * e <= 10 ^ k
  <1>1. PICK k \in Nat : k = octet % 128
    BY SMT DEF Octet
  <1>2. CASE k = 0
    BY <1>1, <1>2, SMT DEF Powers, UncertaintyMeters
  <1>3. CASE k > 0
    <2>1. PICK p \in Nat \ {0} : p = 10 ^ (k - 1) /\ 10 ^ k = 10 * p
      BY <1>1, <1>3, SMT DEF Powers
    <2>2. PICK n \in Nat : n = 11 ^ k
      BY <1>1, SMT DEF Powers
    <2>3. PICK q : q = (2 * n + p) \div (2 * p)
      OBVIOUS
    <2>4. q \in Int /\ 2 * p * q <= 2 * n + p /\ 2 * n + p < 2 * p * q + 2 * p
      BY <2>3, SMT
    <2>5. UncertaintyMeters(octet) = q - 10
      BY <1>1, <1>3, <2>1, <2>2, <2>3, SMT DEF UncertaintyMeters
    <2>6. PICK t \in Int : t = p * q
      BY <2>4, SMT
    <2>7. (q - 10 + 10) * (10 * p) = 10 * t
      BY <2>4, <2>6, SMT
    <2>8. -(10 * p) <= 2 * (10 * t - 10 * n) /\ 2 * (10 * t - 10 * n) <= 10 * p
      <3>1. 2 * t <= 2 * n + p /\ 2 * n + p < 2 * t + 2 * p
        BY <2>4, <2>6, SMT
      <3> QED
        BY <3>1, SMT
    <2> QED
      BY <1>1, <2>1, <2>2, <2>4, <2>5, <2>7, <2>8, SMT
  <1> QED
    BY <1>1, <1>2, <1>3, SMT

-------------------------------------------------------------------------------
(* The state of a request *)

Fields == {"state", "code", "attempts", "result", "kind", "value", "locationType", "priority", "qos"}

(* The attempt up to the serving node *)
Resolved ==
    /\ rir = Identity
    /\ ria \in RIAs /\ AcceptsRIA(ria)
    /\ node = DecodeRIA(ria)

(* and up to the PLR *)
Requested ==
    /\ Resolved /\ Routable
    /\ plr.host = node.host /\ plr.realm = node.realm /\ plr.identity = Identity

(* and up to the answer that completed the request *)
Traced ==
    /\ Requested
    /\ pla \in PLAs /\ AcceptsPLA(pla)
    /\ row.result = Result(RawLocationEstimate(pla))

Rendered ==
    /\ pc = "answered" /\ Traced
    /\ row.result.centre # None
    /\ pos.x = EncodeDMSH(row.result.centre.lat, LatitudeStep, "N", "S")
    /\ pos.y = EncodeDMSH(row.result.centre.lon, LongitudeStep, "E", "W")

(* How far each attempt has come, by where the worker is *)
Progress ==
    /\ pc \in {"idle", "queued", "resolving", "rir", "locating", "plr", "settled", "answered"}
    /\ pc \notin {"idle", "answered"} => DOMAIN row = Fields
    /\ pc \in {"resolving", "rir"} => row.state = "resolving"
    /\ pc \in {"locating", "plr"} => row.state = "locating"
    /\ pc = "rir" => rir = Identity
    /\ pc = "locating" => Resolved
    /\ pc = "plr" => Requested
    /\ pc = "settled" /\ row.state = "completed" => Traced
    /\ Located => Rendered

(* and what the last failure was, for AnswersAreFinal *)
Failures ==
    /\ last.stage = "resolving" => last.err \in ResolverErrors
    /\ last.stage = "locating" => last.err \in ProviderErrors
    /\ last.answer # None => /\ row.state = "failed" /\ row.code = "network_failure"
                             /\ pc \in {"settled", "answered"}

IInv == Progress /\ Failures

(* The row is still the one CreateRequest made of the slir *)
Columns ==
    /\ asked \in Slirs /\ Accepted(asked)
    /\ row.kind = Kind(asked) /\ row.value = asked.value
    /\ row.locationType = ParseLocType(asked) /\ row.priority = ParsePrio(asked)
    /\ row.qos = ParseEQoP(asked)

(* and the PLR was built from it *)
Built ==
    /\ plr.locationType = row.locationType /\ plr.priority = row.priority
    /\ plr.qos = QoSGroup(ScanQoS(row.qos))
    /\ plr.shapes = SupportedGADShapes
    /\ <<plr.clientType, plr.privacy>> \in {<<ClientType, PrivacyCheck>>, <<1, None>>}

(* What the messages and the answer were made of, for RequestCarried,      *)
(* AccuracyKept and ShapesAsAdvertised                                     *)
Messages ==
    /\ pc = "idle" => rir = None /\ plr = None /\ pla = None
    /\ pc \notin {"idle", "answered"} => Columns
    /\ rir # None => Columns /\ rir = Identity
    /\ plr # None \/ pla # None \/ pc = "plr" => Columns /\ Built
    /\ pla # None => pla \in PLAs /\ AcceptsPLA(pla)
    /\ (last.stage = "locating" /\ last.answer # None) => last.answer \in PLAs /\ ~AcceptsPLA(last.answer)
    /\ Located => pos.radius = IF row.result.radius = None THEN 0 ELSE row.result.radius

-------------------------------------------------------------------------------
(* handleError leaves nothing of the attempt, and what it does to the row  *)
(* depends on the error alone                                              *)
LEMMA ErrorStep ==
    ASSUME NEW e, NEW answer, HandleError(e, answer),
           DOMAIN row = Fields, ~Located, row.state \in {"resolving", "locating"},
           row.state = "resolving" => e \in ResolverErrors,
           row.state = "locating" => e \in ProviderErrors,
           answer # None => e = "permanent"
    PROVE  IInv'
  <1> USE DEF HandleError
  <1>1. DOMAIN row' = Fields
    BY Zenon
  <1>2. /\ pc' = "queued" \/ (pc' = "settled" /\ row'.state = "failed")
        /\ answer # None => row'.state = "failed" /\ row'.code = "network_failure" /\ pc' = "settled"
    BY Zenon DEF Fields, Transient
  <1>3. ~Located'
    BY DEF Located
  <1>4. Progress'
    BY <1>1, <1>2, <1>3 DEF Progress
  <1>5. Failures'
    BY <1>2 DEF Failures
  <1> QED
    BY <1>4, <1>5 DEF IInv

(* The errors of the two clients' round trips *)
LEMMA ClientErrors ==
    ASSUME NEW e \in RoundTripErrors
    PROVE  ResolveError(e) \in ResolverErrors /\ e \in ProviderErrors
  BY DEF RoundTripErrors, ResolveError, ResolverErrors, ProviderErrors

LEMMA Permanent == "permanent" \in ResolverErrors /\ "permanent" \in ProviderErrors
  BY DEF ResolverErrors, ProviderErrors

(* Every action preserves the invariant *)
LEMMA Step ==
    ASSUME IInv, [Next]_vars
    PROVE  IInv'
  <1> USE DEF IInv
  <1>0. pc # "answered" => ~Located
    BY DEF Progress, Rendered
  <1>1. ASSUME HandleSLIR
        PROVE  IInv'
    <2> USE <1>1 DEF HandleSLIR
    <2>1. ~Located'
      BY DEF Located
    <2>2. pc' = "queued" => DOMAIN row' = Fields
      BY DEF CreateRequest, Fields
    <2>3. Progress'
      BY <2>1, <2>2 DEF Progress
    <2>4. Failures'
      BY DEF Failures
    <2> QED
      BY <2>3, <2>4
  <1>2. ASSUME ClaimNextQueued
        PROVE  IInv'
    <2> USE <1>2 DEF ClaimNextQueued
    <2>1. ~Located'
      BY <1>0 DEF Located
    <2>2. DOMAIN row' = Fields /\ row'.state = "resolving"
      BY DEF Progress, Fields
    <2>3. Progress'
      BY <2>1, <2>2 DEF Progress
    <2>4. Failures'
      BY DEF Failures
    <2> QED
      BY <2>3, <2>4
  <1>3. ASSUME SendRIR
        PROVE  IInv'
    <2> USE <1>3 DEF SendRIR
    <2>1. CASE HandleError("permanent", None)
      BY <2>1, <1>0, ErrorStep, Permanent DEF Progress
    <2>2. CASE ~HandleError("permanent", None)
      <3>1. ~Located'
        BY <2>2, <1>0 DEF Located
      <3>2. Identity' = Identity
        BY <2>2 DEF Identity
      <3>3. Progress'
        BY <2>2, <3>1, <3>2 DEF Progress
      <3>4. Failures'
        BY <2>2 DEF Failures
      <3> QED
        BY <3>3, <3>4
    <2> QED
      BY <2>1, <2>2
  <1>4. ASSUME ResolveFails
        PROVE  IInv'
    <2>1. PICK e \in RoundTripErrors : HandleError(ResolveError(e), None)
      BY <1>4 DEF ResolveFails
    <2> QED
      BY <1>4, <2>1, <1>0, ErrorStep, ClientErrors DEF ResolveFails, Progress
  <1>5. ASSUME ReceiveRIA
        PROVE  IInv'
    <2> USE <1>5 DEF ReceiveRIA
    <2>1. PICK a \in RIAs :
            \/ /\ AcceptsRIA(a)
               /\ ria' = a /\ node' = DecodeRIA(a)
               /\ row' = [row EXCEPT !.state = "locating"]
               /\ pc' = "locating"
               /\ UNCHANGED <<asked, rir, plr, pla, last, pos>>
            \/ ~AcceptsRIA(a) /\ HandleError("permanent", a)
      BY Zenon
    <2>2. CASE HandleError("permanent", a)
      BY <2>2, <1>0, ErrorStep, Permanent DEF Progress
    <2>3. CASE ~HandleError("permanent", a)
      <3>1. ~Located'
        BY <2>1, <2>3, <1>0 DEF Located
      <3>2. /\ DOMAIN row' = Fields /\ row'.state = "locating"
            /\ row'.kind = row.kind /\ row'.value = row.value
        BY <2>1, <2>3 DEF Progress, Fields
      <3>3. Resolved'
        BY <2>1, <2>3, <3>2, Zenon DEF Resolved, Progress, Identity
      <3>4. Progress'
        BY <2>1, <2>3, <3>1, <3>2, <3>3 DEF Progress
      <3>5. Failures'
        BY <2>1, <2>3 DEF Failures
      <3> QED
        BY <3>4, <3>5
    <2> QED
      BY <2>2, <2>3
  <1>6. ASSUME SendPLR
        PROVE  IInv'
    <2> USE <1>6 DEF SendPLR
    <2>1. CASE HandleError("permanent", None)
      BY <2>1, <1>0, ErrorStep, Permanent DEF Progress
    <2>2. CASE ~HandleError("permanent", None)
      <3>1. ~Located'
        BY <2>2, <1>0 DEF Located
      <3>2. Identity' = Identity
        BY <2>2 DEF Identity
      <3>3. Resolved' /\ Routable'
        BY <2>2, <3>2, Zenon DEF Progress, Resolved, Routable
      <3>4. Requested'
        BY <2>2, <3>2, <3>3 DEF Requested, BuildPLR
      <3>5. Progress'
        BY <2>2, <3>1, <3>4 DEF Progress
      <3>6. Failures'
        BY <2>2 DEF Failures
      <3> QED
        BY <3>5, <3>6
    <2> QED
      BY <2>1, <2>2
  <1>7. ASSUME LocateFails
        PROVE  IInv'
    <2>1. PICK e \in RoundTripErrors : HandleError(e, None)
      BY <1>7 DEF LocateFails
    <2> QED
      BY <1>7, <2>1, <1>0, ErrorStep, ClientErrors DEF LocateFails, Progress
  <1>8. ASSUME ReceivePLA
        PROVE  IInv'
    <2> USE <1>8 DEF ReceivePLA
    <2>1. PICK a \in PLAs :
            \/ /\ AcceptsPLA(a)
               /\ pla' = a
               /\ row' = IF RawLocationEstimate(a) = <<>> /\ a.ecgis = <<>>
                         THEN [row EXCEPT !.state = "failed", !.code = "no_immediate_result"]
                         ELSE [row EXCEPT !.state = "completed", !.result = Result(RawLocationEstimate(a))]
               /\ pc' = "settled"
               /\ UNCHANGED <<asked, node, rir, ria, plr, last, pos>>
            \/ ~AcceptsPLA(a) /\ HandleError("permanent", a)
      BY Zenon
    <2>2. CASE HandleError("permanent", a)
      BY <2>2, <1>0, ErrorStep, Permanent DEF Progress
    <2>3. CASE ~HandleError("permanent", a)
      <3>1. ~Located'
        BY <2>1, <2>3, <1>0 DEF Located
      <3>2. /\ DOMAIN row' = Fields
            /\ row'.kind = row.kind /\ row'.value = row.value
            /\ row'.state = "completed" => row'.result = Result(RawLocationEstimate(a))
        BY <2>1, <2>3, Zenon DEF Progress, Fields
      <3>3. Identity' = Identity
        BY <3>2 DEF Identity
      <3>4. Requested'
        BY <2>1, <2>3, <3>3, Zenon DEF Requested, Resolved, Routable, Progress
      <3>5. row'.state = "completed" => Traced'
        BY <2>1, <2>3, <3>2, <3>4, Zenon DEF Traced
      <3>6. Progress'
        BY <2>1, <2>3, <3>1, <3>2, <3>5 DEF Progress
      <3>7. Failures'
        BY <2>1, <2>3 DEF Failures
      <3> QED
        BY <3>6, <3>7
    <2> QED
      BY <2>2, <2>3
  <1>9. ASSUME BuildPos
        PROVE  IInv'
    <2> USE <1>9 DEF BuildPos
    <2>1. UNCHANGED <<row, node, rir, ria, plr, pla>>
      BY DEF attempt
    <2>2. Located' => /\ row.state = "completed" /\ row.result.centre # None
                      /\ pos'.x = EncodeDMSH(row.result.centre.lat, LatitudeStep, "N", "S")
                      /\ pos'.y = EncodeDMSH(row.result.centre.lon, LongitudeStep, "E", "W")
      BY DEF Located
    <2>3. Traced => Traced'
      BY <2>1, Zenon DEF Traced, Requested, Resolved, Routable, Identity
    <2>4. Located' => Rendered'
      BY <2>1, <2>2, <2>3 DEF Rendered, Progress
    <2>5. Progress'
      BY <2>4 DEF Progress
    <2>6. Failures'
      BY <2>1 DEF Failures
    <2> QED
      BY <2>5, <2>6
  <1>10. CASE UNCHANGED vars
    BY <1>10, Zenon DEF vars, attempt, Progress, Failures, Rendered, Traced, Requested, Resolved,
              Routable, Identity, Located
  <1> QED
    BY <1>1, <1>2, <1>3, <1>4, <1>5, <1>6, <1>7, <1>8, <1>9, <1>10 DEF Next

LEMMA Invariance == Spec => []IInv
  <1>1. Init => IInv
    BY DEF Init, IInv, Progress, Failures, NoFailure, Located
  <1> QED
    BY <1>1, Step, PTL DEF Spec

-------------------------------------------------------------------------------
(* The columns that say what was asked, which no statement of the worker sets *)
SameColumns ==
    /\ row'.kind = row.kind /\ row'.value = row.value
    /\ row'.locationType = row.locationType /\ row'.priority = row.priority /\ row'.qos = row.qos

LEMMA ColumnsKept ==
    ASSUME SameColumns, asked' = asked
    PROVE  /\ Identity' = Identity
           /\ Columns => Columns'
           /\ plr' = plr /\ Built => Built'
  <1>1. Identity' = Identity
    BY Zenon DEF SameColumns, Identity
  <1>2. Columns => Columns'
    BY Zenon DEF SameColumns, Columns
  <1>3. plr' = plr /\ Built => Built'
    BY Zenon DEF SameColumns, Built
  <1> QED
    BY <1>1, <1>2, <1>3

(* What the statements of the worker do set *)
LEMMA SetColumns ==
    ASSUME DOMAIN row = Fields, NEW s, NEW c, NEW n, NEW r,
           \/ row' = [row EXCEPT !.state = s, !.code = c]
           \/ row' = [row EXCEPT !.state = s, !.attempts = n]
           \/ row' = [row EXCEPT !.state = s]
           \/ row' = [row EXCEPT !.state = s, !.result = r]
    PROVE  SameColumns
  BY Zenon DEF SameColumns, Fields

(* handleError keeps what was asked and what was answered *)
LEMMA ErrorMessages ==
    ASSUME NEW e, NEW answer, HandleError(e, answer),
           DOMAIN row = Fields, ~Located, Columns,
           (row.state = "locating" /\ answer # None) => answer \in PLAs /\ ~AcceptsPLA(answer)
    PROVE  Messages'
  <1>1. /\ asked' = asked /\ pos' = pos
        /\ rir' = None /\ plr' = None /\ pla' = None
        /\ pc' \in {"queued", "settled"}
        /\ last' = [stage |-> row.state, answer |-> answer, err |-> e]
    BY DEF HandleError
  <1>2. SameColumns
    <2>1. PICK s, c : row' = [row EXCEPT !.state = s, !.code = c]
      BY Zenon DEF HandleError
    <2>2. \/ row' = [row EXCEPT !.state = s, !.code = c]
          \/ row' = [row EXCEPT !.state = s, !.attempts = 0]
          \/ row' = [row EXCEPT !.state = s]
          \/ row' = [row EXCEPT !.state = s, !.result = 0]
      BY <2>1
    <2> QED
      BY <2>2, SetColumns, Zenon
  <1>3. Columns'
    BY <1>1, <1>2, ColumnsKept
  <1>4. ~Located'
    BY <1>1 DEF Located
  <1>5. last'.stage = row.state /\ last'.answer = answer
    BY <1>1
  <1> QED
    BY <1>1, <1>3, <1>4, <1>5 DEF Messages

(* A step of an attempt after which nothing of the answer has changed *)
LEMMA AttemptMessages ==
    ASSUME Messages, SameColumns, Columns, asked' = asked, ~Located', UNCHANGED last,
           pc \notin {"idle", "answered"}, pc' \notin {"idle", "answered"},
           rir' = rir \/ rir' = Identity,
           (plr' = plr /\ (pc' = "plr" => pc = "plr")) \/ Built',
           pla' = pla \/ (pla' \in PLAs /\ AcceptsPLA(pla') /\ pc = "plr" /\ plr' = plr)
    PROVE  Messages'
  <1>1. Columns' /\ Identity' = Identity /\ (plr' = plr /\ Built => Built')
    BY ColumnsKept
  <1>2. rir' # None => rir' = Identity'
    BY <1>1 DEF Messages
  <1>3. plr' # None \/ pla' # None \/ pc' = "plr" => Built'
    BY <1>1 DEF Messages
  <1>4. pla' # None => pla' \in PLAs /\ AcceptsPLA(pla')
    BY DEF Messages
  <1> QED
    BY <1>1, <1>2, <1>3, <1>4 DEF Messages

(* Every action preserves it *)
LEMMA MessagesStep ==
    ASSUME IInv, Messages, [Next]_vars
    PROVE  Messages'
  <1>0. /\ pc # "answered" => ~Located
        /\ pc \notin {"idle", "answered"} => DOMAIN row = Fields /\ Columns
    BY DEF IInv, Progress, Rendered, Messages
  <1>1. CASE HandleSLIR
    <2>1. /\ pc = "idle" /\ rir' = None /\ plr' = None /\ pla' = None /\ last' = last
          /\ pc' \in {"queued", "answered"}
      BY <1>1 DEF HandleSLIR, attempt, Messages
    <2>2. ~Located'
      BY <1>1 DEF HandleSLIR, Located
    <2>3. pc' # "answered" => Columns'
      BY <1>1 DEF HandleSLIR, CreateRequest, Columns
    <2> QED
      BY <2>1, <2>2, <2>3 DEF Messages
  <1>2. CASE ClaimNextQueued
    <2>1. PICK s, n : row' = [row EXCEPT !.state = s, !.attempts = n]
      BY <1>2, Zenon DEF ClaimNextQueued
    <2>2. /\ pc = "queued" /\ pc' = "resolving" /\ asked' = asked /\ pos' = pos
          /\ UNCHANGED <<rir, plr, pla, last>>
      BY <1>2, Zenon DEF ClaimNextQueued, attempt
    <2>3. SameColumns
      BY <1>0, <2>1, <2>2, SetColumns, Zenon
    <2>4. ~Located'
      BY <1>0, <2>2 DEF Located
    <2> QED
      BY <1>0, <2>2, <2>3, <2>4, AttemptMessages
  <1>3. CASE SendRIR
    <2>1. CASE HandleError("permanent", None)
      BY <1>0, <1>3, <2>1, ErrorMessages DEF SendRIR
    <2>2. CASE ~HandleError("permanent", None)
      <3>1. /\ pc = "resolving" /\ pc' = "rir" /\ rir' = Identity
            /\ UNCHANGED <<asked, row, plr, pla, last, pos>>
        BY <1>3, <2>2 DEF SendRIR
      <3>2. SameColumns /\ ~Located'
        BY <1>0, <3>1 DEF SameColumns, Located
      <3> QED
        BY <1>0, <3>1, <3>2, AttemptMessages
    <2> QED
      BY <2>1, <2>2
  <1>4. CASE ResolveFails
    <2>1. PICK e \in RoundTripErrors : HandleError(ResolveError(e), None)
      BY <1>4 DEF ResolveFails
    <2> QED
      BY <1>0, <1>4, <2>1, ErrorMessages DEF ResolveFails
  <1>5. CASE ReceiveRIA
    <2>1. PICK a \in RIAs :
            \/ /\ row' = [row EXCEPT !.state = "locating"]
               /\ pc' = "locating"
               /\ UNCHANGED <<asked, rir, plr, pla, last, pos>>
            \/ HandleError("permanent", a)
      BY <1>5, Zenon DEF ReceiveRIA
    <2>2. pc = "rir" /\ row.state = "resolving"
      BY <1>5 DEF ReceiveRIA, IInv, Progress
    <2>3. CASE HandleError("permanent", a)
      BY <1>0, <2>2, <2>3, ErrorMessages
    <2>4. CASE ~HandleError("permanent", a)
      <3>0. pc' = "locating" /\ UNCHANGED <<asked, rir, plr, pla, last, pos>>
        BY <2>1, <2>4, Zenon
      <3>1. SameColumns
        BY <1>0, <2>1, <2>2, <2>4, SetColumns, Zenon
      <3>2. ~Located'
        BY <1>0, <2>2, <3>0 DEF Located
      <3> QED
        BY <1>0, <2>2, <3>0, <3>1, <3>2, AttemptMessages
    <2> QED
      BY <2>3, <2>4
  <1>6. CASE SendPLR
    <2>1. CASE HandleError("permanent", None)
      BY <1>0, <1>6, <2>1, ErrorMessages DEF SendPLR
    <2>2. CASE ~HandleError("permanent", None)
      <3>1. /\ pc = "locating" /\ pc' = "plr"
            /\ UNCHANGED <<asked, row, rir, pla, last, pos>>
        BY <1>6, <2>2 DEF SendPLR
      <3>2. SameColumns /\ ~Located'
        BY <1>0, <3>1 DEF SameColumns, Located
      <3>3. PICK known \in BOOLEAN : plr' = BuildPLR(known)
        BY <1>6, <2>2 DEF SendPLR
      <3>4. Built'
        BY <3>1, <3>3 DEF Built, BuildPLR
      <3> QED
        BY <1>0, <3>1, <3>2, <3>4, AttemptMessages
    <2> QED
      BY <2>1, <2>2
  <1>7. CASE LocateFails
    <2>1. PICK e \in RoundTripErrors : HandleError(e, None)
      BY <1>7 DEF LocateFails
    <2> QED
      BY <1>0, <1>7, <2>1, ErrorMessages DEF LocateFails
  <1>8. CASE ReceivePLA
    <2>1. PICK a \in PLAs :
            \/ /\ AcceptsPLA(a)
               /\ pla' = a
               /\ row' = IF RawLocationEstimate(a) = <<>> /\ a.ecgis = <<>>
                         THEN [row EXCEPT !.state = "failed", !.code = "no_immediate_result"]
                         ELSE [row EXCEPT !.state = "completed", !.result = Result(RawLocationEstimate(a))]
               /\ pc' = "settled"
               /\ UNCHANGED <<asked, node, rir, ria, plr, last, pos>>
            \/ ~AcceptsPLA(a) /\ HandleError("permanent", a)
      BY <1>8, Zenon DEF ReceivePLA
    <2>2. pc = "plr"
      BY <1>8 DEF ReceivePLA
    <2>3. CASE ~AcceptsPLA(a) /\ HandleError("permanent", a)
      BY <1>0, <2>2, <2>3, ErrorMessages
    <2>4. CASE ~(~AcceptsPLA(a) /\ HandleError("permanent", a))
      <3>1. /\ pla' = a /\ AcceptsPLA(a) /\ pc' = "settled"
            /\ UNCHANGED <<asked, rir, plr, last, pos>>
        BY <2>1, <2>4, Zenon
      <3>2. \/ row' = [row EXCEPT !.state = "failed", !.code = "no_immediate_result"]
            \/ row' = [row EXCEPT !.state = "completed", !.result = Result(RawLocationEstimate(a))]
        BY <2>1, <2>4, Zenon
      <3>3. SameColumns
        BY <1>0, <2>2, <3>2, SetColumns, Zenon
      <3>4. ~Located'
        BY <1>0, <2>2, <3>1 DEF Located
      <3> QED
        BY <1>0, <2>2, <3>1, <3>3, <3>4, AttemptMessages, Zenon
    <2> QED
      BY <2>3, <2>4
  <1>9. CASE BuildPos
    <2>1. /\ pc = "settled" /\ pc' = "answered"
          /\ UNCHANGED <<asked, row, rir, plr, pla, last>>
      BY <1>9 DEF BuildPos, attempt
    <2>2. Located' => pos'.radius = IF row.result.radius = None THEN 0 ELSE row.result.radius
      BY <1>9 DEF BuildPos, Located
    <2>3. SameColumns
      BY <2>1 DEF SameColumns
    <2>4. Columns' /\ Identity' = Identity /\ (Built => Built')
      BY <1>0, <2>1, <2>3, ColumnsKept
    <2> QED
      BY <2>1, <2>2, <2>4 DEF Messages
  <1>10. CASE UNCHANGED vars
    <2>1. UNCHANGED <<asked, row, pc, rir, plr, pla, last, pos>>
      BY <1>10 DEF vars, attempt
    <2>2. SameColumns /\ Located' = Located
      BY <2>1 DEF SameColumns, Located
    <2>3. (Columns => Columns') /\ Identity' = Identity /\ (Built => Built')
      BY <2>1, <2>2, ColumnsKept
    <2> QED
      BY <2>1, <2>2, <2>3 DEF Messages
  <1> QED
    BY <1>1, <1>2, <1>3, <1>4, <1>5, <1>6, <1>7, <1>8, <1>9, <1>10 DEF Next

LEMMA MessagesInvariance == Spec => [](IInv /\ Messages)
  <1>1. Init => Messages
    BY DEF Init, Messages, NoFailure, Located
  <1>2. IInv /\ Messages /\ [Next]_vars => Messages'
    BY MessagesStep
  <1> QED
    BY <1>1, <1>2, Invariance, PTL DEF Spec

-------------------------------------------------------------------------------
(* handleError, with the errors the SLh and SLg clients return: a deadline *)
(* never comes from the resolver, and a request is queued again only after *)
(* a call that brought no answer.                                          *)
THEOREM Finality == Spec => []AnswersAreFinal
  <1>1. IInv => AnswersAreFinal
    BY DEF IInv, Failures, AnswersAreFinal
  <1> QED
    BY <1>1, Invariance, PTL

-------------------------------------------------------------------------------
(* What a sequence of one element is *)
LEMMA Singleton ==
    ASSUME NEW S, NEW s \in Seq(S), Len(s) = 1
    PROVE  s[1] \in S /\ s = <<s[1]>>
  <1>1. s[1] \in S
    <2>1. 1 \in 1..Len(s)
      OBVIOUS
    <2> QED
      BY <2>1, ElementOfSeq, Zenon
  <1>2. /\ <<s[1]>> \in Seq(S) /\ Len(<<s[1]>>) = 1
        /\ \A i \in 1..1 : s[i] = <<s[1]>>[i]
    BY <1>1
  <1> QED
    BY <1>1, <1>2, SeqEqual, Zenon

(* A result with a centre is of a non-empty estimate that is no polygon *)
LEMMA Centred ==
    ASSUME NEW raw, Result(raw).centre # None
    PROVE  raw # <<>> /\ Shape(raw) # Polygon /\ Result(raw).centre = Centre(raw)
  BY Zenon DEF Result

(* Of the estimates of an accepted answer only the last may have octets *)
LEMMA OneEstimate ==
    ASSUME NEW a \in PLAs, AcceptsPayload(a), RawLocationEstimate(a) # <<>>
    PROVE  LET n == Len(a.estimates)
           IN /\ n \in 1..n
              /\ a.estimates[n].raw = RawLocationEstimate(a)
              /\ RawLocationEstimate(a) \in Seq(Octet)
              /\ \A j \in 1..n \ {n} : a.estimates[j].raw = <<>>
  <1> DEFINE es == a.estimates
             n == Len(es)
  <1>1. es \in Seq([typed : BOOLEAN, raw : Seq(0..255)])
    BY AVPsAssumption
  <1>2. es # <<>> /\ RawLocationEstimate(a) = es[n].raw
    BY DEF RawLocationEstimate
  <1>3. n \in Nat /\ n >= 1
    BY <1>1, <1>2
  <1>4. n \in 1..n
    BY <1>3
  <1>5. es[n] \in [typed : BOOLEAN, raw : Seq(0..255)]
    BY <1>1, <1>4, ElementOfSeq, Zenon
  <1>6. ASSUME NEW j \in 1..n \ {n}
        PROVE  es[j].raw = <<>>
    <2>1. j \in 1..(n - 1)
      BY <1>3
    <2> QED
      BY <2>1 DEF AcceptsPayload
  <1> QED
    BY <1>2, <1>4, <1>5, <1>6 DEF Octet

LEMMA One == \A k \in Nat \ {0} : k <= 1 => k = 1
  OBVIOUS

(* The only node of an accepted RIA with a realm *)
LEMMA OneNode ==
    ASSUME NEW a \in RIAs, AcceptsRIA(a), DecodeRIA(a).realm # ""
    PROVE  a.nodes = <<[names |-> <<DecodeRIA(a).host>>, realms |-> <<DecodeRIA(a).realm>>]>>
  <1> DEFINE n == a.nodes[1]
  <1>1. a.nodes \in Seq([names : Seq(STRING), realms : Seq(STRING)]) /\ Len(a.nodes) = 1
    BY AVPsAssumption, Zenon DEF AcceptsRIA
  <1>2. n \in [names : Seq(STRING), realms : Seq(STRING)] /\ a.nodes = <<n>>
    BY <1>1, Singleton, Zenon
  <1>3. n.names \in Seq(STRING) /\ n.realms \in Seq(STRING)
        /\ n = [names |-> n.names, realms |-> n.realms]
    BY <1>2, Zenon
  <1>4. Len(n.names) = 1 /\ Len(n.realms) <= 1
    BY Zenon DEF AcceptsRIA
  <1>5. n.realms # <<>> /\ DecodeRIA(a).realm = n.realms[1] /\ DecodeRIA(a).host = n.names[1]
    BY Zenon DEF DecodeRIA
  <1>6. Len(n.realms) = 1
    <2>1. Len(n.realms) \in Nat \ {0}
      BY <1>3, <1>5, EmptySeq, Zenon
    <2> QED
      BY <1>4, <2>1, One, Zenon
  <1>7. n.names = <<n.names[1]>> /\ n.realms = <<n.realms[1]>>
    BY <1>3, <1>4, <1>6, Singleton, Zenon
  <1> HIDE DEF n
  <1> QED
    BY <1>2, <1>3, <1>5, <1>7, Zenon

(* DecodePLA, decodePositioningPayload, DecodeRIA and BuildPLR: a position *)
(* is the one estimate of a successful answer to this attempt's PLR, which *)
(* named the subscriber of the RIR and went to the only MME of its answer. *)
THEOREM Traceability == Spec => []PositionTraceable
  <1>1. ASSUME IInv, Located
        PROVE  /\ pla.own /\ Success(pla)
               /\ \E i \in 1..Len(pla.estimates) :
                    /\ pla.estimates[i].raw # <<>>
                    /\ \A j \in 1..Len(pla.estimates) \ {i} : pla.estimates[j].raw = <<>>
               /\ plr.identity = rir
               /\ ria.own /\ Success(ria)
               /\ ria.nodes = <<[names |-> <<plr.host>>, realms |-> <<plr.realm>>]>>
    <2>1. Requested /\ Resolved /\ Routable
      BY <1>1 DEF IInv, Progress, Rendered, Traced, Requested
    <2>2. pla \in PLAs /\ AcceptsPLA(pla) /\ RawLocationEstimate(pla) # <<>>
      BY <1>1, Centred, Zenon DEF IInv, Progress, Rendered, Traced
    <2>3. pla.own /\ Success(pla) /\ AcceptsPayload(pla)
      BY <2>2 DEF AcceptsPLA
    <2>4. \E i \in 1..Len(pla.estimates) :
            /\ pla.estimates[i].raw # <<>>
            /\ \A j \in 1..Len(pla.estimates) \ {i} : pla.estimates[j].raw = <<>>
      BY <2>2, <2>3, OneEstimate, Zenon
    <2>5. plr.identity = rir
      BY <2>1 DEF Requested, Resolved
    <2>6. ria.own /\ Success(ria)
      BY <2>1, Zenon DEF Resolved, AcceptsRIA
    <2>7. ria.nodes = <<[names |-> <<plr.host>>, realms |-> <<plr.realm>>]>>
      BY <2>1, OneNode, Zenon DEF Requested, Resolved, Routable
    <2> QED
      BY <2>3, <2>4, <2>5, <2>6, <2>7
  <1>2. IInv => PositionTraceable
    BY <1>1 DEF PositionTraceable
  <1> QED
    BY <1>2, Invariance, PTL

-------------------------------------------------------------------------------
(* MilliArcSec is the nearest whole number in the terms of Nearest too *)
LEMMA NearestCode ==
    ASSUME NEW code \in Nat, NEW step \in {LatitudeStep, LongitudeStep}, NEW mas \in Nat,
           2 * (code * 1265625) < 2 * (mas * step) + step,
           2 * (mas * step) <= 2 * (code * 1265625) + step
    PROVE  Nearest(mas, code, step)
  <1>1. CASE step = LatitudeStep
    BY <1>1, SMTT(60) DEF LatitudeStep, Nearest
  <1>2. CASE step = LongitudeStep
    BY <1>2, SMTT(60) DEF LongitudeStep, Nearest
  <1> QED
    BY <1>1, <1>2, SMT

(* The range of a coordinate on the globe, in thousandths of a second *)
Limit(step) == IF step = LatitudeStep THEN 324000000 ELSE 648000000

(* What encodeDMSH prints of a total *)
LEMMA Printed ==
    ASSUME NEW total \in Nat, NEW rem, rem = total - (total \div 3600000) * 3600000,
           NEW c, c.deg = total \div 3600000, c.min = rem \div 60000,
           c.msec = rem - (rem \div 60000) * 60000
    PROVE  /\ c.min \in 0..59 /\ c.msec \in Nat /\ c.msec < 60000
           /\ 3600000 * c.deg + 60000 * c.min + c.msec = total
  BY Sexagesimal, SMT

(* encodeDMSH shows a coordinate on the globe *)
LEMMA Shown ==
    ASSUME NEW code \in Int, NEW step \in {LatitudeStep, LongitudeStep},
           NEW positiveHemi \in {"N", "E"}, NEW negativeHemi \in {"S", "W"},
           -SignBit <= code, code <= SignBit
    PROVE  Shows(EncodeDMSH(code, step, positiveHemi, negativeHemi),
                 code, step, Limit(step), positiveHemi, negativeHemi)
  <1> DEFINE size == IF code < 0 THEN -code ELSE code
             c == EncodeDMSH(code, step, positiveHemi, negativeHemi)
             total == MilliArcSec(size, step)
  <1>1. size \in Nat /\ size <= SignBit
    BY SMT DEF SignBit
  <1>2. /\ total \in Nat
        /\ 2 * (size * 1265625) < 2 * (total * step) + step
        /\ 2 * (total * step) <= 2 * (size * 1265625) + step
    BY <1>1, Rounding, SMT
  <1>3. /\ c.min \in 0..59 /\ c.msec \in Nat /\ c.msec < 60000
        /\ 3600000 * c.deg + 60000 * c.min + c.msec = total
    <2> DEFINE rem == total - (total \div 3600000) * 3600000
    <2>1. /\ c.deg = total \div 3600000 /\ c.min = rem \div 60000
          /\ c.msec = rem - (rem \div 60000) * 60000
      BY SMT DEF EncodeDMSH
    <2> HIDE DEF c, total
    <2> QED
      BY <1>2, <2>1, Printed, SMT
  <1>4. c.hemi = IF code < 0 THEN negativeHemi ELSE positiveHemi
    BY SMT DEF EncodeDMSH
  <1> HIDE DEF c, total
  <1>5. total <= Limit(step)
    <2>1. CASE step = LatitudeStep
      BY <1>1, <1>2, <2>1, SMT DEF Limit, LatitudeStep, SignBit
    <2>2. CASE step = LongitudeStep
      BY <1>1, <1>2, <2>2, SMT DEF Limit, LatitudeStep, LongitudeStep, SignBit
    <2> QED
      BY <2>1, <2>2, SMT
  <1> HIDE DEF size
  <1>6. Nearest(total, size, step)
    BY <1>1, <1>2, NearestCode, SMT
  <1>7. Shows(c, code, step, Limit(step), positiveHemi, negativeHemi)
    BY <1>3, <1>4, <1>5, <1>6, SMT DEF Shows, size
  <1> QED
    BY <1>7 DEF c

LEMMA AtLeastSeven == \A n : n = 7 \/ n = 8 \/ n = 11 => 1..7 \subseteq 1..n
  OBVIOUS

(* The octets of an accepted estimate that has a centre *)
LEMMA SevenOctets ==
    ASSUME NEW raw \in Seq(Octet), Decodes(raw), Shape(raw) # Polygon
    PROVE  \A i \in 1..7 : raw[i] \in Octet
  <1>1. Len(raw) = 7 \/ Len(raw) = 8 \/ Len(raw) = 11
    BY Zenon DEF Decodes
  <1>2. 1..7 \subseteq 1..Len(raw)
    BY <1>1, AtLeastSeven, Zenon
  <1> QED
    BY <1>2, ElementOfSeq, Zenon

(* decodePoint in the terms of PositionRendered *)
LEMMA Codes ==
    ASSUME NEW a \in Octet, NEW b \in Octet, NEW c \in Octet
    PROVE  LET u == 65536 * a + 256 * b + c
           IN /\ Latitude(Uint24(a, b, c)) = IF u < 8388608 THEN u ELSE 8388608 - u
              /\ Longitude(Uint24(a, b, c)) = IF u < 8388608 THEN u ELSE u - 16777216
              /\ Latitude(Uint24(a, b, c)) \in Int /\ Longitude(Uint24(a, b, c)) \in Int
              /\ -SignBit <= Latitude(Uint24(a, b, c)) /\ Latitude(Uint24(a, b, c)) <= SignBit
              /\ -SignBit <= Longitude(Uint24(a, b, c)) /\ Longitude(Uint24(a, b, c)) <= SignBit
  <1>1. 65536 * a + 256 * b + c \in Nat /\ 65536 * a + 256 * b + c < 16777216
    BY SMT DEF Octet
  <1>2. Uint24(a, b, c) = 65536 * a + 256 * b + c
    BY SMT DEF Uint24
  <1>3. ASSUME NEW u \in Nat, u < 16777216
        PROVE  /\ Latitude(u) = IF u < 8388608 THEN u ELSE 8388608 - u
               /\ Longitude(u) = IF u < 8388608 THEN u ELSE u - 16777216
               /\ Latitude(u) \in Int /\ Longitude(u) \in Int
               /\ -SignBit <= Latitude(u) /\ Latitude(u) <= SignBit
               /\ -SignBit <= Longitude(u) /\ Longitude(u) <= SignBit
    BY <1>3, SMT DEF Latitude, Longitude, SignBit
  <1> QED
    BY <1>1, <1>2, <1>3, SMT

(* buildPos and encodeDMSH: the coordinates answered to the client are     *)
(* those of the estimate's octets to half a thousandth of a second, in     *)
(* range and in the right hemisphere.                                      *)
THEOREM Rendering == Spec => []PositionRendered
  <1>1. ASSUME IInv, Located
        PROVE  PositionRendered
    <2> DEFINE raw == Estimate
               la == Latitude(Uint24(raw[2], raw[3], raw[4]))
               lo == Longitude(Uint24(raw[5], raw[6], raw[7]))
               lat == 65536 * raw[2] + 256 * raw[3] + raw[4]
               lon == 65536 * raw[5] + 256 * raw[6] + raw[7]
    <2>1. /\ pla \in PLAs /\ AcceptsPLA(pla)
          /\ row.result = Result(raw) /\ Result(raw).centre # None
          /\ pos.x = EncodeDMSH(row.result.centre.lat, LatitudeStep, "N", "S")
          /\ pos.y = EncodeDMSH(row.result.centre.lon, LongitudeStep, "E", "W")
      BY <1>1, Zenon DEF IInv, Progress, Rendered, Traced, Estimate
    <2>2. raw # <<>> /\ Shape(raw) # Polygon /\ Result(raw).centre = Centre(raw)
      BY <2>1, Centred, Zenon
    <2>3. Decodes(raw) /\ AcceptsPayload(pla)
      BY <2>1, <2>2, Zenon DEF AcceptsPLA, Estimate
    <2>4. raw \in Seq(Octet)
      BY <2>1, <2>2, <2>3, OneEstimate, Zenon DEF Estimate
    <2> HIDE DEF raw
    <2>5. /\ raw[2] \in Octet /\ raw[3] \in Octet /\ raw[4] \in Octet
          /\ raw[5] \in Octet /\ raw[6] \in Octet /\ raw[7] \in Octet
      BY <2>2, <2>3, <2>4, SevenOctets
    <2>6. /\ la = IF lat < 8388608 THEN lat ELSE 8388608 - lat
          /\ lo = IF lon < 8388608 THEN lon ELSE lon - 16777216
      BY <2>5, Codes, SMT
    <2>7. /\ la \in Int /\ -SignBit <= la /\ la <= SignBit
          /\ lo \in Int /\ -SignBit <= lo /\ lo <= SignBit
      BY <2>5, Codes, SMT
    <2>8. pos.x = EncodeDMSH(la, LatitudeStep, "N", "S")
          /\ pos.y = EncodeDMSH(lo, LongitudeStep, "E", "W")
      BY <2>1, <2>2 DEF Centre
    <2> HIDE DEF la, lo, lat, lon
    <2>9. Shows(pos.x, la, LatitudeStep, Limit(LatitudeStep), "N", "S")
      BY <2>7, <2>8, Shown, Zenon
    <2>10. Shows(pos.y, lo, LongitudeStep, Limit(LongitudeStep), "E", "W")
      BY <2>7, <2>8, Shown, Zenon
    <2>11. /\ LatitudeStep = 32768 /\ Limit(LatitudeStep) = 324000000
           /\ LongitudeStep = 16384 /\ Limit(LongitudeStep) = 648000000
      BY SMT DEF LatitudeStep, LongitudeStep, Limit
    <2>12. /\ Shows(pos.x, IF lat < 8388608 THEN lat ELSE 8388608 - lat, 32768, 324000000, "N", "S")
           /\ Shows(pos.y, IF lon < 8388608 THEN lon ELSE lon - 16777216, 16384, 648000000, "E", "W")
      BY <2>6, <2>9, <2>10, <2>11, SMT
    <2> QED
      BY <2>12, SMT DEF PositionRendered, lat, lon, raw
  <1>2. IInv => PositionRendered
    BY <1>1, SMT DEF PositionRendered
  <1> QED
    BY <1>2, Invariance, PTL

-------------------------------------------------------------------------------
(* What the request says *)

(* The digits Validate lets pass *)
LEMMA DigitsAsked ==
    ASSUME NEW s \in Slirs, Accepted(s)
    PROVE  s.value \in Seq(Digit)
  <1>1. s.value \in Seq(Nat) /\ \A i \in 1..Len(s.value) : s.value[i] \in Digit
    BY ElementsAssumption, Zenon DEF Accepted, Validate, IsDigits
  <1> QED
    BY <1>1, SeqOfFunction

(* The response times of what resolveImmediate accepts *)
LEMMA ResponseTimes ==
    ASSUME NEW s \in Slirs, Accepted(s)
    PROVE  /\ RespTime(s) \in {None, 0, 1}
           /\ RespTime(s) = None <=> s.respReq = None
           /\ RespTime(s) = 0 <=> s.respReq \in {"LOW_DELAY", "NO_DELAY"}
           /\ RespTime(s) = 1 <=> s.respReq \in {"", "DELAY_TOL"}
  <1>1. None # 0 /\ None # 1 /\ 0 # 1
    BY NoneAssumption
  <1>2. None # "" /\ None # "DELAY_TOL" /\ None # "LOW_DELAY" /\ None # "NO_DELAY"
    BY AbsentAssumption, Zenon
  <1>3. s.respReq \in {None, "", "DELAY_TOL", "LOW_DELAY", "NO_DELAY"}
    BY Zenon DEF Accepted
  <1>4. CASE s.respReq = None
    <2>1. RespTime(s) = None
      BY <1>2, <1>4, Zenon DEF RespTime
    <2> QED
      BY <1>1, <1>2, <1>4, <2>1, Zenon
  <1>5. CASE s.respReq = "" \/ s.respReq = "DELAY_TOL"
    <2>1. RespTime(s) = 1
      BY <1>2, <1>5, Zenon DEF RespTime
    <2> QED
      BY <1>1, <1>2, <1>5, <2>1, Zenon
  <1>6. CASE s.respReq = "LOW_DELAY" \/ s.respReq = "NO_DELAY"
    <2>1. RespTime(s) = 0
      BY <1>2, <1>6, Zenon DEF RespTime
    <2> QED
      BY <1>1, <1>2, <1>6, <2>1, Zenon
  <1> QED
    BY <1>3, <1>4, <1>5, <1>6, Zenon

(* parseEQoP, the columns, scanQoS and qosGroup: an LCS-QoS goes out if    *)
(* something was asked, with what was asked                                *)
LEMMA QoSAsked ==
    ASSUME NEW s \in Slirs, Accepted(s)
    PROVE  LET q == QoSGroup(ScanQoS(ParseEQoP(s)))
           IN /\ q = None <=> (s.horAcc = None /\ s.respReq = None)
              /\ q # None => /\ q.respTime = RespTime(s)
                             /\ s.horAcc # None => q.hAcc = EncodeUncertaintyValue(s.horAcc)
  <1> DEFINE h == s.horAcc
             t == RespTime(s)
             code == IF h = None THEN None ELSE EncodeUncertaintyValue(h)
             q == QoSGroup(ScanQoS(ParseEQoP(s)))
  <1>1. ParseEQoP(s) = [hAcc |-> h, respTime |-> t]
    BY DEF ParseEQoP
  <1>2. t \in {None, 0, 1} /\ (t = None <=> s.respReq = None)
    BY ResponseTimes, Zenon
  <1>3. code \in 0..MaxUncertaintyCode \cup {None}
    <2>1. h \in Int \cup {None}
      BY ElementsAssumption, Zenon DEF Accepted
    <2>2. CASE h = None
      BY <2>2
    <2>3. CASE h # None /\ h <= 0
      BY <2>3, CodeAssumption DEF EncodeUncertaintyValue
    <2>4. CASE h # None /\ ~(h <= 0)
      <3>1. h \in Int /\ h > 0
        BY <2>1, <2>4
      <3> QED
        BY <2>4, <3>1, PowersAssumption, AccuracyEncoded
    <2> QED
      BY <2>2, <2>3, <2>4
  <1> HIDE DEF h, t
  <1>4. CASE h = None /\ t = None
    BY <1>1, <1>2, <1>4 DEF QoSGroup, ScanQoS, h
  <1>5. CASE ~(h = None /\ t = None)
    <2>1. ScanQoS(ParseEQoP(s)) = [hAcc |-> h, respTime |-> t]
      BY <1>1, <1>5 DEF ScanQoS
    <2>2. [hAcc |-> h, respTime |-> t] # None /\ [hAcc |-> code, respTime |-> t] # None
      BY <1>2, <1>3, NoneAssumption, Zenon DEF h
    <2>3. q = [hAcc |-> code, respTime |-> t]
      BY <2>1, <2>2 DEF QoSGroup
    <2> QED
      BY <1>2, <1>5, <2>2, <2>3 DEF h, t
  <1> QED
    BY <1>4, <1>5

(* parseLocType and parsePrio *)
LEMMA ElementsAsked ==
    ASSUME NEW s
    PROVE  /\ ParseLocType(s) = 1 <=> s.locType = "CURRENT_OR_LAST"
           /\ ParsePrio(s) = 0 <=> s.prio = "HIGH"
  BY NoneAssumption DEF ParseLocType, ParsePrio

(* RequestCarried holds on every attempt, whatever clients may ask: what   *)
(* parseEQoP, the columns of location_requests, scanQoS, qosGroup and      *)
(* EncodeMSISDN make of a request loses and adds nothing.                  *)
THEOREM Carrying == Spec => []RequestCarried
  <1>1. ASSUME Messages, rir # None
        PROVE  IF asked.type = "IMSI" THEN rir = [imsi |-> asked.value, msisdn |-> None]
               ELSE /\ rir.imsi = None
                    /\ IsTBCD(rir.msisdn) /\ DecodeMSISDN(rir.msisdn) = asked.value
    <2>1. Columns /\ rir = Identity
      BY <1>1 DEF Messages
    <2>2. asked.value \in Seq(Digit)
      BY <2>1, DigitsAsked DEF Columns
    <2>3. /\ row.kind = "imsi" <=> asked.type = "IMSI"
          /\ row.value = asked.value
      BY <2>1 DEF Columns, Kind
    <2>4. IsTBCD(EncodeMSISDN(asked.value)) /\ DecodeMSISDN(EncodeMSISDN(asked.value)) = asked.value
      BY <2>2, MsisdnRoundTrip
    <2> QED
      BY <2>1, <2>3, <2>4 DEF Identity
  <1>2. ASSUME Messages, plr # None
        PROVE  /\ plr.locationType = 1 <=> asked.locType = "CURRENT_OR_LAST"
               /\ plr.priority = 0 <=> asked.prio = "HIGH"
               /\ plr.qos = None <=> (asked.horAcc = None /\ asked.respReq = None)
               /\ (plr.qos # None /\ plr.qos.respTime = 0) <=> asked.respReq \in {"LOW_DELAY", "NO_DELAY"}
               /\ (plr.qos # None /\ plr.qos.respTime = 1) <=> asked.respReq \in {"", "DELAY_TOL"}
               /\ <<plr.clientType, plr.privacy>> \in {<<ClientType, PrivacyCheck>>, <<1, None>>}
    <2>1. Columns /\ Built
      BY <1>2 DEF Messages
    <2>2. /\ asked \in Slirs /\ Accepted(asked)
          /\ plr.locationType = ParseLocType(asked) /\ plr.priority = ParsePrio(asked)
          /\ plr.qos = QoSGroup(ScanQoS(ParseEQoP(asked)))
          /\ <<plr.clientType, plr.privacy>> \in {<<ClientType, PrivacyCheck>>, <<1, None>>}
      BY <2>1, Zenon DEF Columns, Built
    <2>3. /\ plr.qos = None <=> (asked.horAcc = None /\ asked.respReq = None)
          /\ plr.qos # None => plr.qos.respTime = RespTime(asked)
      BY <2>2, QoSAsked, Zenon
    <2>4. /\ ParseLocType(asked) = 1 <=> asked.locType = "CURRENT_OR_LAST"
          /\ ParsePrio(asked) = 0 <=> asked.prio = "HIGH"
      BY ElementsAsked, Zenon
    <2>5. /\ RespTime(asked) = None <=> asked.respReq = None
          /\ RespTime(asked) = 0 <=> asked.respReq \in {"LOW_DELAY", "NO_DELAY"}
          /\ RespTime(asked) = 1 <=> asked.respReq \in {"", "DELAY_TOL"}
      BY <2>2, ResponseTimes, Zenon
    <2>6. None # 0 /\ None # 1
      BY NoneAssumption
    <2>7. ASSUME NEW n \in {0, 1}
          PROVE  (plr.qos # None /\ plr.qos.respTime = n) <=> RespTime(asked) = n
      <3>1. RespTime(asked) = n => asked.respReq # None
        BY <2>5, <2>6, Zenon
      <3> QED
        BY <2>3, <3>1, Zenon
    <2>8. /\ (plr.qos # None /\ plr.qos.respTime = 0) <=> RespTime(asked) = 0
          /\ (plr.qos # None /\ plr.qos.respTime = 1) <=> RespTime(asked) = 1
      BY <2>7
    <2> QED
      BY <2>2, <2>3, <2>4, <2>5, <2>8, Zenon
  <1>3. Messages => RequestCarried
    BY <1>1, <1>2, Zenon DEF RequestCarried
  <1> QED
    BY <1>3, MessagesInvariance, PTL

-------------------------------------------------------------------------------
(* Accuracy and shapes *)

(* The uncertainty of a stored result *)
LEMMA RadiusOf ==
    ASSUME NEW raw, Result(raw).centre # None
    PROVE  Result(raw).radius = IF Shape(raw) = 1 THEN UncertaintyMeters(raw[8]) ELSE None
  BY Centred DEF Result, UncertaintyCircle

(* The octet of a circle's uncertainty *)
LEMMA CircleOctet ==
    ASSUME NEW a \in PLAs, AcceptsPLA(a), RawLocationEstimate(a) # <<>>,
           Shape(RawLocationEstimate(a)) = 1
    PROVE  /\ RawLocationEstimate(a)[8] \in Octet
           /\ Powers(RawLocationEstimate(a)[8] % 128)
  <1> DEFINE raw == RawLocationEstimate(a)
             n == Len(a.estimates)
  <1>1. AcceptsPayload(a) /\ Decodes(raw)
    BY Zenon DEF AcceptsPLA
  <1>2. n \in 1..n /\ a.estimates[n].raw = raw /\ raw \in Seq(Octet)
    BY <1>1, OneEstimate
  <1> HIDE DEF raw
  <1>3. Len(raw) = 8
    BY <1>1 DEF raw, Decodes, EllipsoidPoint, UncertaintyCircle, UncertaintyEllipse, Polygon
  <1>4. raw[8] \in Octet
    <2>1. 8 \in 1..Len(raw)
      BY <1>3
    <2> QED
      BY <1>2, <2>1, ElementOfSeq, Zenon
  <1>5. Powers(raw[8] % 128)
    BY <1>2, <1>3, PowersAssumption, Zenon
  <1> QED
    BY <1>4, <1>5 DEF raw

(* AccuracyKept holds for every accuracy asked and every circle answered:  *)
(* EncodeUncertaintyValue never asks the network for a looser bound than   *)
(* the request, the next code stands for at least what was asked, and      *)
(* buildPos answers the radius of the estimate to half a metre.            *)
THEOREM Accuracy == Spec => []AccuracyKept
  <1>1. ASSUME Messages, plr # None, asked.horAcc # None
        PROVE  IF asked.horAcc <= 0 THEN plr.qos.hAcc = 0
               ELSE /\ Within(plr.qos.hAcc, asked.horAcc)
                    /\ plr.qos.hAcc = MaxUncertaintyCode \/ AtLeast(plr.qos.hAcc + 1, asked.horAcc)
    <2>1. Columns /\ Built
      BY <1>1 DEF Messages
    <2>2. asked \in Slirs /\ Accepted(asked) /\ plr.qos = QoSGroup(ScanQoS(ParseEQoP(asked)))
      BY <2>1, Zenon DEF Columns, Built
    <2>3. plr.qos.hAcc = EncodeUncertaintyValue(asked.horAcc)
      BY <1>1, <2>2, QoSAsked, Zenon
    <2>4. asked.horAcc \in Int
      BY <1>1, <2>2, ElementsAssumption, Zenon DEF Accepted
    <2>5. CASE asked.horAcc <= 0
      BY <2>3, <2>5 DEF EncodeUncertaintyValue
    <2>6. CASE ~(asked.horAcc <= 0)
      <3>1. asked.horAcc > 0
        BY <2>4, <2>6
      <3> QED
        BY <2>3, <2>4, <2>6, <3>1, PowersAssumption, AccuracyEncoded
    <2> QED
      BY <2>5, <2>6
  <1>2. ASSUME IInv, Messages, Located
        PROVE  IF Estimate[1] % 16 # 1 THEN pos.radius = 0
               ELSE LET k == Estimate[8] % 128
                        e == (pos.radius + 10) * 10 ^ k - 10 * 11 ^ k
                    IN -(10 ^ k) <= 2 * e /\ 2 * e <= 10 ^ k
    <2>1. /\ pla \in PLAs /\ AcceptsPLA(pla)
          /\ row.result = Result(Estimate) /\ Result(Estimate).centre # None
      BY <1>2, Zenon DEF IInv, Progress, Rendered, Traced, Estimate
    <2>2. Estimate # <<>> /\ Estimate = RawLocationEstimate(pla)
      BY <2>1, Centred, Zenon DEF Estimate
    <2>3. pos.radius = IF row.result.radius = None THEN 0 ELSE row.result.radius
      BY <1>2 DEF Messages
    <2>4. row.result.radius = IF Shape(Estimate) = 1 THEN UncertaintyMeters(Estimate[8]) ELSE None
      BY <2>1, RadiusOf
    <2>5. CASE Estimate[1] % 16 # 1
      BY <2>3, <2>4, <2>5 DEF Shape
    <2>6. CASE Estimate[1] % 16 = 1
      <3>1. Shape(Estimate) = 1
        BY <2>6 DEF Shape
      <3>2. Estimate[8] \in Octet /\ Powers(Estimate[8] % 128)
        BY <2>1, <2>2, <3>1, CircleOctet, Zenon
      <3>3. UncertaintyMeters(Estimate[8]) # None
        BY <3>2, RadiusDecoded, NoneAssumption
      <3>4. pos.radius = UncertaintyMeters(Estimate[8])
        BY <2>3, <2>4, <3>1, <3>3
      <3> QED
        BY <2>6, <3>2, <3>4, RadiusDecoded
    <2> QED
      BY <2>5, <2>6
  <1>3. IInv /\ Messages => AccuracyKept
    BY <1>1, <1>2 DEF AccuracyKept
  <1> QED
    BY <1>3, MessagesInvariance, PTL

LEMMA HalfOctet == \A o \in 0..255 : o \div 16 \in 0..15
  OBVIOUS

(* gad.Decode takes the layouts of the shapes advertised and no others. *)
LEMMA LayoutsDecoded ==
    ASSUME NEW raw \in Seq(Octet), raw # <<>>
    PROVE  Decodes(raw) <=> \E n \in SupportedGADShapes : StandardLayout(raw, n)
  <1>1. Len(raw) > 0 /\ raw[1] \in 0..255
    <2>1. Len(raw) \in Nat \ {0}
      BY EmptySeq, Zenon
    <2>2. 1 \in 1..Len(raw) /\ Len(raw) > 0
      BY <2>1
    <2> QED
      BY <2>2, ElementOfSeq, Zenon DEF Octet
  <1>2. raw[1] \div 16 \in 0..15
    BY <1>1, HalfOctet, Zenon
  <1>3. /\ StandardLayout(raw, 0) <=> (Shape(raw) = EllipsoidPoint /\ Len(raw) = 7)
        /\ StandardLayout(raw, 1) <=> (Shape(raw) = UncertaintyCircle /\ Len(raw) = 8)
    <2>1. StandardLayout(raw, 0) <=> (raw[1] % 16 = 0 /\ Len(raw) = 7)
      BY DEF StandardLayout
    <2>2. StandardLayout(raw, 1) <=> (raw[1] % 16 = 1 /\ Len(raw) = 8)
      BY DEF StandardLayout
    <2> QED
      BY <2>1, <2>2 DEF Shape, EllipsoidPoint, UncertaintyCircle
  <1>4. StandardLayout(raw, 2) <=> (Shape(raw) = UncertaintyEllipse /\ Len(raw) = 11 /\ raw[10] < 180)
    BY DEF StandardLayout, Shape, UncertaintyEllipse
  <1>5. StandardLayout(raw, 3)
          <=> (Shape(raw) = Polygon /\ Vertices(raw) >= 3 /\ Len(raw) = 1 + 6 * Vertices(raw))
    <2>1. StandardLayout(raw, 3)
            <=> (raw[1] % 16 = 5 /\ raw[1] \div 16 \in 3..15 /\ Len(raw) = 1 + 6 * (raw[1] \div 16))
      BY DEF StandardLayout
    <2> QED
      BY <1>2, <2>1 DEF Shape, Vertices, Polygon
  <1> QED
    BY <1>1, <1>3, <1>4, <1>5 DEF Decodes, SupportedGADShapes

(* ShapesAsAdvertised holds for every answer: supportedGADShapesMask and   *)
(* gad.Decode name the same shapes, so that an MME which sends what the    *)
(* PLR asks for is never refused and nothing else is stored.               *)
THEOREM ShapesInSync == Spec => []ShapesAsAdvertised
  <1>1. ASSUME Messages, pla # None, Estimate # <<>>
        PROVE  \E n \in plr.shapes : StandardLayout(Estimate, n)
    <2>1. pla \in PLAs /\ AcceptsPLA(pla) /\ plr.shapes = SupportedGADShapes
      BY <1>1 DEF Messages, Built
    <2>2. Decodes(Estimate) /\ Estimate \in Seq(Octet)
      BY <1>1, <2>1, OneEstimate, Zenon DEF AcceptsPLA, Estimate
    <2> QED
      BY <1>1, <2>1, <2>2, LayoutsDecoded
  <1>2. ASSUME Messages, last.stage = "locating", last.answer # None,
               NEW a, a = last.answer,
               a.answer, a.own, Success(a), Len(a.estimates) = 1, a.estimates[1].typed, a.ecgis = <<>>
        PROVE  \A n \in SupportedGADShapes : ~StandardLayout(a.estimates[1].raw, n)
    <2> DEFINE raw == a.estimates[1].raw
    <2>1. a \in PLAs /\ ~AcceptsPLA(a)
      BY <1>2 DEF Messages
    <2>2. a.estimates \in Seq([typed : BOOLEAN, raw : Seq(0..255)])
      BY <2>1, AVPsAssumption
    <2>3. a.estimates[1] \in [typed : BOOLEAN, raw : Seq(0..255)] /\ a.estimates = <<a.estimates[1]>>
      BY <1>2, <2>2, Singleton, Zenon
    <2>4. RawLocationEstimate(a) = raw /\ raw \in Seq(Octet)
      BY <1>2, <2>2, <2>3 DEF RawLocationEstimate, Octet
    <2>5. AcceptsPayload(a)
      BY <1>2 DEF AcceptsPayload
    <2>6. raw # <<>> /\ ~Decodes(raw)
      BY <1>2, <2>1, <2>4, <2>5, Zenon DEF AcceptsPLA
    <2> HIDE DEF raw
    <2>7. \A n \in SupportedGADShapes : ~StandardLayout(raw, n)
      BY <2>4, <2>6, LayoutsDecoded, Zenon
    <2> QED
      BY <2>7 DEF raw
  <1>3. Messages => ShapesAsAdvertised
    BY <1>1, <1>2, Zenon DEF ShapesAsAdvertised
  <1> QED
    BY <1>3, MessagesInvariance, PTL
===============================================================================
