-------------------------------- MODULE Codecs --------------------------------
(***************************************************************************)
(* The conversions a location passes through between the MLP client and    *)
(* the network, as functions of octets and integers: TBCD digits           *)
(* (internal/slh), the shapes of TS 23.032 (internal/gad) and the DMSH      *)
(* coordinates of MLP (internal/mlp/dtd.go).                                *)
(*                                                                         *)
(* A coordinate is kept as the code it has on the wire: a latitude is      *)
(* code * 90 / 2^23 degrees, a longitude code * 180 / 2^23.  The code's    *)
(* float64 arithmetic on them is exact: a code has 24 bits, and the odd     *)
(* parts of 90, 360, 3600 and 1000 add 21 more.                             *)
(***************************************************************************)
EXTENDS Integers, Sequences

CONSTANTS
    MaxUncertaintyCode,   \* 127 in the code: the 7 bits of an uncertainty code
    Parts,                \* an accuracy is a number of 1 / Parts metres
    FallsShort            \* the codes that the metres they stand for do not get:
                          \* 2..127 with the logarithms of the Go library

ASSUME CodeAssumption ==
    /\ MaxUncertaintyCode \in Nat /\ Parts \in Nat \ {0}
    /\ FallsShort \subseteq 1..MaxUncertaintyCode

-------------------------------------------------------------------------------
(* internal/slh: digits are packed two to an octet, the first one low.  A  *)
(* character is its distance from '0', so the digits are 0..9.             *)

Digit == 0..9

Filler == 15

IsDigits(s) == \A i \in 1..Len(s) : s[i] \in Digit

(* Mutant: the two digits of an octet are swapped *)
EncodeMSISDN_Swapped(s) ==
    [i \in 1..((Len(s) + 1) \div 2) |->
        16 * s[2 * i - 1] + (IF 2 * i <= Len(s) THEN s[2 * i] ELSE Filler)]

(* EncodeMSISDN, for the 1 to 15 digits it accepts *)
EncodeMSISDN(s) ==
    [i \in 1..((Len(s) + 1) \div 2) |->
        s[2 * i - 1] + 16 * (IF 2 * i <= Len(s) THEN s[2 * i] ELSE Filler)]

(* The octets DecodeMSISDN accepts: the filler is the last half octet only *)
IsTBCD(b) ==
    \A i \in 1..Len(b) :
        /\ b[i] % 16 \in Digit
        /\ b[i] \div 16 \in Digit \/ (b[i] \div 16 = Filler /\ i = Len(b))

(* DecodeMSISDN *)
DecodeMSISDN(b) ==
    LET filled == Len(b) > 0 /\ b[Len(b)] \div 16 = Filler
    IN [j \in 1..(IF filled THEN 2 * Len(b) - 1 ELSE 2 * Len(b)) |->
            IF j % 2 = 1 THEN b[(j + 1) \div 2] % 16 ELSE b[j \div 2] \div 16]

-------------------------------------------------------------------------------
(* internal/gad *)

EllipsoidPoint == 0

UncertaintyCircle == 1

UncertaintyEllipse == 3

Polygon == 5

Shape(data) == data[1] % 16

Vertices(data) == data[1] \div 16

(* Mutant: the ellipse is not decoded *)
Decodes_NoEllipse(data) ==
    /\ Len(data) > 0
    /\ \/ Shape(data) = EllipsoidPoint /\ Len(data) = 7
       \/ Shape(data) = UncertaintyCircle /\ Len(data) = 8
       \/ Shape(data) = Polygon /\ Vertices(data) >= 3 /\ Len(data) = 1 + 6 * Vertices(data)

(* Decode returns no error *)
Decodes(data) ==
    /\ Len(data) > 0
    /\ \/ Shape(data) = EllipsoidPoint /\ Len(data) = 7
       \/ Shape(data) = UncertaintyCircle /\ Len(data) = 8
       \/ Shape(data) = UncertaintyEllipse /\ Len(data) = 11 /\ data[10] < 180
       \/ Shape(data) = Polygon /\ Vertices(data) >= 3 /\ Len(data) = 1 + 6 * Vertices(data)

SignBit == 8388608   \* 2^23

Uint24(a, b, c) == 65536 * a + 256 * b + c

(* Mutant: the latitude is read as a two's complement, like the longitude *)
Latitude_TwosComplement(raw) == IF raw >= SignBit THEN raw - 2 * SignBit ELSE raw

(* decodePoint: a latitude is sign and magnitude, a longitude two's complement *)
Latitude(raw) == IF raw >= SignBit THEN SignBit - raw ELSE raw

Longitude(raw) == IF raw >= SignBit THEN raw - 2 * SignBit ELSE raw

(* The centre of a point, a circle or an ellipse *)
Centre(data) == [lat |-> Latitude(Uint24(data[2], data[3], data[4])),
                 lon |-> Longitude(Uint24(data[5], data[6], data[7]))]

(* What the powers are of which the uncertainty codes are made *)
Powers(k) ==
    /\ 10 ^ k \in Nat \ {0} /\ 11 ^ k \in Nat
    /\ k = 0 => 10 ^ k = 1 /\ 11 ^ k = 1
    /\ k > 0 => 10 ^ (k - 1) \in Nat \ {0} /\ 10 ^ k = 10 * 10 ^ (k - 1)

(* Uncertainty code k stands for 10 * (1.1^k - 1) metres: at most, and at  *)
(* least, m parts                                                          *)
Within(k, m) == 10 * Parts * 11 ^ k <= (m + 10 * Parts) * 10 ^ k

AtLeast(k, m) == (m + 10 * Parts) * 10 ^ k <= 10 * Parts * 11 ^ k

(* math.Log(m/10 + 1) / math.Log(1.1) is at least k.  The float64 nearest  *)
(* to 1.1 is above it, so that the quotient for the metres of a code is    *)
(* below the code by a few roundings; no other number with few decimals is *)
(* that near to one.                                                       *)
Reaches(k, m) == IF k \in FallsShort THEN ~AtLeast(k, m) ELSE Within(k, m)

(* Mutant: the code is rounded up, not down *)
EncodeUncertaintyValue_Ceil(m) ==
    IF m <= 0 THEN 0
    ELSE CHOOSE k \in 0..MaxUncertaintyCode :
            k = MaxUncertaintyCode \/ (k > 0 /\ ~Reaches(k, m) /\ Reaches(k - 1, m))

(* EncodeUncertaintyValue *)
EncodeUncertaintyValue(m) ==
    IF m <= 0 THEN 0
    ELSE CHOOSE k \in 0..MaxUncertaintyCode :
            Reaches(k, m) /\ (k = MaxUncertaintyCode \/ ~Reaches(k + 1, m))

(* decodeUncertaintyValue, in whole metres as "%.0f" prints it *)
UncertaintyMeters(octet) ==
    LET k == octet % 128
    IN IF k = 0 THEN 0 ELSE (2 * 11 ^ k + 10 ^ (k - 1)) \div (2 * 10 ^ (k - 1)) - 10

-------------------------------------------------------------------------------
(* internal/mlp/dtd.go.  90 degrees are 324000000 milliarcseconds, that is *)
(* 2^23 latitude codes of 1265625 / 2^15 each; a longitude code is twice   *)
(* that, 1265625 / 2^14.                                                    *)

LatitudeStep == 32768

LongitudeStep == 16384

(* math.Round(v * 3600 * 1000) for v >= 0: code * 1265625 / step, rounded *)
(* half up, in parts that fit 32 bits                                      *)
MilliArcSec(code, step) ==
    LET rest == code % step
    IN (code \div step) * 1265625 + rest * (1265625 \div step)
         + (rest * (1265625 % step) + step \div 2) \div step

(* encodeDMSH, the seconds in thousandths *)
EncodeDMSH(code, step, positiveHemi, negativeHemi) ==
    LET total == MilliArcSec(IF code < 0 THEN -code ELSE code, step)
        rem   == total - (total \div 3600000) * 3600000
    IN [deg |-> total \div 3600000, min |-> rem \div 60000,
        msec |-> rem - (rem \div 60000) * 60000,
        hemi |-> IF code < 0 THEN negativeHemi ELSE positiveHemi]

(* decodeDMSH: the thousandths of a second a coordinate stands for, signed *)
DecodeDMSH(c) ==
    LET total == 3600000 * c.deg + 60000 * c.min + c.msec
    IN IF c.hemi \in {"S", "W"} THEN -total ELSE total
===============================================================================
