--------------------------- MODULE ReadingRecord ---------------------------
(***************************************************************************)
(* The binary reading record (src/src/protocol/reading.rs, with the codes  *)
(* of enums.rs and the one- or two-record payload of notification.rs).     *)
(* A record is a sequence of eight bytes. Enumerations keep their wire     *)
(* code: every code a variant does not name is its own Unknown variant.    *)
(* A number is a decimal, coefficient * 10^exponent.                       *)
(***************************************************************************)
EXTENDS Integers, Sequences

READING_LEN == 8
NO_VALUE_MANTISSA == 2^21 - 1

(* A little-endian 32-bit word: its lower 31 bits as a number, and bit 31.  *)
Low(raw, w) ==
    raw[4 * w + 1] + 256 * raw[4 * w + 2] + 65536 * raw[4 * w + 3]
        + 16777216 * (raw[4 * w + 4] % 128)

Top(raw, w) == raw[4 * w + 4] \div 128

(* (word >> first) & mask, for a mask of `width` bits.                      *)
Field(raw, w, first, width) == (Low(raw, w) \div 2^first) % 2^width

Sign(raw) == IF Top(raw, 0) = 1 THEN -1 ELSE 1

FromArray(raw) ==
    [mantissa      |-> Sign(raw) * Field(raw, 0, 0, 21),
     state         |-> Field(raw, 0, 21, 4),
     decimalPlaces |-> Field(raw, 0, 25, 3),
     magnitude     |-> Field(raw, 0, 28, 3),
     unit          |-> Field(raw, 1, 0, 8),
     function      |-> Field(raw, 1, 8, 8),
     range         |-> Field(raw, 1, 16, 7),
     decade        |-> Field(raw, 1, 23, 3),
     attribute     |-> Field(raw, 1, 26, 5),
     capture       |-> Top(raw, 1) = 1,
     raw           |-> raw]

IsEmptyRecord(reading) == \A i \in 1..READING_LEN : reading.raw[i] = 0

\* The codes of ReadingState that Display and Measurement tell apart.
Normal == 0
Blank == 1
Invalid == 3
OverRange == 4
OverloadA2d == 5
Empty == 13

HasNumber(reading) ==
    /\ reading.state = Normal
    /\ reading.mantissa \notin {NO_VALUE_MANTISSA, -NO_VALUE_MANTISSA}

(* The decimal exponents of the SI prefixes and of the units that are not   *)
(* a base unit themselves.                                                  *)
MagnitudeExponent(magnitude) ==
    CASE magnitude = 1 -> 9
      [] magnitude = 2 -> 6
      [] magnitude = 3 -> 3
      [] magnitude = 4 -> -3
      [] magnitude = 5 -> -6
      [] magnitude = 6 -> -9
      [] magnitude = 7 -> -12
      [] OTHER -> 0

BaseExponent(unit) ==
    CASE unit = 44 -> 12
      [] unit = 40 -> -3
      [] unit = 42 -> -6
      [] OTHER -> 0

NoNumber == [coefficient |-> 0, exponent |-> 0, finite |-> FALSE]

(* The table of powers of ten has 23 entries; outside it, NaN.              *)
InTable(exponent) == exponent \in -22..22

Scale(number, exponent) ==
    IF InTable(exponent) THEN [number EXCEPT !.exponent = @ + exponent]
                         ELSE NoNumber

Decimal(coefficient, exponent) ==
    [coefficient |-> coefficient, exponent |-> exponent, finite |-> TRUE]

\* Mutant: the decimal point moves to the right.
DisplayNumberGrows(reading) ==
    Scale(Decimal(reading.mantissa, 0), reading.decimalPlaces)

DisplayNumber(reading) ==
    Scale(Decimal(reading.mantissa, 0), -reading.decimalPlaces)

ToBaseUnit(number, magnitude, unit) ==
    Scale(number, MagnitudeExponent(magnitude) + BaseExponent(unit))

\* Mutant: an unused second display is reported like any other.
NotificationKeepsEmpty(payload) ==
    IF Len(payload) = READING_LEN
      THEN [primary |-> FromArray(payload), secondary |-> {}]
      ELSE [primary   |-> FromArray(SubSeq(payload, 1, READING_LEN)),
            secondary |-> {FromArray(SubSeq(payload, READING_LEN + 1,
                                            2 * READING_LEN))}]

(* A payload of one or two records; an all-zero second one is not in use.   *)
(* Any other length is an error.                                            *)
NotificationFromBytes(payload) ==
    IF Len(payload) = READING_LEN
      THEN [primary |-> FromArray(payload), secondary |-> {}]
      ELSE LET second == FromArray(SubSeq(payload, READING_LEN + 1,
                                          2 * READING_LEN))
           IN  [primary   |-> FromArray(SubSeq(payload, 1, READING_LEN)),
                secondary |-> IF IsEmptyRecord(second) THEN {} ELSE {second}]

Acceptable(payload) == Len(payload) \in {READING_LEN, 2 * READING_LEN}
=============================================================================
