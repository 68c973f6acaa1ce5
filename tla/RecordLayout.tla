---------------------------- MODULE RecordLayout ----------------------------
(***************************************************************************)
(* The device's side of the binary reading characteristic: a record is the *)
(* fields of its layout table laid end to end, the least significant bit   *)
(* first (the table in src/src/protocol/reading.rs).                       *)
(***************************************************************************)
EXTENDS ReadingRecord

(* A field of `width` bits and, above it, what follows in the table.        *)
Join(field, width, above) == field + 2^width * above

(* The two words, but for their last bit.                                   *)
LowWord(f) ==
    Join(f.mantissa, 21, Join(f.state, 4, Join(f.decimalPlaces, 3, f.magnitude)))

HighWord(f) ==
    Join(f.unit, 8, Join(f.function, 8, Join(f.range, 7, Join(f.decade, 3, f.attribute))))

(* The four bytes of a word, little-endian, with its last bit.              *)
Bytes(word, last) ==
    <<word % 256, (word \div 256) % 256, (word \div 65536) % 256,
      word \div 16777216 + 128 * last>>

Pack(f) == Bytes(LowWord(f), f.negative) \o Bytes(HighWord(f), f.capture)

Unused == [byte \in 1..READING_LEN |-> 0]

(* The fields the client takes from a record.                               *)
Decodes(reading, f) ==
    /\ reading.mantissa = IF f.negative = 1 THEN -f.mantissa ELSE f.mantissa
    /\ reading.state = f.state
    /\ reading.decimalPlaces = f.decimalPlaces
    /\ reading.magnitude = f.magnitude
    /\ reading.unit = f.unit
    /\ reading.function = f.function
    /\ reading.range = f.range
    /\ reading.decade = f.decade
    /\ reading.attribute = f.attribute
    /\ reading.capture = (f.capture = 1)
=============================================================================
