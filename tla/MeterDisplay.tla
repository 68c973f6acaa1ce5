---------------------------- MODULE MeterDisplay ----------------------------
(***************************************************************************)
(* A meter that notifies one display on both characteristics, and what the *)
(* client decodes from each. The meter's side follows the layouts of the   *)
(* two characteristics: RecordLayout packs the record, and the text has    *)
(* the reading right-justified in six characters and a token for the unit. *)
(* The decoders keep nothing between notifications: a behaviour is one     *)
(* display.                                                                *)
(***************************************************************************)
EXTENDS Measurement, RecordLayout

CONSTANTS
    Numbers,       \* the counts a display may show
    Places,        \* digits after the point
    Kinds,         \* what a display may show, of AllKinds
    Lengths        \* lengths a payload may have by mistake

AllKinds == {"number", "minus zero", "over range", "minus over range",
             "blank", "dashes"}

ASSUME KindsAssumption == Kinds \subseteq AllKinds
(* What the 21 bits of the mantissa and the 3 of the decimal places hold.   *)
ASSUME NumbersAssumption ==
    /\ Numbers \subseteq (1 - NO_VALUE_MANTISSA)..(NO_VALUE_MANTISSA - 1)
    /\ Places \subseteq 0..7
ASSUME LengthsAssumption == Lengths \subseteq Nat \ {READING_LEN, 2 * READING_LEN}

VARIABLES
    display,   \* what the meter shows
    binary,    \* the measurement decoded from its record
    second,    \* the second display decoded with it, if any
    ascii      \* the measurement decoded from its text

vars == <<display, binary, second, ascii>>

(* The prefixes and units that both characteristics can name.               *)
Multiplier == {[magnitude |-> 6, token |-> "n"], [magnitude |-> 5, token |-> "u"],
               [magnitude |-> 4, token |-> "m"], [magnitude |-> 3, token |-> "k"],
               [magnitude |-> 2, token |-> "M"], [magnitude |-> 0, token |-> Absent]}

Token == {[unit |-> 2, token |-> "V", coupling |-> "dc"],
          [unit |-> 1, token |-> "V", coupling |-> "ac"],
          [unit |-> 4, token |-> "A", coupling |-> "dc"],
          [unit |-> 3, token |-> "A", coupling |-> "ac"],
          [unit |-> 11, token |-> "OHMS", coupling |-> Absent],
          [unit |-> 5, token |-> "H", coupling |-> Absent],
          [unit |-> 36, token |-> "VHZ", coupling |-> Absent],
          [unit |-> 15, token |-> "F", coupling |-> Absent],
          [unit |-> 7, token |-> "DEGC", coupling |-> Absent],
          [unit |-> 8, token |-> "DEGF", coupling |-> Absent],
          [unit |-> 9, token |-> "R", coupling |-> Absent]}

(* What only one of the two has: the record's fields, all zero or all at    *)
(* the end of their range, and the text's marks.                            *)
Rest == {
    [function |-> 0, range |-> 0, decade |-> 0, attribute |-> 0, capture |-> 0,
     bolt |-> Absent, inrush |-> "in"],
    [function |-> 255, range |-> 127, decade |-> 7, attribute |-> 31, capture |-> 1,
     bolt |-> "*", inrush |-> Absent]}

FieldsOf(d) ==
    [mantissa      |-> CASE d.kind = "number" -> IF d.number < 0 THEN -d.number
                                                                 ELSE d.number
                         [] d.kind = "minus zero" -> 0
                         [] OTHER -> NO_VALUE_MANTISSA,
     state         |-> CASE d.kind \in {"over range", "minus over range"} -> OverRange
                         [] d.kind = "blank" -> Blank
                         [] OTHER -> Normal,
     decimalPlaces |-> d.places,
     magnitude     |-> d.multiplier.magnitude,
     negative      |-> IF \/ d.kind \in {"minus zero", "minus over range"}
                          \/ d.kind = "number" /\ d.number < 0 THEN 1 ELSE 0,
     unit          |-> d.token.unit,
     function      |-> d.rest.function,
     range         |-> d.rest.range,
     decade        |-> d.rest.decade,
     attribute     |-> d.rest.attribute,
     capture       |-> d.rest.capture]

(* The second display is missing, unused, or shows the same as the first.   *)
Payload(d) ==
    CASE d.second = "missing" -> Pack(FieldsOf(d))
      [] d.second = "unused" -> Pack(FieldsOf(d)) \o Unused
      [] d.second = "in use" -> Pack(FieldsOf(d)) \o Pack(FieldsOf(d))

Justified(text) ==
    [i \in 1..6 |-> IF i + Len(text) <= 6 THEN " " ELSE text[i + Len(text) - 6]]

ReadingField(d) ==
    CASE d.kind = "number" -> Rendered(d.number, d.places)
      [] d.kind = "minus zero" -> <<"-">> \o Rendered(0, d.places)
      [] d.kind = "over range" -> <<"O", "L">>
      [] d.kind = "minus over range" -> <<"-", "O", "L">>
      [] d.kind = "dashes" -> FourDashes
      [] d.kind = "blank" -> << >>

Text(d) ==
    [reading |-> Justified(ReadingField(d)), multiplier |-> d.multiplier.token,
     unit |-> d.token.token, acdc |-> d.token.coupling,
     bolt |-> d.rest.bolt, inrush |-> d.rest.inrush]

None == [source |-> "none"]
Malformed == [source |-> "error"]

(* The values of the text characteristic: framed or bare, or not what a     *)
(* meter sends (the ir3000 FC holds a value of format 1).                   *)
TextPayload(d) == {
    p \in [length : Lengths \cup {TEXT_LEN, FRAMED_LEN}, format : 0..1,
          isAscii : BOOLEAN, text : {Text(d)}] :
        p.length = FRAMED_LEN \/ p.format = FORMAT_METER}

Init ==
    /\ \E kind \in Kinds, number \in Numbers, places \in Places,
          multiplier \in Multiplier, token \in Token, rest \in Rest,
          other \in {"missing", "unused", "in use"} :
        display = [kind |-> kind, number |-> number, places |-> places,
                   multiplier |-> multiplier, token |-> token, rest |-> rest,
                   second |-> other]
    /\ display.kind = "number" \/ display.number = 0
    /\ Len(ReadingField(display)) <= 6
    /\ binary = None
    /\ second = {}
    /\ ascii = None

Receive(payload) ==
    IF Acceptable(payload)
      THEN LET n == NotificationFromBytes(payload)
           IN  binary' = Binary(n.primary) /\ second' = n.secondary
      ELSE binary' = Malformed /\ UNCHANGED second

NotifyBinary ==
    /\ binary = None
    /\ Receive(Payload(display))
    /\ UNCHANGED <<display, ascii>>

(* A payload that is not one record or two is not from a device.            *)
NotifyMalformed ==
    /\ binary = None
    /\ \E n \in Lengths : Receive([i \in 1..n |-> 0])
    /\ UNCHANGED <<display, ascii>>

NotifyAscii ==
    /\ ascii = None
    /\ \E payload \in TextPayload(display) :
        LET result == FromBytes(payload)
        IN  ascii' = IF Accepted(result) THEN Ascii(result)
                                         ELSE Malformed
    /\ UNCHANGED <<display, binary, second>>

Next == NotifyBinary \/ NotifyMalformed \/ NotifyAscii

Spec == Init /\ [][Next]_vars

---------------------------------------------------------------------------
Read == binary.source = "binary"
ReadText == ascii.source = "ascii"
Both == Read /\ ReadText

(* Equal decimals, whatever their exponents.                                *)
Same(a, b) ==
    /\ a.finite = b.finite
    /\ LET low == Min({a.exponent, b.exponent})
       IN  a.coefficient * 10^(a.exponent - low) = b.coefficient * 10^(b.exponent - low)

(* One display decodes to one number: whichever characteristic carried it,  *)
(* the value shown and the value in the base unit are equal, or there is    *)
(* none on both sides (the parity that measurement.rs documents).           *)
AgreeOnValue ==
    Both => /\ HasValue(binary) = HasValue(ascii)
            /\ Same(DisplayValue(binary), DisplayValue(ascii))
            /\ Same(Value(binary), Value(ascii))

(* One display decodes to one state, and a number is there exactly in the   *)
(* Normal one; dashes, a Normal record without a number, are told apart     *)
(* only by the record.                                                      *)
AgreeOnState ==
    (Both /\ display.kind # "dashes") =>
        /\ State(binary) = State(ascii)
        /\ HasValue(binary) = (State(binary) = Normal)

(* One display has one prefix and one unit, and prints the same but for the *)
(* sign of a zero and of an overload, which the record does not print.      *)
AgreeOnDisplay ==
    Both => /\ binary.of.magnitude = ascii.of.magnitude
            /\ binary.of.unit = ascii.of.unit
            /\ display.kind \notin {"minus zero", "minus over range"} =>
                 Shown(binary) = Shown(ascii)

(* Whatever the device packs is decoded field by field, whatever the        *)
(* neighbouring fields hold; the second display is there exactly when it is *)
(* in use, and the text's marks exactly when the display has them.          *)
FieldsSurvive ==
    /\ Read =>
         /\ Decodes(binary.of, FieldsOf(display))
         /\ second # {} <=> display.second = "in use"
         /\ \A reading \in second : Decodes(reading, FieldsOf(display))
    /\ ReadText =>
         /\ ascii.of.hazardousVoltage = (display.rest.bolt # Absent)
         /\ ascii.of.inrush = (display.rest.inrush # Absent)

(* The documentation of Measurement: a binary record and the text of the    *)
(* same display agree on value, unit, magnitude, state and what they print. *)
Parity ==
    Both => /\ HasValue(binary) = HasValue(ascii)
            /\ Same(Value(binary), Value(ascii))
            /\ binary.of.magnitude = ascii.of.magnitude
            /\ binary.of.unit = ascii.of.unit
            /\ State(binary) = State(ascii)
            /\ Shown(binary) = Shown(ascii)
=============================================================================
