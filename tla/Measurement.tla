---------------------------- MODULE Measurement ----------------------------
(***************************************************************************)
(* The measurement a consumer sees (src/src/protocol/measurement.rs): a    *)
(* binary record or an ASCII text, reduced to what both can answer.        *)
(***************************************************************************)
EXTENDS AsciiDisplay

Binary(reading) == [source |-> "binary", of |-> reading]
Ascii(display) == [source |-> "ascii", of |-> display]

IsBinary(m) == m.source = "binary"

\* Mutant: a blank reading field is an unused display.
StateOfTextEmpty(state) ==
    CASE state = "Normal" -> Normal
      [] state = "OverRange" -> OverRange
      [] state = "Blank" -> Empty
      [] state = "Dashes" -> Blank
      [] OTHER -> Invalid

StateOfText(state) ==
    CASE state = "Normal" -> Normal
      [] state = "OverRange" -> OverRange
      [] state \in {"Blank", "Dashes"} -> Blank
      [] OTHER -> Invalid

State(m) ==
    IF IsBinary(m)
      THEN IF IsEmptyRecord(m.of) THEN Empty ELSE m.of.state
      ELSE StateOfText(m.of.state)

HasValue(m) ==
    IF IsBinary(m) THEN ~IsEmptyRecord(m.of) /\ HasNumber(m.of)
                   ELSE m.of.state = "Normal"

DisplayValue(m) ==
    IF ~HasValue(m) THEN NoNumber
    ELSE IF IsBinary(m) THEN DisplayNumber(m.of) ELSE TextNumber(m.of.text)

Value(m) ==
    IF HasValue(m) THEN ToBaseUnit(DisplayValue(m), m.of.magnitude, m.of.unit)
                   ELSE NoNumber

(* The digits of a number, at least so many of them.                        *)
Width(n, least) ==
    CHOOSE w \in least..8 : n < 10^w /\ (w = least \/ n >= 10^(w - 1))

DigitsOf(n, width) ==
    [i \in 1..width |-> Digits[((n \div 10^(width - i)) % 10) + 1]]

(* A decimal in characters, with `places` of them after the point.          *)
Plain(n, places) ==
    LET width == Width(n, places + 1)
        digits == DigitsOf(n, width)
    IN  IF places = 0 THEN digits ELSE InsertAt(digits, width - places + 1, ".")

Rendered(coefficient, places) ==
    IF coefficient < 0 THEN <<"-">> \o Plain(-coefficient, places)
                       ELSE Plain(coefficient, places)

FourDashes == <<"-", "-", "-", "-">>

(* What a record prints after its number; the name of a state stands alone. *)
RecordSuffix(reading) == <<reading.magnitude, reading.unit>>

(* Display: the number, dashes, OL or the name of the state, and what       *)
(* follows it.                                                              *)
Shown(m) ==
    IF IsBinary(m)
      THEN CASE HasNumber(m.of) ->
                  <<Rendered(m.of.mantissa, m.of.decimalPlaces), RecordSuffix(m.of)>>
             [] ~HasNumber(m.of) /\ m.of.state \in {Normal, Blank, Empty} ->
                  <<FourDashes, RecordSuffix(m.of)>>
             [] m.of.state \in {OverRange, OverloadA2d} ->
                  <<<<"O", "L">>, RecordSuffix(m.of)>>
             [] OTHER -> <<"state", m.of.state>>
      ELSE <<IF m.of.text = << >> THEN FourDashes ELSE m.of.text,
             TextSuffix(m.of)>>
=============================================================================
