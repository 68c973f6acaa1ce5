---------------------------- MODULE AsciiDisplay ----------------------------
(***************************************************************************)
(* The text of the ASCII reading characteristic                            *)
(* (src/src/protocol/ascii.rs). A text is its fields: the reading field, a *)
(* sequence of six characters, the multiplier, unit and coupling tokens    *)
(* with their padding already trimmed, and the bolt and inrush marks.      *)
(* Magnitudes and units are the wire codes of ReadingRecord.               *)
(***************************************************************************)
EXTENDS ReadingRecord, SequencesExt

Digits == <<"0", "1", "2", "3", "4", "5", "6", "7", "8", "9">>
Digit == ToSet(Digits)
Padding == {" ", "NUL"}

(* A token of padding only, once it is trimmed.                             *)
Absent == "absent"

(* trim_matches: the text between the first and the last other character.   *)
TrimPadding(text) ==
    LET kept == {i \in 1..Len(text) : text[i] \notin Padding}
    IN  IF kept = {} THEN << >> ELSE SubSeq(text, Min(kept), Max(kept))

Negative(text) == text # << >> /\ Head(text) = "-"

Unsigned(text) == IF Negative(text) THEN Tail(text) ELSE text

(* What parse::<f64> takes of digits, points and dashes: an optional sign,  *)
(* then digits with at most one point among them.                           *)
Parses(text) ==
    LET body == Unsigned(text)
    IN  /\ ToSet(body) \subseteq Digit \cup {"."}
        /\ ToSet(body) \cap Digit # {}
        /\ Cardinality({i \in DOMAIN body : body[i] = "."}) <= 1

Classify(text) ==
    CASE text = << >> -> "Blank"
      [] text \in {<<"O", "L">>, <<"-", "O", "L">>} -> "OverRange"
      [] ToSet(text) = {"-"} -> "Dashes"
      [] Parses(text) -> "Normal"
      [] OTHER -> "Other"

DigitValue(c) == CHOOSE d \in 0..9 : Digits[d + 1] = c

(* One more character of a number: a digit, the point, or past the end.     *)
ReadChar(units, text, i) ==
    IF i \in DOMAIN text /\ text[i] \in Digit
      THEN 10 * units + DigitValue(text[i])
      ELSE units

(* The digits of a text of at most six characters, read from the left.      *)
Units(text) ==
    LET one   == ReadChar(0, text, 1)
        two   == ReadChar(one, text, 2)
        three == ReadChar(two, text, 3)
        four  == ReadChar(three, text, 4)
        five  == ReadChar(four, text, 5)
    IN  ReadChar(five, text, 6)

(* The number a text parses to.                                             *)
TextNumber(text) ==
    LET body == Unsigned(text)
        point == SelectInSeq(body, LAMBDA c : c = ".")
    IN  Decimal(IF Negative(text) THEN -Units(body) ELSE Units(body),
                IF point = 0 THEN 0 ELSE point - Len(body))

(* Any other character is an Unknown magnitude.                             *)
MagnitudeOf(multiplier) ==
    CASE multiplier = "n" -> 6
      [] multiplier = "u" -> 5
      [] multiplier = "m" -> 4
      [] multiplier = "k" -> 3
      [] multiplier = "M" -> 2
      [] multiplier = Absent -> 0
      [] OTHER -> 255

\* Mutant: the guide's H is taken for henries.
UnitOfHenries(token, coupling) ==
    CASE <<token, coupling>> = <<"V", "dc">> -> 2
      [] <<token, coupling>> = <<"V", "ac">> -> 1
      [] <<token, coupling>> = <<"A", "dc">> -> 4
      [] <<token, coupling>> = <<"A", "ac">> -> 3
      [] token = "OHMS" -> 11
      [] token = "H" -> 20
      [] token = "VHZ" -> 36
      [] token = "F" -> 15
      [] token = "DEGC" -> 7
      [] token = "DEGF" -> 8
      [] token = "R" -> 9
      [] OTHER -> 0

UnitOf(token, coupling) ==
    CASE <<token, coupling>> = <<"V", "dc">> -> 2
      [] <<token, coupling>> = <<"V", "ac">> -> 1
      [] <<token, coupling>> = <<"A", "dc">> -> 4
      [] <<token, coupling>> = <<"A", "ac">> -> 3
      [] token = "OHMS" -> 11
      [] token = "H" -> 5
      [] token = "VHZ" -> 36
      [] token = "F" -> 15
      [] token = "DEGC" -> 7
      [] token = "DEGF" -> 8
      [] token = "R" -> 9
      [] OTHER -> 0

FromText(text) ==
    [state            |-> Classify(TrimPadding(text.reading)),
     magnitude        |-> MagnitudeOf(text.multiplier),
     unit             |-> UnitOf(text.unit, text.acdc),
     hazardousVoltage |-> text.bolt = "*",
     inrush           |-> text.inrush = "in",
     text             |-> TrimPadding(text.reading),
     token            |-> text.unit,
     coupling         |-> text.acdc]

NoUnit == 0

(* What follows the number: prefix and unit, or the tokens as they came     *)
(* when they name no unit, the prefix only with a token.                    *)
TextSuffix(reading) ==
    IF reading.unit # NoUnit THEN <<reading.magnitude, reading.unit>>
    ELSE <<IF reading.token = Absent THEN 0 ELSE reading.magnitude,
           reading.token, reading.coupling>>

---------------------------------------------------------------------------
(* The characteristic's value: its length, the format byte in front of the  *)
(* text when it has one, whether the text is ASCII, and the text.           *)
TEXT_LEN == 16
FRAMED_LEN == 17
FORMAT_METER == 0

Rejected(why) == [error |-> why]

(* The format is looked at before the text, and a bare text has none.       *)
FromBytes(payload) ==
    IF payload.length \notin {TEXT_LEN, FRAMED_LEN} THEN Rejected("InvalidLength")
    ELSE IF payload.length = FRAMED_LEN /\ payload.format # FORMAT_METER
      THEN Rejected("UnsupportedFormat")
    ELSE IF ~payload.isAscii THEN Rejected("NotAscii")
    ELSE FromText(payload.text)

Accepted(result) == "error" \notin DOMAIN result
=============================================================================
