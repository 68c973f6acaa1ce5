--------------------------- MODULE DeviceStrings ---------------------------
(***************************************************************************)
(* The user-assignable name of a device: how the client writes it and      *)
(* reads it back (set_name, name and decode_string in src/src/client.rs).  *)
(* A name is a sequence of code points below 2048, which UTF-8 writes in   *)
(* one byte or two; the device keeps bytes.                                *)
(***************************************************************************)
EXTENDS Integers, SequencesExt

CONSTANT MaxNameLen   \* in bytes, of the device's field (98 in the code)

EncodeChar(c) == IF c < 128 THEN <<c>> ELSE <<192 + c \div 64, 128 + (c % 64)>>

(* What the first characters of a name are written as.                      *)
Encoding(name) ==
    LET written[n \in 0..Len(name)] ==
          IF n = 0 THEN << >> ELSE written[n - 1] \o EncodeChar(name[n])
    IN  written

Utf8(name) == Encoding(name)[Len(name)]

\* Mutant: the characters are counted, not the bytes.
NameFitsChars(name) == Len(name) <= MaxNameLen

NameFits(name) == Len(Utf8(name)) <= MaxNameLen

(* The device keeps what its field holds, and may pad it with NULs.         *)
Stored(bytes) ==
    IF Len(bytes) >= MaxNameLen
      THEN {SubSeq(bytes, 1, MaxNameLen)}
      ELSE {bytes, bytes \o [i \in 1..(MaxNameLen - Len(bytes)) |-> 0]}

Utf8Error == <<-1>>

(* from_utf8, over the bytes of such names and their fragments: what has    *)
(* been read of them, up to a whole character or the first byte of a pair.  *)
Whole(text) == [text |-> text, lead |-> 0, bad |-> FALSE]

ReadByte(read, b) ==
    LET fresh == ~read.bad /\ read.lead = 0
        paired == ~read.bad /\ read.lead > 0
    IN  CASE read.bad -> read
          [] fresh /\ b < 128 -> Whole(Append(read.text, b))
          [] fresh /\ b >= 192 -> [text |-> read.text, lead |-> b, bad |-> FALSE]
          [] paired /\ b \in 128..191 ->
               Whole(Append(read.text, (read.lead - 192) * 64 + b - 128))
          [] OTHER -> [text |-> read.text, lead |-> 0, bad |-> TRUE]

Reading(bytes) ==
    LET read[n \in 0..Len(bytes)] ==
          IF n = 0 THEN Whole(<< >>) ELSE ReadByte(read[n - 1], bytes[n])
    IN  read

FromUtf8(bytes) ==
    LET all == Reading(bytes)[Len(bytes)]
    IN  IF all.bad \/ all.lead > 0 THEN Utf8Error ELSE all.text

Before(s, i) == SubSeq(s, 1, i - 1)

Cut(bytes) == IF Contains(bytes, 0)
                THEN Before(bytes, SelectInSeq(bytes, LAMBDA b : b = 0))
                ELSE bytes

White == {9, 10, 11, 12, 13, 32, 133, 160}

TrimEnd(text) == SubSeq(text, 1, SelectLastInSeq(text, LAMBDA c : c \notin White))

DecodeString(bytes) ==
    LET text == FromUtf8(Cut(bytes))
    IN  IF text = Utf8Error THEN Utf8Error ELSE TrimEnd(text)
=============================================================================
