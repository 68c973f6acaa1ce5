------------------------- MODULE MeterDisplayProofs -------------------------
(***************************************************************************)
(* One display, decoded from either characteristic, for every number the   *)
(* display can show: the bits of a record and the characters of a text     *)
(* both read back as they were written, and what is measured agrees.       *)
(***************************************************************************)
EXTENDS MeterDisplay, FiniteSetTheorems, SequenceTheorems, TLAPS

Bits(n, width) == n \in Nat /\ n < 2^width

IsWord(n) == n \in Nat /\ n <= 2147483647

(* The fields of a record, each within its bits.                            *)
Fits(f) ==
    /\ Bits(f.mantissa, 21)
    /\ Bits(f.state, 4)
    /\ Bits(f.decimalPlaces, 3)
    /\ Bits(f.magnitude, 3)
    /\ Bits(f.negative, 1)
    /\ Bits(f.unit, 8)
    /\ Bits(f.function, 8)
    /\ Bits(f.range, 7)
    /\ Bits(f.decade, 3)
    /\ Bits(f.attribute, 5)
    /\ Bits(f.capture, 1)

(* How a word below 2^31 falls into its bytes and fields.                   *)
BytesOf(n, b1, b2, b3, b4) ==
    n = b1 + 256 * b2 + 65536 * b3 + 16777216 * (b4 % 128)

LowFields(n, mantissa, state, places, magnitude) ==
    /\ n % 2097152 = mantissa
    /\ (n \div 2097152) % 16 = state
    /\ (n \div 33554432) % 8 = places
    /\ (n \div 268435456) % 8 = magnitude

HighFields(n, unit, function, range, decade, attribute) ==
    /\ n % 256 = unit
    /\ (n \div 256) % 256 = function
    /\ (n \div 65536) % 128 = range
    /\ (n \div 8388608) % 8 = decade
    /\ (n \div 67108864) % 32 = attribute

(* A word made of its fields falls apart into the same fields.              *)
LEMMA LowSplits ==
    ASSUME NEW m, Bits(m, 21), NEW s, Bits(s, 4), NEW p, Bits(p, 3), NEW g, Bits(g, 3)
    PROVE  LET n == Join(m, 21, Join(s, 4, Join(p, 3, g)))
           IN  IsWord(n) /\ LowFields(n, m, s, p, g)
BY SMT DEF Join, LowFields, Bits, IsWord

(* And the other word.                                                      *)
LEMMA HighSplits ==
    ASSUME NEW u, Bits(u, 8), NEW t, Bits(t, 8), NEW r, Bits(r, 7), NEW d, Bits(d, 3),
           NEW a, Bits(a, 5)
    PROVE  LET n == Join(u, 8, Join(t, 8, Join(r, 7, Join(d, 3, a))))
           IN  IsWord(n) /\ HighFields(n, u, t, r, d, a)
BY SMT DEF Join, HighFields, Bits, IsWord

(* The four bytes of a word join to the word again, its top bit apart.      *)
LEMMA BytesJoin ==
    ASSUME NEW n, IsWord(n), NEW b, Bits(b, 1)
    PROVE  LET s == Bytes(n, b)
           IN  /\ s \in Seq(Nat) /\ Len(s) = 4
               /\ BytesOf(n, s[1], s[2], s[3], s[4])
               /\ s[4] \div 128 = b
<1> DEFINE s == Bytes(n, b)
<1>1. /\ n % 256 \in Nat /\ (n \div 256) % 256 \in Nat /\ (n \div 65536) % 256 \in Nat
      /\ n \div 16777216 + 128 * b \in Nat
  BY SMT DEF IsWord, Bits
<1>2. s \in Seq(Nat) /\ Len(s) = 4
  BY <1>1, SMT DEF Bytes
<1>3. /\ s[1] = n % 256 /\ s[2] = (n \div 256) % 256 /\ s[3] = (n \div 65536) % 256
      /\ s[4] = n \div 16777216 + 128 * b
  BY SMT DEF Bytes
<1> HIDE DEF s
<1>4. BytesOf(n, s[1], s[2], s[3], s[4]) /\ s[4] \div 128 = b
  BY <1>3, SMT DEF BytesOf, IsWord, Bits
<1> QED
  BY <1>2, <1>4 DEF s

(* What is in the two halves of eight bytes.                                *)
LEMMA Halves ==
    ASSUME NEW s \in Seq(Nat), NEW t \in Seq(Nat), Len(s) = 4, Len(t) = 4
    PROVE  /\ s \o t \in Seq(Nat)
           /\ Len(s \o t) = 8
           /\ \A i \in 1..4 : (s \o t)[i] = s[i] /\ (s \o t)[i + 4] = t[i]
<1> DEFINE r == s \o t
<1>1. /\ r \in Seq(Nat)
      /\ Len(r) = Len(s) + Len(t)
      /\ \A i \in 1..Len(s) + Len(t) : r[i] = IF i <= Len(s) THEN s[i] ELSE t[i - Len(s)]
  BY ConcatProperties, Zenon
<1> HIDE DEF r
<1>2. ASSUME NEW i \in 1..4 PROVE r[i] = s[i] /\ r[i + 4] = t[i]
  <2>1. i \in 1..8 /\ i + 4 \in 1..8 /\ i <= 4 /\ ~(i + 4 <= 4) /\ (i + 4) - 4 = i
    OBVIOUS
  <2> QED
    BY <1>1, <2>1
<1> QED
  BY <1>1, <1>2 DEF r

(* What the device packs, FromArray unpacks: every field, for every value   *)
(* its bits can hold.                                                       *)
THEOREM RoundTrip ==
    ASSUME NEW f, Fits(f)
    PROVE  Decodes(FromArray(Pack(f)), f)
<1> DEFINE raw == Pack(f)
           low == LowWord(f)
           high == HighWord(f)
<1>1. /\ IsWord(low)
      /\ LowFields(low, f.mantissa, f.state, f.decimalPlaces, f.magnitude)
  BY LowSplits, Zenon DEF Fits, LowWord
<1>2. /\ IsWord(high)
      /\ HighFields(high, f.unit, f.function, f.range, f.decade, f.attribute)
  BY HighSplits, Zenon DEF Fits, HighWord
<1>3. Bits(f.negative, 1) /\ Bits(f.capture, 1)
  BY DEF Fits
<1>4. /\ Low(raw, 0) = low /\ Top(raw, 0) = f.negative
      /\ Low(raw, 1) = high /\ Top(raw, 1) = f.capture
  <2> DEFINE s == Bytes(low, f.negative)
             t == Bytes(high, f.capture)
  <2>1. /\ s \in Seq(Nat) /\ Len(s) = 4
        /\ BytesOf(low, s[1], s[2], s[3], s[4])
        /\ s[4] \div 128 = f.negative
    BY <1>1, <1>3, BytesJoin, Zenon
  <2>2. /\ t \in Seq(Nat) /\ Len(t) = 4
        /\ BytesOf(high, t[1], t[2], t[3], t[4])
        /\ t[4] \div 128 = f.capture
    BY <1>2, <1>3, BytesJoin, Zenon
  <2>3. raw = s \o t
    BY DEF Pack
  <2> HIDE DEF low, high, raw, s, t
  <2>4. /\ raw[1] = s[1] /\ raw[2] = s[2] /\ raw[3] = s[3] /\ raw[4] = s[4]
        /\ raw[5] = t[1] /\ raw[6] = t[2] /\ raw[7] = t[3] /\ raw[8] = t[4]
    <3>1. \A i \in 1..4 : (s \o t)[i] = s[i] /\ (s \o t)[i + 4] = t[i]
      <4>1. s \in Seq(Nat) /\ Len(s) = 4 /\ t \in Seq(Nat) /\ Len(t) = 4
        BY <2>1, <2>2
      <4> QED
        BY <4>1, Halves, Zenon
    <3>2. \A i \in 1..4 : raw[i] = s[i] /\ raw[i + 4] = t[i]
      BY <2>3, <3>1, Zenon
    <3> QED
      BY <3>2
  <2>5. /\ BytesOf(Low(raw, 0), raw[1], raw[2], raw[3], raw[4])
        /\ Top(raw, 0) = raw[4] \div 128
        /\ BytesOf(Low(raw, 1), raw[5], raw[6], raw[7], raw[8])
        /\ Top(raw, 1) = raw[8] \div 128
    BY SMT DEF Low, Top, BytesOf
  <2> QED
    BY <2>1, <2>2, <2>4, <2>5, SMT DEF BytesOf
<1> HIDE DEF raw, low, high
<1>5. /\ Field(raw, 0, 0, 21) = f.mantissa
      /\ Field(raw, 0, 21, 4) = f.state
      /\ Field(raw, 0, 25, 3) = f.decimalPlaces
      /\ Field(raw, 0, 28, 3) = f.magnitude
  BY <1>1, <1>4, SMT DEF Field, LowFields, IsWord
<1>6. /\ Field(raw, 1, 0, 8) = f.unit
      /\ Field(raw, 1, 8, 8) = f.function
      /\ Field(raw, 1, 16, 7) = f.range
      /\ Field(raw, 1, 23, 3) = f.decade
      /\ Field(raw, 1, 26, 5) = f.attribute
  BY <1>2, <1>4, SMT DEF Field, HighFields, IsWord
<1>7. Sign(raw) = IF f.negative = 1 THEN -1 ELSE 1
  BY <1>4 DEF Sign
<1>8. f.mantissa \in Nat
  BY SMT DEF Fits, Bits
<1>9. Decodes(FromArray(raw), f)
  BY <1>4, <1>5, <1>6, <1>7, <1>8, SMT DEF FromArray, Decodes
<1> QED
  BY <1>9 DEF raw

---------------------------------------------------------------------------
(* The exponents of prefixes and units *)

(* The exponent of any prefix and any unit together is in the table of      *)
(* powers of ten, and so is that of any decimal point.                      *)
LEMMA ExponentsInTable ==
    /\ \A magnitude, unit :
        InTable(MagnitudeExponent(magnitude) + BaseExponent(unit))
    /\ \A places \in 0..7 : InTable(-places)
<1>1. ASSUME NEW magnitude
      PROVE  MagnitudeExponent(magnitude) \in {9, 6, 3, -3, -6, -9, -12, 0}
  BY DEF MagnitudeExponent
<1>2. ASSUME NEW unit PROVE BaseExponent(unit) \in {12, -3, -6, 0}
  BY DEF BaseExponent
<1>3. ASSUME NEW magnitude, NEW unit
      PROVE  InTable(MagnitudeExponent(magnitude) + BaseExponent(unit))
  <2>1. ASSUME NEW a \in {9, 6, 3, -3, -6, -9, -12, 0},
               NEW b \in {12, -3, -6, 0}
        PROVE  a + b \in -22..22
    OBVIOUS
  <2> QED
    BY <1>1, <1>2, <2>1 DEF InTable
<1>4. ASSUME NEW places \in 0..7 PROVE InTable(-places)
  BY DEF InTable
<1> QED
  BY <1>3, <1>4

(* A record with a number has a finite one, as displayed and in the base    *)
(* unit: value() never falls off the table into NaN, though the exponents   *)
(* of prefix and unit add up.                                               *)
THEOREM ValuesFinite ==
    ASSUME NEW reading, reading.decimalPlaces \in 0..7
    PROVE  /\ DisplayNumber(reading).finite
           /\ ToBaseUnit(DisplayNumber(reading), reading.magnitude,
                         reading.unit).finite
<1> DEFINE shown == Decimal(reading.mantissa, 0)
<1>1. shown = [coefficient |-> reading.mantissa, exponent |-> 0, finite |-> TRUE]
  BY DEF Decimal
<1>2. DisplayNumber(reading) = [shown EXCEPT !.exponent = @ + (-reading.decimalPlaces)]
  BY ExponentsInTable DEF DisplayNumber, Scale
<1>3. DisplayNumber(reading).finite
  BY <1>1, <1>2
<1>4. ToBaseUnit(DisplayNumber(reading), reading.magnitude, reading.unit)
        = [DisplayNumber(reading) EXCEPT
             !.exponent = @ + (MagnitudeExponent(reading.magnitude)
                                 + BaseExponent(reading.unit))]
  BY ExponentsInTable DEF ToBaseUnit, Scale
<1> QED
  BY <1>1, <1>2, <1>3, <1>4

---------------------------------------------------------------------------
(* Digits *)

Character == Digit \cup {"."}

(* A digit has the value it stands for, and is neither padding nor a        *)
(* sign.                                                                    *)
LEMMA DigitFacts ==
    /\ \A k \in 0..9 : /\ Digits[k + 1] \in Digit
                       /\ DigitValue(Digits[k + 1]) = k
    /\ \A c \in Character : c \notin Padding /\ c # "-"
    /\ "." \notin Digit
<1>1. DOMAIN Digits = 1..10
  BY SMT DEF Digits
<1>2. Digit = {"0", "1", "2", "3", "4", "5", "6", "7", "8", "9"}
  <2>1. Digit = {Digits[i] : i \in 1..10}
    BY <1>1 DEF Digit, ToSet
  <2> QED
    BY <2>1, SMT DEF Digits
<1>3. \A k \in 0..9 : Digits[k + 1] \in Digit
  BY <1>1 DEF Digit, ToSet
<1>4. \A j, k \in 0..9 : Digits[j + 1] = Digits[k + 1] => j = k
  BY SMT DEF Digits
<1>5. ASSUME NEW k \in 0..9 PROVE DigitValue(Digits[k + 1]) = k
  BY <1>4 DEF DigitValue
<1>6. \A c \in Character : c \notin Padding /\ c # "-"
  BY <1>2 DEF Character, Padding
<1> QED
  BY <1>2, <1>3, <1>5, <1>6

(* Nor is it a letter of an overload.                                       *)
LEMMA OtherGlyphs ==
    \A c \in Digit : c # "O" /\ c # "L" /\ c # "-"
<1>1. Digit = {"0", "1", "2", "3", "4", "5", "6", "7", "8", "9"}
  <2>1. DOMAIN Digits = 1..10
    BY SMT DEF Digits
  <2>2. Digit = {Digits[i] : i \in 1..10}
    BY <2>1 DEF Digit, ToSet
  <2> QED
    BY <2>2, SMT DEF Digits
<1> QED
  BY <1>1

(* The powers of ten a display needs.                                       *)
LEMMA TenTable ==
    /\ 10^0 = 1 /\ 10^1 = 10 /\ 10^2 = 100 /\ 10^3 = 1000 /\ 10^4 = 10000
    /\ 10^5 = 100000 /\ 10^6 = 1000000 /\ 10^7 = 10000000 /\ 10^8 = 100000000
BY SMT

(* They grow tenfold.                                                       *)
LEMMA Tens ==
    /\ 10^0 = 1
    /\ \A w \in 0..7 : 10^w \in Nat \ {0} /\ 10^(w + 1) = 10 * 10^w
    /\ \A w \in 0..8 : 10^w \in Nat \ {0}
<1>1. ASSUME NEW w \in 0..7 PROVE 10^w \in Nat \ {0} /\ 10^(w + 1) = 10 * 10^w
  <2>1. CASE w = 0
    BY <2>1, SMT
  <2>2. CASE w = 1
    BY <2>2, SMT
  <2>3. CASE w = 2
    BY <2>3, SMT
  <2>4. CASE w = 3
    BY <2>4, SMT
  <2>5. CASE w = 4
    BY <2>5, SMT
  <2>6. CASE w = 5
    BY <2>6, SMT
  <2>7. CASE w = 6
    BY <2>7, SMT
  <2>8. CASE w = 7
    BY <2>8, SMT
  <2> QED
    BY <2>1, <2>2, <2>3, <2>4, <2>5, <2>6, <2>7, <2>8, SMT
<1>2. ASSUME NEW w \in 0..8, w = 8 PROVE 10^w \in Nat \ {0}
  BY <1>2, SMT
<1>3. ASSUME NEW w \in 0..8 PROVE w = 8 \/ w \in 0..7
  BY SMT
<1> QED
  BY <1>1, <1>2, <1>3, TenTable

(* Taking a digit off after taking others off is taking one more off.       *)
LEMMA DivTen ==
    ASSUME NEW n \in Nat, NEW a \in Nat \ {0}
    PROVE  n \div (10 * a) = (n \div a) \div 10
<1> DEFINE q == n \div a
           r == n % a
           s == q \div 10
           d == q % 10
<1>1. n = a * q + r /\ q \in Nat /\ r \in Nat /\ r < a
  BY SMT
<1>2. q = 10 * s + d /\ s \in Nat /\ d \in Nat /\ d <= 9
  BY SMT
<1>3. n = (10 * a) * s + (a * d + r)
  <2> HIDE DEF q, r, s, d
  <2>1. a * q = a * (10 * s) + a * d
    BY <1>1, <1>2, SMT
  <2> QED
    BY <1>1, <1>2, <2>1, SMT
<1>4. a * d + r \in Nat /\ a * d + r < 10 * a
  <2> HIDE DEF q, r, s, d
  <2>1. a * d \in Nat /\ a * d <= 9 * a
    BY <1>2, SMT
  <2> QED
    BY <1>1, <2>1, SMT
<1> HIDE DEF q, r, s, d
<1>5. n \div (10 * a) = s
  <2> DEFINE e == a * d + r
             b == 10 * a
  <2>1. b \in Nat \ {0} /\ e \in Nat /\ e < b /\ n = b * s + e
    BY <1>3, <1>4, SMT
  <2> HIDE DEF b, e
  <2>2. n \div b = s
    BY <1>2, <2>1, SMT
  <2> QED
    BY <2>2 DEF b
<1> QED
  BY <1>5 DEF s, q

(* What a display may count up to, and how many digits it may show.         *)
Countable == {n \in Nat : n < 10^7}

(* As many digits as a number has, or as are asked for at least.            *)
LEMMA WidthFacts ==
    ASSUME NEW n \in Countable, NEW least \in 1..8
    PROVE  Width(n, least) \in least..8 /\ n < 10^Width(n, least)
<1> DEFINE Fit(w) == n < 10^w /\ (w = least \/ n >= 10^(w - 1))
<1>1. \E w \in least..8 : Fit(w)
  <2>1. /\ 10^1 = 10 /\ 10^2 = 100 /\ 10^3 = 1000 /\ 10^4 = 10000
        /\ 10^5 = 100000 /\ 10^6 = 1000000 /\ 10^7 = 10000000 /\ 10^8 = 100000000
    BY TenTable
  <2> DEFINE Below(w) == n < 10^w
  <2>2. /\ n \in Nat /\ Below(7) /\ (Below(7) => Below(8)) /\ (Below(6) => Below(7))
        /\ (Below(5) => Below(6)) /\ (Below(4) => Below(5)) /\ (Below(3) => Below(4))
        /\ (Below(2) => Below(3)) /\ (Below(1) => Below(2))
    BY <2>1, SMT DEF Countable
  <2>3. \A w \in 1..8 : ~Below(w) <=> n >= 10^w
    <3>1. ASSUME NEW w \in 1..8 PROVE 10^w \in Nat
      <4>1. w \in 0..8
        OBVIOUS
      <4> QED
        BY <4>1, Tens, Zenon
    <3> QED
      BY <2>2, <3>1, SMT
  <2> HIDE DEF Below
  <2>4. \E w \in least..8 : Below(w) /\ (w = least \/ ~Below(w - 1))
    BY <2>2, SMT
  <2>5. PICK w \in least..8 : Below(w) /\ (w = least \/ ~Below(w - 1))
    BY <2>4
  <2>6. w = least \/ w - 1 \in 1..8
    BY SMT
  <2> QED
    BY <2>3, <2>5, <2>6 DEF Below
<1>2. Fit(Width(n, least)) /\ Width(n, least) \in least..8
  <2>1. Width(n, least) = CHOOSE w \in least..8 : Fit(w)
    BY DEF Width
  <2> HIDE DEF Fit
  <2> QED
    BY <1>1, <2>1
<1> QED
  BY <1>2

(* Each digit of a number is the one of its place.                          *)
LEMMA DigitsFacts ==
    ASSUME NEW n \in Nat, NEW width \in 1..8
    PROVE  /\ DigitsOf(n, width) \in Seq(Character)
           /\ Len(DigitsOf(n, width)) = width
           /\ \A i \in 1..width :
                /\ DigitsOf(n, width)[i] \in Digit
                /\ DigitsOf(n, width)[i]
                     = Digits[((n \div 10^(width - i)) % 10) + 1]
<1> DEFINE D == DigitsOf(n, width)
<1>1. D = [i \in 1..width |-> Digits[((n \div 10^(width - i)) % 10) + 1]]
  BY DEF DigitsOf
<1>2. ASSUME NEW i \in 1..width
      PROVE  Digits[((n \div 10^(width - i)) % 10) + 1] \in Digit
  <2>1. width - i \in 0..7
    BY SMT
  <2>2. 10^(width - i) \in Nat \ {0}
    BY <2>1, Tens
  <2>3. (n \div 10^(width - i)) % 10 \in 0..9
    BY <2>2, SMT
  <2> QED
    BY <2>3, DigitFacts
<1> HIDE DEF D
<1>3. \A i \in 1..width : D[i] \in Digit
  BY <1>1, <1>2
<1>4. D \in [1..width -> Character]
  BY <1>1, <1>2 DEF Character
<1>5. D \in Seq(Character) /\ Len(D) = width
  BY <1>4
<1> QED
  BY <1>1, <1>3, <1>5 DEF D

(* What InsertAt returns: the same characters, with one more among them.    *)
LEMMA InsertFacts ==
    ASSUME NEW s \in Seq(Character), NEW i \in 1..(Len(s) + 1), NEW e \in Character
    PROVE  /\ InsertAt(s, i, e) \in Seq(Character)
           /\ Len(InsertAt(s, i, e)) = Len(s) + 1
           /\ \A j \in 1..(Len(s) + 1) :
                InsertAt(s, i, e)[j] = IF j < i THEN s[j] ELSE IF j = i THEN e ELSE s[j - 1]
<1> DEFINE a == SubSeq(s, 1, i - 1)
           b == <<e>>
           c == SubSeq(s, i, Len(s))
<1>0. Len(s) \in Nat
  BY LenProperties
<1>1. /\ a \in Seq(Character) /\ Len(a) = i - 1
      /\ \A j \in 1..(i - 1) : a[j] = s[j]
  <2>1. \A j \in 1..(i - 1) : s[j] \in Character
    BY <1>0, ElementOfSeq
  <2>2. /\ a \in Seq(Character) /\ Len(a) = IF 1 <= i - 1 THEN i - 1 - 1 + 1 ELSE 0
        /\ \A j \in 1..(i - 1 - 1 + 1) : a[j] = s[1 + j - 1]
    BY <1>0, <2>1, SubSeqProperties
  <2> HIDE DEF a
  <2> QED
    BY <1>0, <2>2
<1>2. /\ c \in Seq(Character) /\ Len(c) = Len(s) - i + 1
      /\ \A j \in 1..(Len(s) - i + 1) : c[j] = s[i + j - 1]
  <2>1. \A j \in i..Len(s) : s[j] \in Character
    BY <1>0, ElementOfSeq
  <2>2. /\ c \in Seq(Character) /\ Len(c) = IF i <= Len(s) THEN Len(s) - i + 1 ELSE 0
        /\ \A j \in 1..(Len(s) - i + 1) : c[j] = s[i + j - 1]
    BY <1>0, <2>1, SubSeqProperties
  <2> HIDE DEF c
  <2> QED
    BY <1>0, <2>2
<1>3. b \in Seq(Character) /\ Len(b) = 1 /\ b[1] = e
  OBVIOUS
<1>4. InsertAt(s, i, e) = (a \o b) \o c
  BY DEF InsertAt
<1> HIDE DEF a, b, c
<1> DEFINE ab == a \o b
<1>5. /\ ab \in Seq(Character) /\ Len(ab) = i
      /\ \A j \in 1..i : ab[j] = IF j <= i - 1 THEN a[j] ELSE b[j - (i - 1)]
  <2>1. /\ ab \in Seq(Character) /\ Len(ab) = Len(a) + Len(b)
        /\ \A j \in 1..Len(a) + Len(b) : ab[j] = IF j <= Len(a) THEN a[j] ELSE b[j - Len(a)]
    BY <1>1, <1>3, ConcatProperties
  <2> HIDE DEF ab
  <2> QED
    BY <1>0, <1>1, <1>3, <2>1
<1> HIDE DEF ab
<1> DEFINE abc == ab \o c
<1>6. /\ abc \in Seq(Character) /\ Len(abc) = Len(ab) + Len(c)
      /\ \A j \in 1..Len(ab) + Len(c) : abc[j] = IF j <= Len(ab) THEN ab[j] ELSE c[j - Len(ab)]
  BY <1>2, <1>5, ConcatProperties
<1>7. InsertAt(s, i, e) = abc
  BY <1>4 DEF ab
<1> HIDE DEF abc
<1>8. Len(ab) + Len(c) = Len(s) + 1
  BY <1>0, <1>2, <1>5
<1>9. ASSUME NEW j \in 1..(Len(s) + 1)
      PROVE  abc[j] = IF j < i THEN s[j] ELSE IF j = i THEN e ELSE s[j - 1]
  <2>1. CASE j < i
    BY <1>0, <1>1, <1>5, <1>6, <1>8, <2>1
  <2>2. CASE j = i
    <3>1. j <= Len(ab) /\ ~(j <= i - 1) /\ j - (i - 1) = 1
      BY <1>0, <1>5, <2>2
    <3> QED
      BY <1>0, <1>3, <1>5, <1>6, <1>8, <2>2, <3>1
  <2>3. CASE j > i
    <3>1. j - i \in 1..(Len(s) - i + 1) /\ i + (j - i) - 1 = j - 1
      BY <1>0, <2>3
    <3> QED
      BY <1>0, <1>2, <1>5, <1>6, <1>8, <2>3, <3>1
  <2> QED
    BY <1>0, <2>1, <2>2, <2>3
<1> QED
  BY <1>6, <1>7, <1>8, <1>9
---------------------------------------------------------------------------
(* A printed number *)

(* Where the digits of a number stand in its text: the i-th character       *)
(* follows Taken(i - 1) digits, and the point, if any, is at the only i     *)
(* where no digit is taken.                                                 *)
DigitsTaken(width, places, i) ==
    IF places = 0 \/ i <= width - places THEN i ELSE i - 1

(* A printed number, character by character.                                *)
LEMMA PlainFacts ==
    ASSUME NEW n \in Countable, NEW places \in 0..7
    PROVE  LET width == Width(n, places + 1)
               digits == DigitsOf(n, width)
               text == Plain(n, places)
           IN  /\ width \in (places + 1)..8
               /\ text \in Seq(Character)
               /\ Len(text) = IF places = 0 THEN width ELSE width + 1
               /\ \A i \in 1..Len(text) :
                    text[i] = IF places # 0 /\ i = width - places + 1 THEN "."
                              ELSE digits[DigitsTaken(width, places, i)]
<1> DEFINE width == Width(n, places + 1)
           digits == DigitsOf(n, width)
           text == Plain(n, places)
<1>1. width \in (places + 1)..8
  BY WidthFacts
<1>2. text = IF places = 0 THEN digits ELSE InsertAt(digits, width - places + 1, ".")
  BY DEF Plain
<1> HIDE DEF width, text
<1>3. digits \in Seq(Character) /\ Len(digits) = width
  <2>1. n \in Nat /\ width \in 1..8
    BY <1>1 DEF Countable
  <2> QED
    BY <2>1, DigitsFacts
<1> HIDE DEF digits
<1>4. CASE places = 0
  <2>1. text = digits
    BY <1>2, <1>4
  <2>2. Len(text) = width
    BY <1>3, <2>1
  <2>3. ASSUME NEW i \in 1..Len(text) PROVE text[i] = digits[DigitsTaken(width, places, i)]
    BY <1>4, <2>1 DEF DigitsTaken
  <2> QED
    BY <1>1, <1>3, <1>4, <2>1, <2>2, <2>3 DEF width, digits, text
<1>5. CASE places # 0
  <2> DEFINE point == width - places + 1
             dot == "."
  <2>1. point \in 1..(Len(digits) + 1) /\ dot \in Character
    BY <1>1, <1>3, <1>5 DEF Character
  <2>2. text = InsertAt(digits, point, dot)
    BY <1>2, <1>5
  <2>3. /\ text \in Seq(Character)
        /\ Len(text) = Len(digits) + 1
        /\ \A j \in 1..(Len(digits) + 1) :
             text[j] = IF j < point THEN digits[j]
                       ELSE IF j = point THEN dot ELSE digits[j - 1]
    <3> HIDE DEF point
    <3> HIDE DEF dot
    <3>0. digits \in Seq(Character) /\ dot \in Character /\ point \in 1..(Len(digits) + 1)
      BY <1>3, <2>1
    <3>1. InsertAt(digits, point, dot) \in Seq(Character)
      BY <3>0, InsertFacts
    <3>2. Len(InsertAt(digits, point, dot)) = Len(digits) + 1
      BY <3>0, InsertFacts
    <3>3. \A j \in 1..(Len(digits) + 1) :
             InsertAt(digits, point, dot)[j]
               = IF j < point THEN digits[j] ELSE IF j = point THEN dot ELSE digits[j - 1]
      BY <3>0, InsertFacts
    <3> QED
      BY <2>2, <3>1, <3>2, <3>3
  <2>4. ASSUME NEW i \in 1..Len(text)
        PROVE  text[i] = IF i = point THEN dot ELSE digits[DigitsTaken(width, places, i)]
    <3>1. CASE i < point
      BY <1>1, <1>3, <1>5, <2>3, <3>1 DEF DigitsTaken
    <3>2. CASE i = point
      BY <1>1, <1>3, <1>5, <2>3, <3>2 DEF DigitsTaken
    <3>3. CASE i > point
      BY <1>1, <1>3, <1>5, <2>3, <3>3 DEF DigitsTaken
    <3> QED
      BY <1>1, <1>3, <2>3, <3>1, <3>2, <3>3
  <2> QED
    BY <1>1, <1>3, <1>5, <2>3, <2>4 DEF width, digits, text
<1> QED
  BY <1>4, <1>5

(* What is read of a number after i characters of its text: its digits so   *)
(* far.                                                                     *)
SoFar(n, places, i) ==
    LET width == Width(n, places + 1)
        taken == IF i > Len(Plain(n, places)) THEN width ELSE DigitsTaken(width, places, i)
    IN  n \div 10^(width - taken)

(* Reading one more character takes the digits that it shows.               *)
LEMMA ReadStep ==
    ASSUME NEW n \in Countable, NEW places \in 0..7, NEW i \in 1..6
    PROVE  ReadChar(SoFar(n, places, i - 1), Plain(n, places), i) = SoFar(n, places, i)
<1> DEFINE width == Width(n, places + 1)
           digits == DigitsOf(n, width)
           text == Plain(n, places)
           taken(j) == IF j > Len(text) THEN width ELSE DigitsTaken(width, places, j)
<1>1. /\ width \in (places + 1)..8
      /\ text \in Seq(Character)
      /\ Len(text) = IF places = 0 THEN width ELSE width + 1
      /\ \A j \in 1..Len(text) :
           text[j] = IF places # 0 /\ j = width - places + 1 THEN "."
                     ELSE digits[DigitsTaken(width, places, j)]
  BY PlainFacts
<1>2. \A j \in 1..width :
         /\ digits[j] \in Digit
         /\ digits[j] = Digits[((n \div 10^(width - j)) % 10) + 1]
  <2>1. n \in Nat /\ width \in 1..8
    BY <1>1 DEF Countable
  <2> HIDE DEF width
  <2> QED
    BY <2>1, DigitsFacts
<1>3. /\ SoFar(n, places, i) = n \div 10^(width - taken(i))
      /\ SoFar(n, places, i - 1) = n \div 10^(width - taken(i - 1))
  BY DEF SoFar
<1>4. DOMAIN text = 1..Len(text)
  BY <1>1, LenProperties
<1> HIDE DEF width, digits, text
<1>5. CASE i \notin 1..Len(text) \/ (places # 0 /\ i = width - places + 1)
  <2>1. taken(i) = taken(i - 1)
    BY <1>1, <1>5 DEF DigitsTaken
  <2>2. ~(i \in DOMAIN text /\ text[i] \in Digit)
    BY <1>1, <1>4, <1>5, DigitFacts
  <2> QED
    BY <1>3, <2>1, <2>2 DEF ReadChar, text
<1>6. CASE i \in 1..Len(text) /\ ~(places # 0 /\ i = width - places + 1)
  <2> DEFINE t == taken(i)
             x == n \div 10^(width - t)
  <2>1. t \in 1..width /\ t = DigitsTaken(width, places, i) /\ taken(i - 1) = t - 1
    BY <1>1, <1>6 DEF DigitsTaken
  <2>2. text[i] = digits[t]
    BY <1>1, <1>6, <2>1
  <2> HIDE DEF t
  <2>3. width - t \in 0..7 /\ width - (t - 1) = (width - t) + 1 /\ n \in Nat
    <3>1. width \in 1..8 /\ t \in 1..width
      BY <1>1, <2>1
    <3> QED
      BY <3>1, SMT DEF Countable
  <2>4. n \div 10^(width - (t - 1)) = x \div 10 /\ x \in Nat
    <3>1. 10^(width - t) \in Nat \ {0} /\ 10^((width - t) + 1) = 10 * 10^(width - t)
      BY <2>3, Tens
    <3>2. n \div (10 * 10^(width - t)) = x \div 10
      BY <2>3, <3>1, DivTen
    <3>3. x \in Nat
      BY <2>3, <3>1, SMT
    <3> QED
      BY <2>3, <3>1, <3>2, <3>3
  <2>5. digits[t] \in Digit /\ digits[t] = Digits[(x % 10) + 1]
    BY <1>2, <2>1
  <2> HIDE DEF x
  <2>6. DigitValue(digits[t]) = x % 10
    <3>1. x % 10 \in 0..9
      BY <2>4, SMT
    <3> QED
      BY <2>5, <3>1, DigitFacts
  <2>7. 10 * (x \div 10) + (x % 10) = x
    BY <2>4, SMT
  <2>8. ReadChar(SoFar(n, places, i - 1), text, i) = 10 * (x \div 10) + (x % 10)
    <3>1. SoFar(n, places, i - 1) = x \div 10
      BY <1>3, <2>1, <2>4
    <3>2. i \in DOMAIN text /\ text[i] \in Digit
      BY <1>4, <1>6, <2>2, <2>5
    <3> QED
      BY <2>2, <2>6, <3>1, <3>2, Zenon DEF ReadChar
  <2>9. SoFar(n, places, i) = x
    BY <1>3 DEF x, t
  <2> QED
    BY <2>7, <2>8, <2>9 DEF text
<1> QED
  BY <1>5, <1>6

(* A number of at most six characters reads as it was printed.              *)
LEMMA UnitsRead ==
    ASSUME NEW n \in Countable, NEW places \in 0..7, Len(Plain(n, places)) <= 6
    PROVE  Units(Plain(n, places)) = n
<1> DEFINE width == Width(n, places + 1)
           text == Plain(n, places)
           read(i) == SoFar(n, places, i)
<1>1. /\ width \in (places + 1)..8
      /\ Len(text) = IF places = 0 THEN width ELSE width + 1
      /\ n \in Nat /\ n < 10^width
  <2>1. places + 1 \in 1..8 /\ n \in Nat
    BY DEF Countable
  <2> QED
    BY <2>1, PlainFacts, WidthFacts
<1>2. read(0) = 0
  <2>1. read(0) = n \div 10^width
    <3>1. ~(0 > Len(text)) /\ DigitsTaken(width, places, 0) = 0 /\ width - 0 = width
      BY <1>1 DEF DigitsTaken
    <3> QED
      BY <3>1 DEF SoFar
  <2>2. 10^width \in Nat \ {0}
    BY <1>1, Tens
  <2> HIDE DEF width
  <2>3. n \div 10^width = 0
    BY <1>1, <2>2, SMT
  <2> QED
    BY <2>1, <2>3
<1>3. read(6) = n
  <2>1. read(6) = n \div 10^0
    <3>1. 6 > Len(text) \/ DigitsTaken(width, places, 6) = width
      BY <1>1 DEF DigitsTaken
    <3>2. width - width = 0
      BY <1>1
    <3> QED
      BY <3>1, <3>2 DEF SoFar
  <2> QED
    BY <1>1, <2>1, TenTable, SMT
<1>4. /\ ReadChar(read(0), text, 1) = read(1)
      /\ ReadChar(read(1), text, 2) = read(2)
      /\ ReadChar(read(2), text, 3) = read(3)
      /\ ReadChar(read(3), text, 4) = read(4)
      /\ ReadChar(read(4), text, 5) = read(5)
      /\ ReadChar(read(5), text, 6) = read(6)
  <2>1. \A i \in 1..6 : ReadChar(read(i - 1), text, i) = read(i)
    BY ReadStep
  <2> HIDE DEF read
  <2> QED
    BY <2>1
<1> HIDE DEF read
<1> QED
  BY <1>2, <1>3, <1>4 DEF Units

(* A digit first, a digit last, and a point in front of the last places.    *)
LEMMA PlainShape ==
    ASSUME NEW n \in Countable, NEW places \in 0..7
    PROVE  LET text == Plain(n, places)
               points == {i \in 1..Len(text) : text[i] = "."}
           IN  /\ text \in Seq(Character) /\ Len(text) \in Nat \ {0}
               /\ text[1] \in Digit /\ text[Len(text)] \in Digit
               /\ points = IF places = 0 THEN {} ELSE {Len(text) - places}
<1> DEFINE width == Width(n, places + 1)
           digits == DigitsOf(n, width)
           text == Plain(n, places)
           points == {i \in 1..Len(text) : text[i] = "."}
<1>1. /\ width \in (places + 1)..8
      /\ text \in Seq(Character)
      /\ Len(text) = IF places = 0 THEN width ELSE width + 1
      /\ \A j \in 1..Len(text) :
           text[j] = IF places # 0 /\ j = width - places + 1 THEN "."
                     ELSE digits[DigitsTaken(width, places, j)]
  BY PlainFacts
<1>2. \A j \in 1..width : digits[j] \in Digit
  <2>1. n \in Nat /\ width \in 1..8
    BY <1>1 DEF Countable
  <2> HIDE DEF width
  <2> QED
    BY <2>1, DigitsFacts
<1> HIDE DEF width, digits, text
<1>3. ASSUME NEW i \in 1..Len(text), ~(places # 0 /\ i = width - places + 1)
      PROVE  text[i] \in Digit
  <2>1. DigitsTaken(width, places, i) \in 1..width
    BY <1>1, <1>3 DEF DigitsTaken
  <2> QED
    BY <1>1, <1>2, <1>3, <2>1
<1>4. text[1] \in Digit /\ text[Len(text)] \in Digit
  <2>1. /\ 1 \in 1..Len(text) /\ Len(text) \in 1..Len(text)
        /\ ~(places # 0 /\ 1 = width - places + 1)
        /\ ~(places # 0 /\ Len(text) = width - places + 1)
    BY <1>1
  <2> QED
    BY <1>3, <2>1
<1>5. ASSUME places # 0 PROVE points = {Len(text) - places}
  <2>1. Len(text) - places \in 1..Len(text) /\ width - places + 1 = Len(text) - places
    BY <1>1, <1>5
  <2>2. text[Len(text) - places] = "."
    BY <1>1, <1>5, <2>1
  <2>3. ASSUME NEW i \in 1..Len(text), i # Len(text) - places PROVE text[i] # "."
    BY <1>3, <2>1, <2>3, DigitFacts
  <2> QED
    BY <2>1, <2>2, <2>3
<1>6. ASSUME places = 0 PROVE points = {}
  BY <1>3, <1>6, DigitFacts
<1>7. Len(text) \in Nat \ {0}
  BY <1>1
<1> QED
  BY <1>1, <1>4, <1>5, <1>6, <1>7 DEF text

(* A number without a sign, and with one, is taken for a number.            *)
LEMMA PlainReads ==
    ASSUME NEW n \in Countable, NEW places \in 0..7, Len(Plain(n, places)) <= 6
    PROVE  LET text == Plain(n, places)
           IN  /\ Parses(text)
               /\ Unsigned(text) = text
               /\ TextNumber(text) = Decimal(n, -places)
<1> DEFINE text == Plain(n, places)
           points == {i \in 1..Len(text) : text[i] = "."}
<1>1. /\ text \in Seq(Character) /\ Len(text) \in Nat \ {0}
      /\ text[1] \in Digit /\ text[Len(text)] \in Digit
      /\ points = IF places = 0 THEN {} ELSE {Len(text) - places}
  BY PlainShape
<1>2. Units(text) = n
  BY UnitsRead
<1> HIDE DEF text
<1>3. DOMAIN text = 1..Len(text) /\ text \in [1..Len(text) -> Character]
  BY <1>1, LenProperties
<1>4. ~Negative(text) /\ Unsigned(text) = text
  <2>1. Head(text) = text[1]
    BY <1>1
  <2>2. text[1] # "-"
    BY <1>1, DigitFacts DEF Character
  <2> QED
    BY <2>1, <2>2 DEF Negative, Unsigned
<1>5. Parses(text)
  <2>1. ToSet(text) \subseteq Character
    BY <1>3 DEF ToSet
  <2>2. text[1] \in ToSet(text)
    BY <1>1, <1>3 DEF ToSet
  <2>3. Cardinality(points) <= 1
    <3>1. points = {} \/ \E k : points = {k}
      BY <1>1
    <3> HIDE DEF points
    <3>2. Cardinality(points) = 0 \/ Cardinality(points) = 1
      BY <3>1, FS_EmptySet, FS_Singleton
    <3> QED
      BY <3>2
  <2>4. {i \in DOMAIN text : text[i] = "."} = points
    BY <1>3
  <2> HIDE DEF points
  <2> QED
    BY <1>1, <1>4, <2>1, <2>2, <2>3, <2>4 DEF Parses, Character
<1>6. SelectInSeq(text, LAMBDA c : c = ".") = IF places = 0 THEN 0 ELSE Len(text) - places
  <2>1. SelectInSeq(text, LAMBDA c : c = ".") = IF points # {} THEN Min(points) ELSE 0
    BY DEF SelectInSeq
  <2>2. \A k \in Int : Min({k}) = k
    BY DEF Min
  <2>3. Len(text) - places \in Int
    BY <1>1
  <2> HIDE DEF points
  <2> QED
    BY <1>1, <2>1, <2>2, <2>3
<1>7. TextNumber(text) = Decimal(n, -places)
  <2>1. TextNumber(text)
          = LET point == IF places = 0 THEN 0 ELSE Len(text) - places
            IN  Decimal(n, IF point = 0 THEN 0 ELSE point - Len(text))
    BY <1>2, <1>4, <1>6, Zenon DEF TextNumber
  <2> QED
    BY <1>1, <2>1
<1> QED
  BY <1>4, <1>5, <1>7 DEF text

(* What a reading field may hold besides its padding.                       *)
Glyph == Character \cup {"-", "O", "L"}

(* Where the characters of a text are in the field.                         *)
LEMMA Shift ==
    ASSUME NEW n \in Nat, n <= 6
    PROVE  /\ \A i \in 1..6 : ~(i + n <= 6) => i + n - 6 \in 1..n
           /\ \A i : i \in (7 - n)..6 <=> i \in 1..6 /\ ~(i + n <= 6)
OBVIOUS

(* Reading a field gives the text that was justified in it.                 *)
LEMMA TrimJustified ==
    ASSUME NEW text \in Seq(Glyph), Len(text) <= 6
    PROVE  TrimPadding(Justified(text)) = text
<1> DEFINE field == Justified(text)
           kept == {i \in 1..Len(field) : field[i] \notin Padding}
<1>1. Len(text) \in Nat /\ DOMAIN text = 1..Len(text)
      /\ \A i \in 1..Len(text) : text[i] \in Glyph
  BY LenProperties
<1>2. \A c \in Glyph : c \notin Padding
  BY DigitFacts DEF Glyph, Padding
<1>3. /\ Len(field) = 6
      /\ \A i \in 1..6 :
           field[i] = IF i + Len(text) <= 6 THEN " " ELSE text[i + Len(text) - 6]
  BY DEF Justified
<1> HIDE DEF field
<1>4. kept = (7 - Len(text))..6
  <2>1. ASSUME NEW i \in 1..6, i + Len(text) <= 6 PROVE field[i] \in Padding
    BY <1>3, <2>1 DEF Padding
  <2>2. ASSUME NEW i \in 1..6, ~(i + Len(text) <= 6) PROVE field[i] \notin Padding
    <3>1. i + Len(text) - 6 \in 1..Len(text)
      BY <1>1, <2>2, Shift
    <3>2. field[i] = text[i + Len(text) - 6]
      BY <1>3, <2>2
    <3> QED
      BY <1>1, <1>2, <3>1, <3>2
  <2>3. \A i : i \in kept <=> i \in 1..6 /\ field[i] \notin Padding
    BY <1>3
  <2>4. ASSUME NEW i PROVE i \in kept <=> i \in (7 - Len(text))..6
    <3>1. i \in (7 - Len(text))..6 <=> i \in 1..6 /\ ~(i + Len(text) <= 6)
      BY <1>1, Shift
    <3> HIDE DEF kept
    <3> QED
      BY <2>1, <2>2, <2>3, <3>1
  <2> HIDE DEF kept
  <2> QED
    BY <2>4
<1>5. CASE Len(text) = 0
  <2>1. kept = {}
    BY <1>4, <1>5
  <2>2. TrimPadding(field) = << >>
    BY <2>1 DEF TrimPadding
  <2>3. text = << >>
    BY <1>5, EmptySeq
  <2> QED
    BY <2>2, <2>3 DEF field
<1>6. CASE Len(text) > 0
  <2>1. kept # {} /\ Min(kept) = 7 - Len(text) /\ Max(kept) = 6
    <3>1. 6 \in kept /\ 7 - Len(text) \in kept
      BY <1>1, <1>4, <1>6
    <3>2. \A i \in kept : i \in Int /\ 7 - Len(text) <= i /\ i <= 6
      BY <1>1, <1>4
    <3> HIDE DEF kept
    <3>3. Min(kept) = 7 - Len(text)
      BY <1>1, <3>1, <3>2 DEF Min
    <3>4. Max(kept) = 6
      BY <3>1, <3>2 DEF Max
    <3> QED
      BY <3>1, <3>3, <3>4
  <2> DEFINE result == SubSeq(field, 7 - Len(text), 6)
  <2>2. TrimPadding(field) = result
    <3>1. TrimPadding(field) = IF kept = {} THEN << >>
                               ELSE SubSeq(field, Min(kept), Max(kept))
      BY DEF TrimPadding
    <3> HIDE DEF kept
    <3> QED
      BY <2>1, <3>1
  <2>3. \A i \in (7 - Len(text))..6 : field[i] = text[i + Len(text) - 6] /\ field[i] \in Glyph
    <3>1. ASSUME NEW i \in (7 - Len(text))..6
          PROVE  field[i] = text[i + Len(text) - 6] /\ field[i] \in Glyph
      <4>1. i \in 1..6 /\ ~(i + Len(text) <= 6) /\ i + Len(text) - 6 \in 1..Len(text)
        BY <1>1
      <4> QED
        BY <1>1, <1>3, <4>1
    <3> QED
      BY <3>1
  <2>4. /\ result \in Seq(Glyph)
        /\ Len(result) = IF 7 - Len(text) <= 6 THEN 6 - (7 - Len(text)) + 1 ELSE 0
        /\ \A i \in 1..(6 - (7 - Len(text)) + 1) : result[i] = field[(7 - Len(text)) + i - 1]
    BY <1>1, <2>3, SubSeqProperties
  <2> HIDE DEF result
  <2>5. Len(result) = Len(text)
    BY <1>1, <1>6, <2>4
  <2>6. ASSUME NEW i \in 1..Len(result) PROVE result[i] = text[i]
    <3>1. /\ i \in 1..(6 - (7 - Len(text)) + 1)
          /\ (7 - Len(text)) + i - 1 \in (7 - Len(text))..6
          /\ ((7 - Len(text)) + i - 1) + Len(text) - 6 = i
      BY <1>1, <2>5
    <3> QED
      BY <2>3, <2>4, <3>1
  <2>7. result = text
    BY <2>4, <2>5, <2>6, SeqEqual
  <2> QED
    BY <2>2, <2>7 DEF field
<1> QED
  BY <1>1, <1>5, <1>6

(* A text with a digit in it is none of the names of the other states.      *)
LEMMA NumberIsNormal ==
    ASSUME NEW text, NEW i \in DOMAIN text, text[i] \in Digit, i \in 1..2, Parses(text)
    PROVE  Classify(text) = "Normal"
<1>1. \A c \in Digit : c # "O" /\ c # "L" /\ c # "-"
  BY OtherGlyphs
<1>2. text # << >>
  OBVIOUS
<1>3. text # <<"O", "L">>
  BY <1>1
<1>4. text # <<"-", "O", "L">>
  BY <1>1
<1>5. ToSet(text) # {"-"}
  BY <1>1 DEF ToSet
<1> QED
  BY <1>2, <1>3, <1>4, <1>5 DEF Classify

(* A sign in front of a text is taken off again.                            *)
LEMMA SignedText ==
    ASSUME NEW t \in Seq(Character), Len(t) \in Nat \ {0}
    PROVE  LET s == <<"-">> \o t
           IN  /\ s \in Seq(Glyph) /\ Len(s) = Len(t) + 1
               /\ DOMAIN s = 1..(Len(t) + 1) /\ s[2] = t[1]
               /\ Negative(s) /\ Unsigned(s) = t
<1> DEFINE sign == <<"-">>
           s == sign \o t
<1>1. sign \in Seq(Glyph) /\ t \in Seq(Glyph) /\ Len(sign) = 1 /\ sign[1] = "-"
  <2>1. "-" \in Glyph /\ Character \subseteq Glyph
    BY DEF Glyph
  <2>2. Len(t) \in Nat /\ t \in [1..Len(t) -> Glyph]
    BY <2>1, LenProperties
  <2> QED
    BY <2>1, <2>2, SeqDef
<1> HIDE DEF sign
<1>2. /\ s \in Seq(Glyph)
      /\ Len(s) = Len(sign) + Len(t)
      /\ \A i \in 1..Len(sign) + Len(t) :
           s[i] = IF i <= Len(sign) THEN sign[i] ELSE t[i - Len(sign)]
  BY <1>1, ConcatProperties, Zenon
<1> HIDE DEF s
<1>3. Len(s) = Len(t) + 1 /\ s[1] = "-" /\ \A i \in 1..Len(t) : s[i + 1] = t[i]
  BY <1>1, <1>2
<1>4. s # << >> /\ DOMAIN s = 1..Len(s)
  BY <1>2, <1>3, LenProperties
<1>5. Negative(s)
  BY <1>2, <1>3, <1>4 DEF Negative
<1>6. Tail(s) = t
  <2>1. /\ Tail(s) \in Seq(Glyph) /\ Len(Tail(s)) = Len(s) - 1
        /\ \A i \in 1..Len(Tail(s)) : Tail(s)[i] = s[i + 1]
    BY <1>2, <1>4, HeadTailProperties
  <2>2. Len(Tail(s)) = Len(t)
    BY <1>3, <2>1
  <2>3. \A i \in 1..Len(Tail(s)) : Tail(s)[i] = t[i]
    BY <1>3, <2>1, <2>2
  <2> QED
    BY <1>1, <2>1, <2>2, <2>3, SeqEqual
<1>7. s[2] = t[1]
  BY <1>3
<1> QED
  BY <1>2, <1>3, <1>4, <1>5, <1>6, <1>7 DEF s, sign, Unsigned

(* What is read of a text that shows a number.                              *)
Says(text, coefficient, places) ==
    /\ text \in Seq(Glyph)
    /\ Classify(text) = "Normal"
    /\ TextNumber(text) = Decimal(coefficient, -places)

(* A number without a sign says what was printed.                           *)
LEMMA PlainSays ==
    ASSUME NEW n \in Countable, NEW places \in 0..7, Len(Plain(n, places)) <= 6
    PROVE  Says(Plain(n, places), n, places)
<1> DEFINE text == Plain(n, places)
<1>1. text \in Seq(Character) /\ Len(text) \in Nat \ {0} /\ text[1] \in Digit
  BY PlainShape
<1>2. Parses(text) /\ TextNumber(text) = Decimal(n, -places)
  BY PlainReads
<1> HIDE DEF text
<1>3. 1 \in DOMAIN text /\ text \in Seq(Glyph)
  <2>1. Len(text) \in Nat /\ text \in [1..Len(text) -> Glyph] /\ DOMAIN text = 1..Len(text)
    BY <1>1, LenProperties DEF Glyph
  <2> QED
    BY <1>1, <2>1, SeqDef
<1>4. Classify(text) = "Normal"
  BY <1>1, <1>2, <1>3, NumberIsNormal
<1> QED
  BY <1>2, <1>3, <1>4 DEF Says, text

(* So does one with a sign, a zero as well.                                 *)
LEMMA SignedSays ==
    ASSUME NEW n \in Countable, NEW places \in 0..7,
           Len(<<"-">> \o Plain(n, places)) <= 6
    PROVE  Says(<<"-">> \o Plain(n, places), -n, places)
<1> DEFINE plain == Plain(n, places)
           text == <<"-">> \o plain
<1>1. plain \in Seq(Character) /\ Len(plain) \in Nat \ {0} /\ plain[1] \in Digit
  BY PlainShape
<1>2. /\ text \in Seq(Glyph) /\ Len(text) = Len(plain) + 1
      /\ DOMAIN text = 1..(Len(plain) + 1) /\ text[2] = plain[1]
      /\ Negative(text) /\ Unsigned(text) = plain
  <2> HIDE DEF plain
  <2> QED
    BY <1>1, SignedText
<1>3. Len(plain) <= 6
  BY <1>1, <1>2
<1>4. Parses(plain) /\ Unsigned(plain) = plain /\ TextNumber(plain) = Decimal(n, -places)
  BY <1>3, PlainReads
<1>5. Units(plain) = n
  BY <1>3, UnitsRead
<1>6. ~Negative(plain)
  <2>1. Head(plain) = plain[1]
    BY <1>1
  <2> QED
    BY <1>1, <2>1, DigitFacts DEF Negative, Character
<1> HIDE DEF plain, text
<1>7. Parses(text)
  BY <1>2, <1>4 DEF Parses
<1>8. TextNumber(text) = Decimal(-n, -places)
  <2> DEFINE point == SelectInSeq(plain, LAMBDA c : c = ".")
             exponent == IF point = 0 THEN 0 ELSE point - Len(plain)
  <2>1. TextNumber(plain) = Decimal(n, exponent)
    BY <1>4, <1>5, <1>6, Zenon DEF TextNumber
  <2>2. TextNumber(text) = Decimal(-n, exponent)
    BY <1>2, <1>5, Zenon DEF TextNumber
  <2> HIDE DEF exponent
  <2>3. exponent = -places
    BY <1>4, <2>1 DEF Decimal
  <2> QED
    BY <2>2, <2>3
<1>9. Classify(text) = "Normal"
  <2>1. 2 \in DOMAIN text /\ text[2] \in Digit
    BY <1>1, <1>2
  <2> QED
    BY <1>7, <2>1, NumberIsNormal
<1> QED
  BY <1>2, <1>8, <1>9 DEF Says, text, plain

(* Whatever number is rendered, in at most six characters, reads back as     *)
(* itself: its text is classified as a number, and parses to just the       *)
(* coefficient and the decimal places it was rendered from.                 *)
THEOREM RenderedSays ==
    ASSUME NEW c \in Int, NEW places \in 0..7,
           IF c < 0 THEN -c \in Countable ELSE c \in Countable,
           Len(Rendered(c, places)) <= 6
    PROVE  Says(Rendered(c, places), c, places)
<1>1. CASE c < 0
  <2>1. Rendered(c, places) = <<"-">> \o Plain(-c, places)
    BY <1>1 DEF Rendered
  <2> DEFINE n == -c
  <2>2. n \in Countable /\ Rendered(c, places) = <<"-">> \o Plain(n, places) /\ -n = c
    BY <1>1, <2>1
  <2> HIDE DEF n
  <2>3. Says(<<"-">> \o Plain(n, places), -n, places)
    BY <2>2, SignedSays
  <2> QED
    BY <2>2, <2>3
<1>2. CASE ~(c < 0)
  <2>1. Rendered(c, places) = Plain(c, places) /\ c \in Countable
    BY <1>2 DEF Rendered
  <2> QED
    BY <2>1, PlainSays
<1> QED
  BY <1>1, <1>2

---------------------------------------------------------------------------
(* What a display's record says *)

(* A display that fits its record and its text.                             *)
Shows(d) ==
    /\ d \in [kind : AllKinds,
              number : (1 - NO_VALUE_MANTISSA)..(NO_VALUE_MANTISSA - 1),
              places : 0..7, multiplier : Multiplier, token : Token, rest : Rest,
              second : {"missing", "unused", "in use"}]
    /\ d.kind = "number" \/ d.number = 0
    /\ Len(ReadingField(d)) <= 6

Record(d) == FromArray(Pack(FieldsOf(d)))

NumberKinds == {"number", "minus zero"}

StateOfKind(kind) ==
    CASE kind \in {"over range", "minus over range"} -> OverRange
      [] kind = "blank" -> Blank
      [] OTHER -> Normal

(* The fields of a display's record that do not depend on its kind.         *)
LEMMA FieldsAre ==
    ASSUME NEW d
    PROVE  LET f == FieldsOf(d)
           IN  /\ f.decimalPlaces = d.places /\ f.magnitude = d.multiplier.magnitude
               /\ f.unit = d.token.unit /\ f.function = d.rest.function
               /\ f.range = d.rest.range /\ f.decade = d.rest.decade
               /\ f.attribute = d.rest.attribute /\ f.capture = d.rest.capture
BY Zenon DEF FieldsOf

(* The fields that do.                                                      *)
LEMMA FieldsByKind ==
    ASSUME NEW d, d.kind \in AllKinds
    PROVE  LET f == FieldsOf(d)
           IN  /\ d.kind = "number" =>
                    /\ f.mantissa = IF d.number < 0 THEN -d.number ELSE d.number
                    /\ f.negative = IF d.number < 0 THEN 1 ELSE 0
               /\ d.kind = "minus zero" => f.mantissa = 0 /\ f.negative = 1
               /\ d.kind \notin NumberKinds =>
                    /\ f.mantissa = NO_VALUE_MANTISSA
                    /\ f.negative = IF d.kind = "minus over range" THEN 1 ELSE 0
               /\ f.state = StateOfKind(d.kind)
<1> DEFINE f == FieldsOf(d)
<1>1. /\ f.mantissa = CASE d.kind = "number" -> IF d.number < 0 THEN -d.number
                                                               ELSE d.number
                         [] d.kind = "minus zero" -> 0
                         [] OTHER -> NO_VALUE_MANTISSA
      /\ f.state = CASE d.kind \in {"over range", "minus over range"} -> OverRange
                      [] d.kind = "blank" -> Blank
                      [] OTHER -> Normal
      /\ f.negative = IF \/ d.kind \in {"minus zero", "minus over range"}
                         \/ d.kind = "number" /\ d.number < 0 THEN 1 ELSE 0
  BY Zenon DEF FieldsOf
<1>2. f.state = StateOfKind(d.kind)
  BY <1>1, Zenon DEF StateOfKind
<1> HIDE DEF f
<1>3. ASSUME d.kind = "number"
      PROVE  /\ f.mantissa = IF d.number < 0 THEN -d.number ELSE d.number
             /\ f.negative = IF d.number < 0 THEN 1 ELSE 0
  BY <1>1, <1>3
<1>4. ASSUME d.kind = "minus zero" PROVE f.mantissa = 0 /\ f.negative = 1
  BY <1>1, <1>4
<1>5. ASSUME d.kind \notin NumberKinds
      PROVE  /\ f.mantissa = NO_VALUE_MANTISSA
             /\ f.negative = IF d.kind = "minus over range" THEN 1 ELSE 0
  BY <1>1, <1>5 DEF NumberKinds
<1> QED
  BY <1>2, <1>3, <1>4, <1>5 DEF f

(* Either characteristic names a prefix by the same code.                   *)
LEMMA MultiplierFacts ==
    ASSUME NEW multiplier \in Multiplier
    PROVE  /\ multiplier.magnitude \in {6, 5, 4, 3, 2, 0}
           /\ MagnitudeOf(multiplier.token) = multiplier.magnitude
BY DEF Multiplier, MagnitudeOf, Absent

(* And a unit.                                                              *)
LEMMA TokenFacts ==
    ASSUME NEW token \in Token
    PROVE  /\ token.unit \in {2, 1, 4, 3, 11, 5, 36, 15, 7, 8, 9}
           /\ UnitOf(token.token, token.coupling) = token.unit
BY DEF Token, UnitOf, Absent

(* The text's marks are there or absent.                                    *)
LEMMA RestFacts ==
    ASSUME NEW rest \in Rest
    PROVE  /\ \/ /\ rest.function = 0 /\ rest.range = 0 /\ rest.decade = 0
                 /\ rest.attribute = 0 /\ rest.capture = 0
              \/ /\ rest.function = 255 /\ rest.range = 127 /\ rest.decade = 7
                 /\ rest.attribute = 31 /\ rest.capture = 1
           /\ (rest.bolt = "*") = (rest.bolt # Absent)
           /\ (rest.inrush = "in") = (rest.inrush # Absent)
BY DEF Rest, Absent

(* Every display fits the bits of its record, and names a unit.             *)
LEMMA FieldsFit ==
    ASSUME NEW d, Shows(d)
    PROVE  Fits(FieldsOf(d)) /\ FieldsOf(d).unit # 0
<1> DEFINE f == FieldsOf(d)
           n == d.number
           none == NO_VALUE_MANTISSA
<1>1. /\ d.kind \in AllKinds /\ n \in (1 - none)..(none - 1)
      /\ d.places \in 0..7 /\ d.multiplier \in Multiplier /\ d.token \in Token
      /\ d.rest \in Rest
  BY DEF Shows
<1>2. none \in Nat /\ none < 2097152
  BY SMT DEF NO_VALUE_MANTISSA
<1>3. n \in Int /\ 1 - none <= n /\ n <= none - 1
  <2> HIDE DEF n, none
  <2> QED
    BY <1>1, <1>2
<1>4. f.mantissa \in Nat /\ f.mantissa <= none /\ f.negative \in {0, 1}
  <2>1. CASE d.kind = "number"
    <3>1. /\ f.mantissa = IF n < 0 THEN -n ELSE n
          /\ f.negative = IF n < 0 THEN 1 ELSE 0
      BY <1>1, <2>1, FieldsByKind, Zenon
    <3> HIDE DEF f, n, none
    <3> QED
      BY <1>2, <1>3, <3>1
  <2>2. CASE d.kind = "minus zero"
    <3>1. f.mantissa = 0 /\ f.negative = 1
      BY <1>1, <2>2, FieldsByKind, Zenon
    <3> HIDE DEF f, n, none
    <3> QED
      BY <1>2, <3>1
  <2>3. CASE d.kind \notin NumberKinds
    <3>1. f.mantissa = none /\ f.negative \in {0, 1}
      BY <1>1, <2>3, FieldsByKind, Zenon
    <3> HIDE DEF f, n, none
    <3> QED
      BY <1>2, <3>1
  <2> QED
    BY <2>1, <2>2, <2>3, Zenon DEF NumberKinds
<1>5. f.state \in {OverRange, Blank, Normal}
  BY <1>1, FieldsByKind, Zenon DEF StateOfKind
<1>6. /\ f.decimalPlaces \in 0..7 /\ f.magnitude \in {6, 5, 4, 3, 2, 0}
      /\ f.unit \in {2, 1, 4, 3, 11, 5, 36, 15, 7, 8, 9}
  BY <1>1, FieldsAre, MultiplierFacts, TokenFacts, Zenon
<1>7. \/ f.function = 0 /\ f.range = 0 /\ f.decade = 0 /\ f.attribute = 0 /\ f.capture = 0
      \/ /\ f.function = 255 /\ f.range = 127 /\ f.decade = 7 /\ f.attribute = 31
         /\ f.capture = 1
  <2>1. LET rest == d.rest
        IN  \/ /\ rest.function = 0 /\ rest.range = 0 /\ rest.decade = 0
               /\ rest.attribute = 0 /\ rest.capture = 0
            \/ /\ rest.function = 255 /\ rest.range = 127 /\ rest.decade = 7
               /\ rest.attribute = 31 /\ rest.capture = 1
    BY <1>1, RestFacts
  <2>2. /\ f.function = d.rest.function /\ f.range = d.rest.range
        /\ f.decade = d.rest.decade /\ f.attribute = d.rest.attribute
        /\ f.capture = d.rest.capture
    BY FieldsAre, Zenon
  <2> HIDE DEF f
  <2> QED
    BY <2>1, <2>2
<1> HIDE DEF f, n, none
<1>8. /\ Bits(f.mantissa, 21) /\ Bits(f.state, 4) /\ Bits(f.negative, 1)
  BY <1>2, <1>4, <1>5, SMT DEF Bits, OverRange, Blank, Normal
<1>9. /\ Bits(f.decimalPlaces, 3) /\ Bits(f.magnitude, 3) /\ Bits(f.unit, 8)
  BY <1>6, SMT DEF Bits
<1>10. /\ Bits(f.function, 8) /\ Bits(f.range, 7) /\ Bits(f.decade, 3)
       /\ Bits(f.attribute, 5) /\ Bits(f.capture, 1)
  BY <1>7, SMT DEF Bits
<1> QED
  BY <1>6, <1>8, <1>9, <1>10 DEF Fits, f

(* The number of a minus zero.                                              *)
LEMMA NegZero == -0 = 0
<1> DEFINE Zero == {k \in Int : k <= 0 /\ k >= 0}
<1>1. 0 \in Zero
  BY SMT
<1>2. \A k \in Zero : -k = 0
  BY SMT
<1> HIDE DEF Zero
<1> QED
  BY <1>1, <1>2, Zenon

(* What a display's record says: its fields, and never that it is unused.   *)
LEMMA RecordSays ==
    ASSUME NEW d, Shows(d)
    PROVE  LET r == Record(d)
           IN  /\ Decodes(r, FieldsOf(d)) /\ ~IsEmptyRecord(r)
               /\ r.magnitude = d.multiplier.magnitude /\ r.unit = d.token.unit
               /\ r.decimalPlaces = d.places /\ r.state = StateOfKind(d.kind)
               /\ HasNumber(r) = (d.kind \in NumberKinds)
               /\ d.kind \in NumberKinds => r.mantissa = d.number
<1> DEFINE f == FieldsOf(d)
           r == Record(d)
           raw == Pack(f)
           n == d.number
           none == NO_VALUE_MANTISSA
<1>1. Fits(f) /\ f.unit # 0
  BY FieldsFit
<1>2. Decodes(r, f) /\ r.raw = raw
  BY <1>1, RoundTrip, Zenon DEF Record, FromArray
<1>3. ~IsEmptyRecord(r)
  <2>1. r.unit = Field(raw, 1, 0, 8) /\ r.unit = f.unit
    BY <1>2, Zenon DEF Record, FromArray, Decodes
  <2> HIDE DEF f, r, raw
  <2>2. ASSUME \A i \in 1..READING_LEN : raw[i] = 0 PROVE Field(raw, 1, 0, 8) = 0
    <3>1. raw[5] = 0 /\ raw[6] = 0 /\ raw[7] = 0 /\ raw[8] = 0
      BY <2>2 DEF READING_LEN
    <3>2. Low(raw, 1) = 0
      BY <3>1, SMT DEF Low
    <3> QED
      BY <3>2, SMT DEF Field
  <2> QED
    BY <1>1, <1>2, <2>1, <2>2 DEF IsEmptyRecord
<1>4. /\ r.mantissa = IF f.negative = 1 THEN -f.mantissa ELSE f.mantissa
      /\ r.state = StateOfKind(d.kind) /\ r.decimalPlaces = d.places
      /\ r.magnitude = d.multiplier.magnitude /\ r.unit = d.token.unit
  <2>1. d.kind \in AllKinds
    BY DEF Shows
  <2> QED
    BY <1>2, <2>1, FieldsAre, FieldsByKind, Zenon DEF Decodes
<1>5. n \in Int /\ none \in Nat /\ 1 - none <= n /\ n <= none - 1
  <2>1. n \in (1 - none)..(none - 1)
    BY DEF Shows
  <2>2. none \in Nat /\ none > 0
    BY SMT DEF NO_VALUE_MANTISSA
  <2> HIDE DEF n, none
  <2> QED
    BY <2>1, <2>2
<1>6. d.kind \in AllKinds /\ (d.kind = "number" \/ n = 0)
  BY DEF Shows
<1>7. ASSUME d.kind \in NumberKinds PROVE r.mantissa = n /\ HasNumber(r)
  <2>1. r.mantissa = n
    <3>1. CASE d.kind = "number"
      <4>1. /\ f.mantissa = IF n < 0 THEN -n ELSE n
            /\ f.negative = IF n < 0 THEN 1 ELSE 0
        BY <1>6, <3>1, FieldsByKind, Zenon
      <4> HIDE DEF f, r, n, none
      <4> QED
        BY <1>4, <1>5, <4>1
    <3>2. CASE d.kind = "minus zero"
      <4>1. f.mantissa = 0 /\ f.negative = 1 /\ n = 0
        BY <1>6, <3>2, FieldsByKind, Zenon
      <4> HIDE DEF f, r, n, none
      <4> QED
        BY <1>4, <4>1, NegZero, Zenon
    <3> QED
      BY <1>7, <3>1, <3>2 DEF NumberKinds
  <2>2. r.state = Normal
    BY <1>4, <1>7 DEF StateOfKind, NumberKinds
  <2> HIDE DEF r, n, none
  <2>3. r.mantissa # none /\ r.mantissa # -none
    BY <1>5, <2>1
  <2> QED
    BY <2>1, <2>2, <2>3 DEF HasNumber, none
<1>8. ASSUME d.kind \notin NumberKinds PROVE ~HasNumber(r)
  <2>1. f.mantissa = none
    BY <1>6, <1>8, FieldsByKind, Zenon
  <2> HIDE DEF f, r
  <2> QED
    BY <1>4, <2>1 DEF HasNumber
<1>9. HasNumber(r) = (d.kind \in NumberKinds)
  <2>1. HasNumber(r) \in BOOLEAN
    BY Zenon DEF HasNumber
  <2>2. HasNumber(r) <=> d.kind \in NumberKinds
    BY <1>7, <1>8
  <2> DEFINE has == HasNumber(r)
             k == d.kind
  <2> HIDE DEF has, k
  <2>3. has = (k \in NumberKinds)
    BY <2>1, <2>2, SMT DEF has, k
  <2> QED
    BY <2>3 DEF has, k
<1>10. d.kind \in NumberKinds => r.mantissa = d.number
  BY <1>7
<1> QED
  BY <1>2, <1>3, <1>4, <1>9, <1>10, Zenon DEF r

(* The state of a text that shows a display of that kind.                   *)
TextKind(kind) ==
    CASE kind \in NumberKinds -> "Normal"
      [] kind \in {"over range", "minus over range"} -> "OverRange"
      [] kind = "dashes" -> "Dashes"
      [] kind = "blank" -> "Blank"

(* The names of the other states are no numbers.                            *)
LEMMA NamesParseNot ==
    ASSUME NEW text \in Seq({"-", "O", "L"})
    PROVE  ~Parses(text)
<1> DEFINE Name == {"-", "O", "L"}
           body == Unsigned(text)
<1>1. body \in Seq(Name)
  <2>1. CASE Negative(text)
    BY <2>1, HeadTailProperties DEF Negative, Unsigned
  <2>2. CASE ~Negative(text)
    BY <2>2 DEF Unsigned
  <2> QED
    BY <2>1, <2>2
<1> HIDE DEF body
<1>2. ToSet(body) \subseteq Name
  <2>1. body \in [1..Len(body) -> Name]
    BY <1>1, LenProperties
  <2> QED
    BY <2>1 DEF ToSet
<1>3. \A c \in Name : c \notin Digit
  BY OtherGlyphs
<1>4. ToSet(body) \cap Digit = {}
  <2> HIDE DEF Name
  <2> QED
    BY <1>2, <1>3
<1> QED
  BY <1>4, Zenon DEF Parses, body

(* Each of them is told apart.                                              *)
LEMMA NamesSay ==
    /\ <<"O", "L">> \in Seq(Glyph) /\ Classify(<<"O", "L">>) = "OverRange"
    /\ <<"-", "O", "L">> \in Seq(Glyph) /\ Classify(<<"-", "O", "L">>) = "OverRange"
    /\ FourDashes \in Seq(Glyph) /\ Classify(FourDashes) = "Dashes"
    /\ << >> \in Seq(Glyph) /\ Classify(<< >>) = "Blank"
<1>1. /\ ~Parses(<<"O", "L">>) /\ ~Parses(<<"-", "O", "L">>)
      /\ ~Parses(FourDashes) /\ ~Parses(<< >>)
  <2>1. /\ <<"O", "L">> \in Seq({"-", "O", "L"}) /\ << >> \in Seq({"-", "O", "L"})
        /\ <<"-", "O", "L">> \in Seq({"-", "O", "L"})
        /\ FourDashes \in Seq({"-", "O", "L"})
    BY SMT DEF FourDashes
  <2> QED
    BY <2>1, NamesParseNot, Zenon
<1>2. Classify(<<"O", "L">>) = "OverRange"
  <2>1. ToSet(<<"O", "L">>) # {"-"}
    BY DEF ToSet
  <2>2. <<"O", "L">> # << >>
    OBVIOUS
  <2> QED
    BY <1>1, <2>1, <2>2, Zenon DEF Classify
<1>3. Classify(<<"-", "O", "L">>) = "OverRange"
  <2>1. ToSet(<<"-", "O", "L">>) # {"-"}
    BY DEF ToSet
  <2>2. <<"-", "O", "L">> # << >>
    OBVIOUS
  <2> QED
    BY <1>1, <2>1, <2>2, Zenon DEF Classify
<1>4. Classify(FourDashes) = "Dashes"
  <2>1. ToSet(FourDashes) = {"-"}
    BY DEF FourDashes, ToSet
  <2>2. FourDashes # << >> /\ FourDashes \notin {<<"O", "L">>, <<"-", "O", "L">>}
    BY DEF FourDashes
  <2> QED
    BY <1>1, <2>1, <2>2, Zenon DEF Classify
<1>5. Classify(<< >>) = "Blank"
  <2>1. ToSet(<< >>) # {"-"}
    BY DEF ToSet
  <2>2. << >> \notin {<<"O", "L">>, <<"-", "O", "L">>}
    OBVIOUS
  <2> QED
    BY <1>1, <2>1, <2>2, Zenon DEF Classify
<1>6. "-" \in Glyph /\ "O" \in Glyph /\ "L" \in Glyph
  BY DEF Glyph
<1>7. /\ <<"O", "L">> \in Seq(Glyph) /\ <<"-", "O", "L">> \in Seq(Glyph)
      /\ FourDashes \in Seq(Glyph) /\ << >> \in Seq(Glyph)
  BY <1>6, SMT DEF FourDashes
<1> QED
  BY <1>2, <1>3, <1>4, <1>5, <1>7

(* What a display's text says: its reading field without the padding.       *)
LEMMA TextSays ==
    ASSUME NEW d, Shows(d)
    PROVE  LET x == FromText(Text(d))
           IN  /\ x.text = ReadingField(d) /\ x.state = TextKind(d.kind)
               /\ x.magnitude = d.multiplier.magnitude /\ x.unit = d.token.unit
               /\ x.hazardousVoltage = (d.rest.bolt # Absent)
               /\ x.inrush = (d.rest.inrush # Absent)
               /\ d.kind \in NumberKinds =>
                    TextNumber(ReadingField(d)) = Decimal(d.number, -d.places)
<1> DEFINE field == ReadingField(d)
           n == d.number
           places == d.places
           none == NO_VALUE_MANTISSA
<1>1. /\ d.kind \in AllKinds /\ n \in (1 - none)..(none - 1)
      /\ places \in 0..7 /\ d.multiplier \in Multiplier /\ d.token \in Token
      /\ d.rest \in Rest /\ (d.kind = "number" \/ n = 0) /\ Len(field) <= 6
  BY DEF Shows
<1>2. n \in Int /\ IF n < 0 THEN -n \in Countable ELSE n \in Countable
  <2>1. none \in Nat /\ none < 10^7
    BY SMT DEF NO_VALUE_MANTISSA
  <2> DEFINE limit == 10^7
  <2>2. limit \in Nat
    BY Tens
  <2> HIDE DEF n, none, limit
  <2>3. none < limit
    BY <2>1 DEF limit
  <2>4. n \in Int /\ n < limit /\ -n < limit
    BY <1>1, <2>1, <2>2, <2>3
  <2> QED
    BY <2>4 DEF Countable, limit
<1>3. 0 \in Countable
  BY SMT DEF Countable
<1>4. ASSUME d.kind \in NumberKinds PROVE Says(field, n, places)
  <2>1. CASE d.kind = "number"
    <3>1. field = Rendered(n, places)
      BY <2>1 DEF ReadingField
    <3> HIDE DEF field, n, places, none
    <3> QED
      BY <1>1, <1>2, <3>1, RenderedSays
  <2>2. CASE d.kind = "minus zero"
    <3>1. field = <<"-">> \o Rendered(0, places) /\ n = 0
      BY <1>1, <2>2 DEF ReadingField
    <3>2. Rendered(0, places) = Plain(0, places)
      BY DEF Rendered
    <3> DEFINE zero == 0
    <3>3. zero \in Countable /\ field = <<"-">> \o Plain(zero, places) /\ -zero = n
      BY <1>3, <3>1, <3>2, NegZero, Zenon
    <3> HIDE DEF zero, field, n, places, none
    <3> QED
      BY <1>1, <3>3, SignedSays
  <2> QED
    BY <1>4, <2>1, <2>2 DEF NumberKinds
<1>5. field \in Seq(Glyph) /\ Classify(field) = TextKind(d.kind)
  <2>1. CASE d.kind \in NumberKinds
    <3>1. TextKind(d.kind) = "Normal"
      BY <2>1 DEF TextKind, NumberKinds
    <3> QED
      BY <1>4, <2>1, <3>1, Zenon DEF Says
  <2>2. CASE d.kind = "over range"
    BY <2>2, NamesSay DEF ReadingField, TextKind, NumberKinds
  <2>3. CASE d.kind = "minus over range"
    BY <2>3, NamesSay DEF ReadingField, TextKind, NumberKinds
  <2>4. CASE d.kind = "blank"
    BY <2>4, NamesSay DEF ReadingField, TextKind, NumberKinds
  <2>5. CASE d.kind = "dashes"
    BY <2>5, NamesSay DEF ReadingField, TextKind, NumberKinds
  <2>6. \/ d.kind \in NumberKinds \/ d.kind = "over range" \/ d.kind = "minus over range"
        \/ d.kind = "blank" \/ d.kind = "dashes"
    BY <1>1 DEF AllKinds, NumberKinds
  <2> QED
    BY <2>1, <2>2, <2>3, <2>4, <2>5, <2>6
<1>6. TrimPadding(Justified(field)) = field
  BY <1>1, <1>5, TrimJustified
<1> DEFINE text == Text(d)
           x == FromText(text)
<1>7. /\ text.reading = Justified(field) /\ text.multiplier = d.multiplier.token
      /\ text.unit = d.token.token /\ text.acdc = d.token.coupling
      /\ text.bolt = d.rest.bolt /\ text.inrush = d.rest.inrush
  BY Zenon DEF Text
<1> HIDE DEF text
<1>8. /\ x.text = TrimPadding(text.reading) /\ x.state = Classify(TrimPadding(text.reading))
      /\ x.magnitude = MagnitudeOf(text.multiplier) /\ x.unit = UnitOf(text.unit, text.acdc)
      /\ x.hazardousVoltage = (text.bolt = "*") /\ x.inrush = (text.inrush = "in")
  BY Zenon DEF FromText
<1> HIDE DEF x
<1>9. x.text = field /\ x.state = TextKind(d.kind)
  BY <1>5, <1>6, <1>7, <1>8
<1>10. x.magnitude = d.multiplier.magnitude /\ x.unit = d.token.unit
  BY <1>1, <1>7, <1>8, MultiplierFacts, TokenFacts, Zenon
<1>11. x.hazardousVoltage = (d.rest.bolt # Absent) /\ x.inrush = (d.rest.inrush # Absent)
  BY <1>1, <1>7, <1>8, RestFacts, Zenon
<1>12. d.kind \in NumberKinds => TextNumber(field) = Decimal(n, -places)
  BY <1>4 DEF Says
<1> QED
  BY <1>9, <1>10, <1>11, <1>12 DEF x, text

(* A packed record is one.                                                  *)
LEMMA PackIsRecord ==
    ASSUME NEW f, Fits(f)
    PROVE  Pack(f) \in Seq(Nat) /\ Len(Pack(f)) = READING_LEN
<1> DEFINE s == Bytes(LowWord(f), f.negative)
           t == Bytes(HighWord(f), f.capture)
<1>1. IsWord(LowWord(f)) /\ IsWord(HighWord(f))
  BY LowSplits, HighSplits, Zenon DEF Fits, LowWord, HighWord
<1>2. s \in Seq(Nat) /\ Len(s) = 4 /\ t \in Seq(Nat) /\ Len(t) = 4
  BY <1>1, BytesJoin, Zenon DEF Fits
<1> HIDE DEF s, t
<1>3. s \o t \in Seq(Nat) /\ Len(s \o t) = 8
  BY <1>2, Halves, Zenon
<1> QED
  BY <1>3, Zenon DEF Pack, READING_LEN, s, t

(* So is an unused one, and it is taken for unused.                         *)
LEMMA UnusedIsRecord ==
    Unused \in Seq(Nat) /\ Len(Unused) = READING_LEN /\ IsEmptyRecord(FromArray(Unused))
<1>1. Unused \in Seq(Nat) /\ Len(Unused) = READING_LEN
  BY DEF Unused, READING_LEN
<1>2. FromArray(Unused).raw = Unused
  BY Zenon DEF FromArray
<1>3. \A i \in 1..READING_LEN : Unused[i] = 0
  BY DEF Unused
<1> QED
  BY <1>1, <1>2, <1>3, Zenon DEF IsEmptyRecord

(* A payload of two records is split into the two.                          *)
LEMMA TwoRecords ==
    ASSUME NEW a \in Seq(Nat), NEW b \in Seq(Nat),
           Len(a) = READING_LEN, Len(b) = READING_LEN
    PROVE  /\ Len(a \o b) = 2 * READING_LEN
           /\ SubSeq(a \o b, 1, READING_LEN) = a
           /\ SubSeq(a \o b, READING_LEN + 1, 2 * READING_LEN) = b
<1> DEFINE p == a \o b
<1>1. /\ p \in Seq(Nat) /\ Len(p) = Len(a) + Len(b)
      /\ \A i \in 1..Len(a) + Len(b) : p[i] = IF i <= Len(a) THEN a[i] ELSE b[i - Len(a)]
  BY ConcatProperties, Zenon
<1> HIDE DEF p
<1>2. Len(p) = 16 /\ Len(a) = 8 /\ Len(b) = 8
  BY <1>1 DEF READING_LEN
<1>3. \A i \in 1..8 : p[i] = a[i]
  BY <1>1, <1>2
<1>4. \A i \in 1..8 : p[8 + i] = b[i]
  <2>1. ASSUME NEW i \in 1..8 PROVE p[8 + i] = b[i]
    <3>1. 8 + i \in 1..16 /\ ~(8 + i <= 8) /\ (8 + i) - 8 = i
      OBVIOUS
    <3> QED
      BY <1>1, <1>2, <3>1
  <2> QED
    BY <2>1
<1>7. /\ \A i \in 1..8 : p[i] \in Nat
      /\ \A i \in 9..16 : p[i] \in Nat
  <2>1. p \in [1..16 -> Nat]
    BY <1>1, <1>2, LenProperties
  <2> DEFINE all == 1..16
  <2>2. 1..8 \subseteq all /\ 9..16 \subseteq all
    OBVIOUS
  <2> HIDE DEF all
  <2> QED
    BY <2>1, <2>2, Zenon DEF all
<1>5. SubSeq(p, 1, 8) = a
  <2> DEFINE s == SubSeq(p, 1, 8)
  <2>1. /\ s \in Seq(Nat) /\ Len(s) = 8
        /\ \A i \in 1..8 : s[i] = p[i]
    <3>1. \A i \in 1..8 : p[i] \in Nat
      BY <1>7
    <3> QED
      BY <1>1, <3>1, SubSeqProperties
  <2> HIDE DEF s
  <2>2. \A i \in 1..Len(s) : s[i] = a[i]
    BY <1>3, <2>1
  <2>3. s = a
    BY <1>2, <2>1, <2>2, SeqEqual
  <2> QED
    BY <2>3 DEF s
<1>6. SubSeq(p, 9, 16) = b
  <2> DEFINE s == SubSeq(p, 9, 16)
  <2>1. /\ s \in Seq(Nat) /\ Len(s) = 8
        /\ \A i \in 1..8 : s[i] = p[8 + i]
    <3>1. \A i \in 9..16 : p[i] \in Nat
      BY <1>7
    <3> QED
      BY <1>1, <3>1, SubSeqProperties
  <2> HIDE DEF s
  <2>2. \A i \in 1..Len(s) : s[i] = b[i]
    BY <1>4, <2>1
  <2>3. s = b
    BY <1>2, <2>1, <2>2, SeqEqual
  <2> QED
    BY <2>3 DEF s
<1>8. READING_LEN = 8 /\ READING_LEN + 1 = 9 /\ 2 * READING_LEN = 16
  BY DEF READING_LEN
<1> QED
  BY <1>2, <1>5, <1>6, <1>8, Zenon DEF p

(* What a display's payload has besides its first record.                   *)
SecondOf(d) == IF d.second = "in use" THEN {Record(d)} ELSE {}

(* The device's payload decodes to the display's record, and to a second    *)
(* one exactly when that is in use.                                         *)
LEMMA PayloadDecodes ==
    ASSUME NEW d, Shows(d)
    PROVE  /\ Acceptable(Payload(d))
           /\ NotificationFromBytes(Payload(d)).primary = Record(d)
           /\ NotificationFromBytes(Payload(d)).secondary = SecondOf(d)
<1> DEFINE f == FieldsOf(d)
           raw == Pack(f)
<1>1. raw \in Seq(Nat) /\ Len(raw) = READING_LEN
  BY FieldsFit, PackIsRecord
<1>2. ~IsEmptyRecord(Record(d)) /\ FromArray(raw) = Record(d)
  BY RecordSays, Zenon DEF Record
<1>3. READING_LEN = 8 /\ 2 * READING_LEN # READING_LEN
  BY DEF READING_LEN
<1>4. d.second \in {"missing", "unused", "in use"}
  BY DEF Shows
<1> HIDE DEF f, raw
<1>5. CASE d.second = "missing"
  <2>1. Payload(d) = raw
    BY <1>5 DEF Payload, raw, f
  <2>2. /\ Acceptable(raw)
        /\ NotificationFromBytes(raw).primary = Record(d)
        /\ NotificationFromBytes(raw).secondary = {}
    BY <1>1, <1>2, Zenon DEF Acceptable, NotificationFromBytes
  <2>3. SecondOf(d) = {}
    BY <1>5 DEF SecondOf
  <2> QED
    BY <2>1, <2>2, <2>3, Zenon
<1>6. ASSUME NEW other \in Seq(Nat), Len(other) = READING_LEN
      PROVE  /\ Acceptable(raw \o other)
             /\ NotificationFromBytes(raw \o other).primary = Record(d)
             /\ NotificationFromBytes(raw \o other).secondary
                  = IF IsEmptyRecord(FromArray(other)) THEN {} ELSE {FromArray(other)}
  <2>1. /\ Len(raw \o other) = 2 * READING_LEN
        /\ SubSeq(raw \o other, 1, READING_LEN) = raw
        /\ SubSeq(raw \o other, READING_LEN + 1, 2 * READING_LEN) = other
    BY <1>1, <1>6, TwoRecords
  <2>2. Len(raw \o other) # READING_LEN
    BY <1>3, <2>1, Zenon
  <2> QED
    BY <1>2, <2>1, <2>2, Zenon DEF Acceptable, NotificationFromBytes
<1>7. CASE d.second = "unused"
  <2>1. Payload(d) = raw \o Unused
    BY <1>7 DEF Payload, raw, f
  <2>2. SecondOf(d) = {}
    BY <1>7 DEF SecondOf
  <2> QED
    BY <1>6, <2>1, <2>2, UnusedIsRecord, Zenon
<1>8. CASE d.second = "in use"
  <2>1. Payload(d) = raw \o raw
    BY <1>8 DEF Payload, raw, f
  <2>2. SecondOf(d) = {Record(d)}
    BY <1>8 DEF SecondOf
  <2> QED
    BY <1>1, <1>2, <1>6, <2>1, <2>2, Zenon
<1> QED
  BY <1>4, <1>5, <1>7, <1>8

---------------------------------------------------------------------------
(* The inductive invariant: a display that fits, and from each              *)
(* characteristic nothing yet, an error, or just what was sent.             *)
Decoded ==
    /\ Shows(display)
    /\ \/ ~Read
       \/ binary = Binary(Record(display)) /\ second = SecondOf(display)
    /\ \/ ~ReadText
       \/ ascii = Ascii(FromText(Text(display)))

(* It holds at first.                                                       *)
LEMMA InitDecoded == Init => Decoded
<1> SUFFICES ASSUME Init PROVE Decoded
  OBVIOUS
<1>1. ~Read /\ ~ReadText
  BY DEF Init, None, Read, ReadText
<1> DEFINE d == display
<1>2. PICK kind \in Kinds, number \in Numbers, places \in Places,
           multiplier \in Multiplier, token \in Token, rest \in Rest,
           other \in {"missing", "unused", "in use"} :
        d = [kind |-> kind, number |-> number, places |-> places,
             multiplier |-> multiplier, token |-> token, rest |-> rest,
             second |-> other]
  BY Zenon DEF Init
<1>3. /\ kind \in AllKinds /\ places \in 0..7
      /\ number \in (1 - NO_VALUE_MANTISSA)..(NO_VALUE_MANTISSA - 1)
  BY KindsAssumption, NumbersAssumption, Zenon
<1>4. (d.kind = "number" \/ d.number = 0) /\ Len(ReadingField(d)) <= 6
  BY DEF Init
<1> HIDE DEF d
<1>5. Shows(d)
  BY <1>2, <1>3, <1>4 DEF Shows
<1> QED
  BY <1>1, <1>5 DEF Decoded, d

(* Every notification keeps it.                                             *)
LEMMA NextDecoded == Decoded /\ [Next]_vars => Decoded'
<1> SUFFICES ASSUME Decoded, [Next]_vars PROVE Decoded'
  OBVIOUS
<1>1. CASE NotifyBinary
  <2>1. /\ Acceptable(Payload(display))
        /\ NotificationFromBytes(Payload(display)).primary = Record(display)
        /\ NotificationFromBytes(Payload(display)).secondary = SecondOf(display)
    BY PayloadDecodes DEF Decoded
  <2>2. /\ binary' = Binary(Record(display)) /\ second' = SecondOf(display)
        /\ display' = display /\ ascii' = ascii
    BY <1>1, <2>1, Zenon DEF NotifyBinary, Receive
  <2> QED
    BY <2>2, Zenon DEF Decoded, Read, ReadText
<1>2. CASE NotifyMalformed
  <2>1. PICK n \in Lengths : Receive([i \in 1..n |-> 0])
    BY <1>2 DEF NotifyMalformed
  <2>2. n \in Nat /\ n # READING_LEN /\ n # 2 * READING_LEN
    BY LengthsAssumption
  <2>3. ~Acceptable([i \in 1..n |-> 0])
    <3>1. Len([i \in 1..n |-> 0]) = n
      BY <2>2
    <3> QED
      BY <2>2, <3>1 DEF Acceptable
  <2>4. binary' = Malformed /\ display' = display /\ ascii' = ascii
    BY <1>2, <2>1, <2>3 DEF Receive, NotifyMalformed
  <2>5. ~(Read')
    BY <2>4 DEF Read, Malformed
  <2> QED
    BY <2>4, <2>5, Zenon DEF Decoded, ReadText
<1>3. CASE NotifyAscii
  <2>1. PICK payload \in TextPayload(display) :
          ascii' = IF Accepted(FromBytes(payload)) THEN Ascii(FromBytes(payload))
                                                   ELSE Malformed
    BY <1>3 DEF NotifyAscii
  <2>2. display' = display /\ binary' = binary /\ second' = second
    BY <1>3 DEF NotifyAscii
  <2>3. payload.text = Text(display)
    BY DEF TextPayload
  <2>4. CASE Accepted(FromBytes(payload))
    <3>1. ASSUME NEW why PROVE ~Accepted(Rejected(why))
      BY DEF Accepted, Rejected
    <3>2. FromBytes(payload) = FromText(payload.text)
      BY <2>4, <3>1, Zenon DEF FromBytes
    <3>3. ascii' = Ascii(FromText(Text(display)))
      BY <2>1, <2>3, <2>4, <3>2
    <3> QED
      BY <2>2, <3>3, Zenon DEF Decoded, Read
  <2>5. CASE ~Accepted(FromBytes(payload))
    <3>1. ~(ReadText')
      BY <2>1, <2>5 DEF ReadText, Malformed
    <3> QED
      BY <2>2, <3>1, Zenon DEF Decoded, Read
  <2> QED
    BY <2>4, <2>5
<1>4. CASE UNCHANGED vars
  BY <1>4, Zenon DEF vars, Decoded, Read, ReadText
<1> QED
  BY <1>1, <1>2, <1>3, <1>4 DEF Next

(* What is decoded of a display is the record that its fields pack into and *)
(* the text that shows it, in every state: from_bytes drops, swaps and      *)
(* mixes up nothing, whatever errors come between.                          *)
THEOREM DecodedAlways == Spec => []Decoded
  BY InitDecoded, NextDecoded, PTL DEF Spec

(* Whatever the device packs, from_bytes decodes field by field, of the     *)
(* first record and of the second, and the second is there exactly when it  *)
(* is in use; so are the marks of the text.                                 *)
THEOREM FieldsAlwaysSurvive == Spec => []FieldsSurvive
<1>1. Decoded => FieldsSurvive
  <2> SUFFICES ASSUME Decoded PROVE FieldsSurvive
    OBVIOUS
  <2>1. ASSUME Read
        PROVE  /\ Decodes(binary.of, FieldsOf(display))
               /\ second # {} <=> display.second = "in use"
               /\ \A reading \in second : Decodes(reading, FieldsOf(display))
    <3>1. binary.of = Record(display) /\ second = SecondOf(display)
      BY <2>1 DEF Decoded, Binary
    <3>2. Decodes(Record(display), FieldsOf(display))
      BY RecordSays DEF Decoded
    <3> QED
      BY <3>1, <3>2, Zenon DEF SecondOf
  <2>2. ASSUME ReadText
        PROVE  /\ ascii.of.hazardousVoltage = (display.rest.bolt # Absent)
               /\ ascii.of.inrush = (display.rest.inrush # Absent)
    <3>1. ascii.of = FromText(Text(display))
      BY <2>2 DEF Decoded, Ascii
    <3> QED
      BY <3>1, TextSays DEF Decoded
  <2> QED
    BY <2>1, <2>2 DEF FieldsSurvive
<1> QED
  BY <1>1, DecodedAlways, PTL

(* What both measurements of one display answer, once both are there.       *)
LEMMA BothSay ==
    ASSUME Decoded, Both
    PROVE  LET r == Record(display)
               x == FromText(Text(display))
           IN  /\ IsBinary(binary) /\ binary.of = r /\ ~IsBinary(ascii) /\ ascii.of = x
               /\ ~IsEmptyRecord(r) /\ r.state = StateOfKind(display.kind)
               /\ HasNumber(r) = (display.kind \in NumberKinds)
               /\ display.kind \in NumberKinds => r.mantissa = display.number
               /\ r.decimalPlaces = display.places
               /\ r.magnitude = display.multiplier.magnitude /\ r.unit = display.token.unit
               /\ x.text = ReadingField(display) /\ x.state = TextKind(display.kind)
               /\ x.magnitude = display.multiplier.magnitude /\ x.unit = display.token.unit
               /\ display.kind \in NumberKinds =>
                    TextNumber(x.text) = Decimal(display.number, -display.places)
<1>1. binary = Binary(Record(display)) /\ ascii = Ascii(FromText(Text(display)))
  BY DEF Decoded, Both
<1>2. /\ IsBinary(binary) /\ binary.of = Record(display)
      /\ ~IsBinary(ascii) /\ ascii.of = FromText(Text(display))
  BY <1>1 DEF Binary, Ascii, IsBinary
<1>3. Shows(display)
  BY DEF Decoded
<1> QED
  BY <1>2, <1>3, RecordSays, TextSays, Zenon

(* Record and text name the same state by their own words.                  *)
LEMMA KindFacts ==
    ASSUME NEW kind \in AllKinds
    PROVE  /\ (TextKind(kind) = "Normal") = (kind \in NumberKinds)
           /\ kind # "dashes" =>
                /\ StateOfText(TextKind(kind)) = StateOfKind(kind)
                /\ (kind \in NumberKinds) = (StateOfKind(kind) = Normal)
<1>1. CASE kind \in NumberKinds
  <2>1. TextKind(kind) = "Normal" /\ StateOfKind(kind) = Normal
    BY <1>1 DEF TextKind, NumberKinds, StateOfKind
  <2>2. StateOfText("Normal") = Normal
    BY DEF StateOfText
  <2> QED
    BY <1>1, <2>1, <2>2
<1>2. CASE kind \in {"over range", "minus over range"}
  <2>1. /\ TextKind(kind) = "OverRange" /\ StateOfKind(kind) = OverRange
        /\ kind \notin NumberKinds
    BY <1>2 DEF TextKind, NumberKinds, StateOfKind
  <2>2. StateOfText("OverRange") = OverRange /\ OverRange # Normal
    BY DEF StateOfText, OverRange, Normal
  <2> QED
    BY <2>1, <2>2
<1>3. CASE kind = "blank"
  <2>1. TextKind(kind) = "Blank" /\ StateOfKind(kind) = Blank /\ kind \notin NumberKinds
    BY <1>3 DEF TextKind, NumberKinds, StateOfKind
  <2>2. StateOfText("Blank") = Blank /\ Blank # Normal
    BY DEF StateOfText, Blank, Normal
  <2> QED
    BY <2>1, <2>2
<1>4. CASE kind = "dashes"
  <2>1. TextKind(kind) = "Dashes" /\ kind \notin NumberKinds
    BY <1>4 DEF TextKind, NumberKinds
  <2> QED
    BY <1>4, <2>1
<1>5. \/ kind \in NumberKinds \/ kind \in {"over range", "minus over range"}
      \/ kind = "blank" \/ kind = "dashes"
  BY DEF AllKinds, NumberKinds
<1> QED
  BY <1>1, <1>2, <1>3, <1>4, <1>5

(* Both say there is a number, or neither.                                  *)
LEMMA ValuesTogether ==
    ASSUME Decoded, Both
    PROVE  /\ HasValue(binary) = (display.kind \in NumberKinds)
           /\ HasValue(ascii) = (display.kind \in NumberKinds)
<1>1. display.kind \in AllKinds
  BY DEF Decoded, Shows
<1>2. HasValue(binary) = HasNumber(binary.of)
  <2>1. HasNumber(binary.of) \in BOOLEAN
    BY Zenon DEF HasNumber
  <2> QED
    BY <2>1, BothSay, Zenon DEF HasValue
<1>3. HasValue(ascii) = (ascii.of.state = "Normal")
  BY BothSay, Zenon DEF HasValue
<1> QED
  BY <1>1, <1>2, <1>3, BothSay, KindFacts, Zenon

(* Measurement::state answers the same of the record and of the text of any *)
(* display but dashes, and a record has a value in just the Normal state.   *)
THEOREM StatesAlwaysAgree == Spec => []AgreeOnState
<1>1. Decoded => AgreeOnState
  <2> SUFFICES ASSUME Decoded, Both, display.kind # "dashes"
               PROVE  /\ State(binary) = State(ascii)
                      /\ HasValue(binary) = (State(binary) = Normal)
    BY DEF AgreeOnState
  <2>1. display.kind \in AllKinds
    BY DEF Decoded, Shows
  <2>2. State(binary) = StateOfKind(display.kind)
    BY BothSay, Zenon DEF State
  <2>3. State(ascii) = StateOfText(TextKind(display.kind))
    BY BothSay, Zenon DEF State
  <2>4. HasValue(binary) = (display.kind \in NumberKinds)
    BY ValuesTogether
  <2> QED
    BY <2>1, <2>2, <2>3, <2>4, KindFacts, Zenon
<1> QED
  BY <1>1, DecodedAlways, PTL

(* Moving the point of a whole number left.                                 *)
LEMMA ShiftsPoint ==
    ASSUME NEW number, NEW places \in 0..7
    PROVE  Scale(Decimal(number, 0), -places) = Decimal(number, -places)
<1> DEFINE shift == -places
           whole == [coefficient |-> number, exponent |-> 0, finite |-> TRUE]
<1>1. InTable(shift)
  BY ExponentsInTable
<1>2. shift \in Int /\ 0 + shift = shift
  OBVIOUS
<1>3. Decimal(number, 0) = whole
  BY DEF Decimal
<1> HIDE DEF shift
<1>4. Scale(whole, shift) = [whole EXCEPT !.exponent = 0 + shift]
  BY <1>1, Zenon DEF Scale
<1>5. [whole EXCEPT !.exponent = shift]
        = [coefficient |-> number, exponent |-> shift, finite |-> TRUE]
  <2> DEFINE Numeral == [coefficient : {number}, exponent : Int, finite : BOOLEAN]
             x == [whole EXCEPT !.exponent = shift]
             y == [coefficient |-> number, exponent |-> shift, finite |-> TRUE]
  <2>1. x \in Numeral /\ x.coefficient = number /\ x.exponent = shift /\ x.finite = TRUE
    BY <1>2
  <2>2. y \in Numeral /\ y.coefficient = number /\ y.exponent = shift /\ y.finite = TRUE
    BY <1>2
  <2> HIDE DEF x, y
  <2>3. x = y
    BY <2>1, <2>2
  <2> QED
    BY <2>3 DEF x, y
<1> QED
  BY <1>2, <1>3, <1>4, <1>5, Zenon DEF Decimal, shift

(* Measurement::value and display_value answer the same number of the       *)
(* record and of the text of any display, or none of either: mantissa,      *)
(* point and sign of the one are digits, point and sign of the other.       *)
THEOREM ValuesAlwaysAgree == Spec => []AgreeOnValue
<1>1. ASSUME NEW a PROVE Same(a, a)
  BY Zenon DEF Same
<1>2. Decoded => AgreeOnValue
  <2> SUFFICES ASSUME Decoded, Both
               PROVE  /\ HasValue(binary) = HasValue(ascii)
                      /\ Same(DisplayValue(binary), DisplayValue(ascii))
                      /\ Same(Value(binary), Value(ascii))
    BY DEF AgreeOnValue
  <2>1. HasValue(binary) = HasValue(ascii)
    BY ValuesTogether
  <2>2. DisplayValue(binary) = DisplayValue(ascii)
    <3>1. CASE display.kind \in NumberKinds
      <4>1. HasValue(binary) /\ HasValue(ascii)
        BY <3>1, ValuesTogether
      <4>2. DisplayValue(ascii) = Decimal(display.number, -display.places)
        BY <3>1, <4>1, BothSay, Zenon DEF DisplayValue
      <4>3. DisplayValue(binary) = Scale(Decimal(display.number, 0), -display.places)
        BY <3>1, <4>1, BothSay, Zenon DEF DisplayValue, DisplayNumber
      <4>4. Scale(Decimal(display.number, 0), -display.places)
              = Decimal(display.number, -display.places)
        <5>1. display.places \in 0..7
          BY DEF Decoded, Shows
        <5> QED
          BY <5>1, ShiftsPoint, Zenon
      <4> QED
        BY <4>2, <4>3, <4>4
    <3>2. CASE display.kind \notin NumberKinds
      BY <3>2, ValuesTogether, Zenon DEF DisplayValue
    <3> QED
      BY <3>1, <3>2
  <2>3. Value(binary) = Value(ascii)
    BY <2>1, <2>2, BothSay, Zenon DEF Value
  <2> QED
    BY <1>1, <2>1, <2>2, <2>3
<1> QED
  BY <1>2, DecodedAlways, PTL

(* Record and text of any display have one prefix and one unit, and Display *)
(* prints them alike, but for the sign of a zero and of an overload.        *)
THEOREM DisplaysAlwaysAgree == Spec => []AgreeOnDisplay
<1>1. Decoded => AgreeOnDisplay
  <2> SUFFICES ASSUME Decoded, Both
               PROVE  /\ binary.of.magnitude = ascii.of.magnitude
                      /\ binary.of.unit = ascii.of.unit
                      /\ display.kind \notin {"minus zero", "minus over range"} =>
                           Shown(binary) = Shown(ascii)
    BY DEF AgreeOnDisplay
  <2> DEFINE r == binary.of
             x == ascii.of
             kind == display.kind
  <2>1. /\ r.magnitude = x.magnitude /\ r.unit = x.unit
        /\ r.decimalPlaces = display.places /\ r.state = StateOfKind(kind)
        /\ HasNumber(r) = (kind \in NumberKinds)
        /\ kind \in NumberKinds => r.mantissa = display.number
        /\ x.text = ReadingField(display) /\ IsBinary(binary) /\ ~IsBinary(ascii)
    BY BothSay, Zenon
  <2>2. x.unit # NoUnit
    <3>1. x.unit = display.token.unit
      BY BothSay, Zenon
    <3>2. display.token \in Token
      BY DEF Decoded, Shows
    <3>3. 0 \notin {2, 1, 4, 3, 11, 5, 36, 15, 7, 8, 9}
      OBVIOUS
    <3> QED
      BY <3>1, <3>2, <3>3, TokenFacts, Zenon DEF NoUnit
  <2>3. RecordSuffix(r) = TextSuffix(x)
    BY <2>1, <2>2, Zenon DEF RecordSuffix, TextSuffix
  <2>4. kind \in AllKinds
    BY DEF Decoded, Shows
  <2>5. Shown(ascii) = <<IF x.text = << >> THEN FourDashes ELSE x.text, TextSuffix(x)>>
    BY <2>1, Zenon DEF Shown
  <2>6. CASE kind = "number"
    <3>1. x.text = Rendered(display.number, display.places)
      BY <2>1, <2>6, Zenon DEF ReadingField
    <3>2. x.text # << >>
      <4>1. x.state = "Normal"
        BY <2>6, BothSay DEF TextKind, NumberKinds
      <4>2. Classify(x.text) = "Normal"
        BY <4>1, BothSay, Zenon DEF FromText
      <4> QED
        BY <4>2, NamesSay
    <3>3. Shown(binary) = <<Rendered(r.mantissa, r.decimalPlaces), RecordSuffix(r)>>
      <4>1. HasNumber(r) /\ r.state = Normal
        BY <2>1, <2>6 DEF StateOfKind, NumberKinds
      <4>2. r.state \notin {OverRange, OverloadA2d}
        BY <4>1 DEF Normal, OverRange, OverloadA2d
      <4> QED
        BY <2>1, <4>1, <4>2, Zenon DEF Shown
    <3>4. r.mantissa = display.number
      BY <2>1, <2>6 DEF NumberKinds
    <3> QED
      BY <2>1, <2>3, <2>5, <3>1, <3>2, <3>3, <3>4, Zenon
  <2>7. CASE kind \in {"blank", "dashes"}
    <3>1. Shown(binary) = <<FourDashes, RecordSuffix(r)>>
      <4>1. ~HasNumber(r) /\ r.state \in {Normal, Blank}
        BY <2>1, <2>7 DEF StateOfKind, NumberKinds
      <4>2. r.state \notin {OverRange, OverloadA2d}
        BY <4>1 DEF Normal, Blank, OverRange, OverloadA2d
      <4> QED
        BY <2>1, <4>1, <4>2, Zenon DEF Shown
    <3>2. x.text = << >> \/ x.text = FourDashes
      BY <2>1, <2>7 DEF ReadingField
    <3> QED
      BY <2>1, <2>3, <2>5, <3>1, <3>2, Zenon
  <2>8. CASE kind = "over range"
    <3>1. Shown(binary) = <<<<"O", "L">>, RecordSuffix(r)>>
      <4>1. ~HasNumber(r) /\ r.state = OverRange
        BY <2>1, <2>8 DEF StateOfKind, NumberKinds
      <4>2. r.state \notin {Normal, Blank, Empty}
        BY <4>1 DEF Normal, Blank, OverRange, Empty
      <4> QED
        BY <2>1, <4>1, <4>2, Zenon DEF Shown
    <3>2. x.text = <<"O", "L">>
      BY <2>1, <2>8 DEF ReadingField
    <3>3. <<"O", "L">> # << >>
      OBVIOUS
    <3> QED
      BY <2>1, <2>3, <2>5, <3>1, <3>2, <3>3, Zenon
  <2> QED
    BY <2>1, <2>4, <2>6, <2>7, <2>8 DEF AllKinds
<1> QED
  BY <1>1, DecodedAlways, PTL
=============================================================================
