------------------------------ MODULE JsonText ------------------------------
(***************************************************************************)
(* The parts of the JSON reader and writer (runtime/src/json.c) that work  *)
(* on the bytes of one text: UTF-8, strings and their escapes, numbers,    *)
(* the conversions of a scanned value, and what is written for a value.    *)
(*                                                                         *)
(* A text is a sequence of bytes and a cursor a position in it.  A scan    *)
(* gives the position behind what it took, or 0 when it refuses.           *)
(***************************************************************************)
EXTENDS Integers, Sequences, SequencesExt, FiniteSetsExt

CONSTANTS
  MaxKey,    \* bound: the scratch of key_equals, 4096 bytes in the code
  Int64Max,  \* the largest int64_t, in a smaller width
  None       \* no value, no document

\* `limit - digit` does not wrap.
ASSUME JsonTextAssumption == MaxKey \in Nat /\ Int64Max \in Nat /\ Int64Max >= 9

-----------------------------------------------------------------------------
Quote == 34
Backslash == 92
Minus == 45
Zero == 48
Digit == 48..57
Space == {32, 9, 13, 10}

\* The byte at a cursor; at or behind the end there is none.
At(s, i) == IF i \in DOMAIN s THEN s[i] ELSE -1

SkipWhitespace(s, i) == Min({j \in i .. Len(s) + 1 : At(s, j) \notin Space})

HexValue(b) ==
  CASE b \in Digit   -> b - 48
    [] b \in 97..102 -> b - 87
    [] b \in 65..70  -> b - 55
    [] OTHER         -> -1

\* The value of four hex digits, or -1.
ParseHex4(s, i) ==
  LET h(k) == HexValue(At(s, i + k))
  IN  IF \E k \in 0..3 : h(k) < 0 THEN -1
      ELSE ((h(0) * 16 + h(1)) * 16 + h(2)) * 16 + h(3)

HighSurrogate == 55296..56319
LowSurrogate  == 56320..57343

Continues(s, i, n) == \A k \in i .. i + n - 1 : At(s, k) \in 128..191

\* Mutant: the second byte after E0 and F0 is only asked to be a continuation.
ValidUtf8SequenceOverlong(s, i) ==
  CASE s[i] < 128                                  -> 1
    [] s[i] \in 194..223 /\ Continues(s, i + 1, 1) -> 2
    [] s[i] \in 224..239 /\ Continues(s, i + 1, 2) -> 3
    [] s[i] \in 240..244 /\ Continues(s, i + 1, 3) -> 4
    [] OTHER                                       -> 0

\* The width of the UTF-8 sequence at i, or 0.
ValidUtf8Sequence(s, i) ==
  LET first == s[i]
      second == At(s, i + 1)
  IN  CASE first < 128 -> 1
        [] first \in 194..223 /\ Continues(s, i + 1, 1) -> 2
        [] first = 224 /\ second \in 160..191 /\ Continues(s, i + 2, 1) -> 3
        [] first \in (225..236) \cup {238, 239} /\ Continues(s, i + 1, 2) -> 3
        [] first = 237 /\ second \in 128..159 /\ Continues(s, i + 2, 1) -> 3
        [] first = 240 /\ second \in 144..191 /\ Continues(s, i + 2, 2) -> 4
        [] first \in 241..243 /\ Continues(s, i + 1, 3) -> 4
        [] first = 244 /\ second \in 128..143 /\ Continues(s, i + 2, 2) -> 4
        [] OTHER -> 0

-----------------------------------------------------------------------------
\* The one-letter escapes and the bytes they stand for; 117 is "u".
Escape ==
  [letter \in {Quote, Backslash, 47, 98, 102, 110, 114, 116} |->
     CASE letter = 98  -> 8
       [] letter = 102 -> 12
       [] letter = 110 -> 10
       [] letter = 114 -> 13
       [] letter = 116 -> 9
       [] OTHER        -> letter]
IsUnicodeEscape(s, i) == At(s, i) = Backslash /\ At(s, i + 1) = 117

\* The width of the escape at i, of both halves of a surrogate pair, or 0.
EscapeWidth(s, i) ==
  LET unit == ParseHex4(s, i + 2)
  IN  CASE At(s, i + 1) \in DOMAIN Escape -> 2
        [] IsUnicodeEscape(s, i) /\ unit \in HighSurrogate
             /\ IsUnicodeEscape(s, i + 6)
             /\ ParseHex4(s, i + 8) \in LowSurrogate -> 12
        [] IsUnicodeEscape(s, i) /\ unit >= 0
             /\ unit \notin HighSurrogate \cup LowSurrogate -> 6
        [] OTHER -> 0

\* The width of the character or escape at i of a string's content.
UnitWidth(s, i) ==
  IF s[i] = Backslash THEN EscapeWidth(s, i)
  ELSE IF s[i] < 32 THEN 0 ELSE ValidUtf8Sequence(s, i)

\* No scan goes further past the end than one surrogate pair.
ScanString(s, i) ==
  LET scan[j \in 1 .. Len(s) + 12] ==
        IF j > Len(s) THEN 0
        ELSE IF s[j] = Quote THEN j + 1
        ELSE IF UnitWidth(s, j) = 0 THEN 0 ELSE scan[j + UnitWidth(s, j)]
  IN  IF At(s, i) = Quote THEN scan[i + 1] ELSE 0

DigitsEnd(s, i) == Min({j \in i .. Len(s) + 1 : At(s, j) \notin Digit})

\* The integer, then a fraction after ".", then an exponent after "e" or "E".
ScanNumber(s, i) ==
  LET int   == IF At(s, i) = Minus THEN i + 1 ELSE i
      frac  == IF At(s, int) = Zero THEN int + 1 ELSE DigitsEnd(s, int)
      exp   == IF At(s, frac) = 46 THEN DigitsEnd(s, frac + 1) ELSE frac
      power == IF At(s, exp + 1) \in {43, Minus} THEN exp + 2 ELSE exp + 1
      refused == \/ At(s, int) \notin Digit
                 \/ At(s, int) = Zero /\ At(s, frac) \in Digit
                 \/ At(s, frac) = 46 /\ At(s, frac + 1) \notin Digit
                 \/ At(s, exp) \in {101, 69} /\ At(s, power) \notin Digit
  IN  IF refused THEN 0
      ELSE IF At(s, exp) \in {101, 69} THEN DigitsEnd(s, power) ELSE exp

Literal == [true |-> <<116, 114, 117, 101>>, false |-> <<102, 97, 108, 115, 101>>,
            null |-> <<110, 117, 108, 108>>]

ConsumeLiteral(s, i, literal) ==
  IF SubSeq(s, i, Min({i + Len(literal) - 1, Len(s)})) = literal THEN i + Len(literal) ELSE 0

-----------------------------------------------------------------------------
EncodeCodepoint(c) ==
  IF c <= 127 THEN <<c>>
  ELSE IF c <= 2047 THEN <<192 + c \div 64, 128 + (c % 64)>>
  ELSE IF c <= 65535
       THEN <<224 + c \div 4096, 128 + ((c \div 64) % 64), 128 + (c % 64)>>
  ELSE <<240 + c \div 262144, 128 + ((c \div 4096) % 64), 128 + ((c \div 64) % 64),
         128 + (c % 64)>>

\* What the character or escape at i of a scanned content stands for.
UnitBytes(s, i) ==
  IF s[i] # Backslash THEN SubSeq(s, i, i + ValidUtf8Sequence(s, i) - 1)
  ELSE CASE EscapeWidth(s, i) = 2 -> <<Escape[s[i + 1]]>>
         [] EscapeWidth(s, i) = 6 -> EncodeCodepoint(ParseHex4(s, i + 2))
         [] OTHER -> EncodeCodepoint(65536 + (ParseHex4(s, i + 2) - 55296) * 1024
                                           + (ParseHex4(s, i + 8) - 56320))

\* The results of the conversions.
Done(value)    == [status |-> "OK", value |-> value]
Refused(code)  == [status |-> code, value |-> None]

\* decode_content reads the content of a string again, unit by unit.
DecodeContent(raw) ==
  LET decode[i \in 1 .. Len(raw) + 12] ==
        IF i > Len(raw) THEN Done(<<>>)
        ELSE LET rest == decode[i + UnitWidth(raw, i)]
             IN  IF UnitWidth(raw, i) = 0 THEN Refused("PARSE")
                 ELSE IF rest.status # "OK" THEN rest
                 ELSE Done(UnitBytes(raw, i) \o rest.value)
  IN  decode[1]

\* A longer key does not fit the scratch and is no key at all.
KeyEquals(raw, expected) ==
  LET decoded == DecodeContent(raw)
  IN  decoded.status = "OK" /\ Len(decoded.value) <= MaxKey /\ decoded.value = expected

\* The value is scanned again before it is decoded.
ToOwnedString(kind, raw) ==
  IF kind # "string" THEN Refused("SCHEMA")
  ELSE IF ScanString(raw, 1) # Len(raw) + 1 THEN Refused("PARSE")
  ELSE DecodeContent(SubSeq(raw, 2, Len(raw) - 1))

\* Mutant: one limit for both signs.
ToI64OneLimit(kind, raw) ==
  LET negative == At(raw, 1) = Minus
      sign == IF negative THEN 1 ELSE 0
      add[i \in sign .. Len(raw)] ==
        IF i = sign THEN Done(0)
        ELSE LET before == add[i - 1]
                 digit  == raw[i] - 48
             IN  IF before.status # "OK" THEN before
                 ELSE IF raw[i] \notin Digit THEN Refused("SCHEMA")
                 ELSE IF before.value > (Int64Max - digit) \div 10 THEN Refused("OVERFLOW")
                 ELSE Done(before.value * 10 + digit)
      magnitude == add[Len(raw)]
  IN  IF kind # "number" THEN Refused("SCHEMA")
      ELSE IF magnitude.status = "OK" /\ negative THEN Done(-magnitude.value) ELSE magnitude

\* The magnitude is accumulated digit by digit, in an unsigned integer.
ToI64(kind, raw) ==
  LET negative == At(raw, 1) = Minus
      sign == IF negative THEN 1 ELSE 0
      limit == IF negative THEN Int64Max + 1 ELSE Int64Max
      add[i \in sign .. Len(raw)] ==
        IF i = sign THEN Done(0)
        ELSE LET before == add[i - 1]
                 digit  == raw[i] - 48
             IN  IF before.status # "OK" THEN before
                 ELSE IF raw[i] \notin Digit THEN Refused("SCHEMA")
                 ELSE IF before.value > (limit - digit) \div 10 THEN Refused("OVERFLOW")
                 ELSE Done((before.value * 10 + digit) % (2 * (Int64Max + 1)))
      magnitude == add[Len(raw)]
  IN  IF kind # "number" THEN Refused("SCHEMA")
      ELSE IF magnitude.status = "OK" /\ negative THEN Done(-magnitude.value) ELSE magnitude

ToBool(kind, raw) ==
  IF kind # "boolean" THEN Refused("SCHEMA") ELSE Done(raw = Literal.true)

-----------------------------------------------------------------------------
HexDigit(d) == IF d < 10 THEN 48 + d ELSE 55 + d

\* Mutant: control bytes without an escape of their own are written as they are.
WrittenByteRaw(v, i) ==
  IF v[i] \in {Quote, Backslash} THEN <<Backslash, v[i]>>
  ELSE SubSeq(v, i, i + ValidUtf8Sequence(v, i) - 1)

\* What is written for the byte or sequence at i; "/" is left as it is, and
\* nothing is written for what is not UTF-8.
WrittenByte(v, i) ==
  CASE v[i] = 47 -> <<47>>
    [] \E e \in DOMAIN Escape : Escape[e] = v[i] /\ v[i] # 47 ->
         <<Backslash, CHOOSE e \in DOMAIN Escape : Escape[e] = v[i]>>
    [] v[i] < 32 /\ ~\E e \in DOMAIN Escape : Escape[e] = v[i] ->
         <<Backslash, 117, 48, 48, HexDigit(v[i] \div 16), HexDigit(v[i] % 16)>>
    [] OTHER -> SubSeq(v, i, i + ValidUtf8Sequence(v, i) - 1)

WriteString(v) ==
  LET write[i \in 1 .. Len(v) + 4] ==
        IF i > Len(v) THEN Done(<<Quote>>)
        ELSE LET rest == write[i + ValidUtf8Sequence(v, i)]
             IN  IF ValidUtf8Sequence(v, i) = 0 THEN Refused("SERIALIZE")
                 ELSE IF rest.status # "OK" THEN rest
                 ELSE Done(WrittenByte(v, i) \o rest.value)
      content == write[1]
  IN  IF content.status = "OK" THEN Done(<<Quote>> \o content.value) ELSE content

\* snprintf("%" PRId64).
WriteI64(v) ==
  LET digits[n \in 0 .. Int64Max + 1] ==
        IF n < 10 THEN <<48 + n>> ELSE digits[n \div 10] \o <<48 + (n % 10)>>
  IN  Done(IF v < 0 THEN <<Minus>> \o digits[-v] ELSE digits[v])

WriteBool(v) == Done(IF v THEN Literal.true ELSE Literal.false)
=============================================================================
