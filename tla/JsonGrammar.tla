---------------------------- MODULE JsonGrammar ----------------------------
(***************************************************************************)
(* What a JSON text is and says (RFC 8259, with strings that are Unicode), *)
(* apart from any way to read one.  The arithmetic of UTF-8 and UTF-16     *)
(* takes the place of byte tables, and brackets are removed from the       *)
(* inside out.  A text is given as its lexemes, each a sequence of bytes.  *)
(***************************************************************************)
EXTENDS Integers, Sequences, SequencesExt, FiniteSetsExt

-----------------------------------------------------------------------------
\* The number of bytes that a first byte announces, the least code point that
\* needs as many, and the place of the announcement in the first byte.
Announced(b) ==
  CASE b < 128 -> 1 [] b \div 32 = 6 -> 2 [] b \div 16 = 14 -> 3
    [] b \div 8 = 30 -> 4 [] OTHER -> 0
Least == <<0, 128, 2048, 65536>>
Mark  == <<128, 32, 16, 8>>

\* The greatest code point, and the two kinds of those that only pairs denote.
Greatest == 1114111
High == 55296 .. 56319
Low  == 56320 .. 57343

\* The code point that the bytes u encode, or -1.
CodePoint(u) ==
  LET n == Len(u)
      payload[k \in 1 .. n] ==
        IF k = 1 THEN u[1] % Mark[n]
        ELSE payload[k - 1] * 64 + (u[k] % 64)
  IN  IF /\ n = Announced(u[1])
         /\ \A k \in 2 .. n : u[k] \div 64 = 2
         /\ payload[n] \in Least[n] .. Greatest
         /\ payload[n] \notin High \cup Low
      THEN payload[n] ELSE -1

\* Four hex digits in either case: the index of each in the alphabet.
Hex4(u) ==
  LET digit(b) == CHOOSE d \in 0..15 : b \in (IF d < 10 THEN {48 + d} ELSE {55 + d, 87 + d})
      isHex(b) == \E d \in 0..15 : b \in (IF d < 10 THEN {48 + d} ELSE {55 + d, 87 + d})
  IN  IF \A k \in 1..4 : isHex(u[k])
      THEN 4096 * digit(u[1]) + 256 * digit(u[2]) + 16 * digit(u[3]) + digit(u[4])
      ELSE -1

\* The code point that a piece of a string's content denotes, or -1.
Denoted(u) ==
  LET unicode(k) == IF SubSeq(u, k, k + 1) = <<92, 117>> THEN Hex4(SubSeq(u, k + 2, k + 5)) ELSE -1
      short == <<<<34, 34>>, <<92, 92>>, <<47, 47>>, <<98, 8>>, <<102, 12>>, <<110, 10>>,
                 <<114, 13>>, <<116, 9>>>>
  IN  CASE u[1] # 92 ->
             IF u[1] >= 32 /\ u[1] # 34 THEN CodePoint(u) ELSE -1
        [] u[1] = 92 /\ Len(u) = 2 ->
             IF \E k \in DOMAIN short : short[k][1] = u[2]
             THEN short[CHOOSE k \in DOMAIN short : short[k][1] = u[2]][2] ELSE -1
        [] u[1] = 92 /\ Len(u) = 6 ->
             IF unicode(1) \in High \cup Low THEN -1 ELSE unicode(1)
        [] u[1] = 92 /\ Len(u) = 12 ->
             IF unicode(1) \in High /\ unicode(7) \in Low
             THEN 65536 + (unicode(1) - 55296) * 1024 + unicode(7) - 56320 ELSE -1
        [] OTHER -> -1

\* The code points of a UTF-8 text and of the content of a string; a text that
\* has none ends with -1.
Unicode(text) ==
  LET from[i \in 1 .. Len(text) + 1] ==
        IF i > Len(text) THEN <<>>
        ELSE LET W == {w \in 1 .. Min({4, Len(text) - i + 1}) :
                         CodePoint(SubSeq(text, i, i + w - 1)) >= 0}
             IN  IF W = {} THEN <<-1>>
                 ELSE <<CodePoint(SubSeq(text, i, i + Min(W) - 1))>> \o from[i + Min(W)]
  IN  from[1]

Meaning(content) ==
  LET from[i \in 1 .. Len(content) + 1] ==
        IF i > Len(content) THEN <<>>
        ELSE LET W == {w \in 1 .. Min({12, Len(content) - i + 1}) :
                         Denoted(SubSeq(content, i, i + w - 1)) >= 0}
             IN  IF W = {} THEN <<-1>>
                 ELSE <<Denoted(SubSeq(content, i, i + Min(W) - 1))>> \o from[i + Min(W)]
  IN  from[1]

IsUtf8(text) == ~Contains(Unicode(text), -1)

Content(l) == SubSeq(l, 2, Len(l) - 1)
IsString(l) ==
  /\ Len(l) >= 2 /\ l[1] = 34 /\ l[Len(l)] = 34
  /\ ~Contains(Meaning(Content(l)), -1)

\* [minus] int [frac] [exp], over every way to cut the text in four.
AllDigits(t) == t # <<>> /\ \A k \in DOMAIN t : t[k] \in 48..57
IsInt(t)  == AllDigits(t) /\ (t[1] = 48 => Len(t) = 1)
IsFrac(t) == t # <<>> /\ t[1] = 46 /\ AllDigits(Tail(t))
IsExp(t)  == /\ Len(t) >= 2 /\ t[1] \in {101, 69}
             /\ AllDigits(SubSeq(t, IF t[2] \in {43, 45} THEN 3 ELSE 2, Len(t)))
IsInteger(l) == l # <<>> /\ IsInt(IF l[1] = 45 THEN Tail(l) ELSE l)
IsNumber(l) ==
  \E a \in 1 .. Len(l) : \E b \in a .. Len(l) :
    /\ IsInteger(SubSeq(l, 1, a))
    /\ a = b \/ IsFrac(SubSeq(l, a + 1, b))
    /\ b = Len(l) \/ IsExp(SubSeq(l, b + 1, Len(l)))

\* The value of an integer.
Integral(l) ==
  LET digits == IF l[1] = 45 THEN Tail(l) ELSE l
      value[k \in 0 .. Len(digits)] ==
        IF k = 0 THEN 0 ELSE 10 * value[k - 1] + digits[k] - 48
  IN  IF l[1] = 45 THEN -value[Len(digits)] ELSE value[Len(digits)]

-----------------------------------------------------------------------------
True  == <<116, 114, 117, 101>>
False == <<102, 97, 108, 115, 101>>
Null  == <<110, 117, 108, 108>>

Opening == {"{", "["}
Closing == {"}", "]"}
Kind == {"string", "number", "boolean", "null"}

Class(l) ==
  CASE \A k \in DOMAIN l : l[k] \in {9, 10, 13, 32} -> "space"
    [] l = <<123>> -> "{" [] l = <<125>> -> "}" [] l = <<91>> -> "[" [] l = <<93>> -> "]"
    [] l = <<58>>  -> ":" [] l = <<44>>  -> ","
    [] l \in {True, False} -> "boolean"
    [] l = Null -> "null"
    [] IsString(l) -> "string"
    [] IsNumber(l) -> "number"
    [] OTHER -> "junk"

\* The lexemes that are not white space: [class, from, to], in bytes of the text.
Tokens(lexemes) ==
  LET width(i) == FoldLeft(LAMBDA n, l : n + Len(l), 0, SubSeq(lexemes, 1, i))
      all == [i \in DOMAIN lexemes |->
                [class |-> Class(lexemes[i]), from |-> width(i - 1) + 1, to |-> width(i)]]
  IN  SelectSeq(all, LAMBDA t : t.class # "space")

\* What may stand between two brackets that enclose no other.
Encloses(open, close, c) ==
  \/ open = "[" /\ close = "]" /\ (c = <<>> \/ Len(c) % 2 = 1)
     /\ \A k \in DOMAIN c : IF k % 2 = 1 THEN c[k] \in Kind ELSE c[k] = ","
  \/ open = "{" /\ close = "}" /\ (c = <<>> \/ Len(c) % 4 = 3)
     /\ \A k \in DOMAIN c : CASE k % 4 = 1 -> c[k] = "string" [] k % 4 = 2 -> c[k] = ":"
                              [] k % 4 = 3 -> c[k] \in Kind   [] OTHER -> c[k] = ","

\* An innermost pair of brackets with a legal inside becomes a value.
Reduced[c \in Seq(Opening \cup Closing \cup Kind \cup {":", ",", "junk"})] ==
  LET Pair == {p \in (DOMAIN c) \X (DOMAIN c) :
                 /\ p[1] < p[2] /\ c[p[1]] \in Opening /\ c[p[2]] \in Closing
                 /\ \A k \in p[1] + 1 .. p[2] - 1 : c[k] \notin Opening \cup Closing
                 /\ Encloses(c[p[1]], c[p[2]], SubSeq(c, p[1] + 1, p[2] - 1))}
  IN  IF Pair = {} THEN c
      ELSE LET p == CHOOSE p \in Pair : TRUE
           IN  Reduced[SubSeq(c, 1, p[1] - 1) \o <<"null">> \o SubSeq(c, p[2] + 1, Len(c))]

\* How many brackets are open before the token k, and at most.
Depth(tokens, k) ==
  Cardinality({j \in 1 .. k - 1 : tokens[j].class \in Opening})
    - Cardinality({j \in 1 .. k - 1 : tokens[j].class \in Closing})
Nesting(tokens) == Max({0} \cup {Depth(tokens, k) : k \in 1 .. Len(tokens) + 1})

IsObject(tokens) ==
  /\ tokens # <<>> /\ tokens[1].class = "{"
  /\ Reduced[[k \in DOMAIN tokens |-> tokens[k].class]] = <<"null">>

\* The members of the outermost object as far as they are whole: the content of
\* the key, the value with its brackets, and the kind of the value.
Members(tokens) ==
  LET Key == {k \in 2 .. Len(tokens) - 2 :
                /\ Depth(tokens, k) = 1
                /\ tokens[k - 1].class \in {"{", ","}
                /\ tokens[k].class = "string" /\ tokens[k + 1].class = ":"}
      Ends(k) == {j \in k + 2 .. Len(tokens) :
                    IF tokens[k + 2].class \in Opening
                    THEN tokens[j].class \in Closing /\ Depth(tokens, j) = 2
                    ELSE j = k + 2 /\ tokens[j].class \in Kind}
      kind(k) == CASE tokens[k + 2].class = "{" -> "object" [] tokens[k + 2].class = "[" -> "array"
                   [] OTHER -> tokens[k + 2].class
      member(k) == [key   |-> <<tokens[k].from + 1, tokens[k].to - 1>>,
                    value |-> <<tokens[k + 2].from, tokens[Min(Ends(k))].to>>,
                    kind  |-> kind(k)]
  IN  [n \in 1 .. Cardinality({k \in Key : Ends(k) # {}}) |->
         member(SetToSortSeq({k \in Key : Ends(k) # {}}, <)[n])]
=============================================================================
