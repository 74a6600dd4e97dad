---------------------------- MODULE MCJsonReader ----------------------------
(***************************************************************************)
(* Texts and documents for JsonReader, in families that each vary one      *)
(* thing: the structure, the characters of a string, a number, a key.      *)
(***************************************************************************)
EXTENDS JsonReader

LBrace == <<123>>
RBrace == <<125>>
LBracket == <<91>>
RBracket == <<93>>
ColonText == <<Colon>>
CommaText == <<Comma>>
Blank == <<32, 10>>
Str(content) == <<Quote>> \o content \o <<Quote>>
A == Str(<<97>>)
One == <<49>>

UpTo(S, n) == UNION {[1..m -> S] : m \in 0..n}

\* Every short sequence of structural lexemes behind the first brace, and every
\* very short one behind something else.
Structures ==
  LET Lexeme == {LBrace, RBrace, LBracket, RBracket, ColonText, CommaText, A, One}
  IN  {<<LBrace>> \o s : s \in UpTo(Lexeme, 4)}
        \cup {<<LBrace, A, ColonText>> \o s \o <<RBrace>> : s \in UpTo(Lexeme, 3)}
        \cup {<<Blank>> \o s : s \in UpTo(Lexeme \cup {<<120>>, Blank}, 2)}

\* Objects nested as deep as the limit and deeper, whole and with one lexeme left
\* out, doubled or preceded by space.
Scalar == {A, One, Literal.true, Literal.false, Literal.null}
Wrapped(V) ==
  {<<LBracket>> \o v \o <<RBracket>> : v \in V}
    \cup {<<LBrace, A, ColonText>> \o v \o <<RBrace>> : v \in V}
    \cup {<<LBracket, One, CommaText>> \o v \o <<RBracket>> : v \in V}
Values ==
  LET flat == {<<l>> : l \in Scalar}
                \cup {<<LBracket, RBracket>>, <<LBrace, RBrace>>}
  IN  flat \cup Wrapped({<<One>>, <<LBracket, RBracket>>, <<LBrace, RBrace>>})
        \cup Wrapped(Wrapped({<<A>>}))
        \cup Wrapped(Wrapped(Wrapped({<<LBracket, RBracket>>})))
Objects ==
  {<<LBrace, A, ColonText>> \o v \o <<CommaText, Str(<<98>>), ColonText, One, RBrace>> : v \in Values}
    \cup {<<LBrace, Str(<<98>>), ColonText, One, CommaText, A, ColonText>> \o v \o <<RBrace>> :
            v \in Values}
Edited(t) ==
  {t} \cup {SubSeq(t, 1, i - 1) \o SubSeq(t, i + 1, Len(t)) : i \in DOMAIN t}
      \cup {SubSeq(t, 1, i) \o SubSeq(t, i, Len(t)) : i \in DOMAIN t}
      \cup {SubSeq(t, 1, i) \o <<Blank>> \o SubSeq(t, i + 1, Len(t)) : i \in DOMAIN t}
Nested == UNION {Edited(t) : t \in Objects}

\* A piece that is no lexeme as a whole ends its first lexeme where it can: a
\* string at the first quote, a number as late as possible.
Lexed(l) ==
  LET Ends == {k \in DOMAIN l : \/ Grammar!IsString(SubSeq(l, 1, k))
                                \/ Grammar!IsNumber(SubSeq(l, 1, k))}
      end  == IF l[1] = Quote THEN Min(Ends) ELSE Max(Ends)
  IN  IF Ends = {} \/ Len(l) \in Ends THEN <<l>>
      ELSE <<SubSeq(l, 1, end), SubSeq(l, end + 1, Len(l))>>

Valued(l) == <<LBrace, A, ColonText>> \o Lexed(l) \o <<RBrace>>
Keyed(l)  == <<LBrace>> \o Lexed(l) \o <<ColonText, One, RBrace>>

\* The boundaries of every row of the table of UTF-8.
Utf8 ==
  LET Lead   == {65, 128, 193, 194, 223, 224, 225, 236, 237, 238, 239, 240, 241, 243, 244, 245}
      Second == {65, 127, 128, 143, 144, 159, 160, 191, 192}
      Third  == {127, 128, 191, 192}
  IN  {<<a>> : a \in Lead} \cup (Lead \X Second) \cup (Lead \X Second \X Third)
        \cup ({239, 240, 241, 243, 244, 245} \X Second \X Third \X Third)

Hex == {<<48, 48, 48, 48>>, <<48, 48, 54, 49>>, <<48, 48, 101, 57>>, <<48, 55, 70, 70>>,
        <<48, 56, 48, 48>>, <<68, 55, 102, 102>>, <<100, 56, 48, 48>>, <<68, 66, 70, 70>>,
        <<100, 99, 48, 48>>, <<68, 70, 70, 70>>, <<69, 48, 48, 48>>, <<102, 70, 102, 70>>,
        <<48, 48, 103, 48>>, <<48, 48, 48>>}
Unicodes == {<<Backslash, 117>> \o h : h \in Hex}
Escapes ==
  UpTo({97, Quote, Backslash, 110, 117, 31}, 3)
    \cup {<<Backslash, b>> : b \in DOMAIN Escape}
    \cup Unicodes
    \cup {u \o v : u \in Unicodes, v \in Unicodes \cup {<<97>>, <<Backslash, 110>>}}

Numbers ==
  (UpTo({Minus, 48, 50, 46, 101}, 4) \ {<<>>})
    \cup {<<50, 46, 50, e, s>> \o d : e \in {69, 101}, s \in {Minus, 43, 50}, d \in {<<>>, <<50>>}}
Integers ==
  LET digits == ((49..52) \X (48..57)) \cup ({49, 51} \X {48, 49, 50, 57} \X (48..57))
  IN  digits \cup {<<Minus>> \o d : d \in digits} \cup {d \o <<46, 48>> : d \in (49..53) \X (48..51)}

Keys == {<<97>>, <<Backslash, 117, 48, 48, 54, 49>>, <<>>, <<97, 97, 97>>, <<97, 97, 97, 97>>,
         <<195, 169>>, <<Backslash, 117, 48, 48, 101, 57>>, <<Backslash, 34>>, <<34>>}

MCName == {<<>>, <<97>>, <<98>>, <<34>>, <<195, 169>>, <<97, 97, 97>>, <<97, 97, 97, 97>>}

\* Two numbers side by side would be one lexeme.
MCInput ==
  {t \in Structures \cup Nested : \A i \in 2 .. Len(t) : t[i] # One \/ t[i - 1] # One}
    \cup {Valued(Str(c)) : c \in Utf8 \cup Escapes}
    \cup {Valued(n) : n \in Numbers \cup Integers}
    \cup {Keyed(Str(k)) : k \in Keys}

MCDocument ==
  {[name |-> n, kind |-> "string", value |-> v] :
     n \in {<<97>>, <<34>>, <<195>>},
     v \in UpTo({0, 10, 31, Quote, 47, Backslash, 128, 195}, 2)
             \cup {<<224, 160, 128>>, <<237, 160, 128>>, <<244, 143, 191, 191>>, <<226, 130>>}}
    \cup {[name |-> <<97>>, kind |-> "number", value |-> i] : i \in (-Int64Max - 1) .. Int64Max}
    \cup {[name |-> <<97>>, kind |-> "boolean", value |-> b] : b \in BOOLEAN}
=============================================================================
