----------------------------- MODULE JsonReader -----------------------------
(***************************************************************************)
(* sdkcc_v1_json_object_visit (runtime/src/json.c), one scanned item per   *)
(* step: the recursion of scan_value, scan_object and scan_array is an     *)
(* explicit stack, and its first entry the object that is visited.  The    *)
(* visitor is the embedding program's: it compares the key with names and  *)
(* asks for the value as any type or not at all.  What the reader is given *)
(* is any text, or a document that the writer has serialized before.       *)
(***************************************************************************)
EXTENDS JsonText

CONSTANTS
  MaxDepth,   \* SDKCC_JSON_MAX_DEPTH
  Input,      \* texts, as sequences of lexemes; the reader sees their bytes
  Document,   \* documents to write: [name, kind, value]
  Name        \* the names a visitor compares a key with

ASSUME JsonReaderAssumption ==
  /\ MaxDepth \in Nat \ {0}
  /\ Input \subseteq Seq(Seq(0..255))
  /\ \A d \in Document :
       /\ d.name \in Seq(0..255)
       /\ \/ d.kind = "string" /\ d.value \in Seq(0..255)
          \/ d.kind = "number" /\ d.value \in (-Int64Max - 1) .. Int64Max
          \/ d.kind = "boolean" /\ d.value \in BOOLEAN
  /\ Name \subseteq Seq(0..255)

VARIABLES
  document,  \* what was serialized into the text, or None
  lexemes,   \* the text in pieces, which only the properties look at
  json,      \* its bytes
  cursor,    \* the scanner's position
  stack,     \* the objects and arrays that are being scanned
  member,    \* the member of the outermost object: key, first byte, kind
  visited,   \* the calls of the visitor, and what it got
  pc,        \* what comes next, "done" at the end
  status     \* what was returned

vars == <<document, lexemes, json, cursor, stack, member, visited, pc, status>>
text == <<document, lexemes, json>>

-----------------------------------------------------------------------------
Brace(call)   == IF call = "object" THEN 125 ELSE 93
Colon == 58
Comma == 44

\* By the first byte of a value; 0 is none.
KindOf(b) ==
  CASE b = Quote -> "string" [] b = 123 -> "object" [] b = 91 -> "array"
    [] b \in {116, 102} -> "boolean" [] b = 110 -> "null"
    [] b \in Digit \cup {Minus} -> "number" [] OTHER -> "none"

\* Where the scan of a value that has no parts ends, 0 when it is refused.
ScanScalar(i) ==
  CASE json[i] = Quote -> ScanString(json, i)
    [] json[i] = 116   -> ConsumeLiteral(json, i, Literal.true)
    [] json[i] = 102   -> ConsumeLiteral(json, i, Literal.false)
    [] json[i] = 110   -> ConsumeLiteral(json, i, Literal.null)
    [] OTHER           -> ScanNumber(json, i)

NoMember == [key |-> <<1, 0>>, from |-> 1, kind |-> "none"]

Init ==
  /\ \/ /\ document = None
        /\ lexemes \in Input
        /\ json = FlattenSeq(lexemes)
        /\ pc = "start"
     \/ /\ document \in Document
        /\ lexemes = <<>> /\ json = <<>>
        /\ pc = "serialize"
  /\ cursor = 1 /\ stack = <<>> /\ member = NoMember
  /\ visited = <<>> /\ status = "OK"

Fail(code) == status' = code /\ pc' = "done"

\* A writer is called for the name and for the value; the buffer is the caller's
\* and given up with the request when one of them refuses.
Serialize ==
  LET name  == WriteString(document.name)
      value == CASE document.kind = "string" -> WriteString(document.value)
                 [] document.kind = "number" -> WriteI64(document.value)
                 [] OTHER                    -> WriteBool(document.value)
      written == name.status = "OK" /\ value.status = "OK"
  IN  /\ pc = "serialize"
      /\ \/ ~written /\ Fail("SERIALIZE") /\ UNCHANGED <<lexemes, json>>
         \/ /\ written
            /\ lexemes' = <<<<123>>, name.value, <<Colon>>, value.value, <<125>>>>
            /\ json' = FlattenSeq(lexemes')
            /\ pc' = "start" /\ UNCHANGED status
      /\ UNCHANGED <<document, cursor, stack, member, visited>>

\* An object or array whose bracket is at i: an empty one is over at once.
Enter(call, i) ==
  LET first == SkipWhitespace(json, i + 1)
  IN  IF At(json, first) = Brace(call)
      THEN /\ cursor' = first + 1
           /\ pc' = IF stack = <<>> THEN "end" ELSE "scanned"
           /\ UNCHANGED stack
      ELSE /\ cursor' = first
           /\ stack' = Append(stack, call)
           /\ pc' = IF call = "object" THEN "key" ELSE "value"

Start ==
  LET first == SkipWhitespace(json, 1)
  IN  /\ pc = "start"
      /\ \/ At(json, first) # 123 /\ Fail("PARSE") /\ UNCHANGED <<cursor, stack>>
         \/ At(json, first) = 123 /\ Enter("object", first) /\ UNCHANGED status
      /\ UNCHANGED <<text, member, visited>>

\* The key, the colon and the space around it.
ScanKey ==
  LET end   == ScanString(json, cursor)
      colon == SkipWhitespace(json, end)
  IN  /\ pc = "key"
      /\ \/ end = 0 /\ Fail("PARSE") /\ UNCHANGED <<cursor, member>>
         \/ end # 0 /\ At(json, colon) # Colon /\ Fail("PARSE") /\ UNCHANGED <<cursor, member>>
         \/ /\ end # 0 /\ At(json, colon) = Colon
            /\ cursor' = SkipWhitespace(json, colon + 1)
            /\ member' = IF Len(stack) > 1 THEN member
                         ELSE [member EXCEPT !.key = <<cursor + 1, end - 2>>, !.from = cursor']
            /\ pc' = "value" /\ UNCHANGED status
      /\ UNCHANGED <<text, stack, visited>>

\* Mutant: the limit is off by one.
TooDeepByOne == Len(stack) > MaxDepth

TooDeep == Len(stack) >= MaxDepth

ScanValue ==
  LET first == SkipWhitespace(json, cursor)
      kind  == KindOf(At(json, first))
      end   == ScanScalar(first)
  IN  /\ pc = "value"
      /\ member' = IF Len(stack) > 1 THEN member ELSE [member EXCEPT !.kind = kind]
      /\ \/ kind = "none" /\ Fail("PARSE") /\ UNCHANGED <<cursor, stack>>
         \/ /\ kind \in {"object", "array"}
            /\ \/ TooDeep /\ Fail("PARSE") /\ UNCHANGED <<cursor, stack>>
               \/ ~TooDeep /\ Enter(kind, first) /\ UNCHANGED status
         \/ /\ kind \notin {"none", "object", "array"}
            /\ \/ end = 0 /\ Fail("PARSE") /\ UNCHANGED <<cursor, stack>>
               \/ end # 0 /\ cursor' = end /\ pc' = "scanned" /\ UNCHANGED <<stack, status>>
      /\ UNCHANGED <<text, visited>>

\* What the visitor asks for. An owned string needs memory.
Converted(want, kind, raw) ==
  CASE want = "string"  -> {ToOwnedString(kind, raw)}
                             \cup (IF kind = "string" THEN {Refused("OOM")} ELSE {})
    [] want = "number"  -> {ToI64(kind, raw)}
    [] want = "boolean" -> {ToBool(kind, raw)}
    [] OTHER            -> {Done(None)}

\* The first failure of the visitor ends the visit.
Visit ==
  /\ pc = "scanned" /\ Len(stack) = 1
  /\ \E want \in {"string", "number", "boolean", "nothing"} :
     \E got \in Converted(want, member.kind, SubSeq(json, member.from, cursor - 1)) :
       /\ visited' = Append(visited,
            [key |-> member.key, value |-> <<member.from, cursor - 1>>, kind |-> member.kind,
             names |-> {n \in Name : KeyEquals(SubSeq(json, member.key[1], member.key[2]), n)},
             want |-> want, got |-> got])
       /\ IF got.status = "OK" THEN pc' = "next" /\ UNCHANGED status ELSE Fail(got.status)
  /\ UNCHANGED <<text, cursor, stack, member>>

\* Behind an item: the end of the object or array, or a comma and the next one.
NextItem ==
  LET at   == SkipWhitespace(json, cursor)
      byte == At(json, at)
      end  == Brace(Last(stack))
  IN  /\ pc = "next" \/ (pc = "scanned" /\ Len(stack) > 1)
      /\ \/ /\ byte = end
            /\ cursor' = at + 1
            /\ stack' = Front(stack)
            /\ pc' = IF Len(stack) = 1 THEN "end" ELSE "scanned"
            /\ UNCHANGED status
         \/ /\ byte = Comma
            /\ cursor' = SkipWhitespace(json, at + 1)
            /\ pc' = IF Last(stack) = "object" THEN "key" ELSE "value"
            /\ UNCHANGED <<stack, status>>
         \/ byte \notin {end, Comma} /\ Fail("PARSE") /\ UNCHANGED <<cursor, stack>>
      /\ UNCHANGED <<text, member, visited>>

\* Nothing but space follows the object.
Finish ==
  /\ pc = "end"
  /\ IF SkipWhitespace(json, cursor) = Len(json) + 1
     THEN pc' = "done" /\ UNCHANGED status ELSE Fail("PARSE")
  /\ UNCHANGED <<text, cursor, stack, member, visited>>

Returned == pc = "done" /\ UNCHANGED vars

Next ==
  \/ Serialize \/ Start \/ ScanKey \/ ScanValue \/ Visit \/ NextItem \/ Finish
  \/ Returned

Spec == Init /\ [][Next]_vars

-----------------------------------------------------------------------------
Grammar == INSTANCE JsonGrammar

\* The depth of the recursion is bounded whatever the text, and no scan leaves
\* the cursor behind the end of it.
TypeOK ==
  /\ document # None => document.kind \in {"string", "number", "boolean"}
  /\ cursor \in 1 .. Len(json) + 1
  /\ stack \in Seq({"object", "array"}) /\ Len(stack) <= MaxDepth
  /\ member.key[1] \in 1 .. Len(json) + 1 /\ member.from \in 1 .. Len(json) + 1
  /\ Len(visited) <= Len(json)
  /\ pc \in {"serialize", "start", "key", "value", "scanned", "next", "end", "done"}
  /\ status \in {"OK", "SERIALIZE", "PARSE", "SCHEMA", "OVERFLOW", "OOM"}
  /\ pc # "done" => status = "OK"

Stopped == visited # <<>> /\ Last(visited).got.status # "OK"

\* The visitor is called for the members of the outermost object in their order,
\* each once and with exactly its bytes, whatever they nest and whatever comes
\* later in the text; and when it lets the visit go on, a text is accepted exactly
\* when it is one object of at most MaxDepth levels in the grammar of JSON.
AcceptsExactlyJson ==
  LET tokens == Grammar!Tokens(lexemes)
      calls  == [n \in DOMAIN visited |-> [key |-> visited[n].key, value |-> visited[n].value,
                                           kind |-> visited[n].kind]]
  IN  pc = "done" /\ status # "SERIALIZE" =>
        /\ IsPrefix(calls, Grammar!Members(tokens))
        /\ IF Stopped THEN status = Last(visited).got.status
           ELSE /\ status \in {"OK", "PARSE"}
                /\ status = "OK" <=>
                     Grammar!IsObject(tokens) /\ Grammar!Nesting(tokens) <= MaxDepth
                /\ status = "OK" => calls = Grammar!Members(tokens)

\* What a visitor gets is what the text says: a key has a name when their code
\* points agree and it is not too long for the scratch; a string has the code
\* points that its characters and escapes denote; an integer has its value if it
\* is an integer that int64_t can hold, and is refused as too large only if it is.
ValuesExact ==
  visited # <<>> /\ pc \in {"next", "done"} =>
    LET v       == Last(visited)
        bytes   == SubSeq(json, v.value[1], v.value[2])
        content == SubSeq(json, v.key[1], v.key[2])
        fits    == Grammar!Integral(bytes) \in (-Int64Max - 1) .. Int64Max
    IN  /\ v.names = {m \in Name : /\ Len(m) <= MaxKey
                                   /\ Grammar!Unicode(m) = Grammar!Meaning(content)}
        /\ v.want \notin {v.kind, "nothing"} => v.got.status = "SCHEMA"
        /\ v.want = "string" /\ v.kind = "string" =>
             \/ v.got.status = "OK"
                /\ Grammar!Unicode(v.got.value) = Grammar!Meaning(Grammar!Content(bytes))
             \/ v.got.status = "OOM"
        /\ v.want = "number" /\ v.kind = "number" =>
             IF Grammar!IsInteger(bytes)
             THEN IF fits THEN v.got = Done(Grammar!Integral(bytes))
                  ELSE v.got.status = "OVERFLOW"
             ELSE v.got.status \in {"SCHEMA", "OVERFLOW"}
        /\ v.want = "boolean" /\ v.kind = "boolean" => v.got = Done(bytes = Grammar!True)

\* A document that can be written is read back as itself: the writer refuses a
\* text exactly when it is not UTF-8, and whatever it writes is accepted and gives
\* the same name and the same value again.
ReadsBackWritten ==
  document # None /\ pc = "done" =>
    LET legal == /\ Grammar!IsUtf8(document.name)
                 /\ document.kind = "string" => Grammar!IsUtf8(document.value)
    IN  /\ status = "SERIALIZE" <=> ~legal
        /\ status # "SERIALIZE" =>
             /\ status # "PARSE" /\ Len(visited) = 1
             /\ visited[1].kind = document.kind
             /\ document.name \in Name /\ Len(document.name) <= MaxKey =>
                  document.name \in visited[1].names
             /\ visited[1].want = document.kind =>
                  visited[1].got \in {Done(document.value), Refused("OOM")}
=============================================================================
