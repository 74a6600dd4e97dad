--------------------------- MODULE TestTransport ---------------------------
(***************************************************************************)
(* The in-memory transport of the C runtime (runtime/src/test_transport.c) *)
(* behind sdkcc_v1_transport_send (runtime/src/request.c), with the string *)
(* and buffer operations of runtime/src/buffer.c.  One transport, one      *)
(* response of the caller, and the heap behind both; any allocation may    *)
(* fail.                                                                   *)
(*                                                                         *)
(* sdkcc_v1_test_transport_expect copies an expectation in up to           *)
(* 4 + 2 * headers allocator calls; each is a step.  The request that is   *)
(* submitted is the one its getters show; module Request says how it came  *)
(* about.                                                                  *)
(***************************************************************************)
EXTENDS Heap, Sequences, SequencesExt

CONSTANTS
  Text,               \* the strings and bodies callers pass
  EmptyText,          \* the contents of a zeroed string or buffer
  NullText,           \* a view whose data is null and whose length is not 0
  NoMethod,           \* SDKCC_HTTP_INVALID
  Expectation,        \* the expectations a test passes
  Submission,         \* the requests it sends
  TransportSize,      \* sizeof(sdkcc_test_transport_t)
  ExpectationSize,    \* sizeof(sdkcc_owned_expectation_t)
  HeaderSize,         \* sizeof(sdkcc_owned_test_header_t)
  FirstExpectations,  \* entries of the first expectation array
  FirstBytes          \* bytes of the first buffer allocation

ASSUME TextAssumption ==
  /\ \A t \in Text : t.len \in Nat /\ t.len + 1 <= SizeMax
  /\ EmptyText \in Text /\ EmptyText.len = 0
  /\ \A t \in Text : t.len = 0 => t = EmptyText
  /\ NullText \in Text /\ NullText.len > 0

ASSUME ArgumentAssumption ==
  /\ \A e \in Expectation :
       e \in [method : {e.method}, url : Text, body : Text,
              headers : Seq([name : Text, value : Text]),
              http : Nat, answer : Text]
  /\ \A r \in Submission :
       /\ r.url \in Text /\ r.body \in Text
       /\ r.headers \in Seq([name : Text, value : Text])

ASSUME LayoutAssumption ==
  /\ TransportSize \in 1..SizeMax
  /\ ExpectationSize \in 1..SizeMax
  /\ HeaderSize \in 1..SizeMax
  /\ FirstExpectations \in 1..SizeMax
  /\ FirstBytes \in 1..SizeMax

Slot       == 1..(SizeMax \div ExpectationSize)
HeaderSlot == 1..(SizeMax \div HeaderSize)

\* The pointer fields: of the transport, of the caller's response, and of the
\* expectation in each slot of the array.
Self     == <<"self", 0, 0>>
Array    == <<"array", 0, 0>>
Response == <<"response", 0, 0>>
Url(e)        == <<"url", e, 0>>
Body(e)       == <<"body", e, 0>>
Answer(e)     == <<"answer", e, 0>>
Headers(e)    == <<"headers", e, 0>>
NameOf(e, i)  == <<"name", e, i>>
ValueOf(e, i) == <<"value", e, i>>

SlotOwner ==
  ({"url", "body", "answer", "headers"} \X Slot \X {0})
    \cup ({"name", "value"} \X Slot \X HeaderSlot)

Owner == {Self, Array, Response} \cup SlotOwner

BufferOwner == {o \in Owner : o[1] \in {"body", "answer", "response"}}

ZeroSlot == [method |-> NoMethod, http |-> 0, headerCount |-> 0]

VARIABLES
  heap,           \* size of every allocated block
  ptr,            \* the block each pointer field holds
  text,           \* contents of each string and buffer
  bytes,          \* capacity of each buffer
  slot,           \* the other fields of each expectation
  count,          \* expectation_count
  arrayCapacity,  \* expectation_capacity
  next,           \* next_expectation
  http,           \* http_status of the caller's response
  submitted,      \* the last request that transport_send let through
  status,         \* what the last call returned
  copying,        \* the expectation that a running expect copies
  step            \* the field it fills next, 0 when none runs

transport == <<slot, count, arrayCapacity, next>>
memory == <<heap, ptr, text, bytes>>
vars == <<memory, transport, http, submitted, status, copying, step>>

-----------------------------------------------------------------------------
NoExpectation ==
  [method |-> NoMethod, url |-> EmptyText, body |-> EmptyText,
   headers |-> <<>>, http |-> 0, answer |-> EmptyText]

NoSubmission ==
  [method |-> NoMethod, url |-> EmptyText, body |-> EmptyText, headers |-> <<>>]

Exists == ptr[Self] # NoBlock

Init ==
  /\ heap = EmptyHeap
  /\ ptr = [o \in Owner |-> NoBlock]
  /\ text = [o \in Owner |-> EmptyText]
  /\ bytes = [o \in BufferOwner |-> 0]
  /\ slot = [e \in Slot |-> ZeroSlot]
  /\ count = 0
  /\ arrayCapacity = 0
  /\ next = 0
  /\ http = 0
  /\ submitted = NoSubmission
  /\ status = "OK"
  /\ copying = NoExpectation
  /\ step = 0

Return(code) == status' = code

\* The blocks of the fields in S are given back; the fields in `gone` are
\* zeroed, or their memory is no more.
Discard(S, gone) ==
  /\ heap' = Release(heap, {ptr[o] : o \in S})
  /\ ptr' = [o \in Owner |-> IF o \in gone THEN NoBlock ELSE ptr[o]]
  /\ text' = [o \in Owner |-> IF o \in gone THEN EmptyText ELSE text[o]]
  /\ bytes' = [o \in BufferOwner |-> IF o \in gone THEN 0 ELSE bytes[o]]

\* An allocation of `size` bytes for owner o, after its old block was freed.
Allocate(o, size) ==
  LET freed == Release(heap, {ptr[o]})
  IN  \E b \in Candidates(freed) :
        /\ heap' = Place(freed, b, size)
        /\ ptr' = [ptr EXCEPT ![o] = b]

\* sdkcc_internal_owned_string_copy into o, when it succeeds.
CopyString(o, t) ==
  /\ t # NullText
  /\ Allocate(o, t.len + 1)
  /\ text' = [text EXCEPT ![o] = t]
  /\ UNCHANGED bytes

\* sdkcc_internal_buffer_copy into o, when it succeeds; no bytes need no
\* storage.
CopyBuffer(o, t) ==
  /\ t # NullText
  /\ IF t.len = 0
     THEN Discard({o}, {o})
     ELSE /\ Allocate(o, Grown(0, t.len, FirstBytes))
          /\ text' = [text EXCEPT ![o] = t]
          /\ bytes' = [bytes EXCEPT ![o] = Grown(0, t.len, FirstBytes)]

-----------------------------------------------------------------------------
Create ==
  /\ step = 0
  /\ ~Exists
  /\ \/ Allocate(Self, TransportSize) /\ Return("OK")
     \/ UNCHANGED <<heap, ptr>> /\ Return("OOM")
  /\ UNCHANGED <<text, bytes, transport, http, submitted, copying, step>>

\* Mutant: the last header is missed.
OwnedByShort(e) ==
  {Url(e), Body(e), Answer(e), Headers(e)}
    \cup {o \in SlotOwner : o[2] = e /\ o[3] > 0 /\ o[3] < slot[e].headerCount}

\* What expectation_reset frees: the header strings it finds by header_count.
OwnedBy(e) ==
  {Url(e), Body(e), Answer(e), Headers(e)}
    \cup {o \in SlotOwner : o[2] = e /\ o[3] \in 1..slot[e].headerCount}

Destroy ==
  /\ step = 0
  /\ Exists
  /\ Discard({Self, Array} \cup UNION {OwnedBy(e) : e \in 1..count},
             Owner \ {Response})
  /\ slot' = [e \in Slot |-> ZeroSlot]
  /\ count' = 0
  /\ arrayCapacity' = 0
  /\ next' = 0
  /\ UNCHANGED <<http, submitted, status, copying, step>>

\* The pointer fields p with b in every slot that the reallocation added.
WithAdded(p, capacity, b) ==
  [o \in Owner |-> IF arrayCapacity < o[2] /\ o[2] <= capacity THEN b ELSE p[o]]

\* reserve_expectations zeroes the slots that the reallocation added.
Zeroed(p, capacity) == WithAdded(p, capacity, NoBlock)

\* The realloc of reserve_expectations: the replacement is allocated before the
\* old array is freed, or the array grows where it is.  The pointers of the
\* slots it adds are indeterminate until they are zeroed.
GrowArray(capacity) ==
  /\ \E stale \in Block \cup {NoBlock} :
       LET slots == Zeroed(WithAdded(ptr, capacity, stale), capacity)
           size  == capacity * ExpectationSize
       IN  \/ \E b \in Candidates(heap) :
                /\ heap' = Place(Release(heap, {ptr[Array]}), b, size)
                /\ ptr' = [slots EXCEPT ![Array] = b]
           \/ /\ ptr[Array] # NoBlock
              /\ heap' = Place(heap, ptr[Array], size)
              /\ ptr' = slots
  /\ arrayCapacity' = capacity

\* sdkcc_v1_test_transport_expect up to the first copy. The slot it goes on
\* with was zeroed, by reserve_expectations or by a failed expect: its
\* header_count is not written before the headers are.
BeginCopy(x) ==
  /\ slot' = [slot EXCEPT ![count + 1] =
                  [method |-> x.method, http |-> x.http, headerCount |-> @.headerCount]]
  /\ copying' = x
  /\ step' = 1
  /\ UNCHANGED status

RefuseExpect(code) ==
  /\ Return(code)
  /\ UNCHANGED <<heap, ptr, slot, arrayCapacity, copying, step>>

Expect ==
  /\ step = 0
  /\ \E x \in Expectation :
       LET required == count + 1
           capacity == Grown(arrayCapacity, required, FirstExpectations)
           accepted == Exists /\ x.url # NullText /\ x.url.len # 0
           room     == required <= arrayCapacity
           fits     == AddFits(count, 1) /\ (room \/ MulFits(capacity, ExpectationSize))
       IN  \/ ~accepted /\ RefuseExpect("INVALID_ARGUMENT")
           \/ accepted /\ ~fits /\ RefuseExpect("OVERFLOW")
           \/ accepted /\ fits /\ room
                /\ BeginCopy(x) /\ UNCHANGED <<heap, ptr, arrayCapacity>>
           \/ accepted /\ fits /\ ~room /\ GrowArray(capacity) /\ BeginCopy(x)
           \/ accepted /\ fits /\ ~room /\ RefuseExpect("OOM")
  /\ UNCHANGED <<text, bytes, count, next, http, submitted>>

-----------------------------------------------------------------------------
\* The fields of expectation e in the order expect fills them.
Field(e, n) ==
  CASE n = 1 -> Url(e)
    [] n = 2 -> Body(e)
    [] n = 3 -> Answer(e)
    [] n = 4 -> Headers(e)
    [] n > 4 /\ n % 2 = 1 -> NameOf(e, (n - 3) \div 2)
    [] OTHER -> ValueOf(e, (n - 4) \div 2)

LastStep == IF copying.headers = <<>> THEN 3 ELSE 4 + 2 * Len(copying.headers)

\* What field o of the running expect is copied from.
Source(o) ==
  CASE o[1] = "url"    -> copying.url
    [] o[1] = "body"   -> copying.body
    [] o[1] = "answer" -> copying.answer
    [] o[1] = "name"   -> copying.headers[o[3]].name
    [] OTHER           -> copying.headers[o[3]].value

FillBuffer(o) ==
  /\ o \in BufferOwner
  /\ CopyBuffer(o, Source(o))
  /\ UNCHANGED slot

FillString(o) ==
  /\ o[1] \in {"url", "name", "value"}
  /\ CopyString(o, Source(o))
  /\ UNCHANGED slot

\* The zeroed header array. header_count is set before the strings are copied.
FillHeaders(o) ==
  /\ o[1] = "headers"
  /\ MulFits(Len(copying.headers), HeaderSize)
  /\ Allocate(o, Len(copying.headers) * HeaderSize)
  /\ slot' = [slot EXCEPT ![o[2]].headerCount = Len(copying.headers)]
  /\ UNCHANGED <<text, bytes>>

\* One copy of a running expect that succeeds. The last one makes the
\* expectation count.
Fill ==
  /\ step # 0
  /\ LET o == Field(count + 1, step)
     IN  FillBuffer(o) \/ FillString(o) \/ FillHeaders(o)
  /\ IF step = LastStep
     THEN /\ count' = count + 1
          /\ Return("OK")
          /\ copying' = NoExpectation
          /\ step' = 0
     ELSE /\ step' = step + 1
          /\ UNCHANGED <<count, status, copying>>
  /\ UNCHANGED <<arrayCapacity, next, http, submitted>>

\* How the copy into field o can fail.
Failures(o) ==
  CASE o[1] = "headers" -> IF MulFits(Len(copying.headers), HeaderSize)
                           THEN {"OOM"} ELSE {"OVERFLOW"}
    [] o \in BufferOwner /\ Source(o).len = 0 -> {}
    [] OTHER -> IF Source(o) = NullText THEN {"INVALID_ARGUMENT"} ELSE {"OOM"}

\* Mutant: a failed copy leaves what was copied before it.
FillFailsKeeps ==
  /\ step # 0
  /\ \E code \in Failures(Field(count + 1, step)) : Return(code)
  /\ copying' = NoExpectation
  /\ step' = 0
  /\ UNCHANGED <<memory, slot, count, arrayCapacity, next, http, submitted>>

\* One that fails: goto fail resets whatever was copied.
FillFails ==
  /\ step # 0
  /\ \E code \in Failures(Field(count + 1, step)) : Return(code)
  /\ Discard(OwnedBy(count + 1), {o \in SlotOwner : o[2] = count + 1})
  /\ slot' = [slot EXCEPT ![count + 1] = ZeroSlot]
  /\ copying' = NoExpectation
  /\ step' = 0
  /\ UNCHANGED <<count, arrayCapacity, next, http, submitted>>

-----------------------------------------------------------------------------
\* The headers of the expectation in slot e.
ShownHeaders(e) ==
  [i \in 1..slot[e].headerCount |->
     [name |-> text[NameOf(e, i)], value |-> text[ValueOf(e, i)]]]

\* Mutant: the body is not compared.
MatchesWithoutBody(e, r) ==
  /\ r.method = slot[e].method
  /\ r.url = text[Url(e)]
  /\ \A wanted \in ToSet(ShownHeaders(e)) : wanted \in ToSet(r.headers)

\* test_send's comparison of request r with the expectation in slot e.
Matches(e, r) ==
  /\ r.method = slot[e].method
  /\ r.url = text[Url(e)]
  /\ r.body = text[Body(e)]
  /\ \A wanted \in ToSet(ShownHeaders(e)) : wanted \in ToSet(r.headers)

\* What sdkcc_v1_transport_send accepts. A request has no URL until set_url
\* succeeded.
Submittable(r) == r.method # NoMethod /\ r.url # EmptyText

\* test_send leaves the response that transport_send reset.
Reject(code) ==
  /\ Discard({Response}, {Response})
  /\ Return(code)
  /\ UNCHANGED next

\* sdkcc_v1_transport_send and test_send. The response is reset first; the
\* expectation is consumed last.
Send ==
  /\ step = 0
  /\ \E r \in Submission :
       LET expects == Exists /\ next < count
           matches == expects /\ Matches(next + 1, r)
       IN  \/ /\ ~Submittable(r)
              /\ Return("INVALID_ARGUMENT")
              /\ UNCHANGED <<memory, next, http, submitted>>
           \/ /\ Submittable(r) /\ ~matches
              /\ submitted' = r
              /\ http' = 0
              /\ Reject("MISMATCH")
           \/ /\ Submittable(r) /\ matches
              /\ submitted' = r
              /\ http' = slot[next + 1].http
              /\ \/ /\ CopyBuffer(Response, text[Answer(next + 1)])
                    /\ next' = next + 1
                    /\ Return("OK")
                 \/ /\ text[Answer(next + 1)].len > 0
                    /\ Reject("OOM")
  /\ UNCHANGED <<slot, count, arrayCapacity, copying, step>>

\* sdkcc_v1_response_reset by the caller.
ResetResponse ==
  /\ step = 0
  /\ Discard({Response}, {Response})
  /\ http' = 0
  /\ UNCHANGED <<transport, submitted, status, copying, step>>

Verify ==
  /\ step = 0
  /\ Return(IF ~Exists THEN "INVALID_ARGUMENT"
            ELSE IF next # count THEN "MISMATCH" ELSE "OK")
  /\ UNCHANGED <<memory, transport, http, submitted, copying, step>>

Next ==
  \/ Create \/ Destroy
  \/ Expect \/ Fill \/ FillFails
  \/ Send \/ ResetResponse \/ Verify

Spec == Init /\ [][Next]_vars

-----------------------------------------------------------------------------
\* The size each field passes to free for the block it holds.
FreedSize(o) ==
  CASE o = Self           -> TransportSize
    [] o = Array          -> arrayCapacity * ExpectationSize
    [] o \in BufferOwner  -> bytes[o]
    [] o[1] = "headers"   -> slot[o[2]].headerCount * HeaderSize
    [] OTHER              -> text[o].len + 1

TypeOK ==
  /\ IsHeap(heap)
  /\ ptr \in [Owner -> Block \cup {NoBlock}]
  /\ text \in [Owner -> Text]
  /\ bytes \in [BufferOwner -> Size]
  /\ \A e \in Slot : slot[e].headerCount \in Size /\ slot[e].http \in Nat
  /\ count \in Size /\ arrayCapacity \in Size /\ next \in Size
  /\ http \in Nat
  /\ submitted \in Submission \cup {NoSubmission}
  /\ status \in {"OK", "OOM", "OVERFLOW", "INVALID_ARGUMENT", "MISMATCH"}
  /\ copying \in Expectation \cup {NoExpectation}
  /\ step \in 0..LastStep

\* Ownership is exact at every allocator call of every operation, whichever
\* copy of an expect failed and however often it was retried: a held block is
\* allocated with the size its field passes to free, no two fields hold one
\* block, and no allocated block is without a field. After destroy only the
\* caller's response is left.
OwnershipExact ==
  /\ \A o \in Owner : ptr[o] # NoBlock => heap[ptr[o]] = FreedSize(o)
  /\ \A o1, o2 \in Owner : ptr[o1] = ptr[o2] /\ ptr[o1] # NoBlock => o1 = o2
  /\ \A b \in Block : heap[b] # 0 => \E o \in Owner : ptr[o] = b

\* Only a counted expectation holds memory when no expect runs, so that destroy,
\* which resets the counted ones, resets them all, and the next expect starts
\* from a zeroed slot.
UncountedSlotsZero ==
  step = 0 =>
    /\ \A e \in Slot : e > count => slot[e] = ZeroSlot
    /\ \A o \in SlotOwner : o[2] > count => ptr[o] = NoBlock

\* The expectations consumed are among the counted ones, and the counted ones
\* and the one being copied lie inside the array.
CountsWithinCapacity ==
  /\ next <= count
  /\ count <= arrayCapacity
  /\ step # 0 => count < arrayCapacity
  /\ arrayCapacity * ExpectationSize <= SizeMax

\* Every slot is accounted for: what the counts cover lies inside the array, and
\* nothing that must be freed or zeroed lies outside of what they cover.
SlotsAccounted == UncountedSlotsZero /\ CountsWithinCapacity

\* The transport as a test sees it: ordered expectations, each consumed by the
\* one request that matches it, in method, URL, body and headers, once its
\* answer was delivered; no request that matches is turned away as a mismatch.
Queue == INSTANCE ExpectationQueue WITH
  alive <- Exists,
  expected <- [e \in 1..count |->
                 [method |-> slot[e].method, url |-> text[Url(e)],
                  body |-> text[Body(e)], headers |-> ShownHeaders(e),
                  http |-> slot[e].http, answer |-> text[Answer(e)]]],
  body <- text[Response]

ImplementsQueue == Queue!Spec
=============================================================================
