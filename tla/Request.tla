------------------------------ MODULE Request ------------------------------
(***************************************************************************)
(* The request builder of the C runtime (runtime/src/request.c) with the   *)
(* string and buffer operations it is made of (runtime/src/buffer.c): one  *)
(* opaque sdkcc_request_t, the heap behind its allocator, and every call   *)
(* of its API.  Any allocation may fail.                                   *)
(*                                                                         *)
(* A pointer field of the request is an owner; ptr says which block it     *)
(* holds.  The strings of header slot i belong to the owners NameOf(i) and *)
(* ValueOf(i), which exist as memory only while i <= headerCapacity.       *)
(* sdkcc_v1_request_add_header makes up to three allocator calls; each is  *)
(* a step, so that what the allocator callback can observe is a state.     *)
(***************************************************************************)
EXTENDS Heap, FiniteSets

CONSTANTS
  Text,          \* the strings and bodies callers pass
  EmptyText,     \* the contents of a zeroed string or buffer
  Method,        \* the HTTP methods
  NoMethod,      \* SDKCC_HTTP_INVALID
  RequestSize,   \* sizeof(sdkcc_request_t)
  HeaderSize,    \* sizeof(sdkcc_owned_header_t)
  FirstHeaders,  \* entries of the first header array
  FirstBytes     \* bytes of the first buffer allocation

\* A text is its length and the class of its bytes: all of them bytes of a
\* header name, all of them legal in a header value, or neither.
ASSUME TextAssumption ==
  /\ \A t \in Text : /\ t.len \in Nat
                     /\ t.len + 1 <= SizeMax
                     /\ t.bytes \in {"token", "printable", "control"}
  /\ EmptyText \in Text
  /\ EmptyText.len = 0

ASSUME LayoutAssumption ==
  /\ RequestSize \in 1..SizeMax
  /\ HeaderSize \in 1..SizeMax
  /\ FirstHeaders \in 1..SizeMax
  /\ FirstBytes \in 1..SizeMax
  /\ NoMethod \notin Method

\* Indices an array of headers can have without its size overflowing size_t.
Slot == 1..(SizeMax \div HeaderSize)

Self    == <<"self", 0>>
Url     == <<"url", 0>>
Body    == <<"body", 0>>
Headers == <<"headers", 0>>
NameOf(i)  == <<"name", i>>
ValueOf(i) == <<"value", i>>

SlotOwner == {"name", "value"} \X Slot

Owner == {Self, Url, Body, Headers} \cup SlotOwner

VARIABLES
  heap,            \* size of every allocated block
  ptr,             \* the block each pointer field holds
  text,            \* contents of each string and of the body
  method,
  bodyCapacity,
  headerCount,
  headerCapacity,
  status,          \* what the last call returned
  pc,              \* "idle", or the next copy of a running add_header
  adding           \* the header of the running add_header

fields == <<ptr, text, method, bodyCapacity, headerCount, headerCapacity>>
vars == <<heap, fields, status, pc, adding>>

-----------------------------------------------------------------------------
\* What a call returns. SDKCC_OK is named after the call that returned it.
Status == {"NONE", "CREATED", "METHOD_SET", "URL_SET", "BODY_SET", "HEADER_ADDED",
           "OOM", "OVERFLOW", "INVALID_ARGUMENT"}

NoHeader == [name |-> EmptyText, value |-> EmptyText]

Exists == ptr[Self] # NoBlock

Init ==
  /\ heap = EmptyHeap
  /\ ptr = [o \in Owner |-> NoBlock]
  /\ text = [o \in Owner |-> EmptyText]
  /\ method = NoMethod
  /\ bodyCapacity = 0
  /\ headerCount = 0
  /\ headerCapacity = 0
  /\ status = "NONE"
  /\ pc = "idle"
  /\ adding = NoHeader

\* A call that returns `code` and leaves the request as it is.
Refuse(code) ==
  /\ status' = code
  /\ UNCHANGED <<heap, fields, pc, adding>>

\* sdkcc_internal_owned_string_copy into owner o, once its arguments are
\* accepted: the old string is freed before the new one is allocated.
CopyString(o, t) ==
  LET freed == Release(heap, {ptr[o]})
  IN  /\ \E b \in Candidates(freed) :
           /\ heap' = Place(freed, b, t.len + 1)
           /\ ptr' = [ptr EXCEPT ![o] = b]
      /\ text' = [text EXCEPT ![o] = t]

\* The same when the allocation fails: the old string is gone.
CopyStringFails(o) ==
  /\ heap' = Release(heap, {ptr[o]})
  /\ ptr' = [ptr EXCEPT ![o] = NoBlock]
  /\ text' = [text EXCEPT ![o] = EmptyText]

-----------------------------------------------------------------------------
\* sdkcc_v1_request_create. The caller keeps one request and overwrites its
\* handle only after destroying it.
Create ==
  /\ pc = "idle"
  /\ ~Exists
  /\ \/ /\ \E b \in Candidates(heap) :
             /\ heap' = Place(heap, b, RequestSize)
             /\ ptr' = [o \in Owner |-> IF o = Self THEN b ELSE NoBlock]
        /\ text' = [o \in Owner |-> EmptyText]
        /\ method' = NoMethod
        /\ bodyCapacity' = 0
        /\ headerCount' = 0
        /\ headerCapacity' = 0
        /\ status' = "CREATED"
        /\ UNCHANGED <<pc, adding>>
     \/ Refuse("OOM")

\* What sdkcc_v1_request_destroy resets: the strings of the counted headers
\* only, then the array and the request itself.
DestroyedOwners ==
  {Self, Url, Body, Headers}
    \cup {o \in SlotOwner : o[2] <= headerCount}

Destroy ==
  /\ pc = "idle"
  /\ Exists
  /\ heap' = Release(heap, {ptr[o] : o \in DestroyedOwners})
  /\ ptr' = [o \in Owner |-> NoBlock]
  /\ text' = [o \in Owner |-> EmptyText]
  /\ method' = NoMethod
  /\ bodyCapacity' = 0
  /\ headerCount' = 0
  /\ headerCapacity' = 0
  /\ UNCHANGED <<status, pc, adding>>

SetMethod ==
  /\ pc = "idle"
  /\ \E m \in Method \cup {NoMethod} :
       IF ~Exists \/ m = NoMethod
       THEN Refuse("INVALID_ARGUMENT")
       ELSE /\ method' = m
            /\ status' = "METHOD_SET"
            /\ UNCHANGED <<heap, ptr, text, bodyCapacity, headerCount,
                           headerCapacity, pc, adding>>

SetUrl ==
  /\ pc = "idle"
  /\ \E t \in Text :
       IF ~Exists \/ t.len = 0
       THEN Refuse("INVALID_ARGUMENT")
       ELSE /\ \/ CopyString(Url, t) /\ status' = "URL_SET"
               \/ CopyStringFails(Url) /\ status' = "OOM"
            /\ UNCHANGED <<method, bodyCapacity, headerCount, headerCapacity,
                           pc, adding>>

\* sdkcc_internal_buffer_copy: reset, initialise, append. An empty body needs
\* no storage; a failed append leaves the buffer reset.
SetBody ==
  /\ pc = "idle"
  /\ \E t \in Text :
       LET freed    == Release(heap, {ptr[Body]})
           capacity == Grown(0, t.len, FirstBytes)
       IN  IF ~Exists
           THEN Refuse("INVALID_ARGUMENT")
           ELSE /\ \/ /\ t.len = 0
                      /\ heap' = freed
                      /\ ptr' = [ptr EXCEPT ![Body] = NoBlock]
                      /\ text' = [text EXCEPT ![Body] = EmptyText]
                      /\ bodyCapacity' = 0
                      /\ status' = "BODY_SET"
                   \/ /\ t.len > 0
                      /\ \E b \in Candidates(freed) :
                           /\ heap' = Place(freed, b, capacity)
                           /\ ptr' = [ptr EXCEPT ![Body] = b]
                      /\ text' = [text EXCEPT ![Body] = t]
                      /\ bodyCapacity' = capacity
                      /\ status' = "BODY_SET"
                   \/ /\ t.len > 0
                      /\ CopyStringFails(Body)
                      /\ bodyCapacity' = 0
                      /\ status' = "OOM"
                /\ UNCHANGED <<method, headerCount, headerCapacity, pc,
                               adding>>

-----------------------------------------------------------------------------
\* header_is_valid
ValidHeader(h) ==
  /\ h.name.len > 0
  /\ h.name.bytes = "token"
  /\ h.value.len = 0 \/ h.value.bytes # "control"

\* The pointer fields p with b in every slot that the reallocation added.
WithAdded(p, capacity, b) ==
  [o \in Owner |-> IF o \in SlotOwner /\ headerCapacity < o[2] /\ o[2] <= capacity
                   THEN b ELSE p[o]]

\* Mutant: the added slots stay as realloc returned them.
Unzeroed(p, capacity) == p

\* reserve_headers zeroes the slots that the reallocation added.
Zeroed(p, capacity) == WithAdded(p, capacity, NoBlock)

\* realloc of the header array: the replacement is allocated before the old
\* array is freed, or the array grows where it is.  What the added slots hold
\* is indeterminate until reserve_headers writes them: their pointers may be
\* those of any block.
GrowHeaders(capacity) ==
  /\ \E stale \in Block \cup {NoBlock} :
       LET slots == Zeroed(WithAdded(ptr, capacity, stale), capacity)
       IN  \/ \E b \in Candidates(heap) :
                /\ heap' = Place(Release(heap, {ptr[Headers]}), b,
                                 capacity * HeaderSize)
                /\ ptr' = [slots EXCEPT ![Headers] = b]
           \/ /\ ptr[Headers] # NoBlock
              /\ heap' = Place(heap, ptr[Headers], capacity * HeaderSize)
              /\ ptr' = slots
  /\ headerCapacity' = capacity
  /\ UNCHANGED text

\* sdkcc_v1_request_add_header up to the first copy: validation, the size
\* checks and reserve_headers.
AddHeader ==
  /\ pc = "idle"
  /\ \E name \in Text, value \in Text :
       LET header   == [name |-> name, value |-> value]
           required == headerCount + 1
           capacity == Grown(headerCapacity, required, FirstHeaders)
       IN  \/ /\ ~Exists \/ ~ValidHeader(header)
              /\ Refuse("INVALID_ARGUMENT")
           \/ /\ Exists /\ ValidHeader(header)
              /\ required <= headerCapacity
              /\ pc' = "name"
              /\ adding' = header
              /\ UNCHANGED <<heap, fields, status>>
           \/ /\ Exists /\ ValidHeader(header)
              /\ required > headerCapacity
              /\ ~AddFits(headerCount, 1) \/ ~MulFits(capacity, HeaderSize)
              /\ Refuse("OVERFLOW")
           \/ /\ Exists /\ ValidHeader(header)
              /\ required > headerCapacity
              /\ AddFits(headerCount, 1) /\ MulFits(capacity, HeaderSize)
              /\ \/ /\ GrowHeaders(capacity)
                    /\ pc' = "name"
                    /\ adding' = header
                    /\ UNCHANGED <<method, bodyCapacity, headerCount, status>>
                 \/ Refuse("OOM")

\* The copy of the name into the first uncounted slot.
CopyName ==
  /\ pc = "name"
  /\ LET o == NameOf(headerCount + 1)
     IN  \/ CopyString(o, adding.name) /\ pc' = "value" /\ UNCHANGED <<status, adding>>
         \/ CopyStringFails(o) /\ pc' = "idle" /\ status' = "OOM" /\ adding' = NoHeader
  /\ UNCHANGED <<method, bodyCapacity, headerCount, headerCapacity>>

\* Mutants: the name is kept when the copy of the value fails; the header is
\* counted although it failed.
CopyValueKeepsName ==
  /\ pc = "value"
  /\ pc' = "idle"
  /\ adding' = NoHeader
  /\ LET value == ValueOf(headerCount + 1)
     IN  \/ /\ CopyString(value, adding.value)
            /\ headerCount' = headerCount + 1
            /\ status' = "HEADER_ADDED"
         \/ /\ CopyStringFails(value)
            /\ status' = "OOM"
            /\ UNCHANGED headerCount
  /\ UNCHANGED <<method, bodyCapacity, headerCapacity>>

CopyValueCountsFailure ==
  /\ pc = "value"
  /\ pc' = "idle"
  /\ adding' = NoHeader
  /\ headerCount' = headerCount + 1
  /\ LET value == ValueOf(headerCount + 1)
     IN  \/ CopyString(value, adding.value) /\ status' = "HEADER_ADDED"
         \/ CopyStringFails(value) /\ status' = "OOM"
  /\ UNCHANGED <<method, bodyCapacity, headerCapacity>>

\* The copy of the value; the header counts only now. When the copy fails,
\* owned_header_reset gives both strings back.
CopyValue ==
  /\ pc = "value"
  /\ pc' = "idle"
  /\ adding' = NoHeader
  /\ LET name  == NameOf(headerCount + 1)
         value == ValueOf(headerCount + 1)
     IN  \/ /\ CopyString(value, adding.value)
            /\ headerCount' = headerCount + 1
            /\ status' = "HEADER_ADDED"
         \/ /\ heap' = Release(heap, {ptr[name], ptr[value]})
            /\ ptr' = [ptr EXCEPT ![name] = NoBlock, ![value] = NoBlock]
            /\ text' = [text EXCEPT ![name] = EmptyText, ![value] = EmptyText]
            /\ status' = "OOM"
            /\ UNCHANGED headerCount
  /\ UNCHANGED <<method, bodyCapacity, headerCapacity>>

Next ==
  \/ Create \/ Destroy
  \/ SetMethod \/ SetUrl \/ SetBody
  \/ AddHeader \/ CopyName \/ CopyValue

Spec == Init /\ [][Next]_vars

-----------------------------------------------------------------------------
\* The size each owner passes to the allocator's free for the block it holds,
\* computed from the fields as the reset functions do.
FreedSize(o) ==
  CASE o = Self    -> RequestSize
    [] o = Body    -> bodyCapacity
    [] o = Headers -> headerCapacity * HeaderSize
    [] OTHER       -> text[o].len + 1

TypeOK ==
  /\ IsHeap(heap)
  /\ ptr \in [Owner -> Block \cup {NoBlock}]
  /\ text \in [Owner -> Text]
  /\ method \in Method \cup {NoMethod}
  /\ bodyCapacity \in Size
  /\ headerCount \in Size
  /\ headerCapacity \in Size
  /\ status \in Status
  /\ pc \in {"idle", "name", "value"}
  /\ adding \in [name : Text, value : Text]

\* No two pointer fields of a request hold the same block: resetting one never
\* frees what another still uses, so no block is freed twice.
NothingShared ==
  \A o1, o2 \in Owner :
    ptr[o1] = ptr[o2] /\ ptr[o1] # NoBlock => o1 = o2

\* A block that a field holds is allocated, and with the very size that the
\* field will pass to free: a sized or arena allocator gets back what it gave.
FreedAsAllocated ==
  \A o \in Owner : ptr[o] # NoBlock => heap[ptr[o]] = FreedSize(o)

\* Every allocated block is held by a field, at every allocator call of every
\* operation and whichever allocation failed before; once the request is
\* destroyed nothing of it is left in the heap.
NothingLeaked ==
  \A b \in Block : heap[b] # 0 => \E o \in Owner : ptr[o] = b

\* Ownership is exact: the three together, in every state.
OwnershipExact == NothingShared /\ FreedAsAllocated /\ NothingLeaked

\* destroy resets the strings of the first headerCount slots and no others, so
\* an add_header that fails half way must not leave a string behind its back.
UncountedSlotsEmpty ==
  pc = "idle" =>
    \A o \in SlotOwner : o[2] > headerCount => ptr[o] = NoBlock

\* The array and the body have room for what is counted and written in them.
CountsWithinCapacity ==
  /\ headerCount <= headerCapacity
  /\ headerCapacity * HeaderSize <= SizeMax
  /\ pc # "idle" => headerCount < headerCapacity
  /\ text[Body].len <= bodyCapacity

\* Every slot is accounted for: what the counts cover lies inside the array, and
\* nothing that must be freed lies outside of what they cover.
SlotsAccounted == UncountedSlotsEmpty /\ CountsWithinCapacity

\* The request as its getters show it. The contract is implemented: every call
\* has its whole effect or reports failure, headers are only ever appended,
\* complete and in order, and a failed add_header cannot be seen.
Contract == INSTANCE RequestContract WITH
  alive <- Exists,
  url <- text[Url],
  body <- text[Body],
  headers <- [i \in 1..headerCount |->
                [name |-> text[NameOf(i)], value |-> text[ValueOf(i)]]]

ImplementsContract == Contract!Spec
=============================================================================
