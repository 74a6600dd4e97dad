------------------------ MODULE TestTransportProofs ------------------------
(***************************************************************************)
(* Proofs about the test transport, for every width of size_t, every       *)
(* allocator, every set of expectations and any number of headers.         *)
(*                                                                         *)
(* OwnershipExact and SlotsAccounted are not inductive.  destroy resets    *)
(* the counted expectations and the headers that header_count counts, and  *)
(* a failed expect the slot it fills: Inv says that nothing else holds a   *)
(* block at any step of an expect, and how far header_count is trusted.    *)
(***************************************************************************)
EXTENDS TestTransport, HeapProofs

\* The other fields of an expectation.
PlainFields ==
  [method : {NoMethod} \cup {x.method : x \in Expectation},
   http : Nat, headerCount : Size]

\* The heap, the pointer fields and the contents agree.
Ownership ==
  /\ IsHeap(heap)
  /\ ptr \in Pointers(Owner)
  /\ text \in [Owner -> Text]
  /\ bytes \in [BufferOwner -> Size]
  /\ slot \in [Slot -> PlainFields]
  /\ OwnsExactly(heap, ptr, Owner)
  /\ \A o \in Owner : ptr[o] # NoBlock => heap[ptr[o]] = FreedSize(o)

\* A field that holds a block is one of a counted expectation, or of the one
\* that is being copied, and its header is a counted one.
HeldIsCounted ==
  \A o \in SlotOwner :
    ptr[o] # NoBlock => /\ o[2] <= count \/ (step # 0 /\ o[2] = count + 1)
                        /\ o[3] <= slot[o[2]].headerCount

\* The plain fields of the other slots are zero.
UncountedBlank ==
  \A e \in Slot :
    e > count /\ (step = 0 \/ e # count + 1) => slot[e] = ZeroSlot

\* header_count of the expectation being copied, which is set before the header
\* strings are copied.
CopyInBounds ==
  /\ step \in 1..4 => slot[count + 1].headerCount = 0
  /\ step > 4 =>
       /\ slot[count + 1].headerCount = Len(copying.headers)
       /\ Len(copying.headers) * HeaderSize <= SizeMax
  /\ step = 0 => copying = NoExpectation

\* While no transport exists only the caller's response holds anything.
AbsentHoldsNothing ==
  /\ ~Exists => \A o \in Owner : ptr[o] # NoBlock => o = Response
  /\ step # 0 => Exists

Inv ==
  /\ TypeOK
  /\ Ownership
  /\ HeldIsCounted
  /\ UncountedBlank
  /\ CopyInBounds
  /\ AbsentHoldsNothing
  /\ CountsWithinCapacity

\* What the run checks follows from the inductive invariant.
LEMMA InvImplies == Inv => OwnershipExact /\ SlotsAccounted
<1> SUFFICES ASSUME Inv PROVE OwnershipExact /\ SlotsAccounted
  OBVIOUS
<1>1. OwnershipExact
  BY DEF Inv, Ownership, OwnsExactly, OwnershipExact
<1>2. ASSUME step = 0, NEW o \in SlotOwner, o[2] > count PROVE ptr[o] = NoBlock
  <2>1. o[2] \in Nat /\ count \in Nat
    BY DEF Inv, TypeOK, Size, SlotOwner, Slot
  <2> QED  BY <1>2, <2>1 DEF Inv, HeldIsCounted
<1>3. UncountedSlotsZero
  BY <1>2 DEF Inv, UncountedBlank, UncountedSlotsZero
<1> QED  BY <1>1, <1>3 DEF Inv, SlotsAccounted

-----------------------------------------------------------------------------
LEMMA Owners ==
  /\ Owner = {Self, Array, Response} \cup SlotOwner
  /\ Self # Array /\ Self # Response /\ Array # Response
  /\ \A o \in SlotOwner : o # Self /\ o # Array /\ o # Response
  /\ Self[2] = 0 /\ Array[2] = 0 /\ Response[2] = 0
  /\ BufferOwner \subseteq Owner
  /\ Response \in BufferOwner /\ Self \notin BufferOwner /\ Array \notin BufferOwner
  BY DEF Owner, SlotOwner, BufferOwner, Self, Array, Response

\* The fields of a slot by name.
LEMMA SlotFields ==
  ASSUME NEW e \in Slot
  PROVE  /\ Url(e) \in SlotOwner /\ Url(e)[1] = "url" /\ Url(e)[2] = e /\ Url(e)[3] = 0
         /\ Body(e) \in SlotOwner /\ Body(e)[1] = "body" /\ Body(e)[2] = e /\ Body(e)[3] = 0
         /\ Answer(e) \in SlotOwner /\ Answer(e)[1] = "answer" /\ Answer(e)[2] = e
         /\ Answer(e)[3] = 0
         /\ Headers(e) \in SlotOwner /\ Headers(e)[1] = "headers" /\ Headers(e)[2] = e
         /\ Headers(e)[3] = 0
         /\ \A i \in HeaderSlot :
              /\ NameOf(e, i) \in SlotOwner /\ NameOf(e, i)[1] = "name"
              /\ NameOf(e, i)[2] = e /\ NameOf(e, i)[3] = i
              /\ ValueOf(e, i) \in SlotOwner /\ ValueOf(e, i)[1] = "value"
              /\ ValueOf(e, i)[2] = e /\ ValueOf(e, i)[3] = i
  BY DEF SlotOwner, Url, Body, Answer, Headers, NameOf, ValueOf

LEMMA SlotOwners ==
  ASSUME NEW o \in SlotOwner
  PROVE  /\ o \in Owner /\ o[2] \in Slot /\ o[2] \in Nat /\ o[2] > 0 /\ o[3] \in Nat
         /\ o[1] \in {"url", "body", "answer", "headers", "name", "value"}
         /\ o[1] \in {"body", "answer"} <=> o \in BufferOwner
         /\ \/ o[3] = 0 /\ o \in {Url(o[2]), Body(o[2]), Answer(o[2]), Headers(o[2])}
            \/ o[3] > 0 /\ o \in {NameOf(o[2], o[3]), ValueOf(o[2], o[3])}
<1>1. o \in Owner
  BY DEF Owner
<1>2. CASE o \in {"url", "body", "answer", "headers"} \X Slot \X {0}
  BY <1>1, <1>2 DEF Slot, Url, Body, Answer, Headers, BufferOwner
<1>3. CASE o \in {"name", "value"} \X Slot \X HeaderSlot
  BY <1>1, <1>3 DEF Slot, HeaderSlot, NameOf, ValueOf, BufferOwner
<1> QED  BY <1>2, <1>3 DEF SlotOwner

\* The size each field passes to free.
LEMMA FreedSizes ==
  /\ FreedSize(Self) = TransportSize
  /\ FreedSize(Array) = arrayCapacity * ExpectationSize
  /\ \A o \in BufferOwner : FreedSize(o) = bytes[o]
  /\ \A o \in SlotOwner : o[1] = "headers" =>
       FreedSize(o) = slot[o[2]].headerCount * HeaderSize
  /\ \A o \in SlotOwner : o[1] \in {"url", "name", "value"} =>
       FreedSize(o) = text[o].len + 1
<1>1. Self # Array /\ Self \notin BufferOwner /\ Array \notin BufferOwner
  BY Owners
<1>2. \A o \in BufferOwner : o # Self /\ o # Array
  BY Owners
<1>3. \A o \in SlotOwner : o # Self /\ o # Array
  BY Owners
<1>4. \A o \in SlotOwner :
        o[1] \in {"headers", "url", "name", "value"} => o \notin BufferOwner
  BY SlotOwners
<1>5. /\ FreedSize(Self) = TransportSize
      /\ FreedSize(Array) = arrayCapacity * ExpectationSize
  <2>1. FreedSize(Self) = TransportSize
    BY <1>1 DEF FreedSize, Self
  <2>2. FreedSize(Array) = arrayCapacity * ExpectationSize
    BY <1>1 DEF FreedSize, Self, Array
  <2> QED  BY <2>1, <2>2
<1>6. ASSUME NEW o \in BufferOwner
      PROVE  FreedSize(o) = bytes[o]
  <2>1. o # Self /\ o # Array /\ o[1] # "headers"
    BY <1>2 DEF BufferOwner
  <2> QED  BY <2>1 DEF FreedSize
<1>7. ASSUME NEW o \in SlotOwner, o[1] = "headers"
      PROVE  FreedSize(o) = slot[o[2]].headerCount * HeaderSize
  <2>1. o # Self /\ o # Array /\ o \notin BufferOwner
    BY <1>3, <1>4, <1>7
  <2> QED  BY <2>1, <1>7 DEF FreedSize
<1>8. ASSUME NEW o \in SlotOwner, o[1] \in {"url", "name", "value"}
      PROVE  FreedSize(o) = text[o].len + 1
  <2>1. o # Self /\ o # Array /\ o \notin BufferOwner /\ o[1] # "headers"
    BY <1>3, <1>4, <1>8
  <2> QED  BY <2>1 DEF FreedSize
<1> QED  BY <1>5, <1>6, <1>7, <1>8

LEMMA FreedSizesNext ==
  /\ FreedSize(Self)' = TransportSize
  /\ FreedSize(Array)' = arrayCapacity' * ExpectationSize
  /\ \A o \in BufferOwner : FreedSize(o)' = bytes'[o]
  /\ \A o \in SlotOwner : o[1] = "headers" =>
       FreedSize(o)' = slot'[o[2]].headerCount * HeaderSize
  /\ \A o \in SlotOwner : o[1] \in {"url", "name", "value"} =>
       FreedSize(o)' = text'[o].len + 1
<1>1. Self # Array /\ Self \notin BufferOwner /\ Array \notin BufferOwner
  BY Owners
<1>2. \A o \in BufferOwner : o # Self /\ o # Array
  BY Owners
<1>3. \A o \in SlotOwner : o # Self /\ o # Array
  BY Owners
<1>4. \A o \in SlotOwner :
        o[1] \in {"headers", "url", "name", "value"} => o \notin BufferOwner
  BY SlotOwners
<1>5. /\ FreedSize(Self)' = TransportSize
      /\ FreedSize(Array)' = arrayCapacity' * ExpectationSize
  <2>1. FreedSize(Self)' = TransportSize
    BY <1>1 DEF FreedSize, Self
  <2>2. FreedSize(Array)' = arrayCapacity' * ExpectationSize
    BY <1>1 DEF FreedSize, Self, Array
  <2> QED  BY <2>1, <2>2
<1>6. ASSUME NEW o \in BufferOwner
      PROVE  FreedSize(o)' = bytes'[o]
  <2>1. o # Self /\ o # Array /\ o[1] # "headers"
    BY <1>2 DEF BufferOwner
  <2> QED  BY <2>1 DEF FreedSize
<1>7. ASSUME NEW o \in SlotOwner, o[1] = "headers"
      PROVE  FreedSize(o)' = slot'[o[2]].headerCount * HeaderSize
  <2>1. o # Self /\ o # Array /\ o \notin BufferOwner
    BY <1>3, <1>4, <1>7
  <2> QED  BY <2>1, <1>7 DEF FreedSize
<1>8. ASSUME NEW o \in SlotOwner, o[1] \in {"url", "name", "value"}
      PROVE  FreedSize(o)' = text'[o].len + 1
  <2>1. o # Self /\ o # Array /\ o \notin BufferOwner /\ o[1] # "headers"
    BY <1>3, <1>4, <1>8
  <2> QED  BY <2>1 DEF FreedSize
<1> QED  BY <1>5, <1>6, <1>7, <1>8

\* What the size depends on.
LEMMA SameSize ==
  ASSUME NEW q \in Owner,
         q \in BufferOwner => bytes'[q] = bytes[q],
         q[1] \in {"url", "name", "value"} => text'[q] = text[q],
         q[1] = "headers" => slot'[q[2]].headerCount = slot[q[2]].headerCount,
         q = Array => arrayCapacity' = arrayCapacity
  PROVE  FreedSize(q)' = FreedSize(q)
<1>1. CASE q \in {Self, Array, Response}
  BY <1>1, FreedSizes, FreedSizesNext, Owners
<1>2. CASE q \in SlotOwner
  BY <1>2, FreedSizes, FreedSizesNext, SlotOwners
<1> QED  BY <1>1, <1>2, Owners

LEMMA IndexIsSlot ==
  ASSUME NEW capacity \in Nat, capacity * ExpectationSize <= SizeMax,
         NEW e \in 1..capacity
  PROVE  e \in Slot
  BY LayoutAssumption, EntryFits DEF Slot

LEMMA IndexIsHeaderSlot ==
  ASSUME NEW capacity \in Nat, capacity * HeaderSize <= SizeMax,
         NEW i \in 1..capacity
  PROVE  i \in HeaderSlot
  BY LayoutAssumption, EntryFits DEF HeaderSlot

LEMMA TextSizes == \A t \in Text : t.len \in Nat /\ t.len + 1 \in 1..SizeMax
  BY TextAssumption, SizeAssumption

\* What expectation_reset reaches, and that it reaches no other slot.
LEMMA OwnedBySlot ==
  ASSUME NEW e \in Slot
  PROVE  /\ \A o \in OwnedBy(e) : o \in SlotOwner /\ o[2] = e
         /\ \A o \in SlotOwner :
              o[2] = e /\ o[3] <= slot[e].headerCount /\ slot[e].headerCount \in Nat
                => o \in OwnedBy(e)
<1>1. \A o \in OwnedBy(e) : o \in SlotOwner /\ o[2] = e
  BY SlotFields DEF OwnedBy
<1>2. ASSUME NEW o \in SlotOwner, o[2] = e, o[3] <= slot[e].headerCount,
             slot[e].headerCount \in Nat
      PROVE  o \in OwnedBy(e)
  BY <1>2, SlotOwners DEF OwnedBy
<1> QED  BY <1>1, <1>2

-----------------------------------------------------------------------------
\* A step that frees and allocates for the fields in S keeps the ownership,
\* when the sizes of the other fields stay and those of S are the new blocks'.
LEMMA OwnershipKept ==
  ASSUME NEW S, Ownership,
         StillOwns(S, Owner, heap, ptr, heap', ptr'),
         text' \in [Owner -> Text], bytes' \in [BufferOwner -> Size],
         slot' \in [Slot -> PlainFields],
         \A o \in Owner : o \notin S =>
            /\ ptr'[o] = ptr[o]
            /\ ptr[o] # NoBlock => FreedSize(o)' = FreedSize(o),
         \A o \in S : o \in Owner /\ ptr'[o] # NoBlock => heap'[ptr'[o]] = FreedSize(o)'
  PROVE  Ownership'
<1>1. IsHeap(heap)' /\ (ptr \in Pointers(Owner))' /\ OwnsExactly(heap, ptr, Owner)'
  BY DEF StillOwns, IsHeap, OwnsExactly, Pointers
<1>2. ASSUME NEW o \in Owner, ptr'[o] # NoBlock
      PROVE  heap'[ptr'[o]] = FreedSize(o)'
  <2>1. CASE o \in S
    BY <1>2, <2>1
  <2>2. CASE o \notin S
    BY <1>2, <2>2 DEF StillOwns, Ownership
  <2> QED  BY <2>1, <2>2
<1>3. (slot \in [Slot -> PlainFields])'
  BY DEF PlainFields
<1> QED  BY <1>1, <1>2, <1>3 DEF Ownership

\* An allocation for one field.
LEMMA AllocateKeeps ==
  ASSUME Ownership, NEW o \in Owner, NEW size \in 1..SizeMax, Allocate(o, size),
         text' \in [Owner -> Text], bytes' \in [BufferOwner -> Size],
         slot' \in [Slot -> PlainFields],
         \A q \in Owner : q # o /\ ptr[q] # NoBlock => FreedSize(q)' = FreedSize(q),
         FreedSize(o)' = size
  PROVE  /\ Ownership' /\ ptr' \in Pointers(Owner) /\ ptr'[o] # NoBlock
         /\ \A q \in Owner : q # o => ptr'[q] = ptr[q]
<1> DEFINE freed == Release(heap, {ptr[o]})
<1>1. PICK b \in Candidates(freed) :
        heap' = Place(freed, b, size) /\ ptr' = [ptr EXCEPT ![o] = b]
  BY DEF Allocate
<1>2. b \in Block /\ freed[b] = 0
  BY CandidateIsFree
<1>3. IsHeap(heap) /\ ptr \in Pointers(Owner) /\ OwnsExactly(heap, ptr, Owner)
  BY DEF Ownership
<1>4. StillOwns({o}, Owner, heap, ptr, heap', ptr')
  BY <1>1, <1>2, <1>3, ReplaceField
<1>5. /\ ptr' \in Pointers(Owner) /\ ptr'[o] = b /\ b # NoBlock
      /\ \A q \in Owner : q # o => ptr'[q] = ptr[q]
  BY <1>1, <1>2, <1>3, BlockAssumption DEF Pointers
<1>6. heap'[b] = size
  <2>1. IsHeap(freed)
    BY <1>3, SizeAssumption DEF IsHeap, Release, Size
  <2> QED  BY <1>1, <1>2, <2>1, PlacedSize
<1>7. \A q \in Owner : q \notin {o} =>
         /\ ptr'[q] = ptr[q]
         /\ ptr[q] # NoBlock => FreedSize(q)' = FreedSize(q)
  BY <1>5
<1>8. \A q \in {o} : q \in Owner /\ ptr'[q] # NoBlock => heap'[ptr'[q]] = FreedSize(q)'
  BY <1>5, <1>6
<1> HIDE DEF freed
<1>9. Ownership'
  BY <1>4, <1>7, <1>8, OwnershipKept
<1> QED  BY <1>5, <1>9

\* Giving back the fields in S. It is enough that D, whose blocks are freed,
\* are those of S that hold one.
LEMMA DiscardKeeps ==
  ASSUME Ownership, NEW D, NEW S, S \subseteq Owner, Discard(D, S),
         D \subseteq S, \A o \in S : ptr[o] # NoBlock => o \in D,
         slot' \in [Slot -> PlainFields],
         \A q \in Owner : q \notin S /\ q[1] = "headers" =>
            slot'[q[2]].headerCount = slot[q[2]].headerCount,
         Array \notin S => arrayCapacity' = arrayCapacity
  PROVE  /\ Ownership' /\ ptr' \in Pointers(Owner) /\ text' \in [Owner -> Text]
         /\ \A o \in S : ptr'[o] = NoBlock /\ text'[o] = EmptyText
         /\ \A o \in Owner : o \notin S => ptr'[o] = ptr[o] /\ text'[o] = text[o]
<1> DEFINE gone == {ptr[o] : o \in D}
<1>1. /\ heap' = Release(heap, gone)
      /\ ptr' = [o \in Owner |-> IF o \in S THEN NoBlock ELSE ptr[o]]
      /\ text' = [o \in Owner |-> IF o \in S THEN EmptyText ELSE text[o]]
      /\ bytes' = [o \in BufferOwner |-> IF o \in S THEN 0 ELSE bytes[o]]
  BY DEF Discard
<1>2. /\ IsHeap(heap) /\ ptr \in Pointers(Owner) /\ OwnsExactly(heap, ptr, Owner)
      /\ ptr \in [Owner -> Block \cup {NoBlock}]
      /\ text \in [Owner -> Text] /\ bytes \in [BufferOwner -> Size]
  BY DEF Ownership, Pointers
<1>3. /\ ptr' \in Pointers(Owner)
      /\ \A o \in S : ptr'[o] = NoBlock
      /\ \A o \in Owner : o \notin S => ptr'[o] = ptr[o]
  BY <1>1, <1>2 DEF Pointers
<1>4. /\ text' \in [Owner -> Text]
      /\ \A o \in S : text'[o] = EmptyText
      /\ \A o \in Owner : o \notin S => text'[o] = text[o]
  BY <1>1, <1>2, TextAssumption
<1>5. /\ bytes' \in [BufferOwner -> Size]
      /\ \A o \in BufferOwner : o \notin S => bytes'[o] = bytes[o]
  BY <1>1, <1>2, SizeAssumption DEF Size
<1>6. \A b \in Block : b \in gone <=> \E o \in S : ptr[o] = b
  BY BlockAssumption
<1>7. heap' = Release(heap, gone)
  BY <1>1
<1> HIDE DEF gone
<1>8. StillOwns(S, Owner, heap, ptr, heap', ptr')
  BY ONLY <1>2, <1>3, <1>6, <1>7, S \subseteq Owner, ResetFields
<1>9. \A q \in Owner : q \notin S =>
         /\ ptr'[q] = ptr[q]
         /\ ptr[q] # NoBlock => FreedSize(q)' = FreedSize(q)
  BY <1>3, <1>4, <1>5, SameSize
<1>10. \A q \in S : q \in Owner /\ ptr'[q] # NoBlock => heap'[ptr'[q]] = FreedSize(q)'
  BY <1>3
<1>11. Ownership'
  BY <1>4, <1>5, <1>8, <1>9, <1>10, OwnershipKept
<1> QED  BY <1>3, <1>4, <1>11

\* A successful string copy.
LEMMA CopyStringKeeps ==
  ASSUME Ownership, NEW o \in SlotOwner, o[1] \in {"url", "name", "value"},
         NEW t \in Text, CopyString(o, t), UNCHANGED <<slot, arrayCapacity>>
  PROVE  /\ Ownership' /\ ptr' \in Pointers(Owner) /\ text'[o] = t
         /\ \A q \in Owner : q # o => ptr'[q] = ptr[q] /\ text'[q] = text[q]
<1>1. Allocate(o, t.len + 1) /\ text' = [text EXCEPT ![o] = t] /\ bytes' = bytes
  BY DEF CopyString
<1>2. /\ text \in [Owner -> Text] /\ bytes \in [BufferOwner -> Size]
      /\ slot \in [Slot -> PlainFields]
  BY DEF Ownership
<1>3. o \in Owner /\ o \notin BufferOwner /\ t.len + 1 \in 1..SizeMax
  BY SlotOwners, TextSizes
<1>4. /\ text' \in [Owner -> Text] /\ text'[o] = t
      /\ \A q \in Owner : q # o => text'[q] = text[q]
  BY <1>1, <1>2, <1>3
<1>5. FreedSize(o)' = t.len + 1
  BY <1>4, FreedSizesNext
<1>6. \A q \in Owner : q # o /\ ptr[q] # NoBlock => FreedSize(q)' = FreedSize(q)
  BY <1>1, <1>4, SameSize
<1> QED  BY <1>1, <1>2, <1>3, <1>4, <1>5, <1>6, AllocateKeeps

\* A successful buffer copy, of no bytes or of some.
LEMMA CopyBufferKeeps ==
  ASSUME Ownership, NEW o \in BufferOwner, NEW t \in Text, CopyBuffer(o, t),
         UNCHANGED <<slot, arrayCapacity>>
  PROVE  /\ Ownership' /\ ptr' \in Pointers(Owner) /\ text'[o] = t
         /\ \A q \in Owner : q # o => ptr'[q] = ptr[q] /\ text'[q] = text[q]
<1>1. /\ text \in [Owner -> Text] /\ bytes \in [BufferOwner -> Size]
      /\ slot \in [Slot -> PlainFields] /\ o \in Owner /\ o # Array
  BY Owners DEF Ownership
<1>2. t.len \in Size /\ (t.len = 0 => t = EmptyText)
  BY TextAssumption, SizeAssumption DEF Size
<1>3. CASE t.len = 0
  <2> DEFINE S == {o}
  <2>1. Discard(S, S)
    BY <1>3 DEF CopyBuffer
  <2>2. /\ S \subseteq Owner /\ S \subseteq S /\ \A q \in S : ptr[q] # NoBlock => q \in S
        /\ Array \notin S => arrayCapacity' = arrayCapacity
        /\ slot' \in [Slot -> PlainFields]
        /\ \A q \in Owner : q \notin S /\ q[1] = "headers" =>
            slot'[q[2]].headerCount = slot[q[2]].headerCount
    BY <1>1
  <2>3. o \in S /\ \A q : q \notin S <=> q # o
    OBVIOUS
  <2> HIDE DEF S
  <2> QED  BY <1>2, <1>3, <2>1, <2>2, <2>3, DiscardKeeps
<1>4. CASE t.len # 0
  <2> DEFINE size == Grown(0, t.len, FirstBytes)
  <2>1. /\ Allocate(o, size)
        /\ text' = [text EXCEPT ![o] = t]
        /\ bytes' = [bytes EXCEPT ![o] = size]
    BY <1>4 DEF CopyBuffer
  <2>2. size \in Size /\ size \in 1..SizeMax
    BY <1>2, <1>4, GrownHolds, SizeAssumption DEF Size
  <2> HIDE DEF size
  <2>3. /\ text' \in [Owner -> Text] /\ text'[o] = t
        /\ \A q \in Owner : q # o => text'[q] = text[q]
    BY <1>1, <2>1
  <2>4. /\ bytes' \in [BufferOwner -> Size] /\ bytes'[o] = size
        /\ \A q \in BufferOwner : q # o => bytes'[q] = bytes[q]
    BY <1>1, <2>1, <2>2
  <2>5. FreedSize(o)' = size
    BY <2>4, FreedSizesNext
  <2>6. \A q \in Owner : q # o /\ ptr[q] # NoBlock => FreedSize(q)' = FreedSize(q)
    BY <2>3, <2>4, SameSize
  <2> QED  BY <1>1, <2>1, <2>2, <2>3, <2>4, <2>5, <2>6, AllocateKeeps
<1> QED  BY <1>3, <1>4

-----------------------------------------------------------------------------
LEMMA InvInit == Init => Inv
<1> SUFFICES ASSUME Init PROVE Inv
  OBVIOUS
<1> USE SizeAssumption, BlockAssumption, TextAssumption DEF Init
<1>1. IsHeap(heap) /\ \A b \in Block : heap[b] = 0
  BY DEF EmptyHeap, IsHeap, Size
<1>2. /\ ptr \in Pointers(Owner) /\ \A o \in Owner : ptr[o] = NoBlock
      /\ ptr \in [Owner -> Block \cup {NoBlock}]
  BY DEF Pointers
<1>3. /\ text \in [Owner -> Text] /\ bytes \in [BufferOwner -> Size]
      /\ slot \in [Slot -> PlainFields]
      /\ \A e \in Slot : slot[e] = ZeroSlot /\ slot[e].headerCount = 0 /\ slot[e].http = 0
  BY DEF Size, ZeroSlot, PlainFields
<1>4. Ownership
  BY <1>1, <1>2, <1>3 DEF Ownership, OwnsExactly
<1>5. TypeOK
  <2>1. LastStep = 3
    BY DEF LastStep, NoExpectation
  <2> QED  BY <1>1, <1>2, <1>3, <2>1 DEF TypeOK, Size
<1>6. CountsWithinCapacity
  BY LayoutAssumption DEF CountsWithinCapacity
<1>7. HeldIsCounted /\ AbsentHoldsNothing
  BY <1>2, Owners DEF HeldIsCounted, AbsentHoldsNothing
<1>8. UncountedBlank /\ CopyInBounds
  BY <1>3 DEF UncountedBlank, CopyInBounds
<1> QED  BY <1>4, <1>5, <1>6, <1>7, <1>8 DEF Inv

\* The expectations that count, and the next one, lie in the array.
LEMMA CountedSlots ==
  ASSUME Inv
  PROVE  /\ \A e \in 1..arrayCapacity : e \in Slot
         /\ \A e \in 1..count : e \in Slot
         /\ count \in Nat /\ arrayCapacity \in Nat /\ next \in Nat /\ step \in Nat
         /\ step # 0 => count + 1 \in Slot
         /\ \A e \in Slot : slot[e].headerCount \in Nat
<1>1. /\ count \in Nat /\ arrayCapacity \in Nat /\ next \in Nat
      /\ count <= arrayCapacity /\ (step # 0 => count < arrayCapacity)
      /\ arrayCapacity * ExpectationSize <= SizeMax
      /\ \A e \in Slot : slot[e].headerCount \in Nat
  BY SizeAssumption DEF Inv, TypeOK, CountsWithinCapacity, Size
<1>2. \A e \in 1..arrayCapacity : e \in Slot
  BY <1>1, IndexIsSlot
<1>3. step \in Nat
  BY DEF Inv, TypeOK
<1>4. step # 0 => count + 1 \in 1..arrayCapacity
  BY <1>1
<1> QED  BY <1>1, <1>2, <1>3, <1>4

\* A step of a call that touches neither the transport nor the heap.
LEMMA UntouchedKeeps ==
  ASSUME Inv, UNCHANGED <<memory, transport, copying, step>>,
         http' \in Nat, submitted' \in Submission \cup {NoSubmission},
         status' \in {"OK", "OOM", "OVERFLOW", "INVALID_ARGUMENT", "MISMATCH"}
  PROVE  Inv'
<1> USE DEF Inv, memory, transport
<1>1. Ownership'
  BY DEF Ownership, FreedSize, OwnsExactly, IsHeap, Pointers, PlainFields
<1>2. TypeOK'
  BY DEF TypeOK, LastStep, IsHeap
<1>3. HeldIsCounted' /\ UncountedBlank' /\ CopyInBounds' /\ AbsentHoldsNothing'
  BY DEF HeldIsCounted, UncountedBlank, CopyInBounds, AbsentHoldsNothing, Exists
<1>4. CountsWithinCapacity'
  BY DEF CountsWithinCapacity
<1> QED  BY <1>1, <1>2, <1>3, <1>4

LEMMA CreateKeeps == ASSUME Inv, Create PROVE Inv'
<1>1. CASE UNCHANGED <<heap, ptr>> /\ Return("OOM")
  <2>1. UNCHANGED <<memory, transport, http, submitted, copying, step>>
    BY <1>1 DEF Create, memory
  <2> QED  BY <1>1, <2>1, UntouchedKeeps DEF Return, Inv, TypeOK
<1>2. CASE Allocate(Self, TransportSize) /\ Return("OK")
  <2>1. /\ step = 0 /\ ~Exists /\ status' = "OK"
        /\ UNCHANGED <<text, bytes, slot, count, arrayCapacity, next, http, submitted,
                       copying, step>>
    BY <1>2 DEF Create, transport, Return
  <2>2. /\ Ownership /\ Self \in Owner /\ TransportSize \in 1..SizeMax
        /\ text \in [Owner -> Text] /\ bytes \in [BufferOwner -> Size]
        /\ slot \in [Slot -> PlainFields]
    BY Owners, LayoutAssumption DEF Inv, Ownership
  <2>3. \A q \in Owner : FreedSize(q)' = FreedSize(q)
    BY <2>1, SameSize
  <2>4. FreedSize(Self)' = TransportSize
    BY FreedSizesNext
  <2>5. /\ Ownership' /\ ptr' \in Pointers(Owner) /\ ptr'[Self] # NoBlock
        /\ \A q \in Owner : q # Self => ptr'[q] = ptr[q]
    BY <1>2, <2>1, <2>2, <2>3, <2>4, AllocateKeeps
  <2>6. TypeOK'
    BY <2>1, <2>5 DEF Inv, TypeOK, LastStep, Ownership, Pointers, IsHeap
  <2>7. HeldIsCounted' /\ UncountedBlank' /\ CopyInBounds' /\ CountsWithinCapacity'
    BY <2>1, <2>5, Owners
    DEF Inv, HeldIsCounted, UncountedBlank, CopyInBounds, CountsWithinCapacity
  <2>8. AbsentHoldsNothing'
    BY <2>1, <2>5 DEF AbsentHoldsNothing, Exists
  <2> QED  BY <2>5, <2>6, <2>7, <2>8 DEF Inv
<1> QED  BY <1>1, <1>2 DEF Create

LEMMA DestroyKeeps == ASSUME Inv, Destroy PROVE Inv'
<1> DEFINE D == {Self, Array} \cup UNION {OwnedBy(e) : e \in 1..count}
           S == Owner \ {Response}
<1>1. /\ step = 0 /\ Discard(D, S)
      /\ slot' = [e \in Slot |-> ZeroSlot] /\ count' = 0
      /\ arrayCapacity' = 0 /\ next' = 0 /\ UNCHANGED <<http, submitted, status, copying, step>>
  BY DEF Destroy
<1>2. \A e \in 1..count : e \in Slot /\ \A o \in OwnedBy(e) : o \in SlotOwner
  BY CountedSlots, OwnedBySlot
<1>3. S \subseteq Owner /\ D \subseteq S
  BY <1>2, Owners
<1>4. ASSUME NEW o \in S, ptr[o] # NoBlock PROVE o \in D
  <2>1. CASE o \in {Self, Array}
    BY <2>1
  <2>2. CASE o \in SlotOwner
    <3>1. o[2] <= count /\ o[3] <= slot[o[2]].headerCount
      BY <1>1, <1>4, <2>2 DEF Inv, HeldIsCounted
    <3>2. o[2] \in 1..count /\ o[2] \in Slot /\ slot[o[2]].headerCount \in Nat
      BY <2>2, <3>1, SlotOwners, CountedSlots
    <3>3. o \in OwnedBy(o[2])
      BY <2>2, <3>1, <3>2, OwnedBySlot
    <3> QED  BY <3>2, <3>3
  <2> QED  BY <2>1, <2>2, Owners
<1>5. slot' \in [Slot -> PlainFields]
      /\ \A e \in Slot : slot'[e] = ZeroSlot /\ slot'[e].headerCount = 0
                         /\ slot'[e].http = 0
  BY <1>1, SizeAssumption DEF ZeroSlot, PlainFields, Size
<1>6. \A q \in Owner : q \notin S => q = Response
  OBVIOUS
<1>7. Response[1] # "headers" /\ Array \in S
  BY Owners DEF Response
<1> HIDE DEF D, S
<1>8. /\ Ownership' /\ ptr' \in Pointers(Owner) /\ text' \in [Owner -> Text]
      /\ \A o \in S : ptr'[o] = NoBlock
  BY <1>1, <1>3, <1>4, <1>5, <1>6, <1>7, DiscardKeeps DEF Inv
<1>9. \A o \in Owner : ptr'[o] # NoBlock => o = Response
  BY <1>6, <1>8
<1>10. TypeOK'
  <2>1. LastStep' = LastStep /\ 0 \in Size
    BY <1>1, SizeAssumption DEF LastStep, Size
  <2> QED  BY <1>1, <1>5, <1>8, <2>1 DEF Inv, TypeOK, Ownership, Pointers, IsHeap
<1>11. HeldIsCounted' /\ AbsentHoldsNothing'
  BY <1>1, <1>9, Owners DEF HeldIsCounted, AbsentHoldsNothing
<1>12. UncountedBlank' /\ CopyInBounds'
  BY <1>1, <1>5 DEF Inv, UncountedBlank, CopyInBounds
<1>13. CountsWithinCapacity'
  BY <1>1, LayoutAssumption, SizeAssumption DEF CountsWithinCapacity
<1> QED  BY <1>8, <1>10, <1>11, <1>12, <1>13 DEF Inv

\* Growing the array. Whatever the slots it adds hold, zeroing them restores
\* what lies behind the counted ones when no expect runs: nothing.
LEMMA GrowArrayKeeps ==
  ASSUME Inv, step = 0, NEW capacity \in Size, GrowArray(capacity),
         capacity > count, MulFits(capacity, ExpectationSize),
         text' = text, bytes' = bytes, slot' \in [Slot -> PlainFields],
         \A e \in Slot : e <= count => slot'[e] = slot[e]
  PROVE  /\ Ownership' /\ capacity * ExpectationSize <= SizeMax
         /\ \A o \in Owner : o # Array => ptr'[o] = ptr[o]
<1> DEFINE size == capacity * ExpectationSize
<1>1. size \in 1..SizeMax
  <2>1. capacity \in Nat \ {0} /\ ExpectationSize \in Nat \ {0} /\ ExpectationSize \in Size
    BY CountedSlots, LayoutAssumption, SizeAssumption DEF Size
  <2>2. size \in Size
    BY <2>1, MulFitsExact
  <2>3. size > 0
    BY <2>1
  <2> HIDE DEF size
  <2> QED  BY <2>2, <2>3, SizeAssumption DEF Size
<1>2. /\ IsHeap(heap) /\ ptr \in Pointers(Owner) /\ OwnsExactly(heap, ptr, Owner)
      /\ ptr \in [Owner -> Block \cup {NoBlock}]
      /\ text \in [Owner -> Text] /\ bytes \in [BufferOwner -> Size]
      /\ Array \in Owner /\ Ownership
  BY Owners DEF Inv, Ownership, Pointers
<1>3. \A o \in SlotOwner : ptr[o] # NoBlock => o[2] <= count
  BY DEF Inv, HeldIsCounted
<1>4. \A stale : Zeroed(WithAdded(ptr, capacity, stale), capacity) = ptr
  <2>1. count <= arrayCapacity /\ count \in Nat /\ arrayCapacity \in Nat
    BY CountedSlots DEF Inv, CountsWithinCapacity
  <2>2. ASSUME NEW o \in Owner, arrayCapacity < o[2], o[2] <= capacity
        PROVE  ptr[o] = NoBlock
    BY <2>1, <2>2, <1>3, Owners, SlotOwners
  <2>3. ASSUME NEW stale
        PROVE  Zeroed(WithAdded(ptr, capacity, stale), capacity)
                 = [o \in Owner |-> IF arrayCapacity < o[2] /\ o[2] <= capacity
                                    THEN NoBlock ELSE ptr[o]]
    BY DEF Zeroed, WithAdded
  <2> QED  BY <1>2, <2>2, <2>3
<1>5. /\ StillOwns({Array}, Owner, heap, ptr, heap', ptr')
      /\ \A o \in Owner : o # Array => ptr'[o] = ptr[o]
      /\ heap'[ptr'[Array]] = size
      /\ arrayCapacity' = capacity
  <2>1. CASE \E b \in Candidates(heap) :
               /\ heap' = Place(Release(heap, {ptr[Array]}), b, size)
               /\ ptr' = [ptr EXCEPT ![Array] = b]
    <3>1. PICK b \in Candidates(heap) :
               /\ heap' = Place(Release(heap, {ptr[Array]}), b, size)
               /\ ptr' = [ptr EXCEPT ![Array] = b]
      BY <2>1
    <3>2. b \in Block /\ heap[b] = 0
      BY CandidateIsFree
    <3>3. Release(heap, {ptr[Array]})[b] = 0 /\ IsHeap(Release(heap, {ptr[Array]}))
      BY <3>2, <1>2, SizeAssumption DEF Release, IsHeap, Size
    <3>4. heap'[b] = size
      BY <3>1, <3>2, <3>3, PlacedSize
    <3>5. ptr'[Array] = b /\ \A o \in Owner : o # Array => ptr'[o] = ptr[o]
      BY <3>1, <1>2 DEF Pointers
    <3>6. arrayCapacity' = capacity
      BY DEF GrowArray
    <3> HIDE DEF size
    <3>7. StillOwns({Array}, Owner, heap, ptr, heap', ptr')
      BY <1>1, <1>2, <3>1, <3>2, <3>3, ReplaceField
    <3> QED  BY <3>4, <3>5, <3>6, <3>7
  <2>2. CASE /\ ptr[Array] # NoBlock
             /\ heap' = Place(heap, ptr[Array], size)
             /\ ptr' = ptr
    <3>1. ptr[Array] \in Block /\ arrayCapacity' = capacity
      BY <2>2, <1>2 DEF Pointers, GrowArray
    <3>2. heap'[ptr'[Array]] = size
      BY <3>1, <2>2, <1>2, PlacedSize
    <3> HIDE DEF size
    <3>3. StillOwns({Array}, Owner, heap, ptr, heap', ptr)
      BY <1>1, <1>2, <2>2, ResizeField
    <3> QED  BY <2>2, <3>1, <3>2, <3>3
  <2>3. PICK stale \in Block \cup {NoBlock} :
          LET slots == Zeroed(WithAdded(ptr, capacity, stale), capacity)
          IN  \/ \E b \in Candidates(heap) :
                   /\ heap' = Place(Release(heap, {ptr[Array]}), b, size)
                   /\ ptr' = [slots EXCEPT ![Array] = b]
              \/ /\ ptr[Array] # NoBlock
                 /\ heap' = Place(heap, ptr[Array], size)
                 /\ ptr' = slots
    BY DEF GrowArray
  <2>4. Zeroed(WithAdded(ptr, capacity, stale), capacity) = ptr
    BY <1>4
  <2> HIDE DEF size
  <2> QED  BY <2>1, <2>2, <2>3, <2>4
<1>6. ASSUME NEW q \in Owner, q \notin {Array}
      PROVE  /\ ptr'[q] = ptr[q]
             /\ ptr[q] # NoBlock => FreedSize(q)' = FreedSize(q)
  <2>1. ASSUME ptr[q] # NoBlock, q[1] = "headers"
        PROVE  slot'[q[2]].headerCount = slot[q[2]].headerCount
    <3>1. q \in SlotOwner
      BY <2>1, Owners DEF Self, Array, Response
    <3> QED  BY <2>1, <3>1, <1>3, SlotOwners
  <2> QED  BY <1>5, <1>6, <2>1, SameSize
<1>7. \A q \in {Array} :
        q \in Owner /\ ptr'[q] # NoBlock => heap'[ptr'[q]] = FreedSize(q)'
  BY <1>5, FreedSizesNext
<1>8. text' \in [Owner -> Text] /\ bytes' \in [BufferOwner -> Size]
  BY <1>2
<1>9. Ownership'
  BY <1>2, <1>5, <1>6, <1>7, <1>8, OwnershipKept
<1> QED  BY <1>1, <1>5, <1>9

\* An accepted expect: the zeroed slot behind the counted ones is filled.
LEMMA BeginCopyKeeps ==
  ASSUME Inv, step = 0, Exists, NEW x \in Expectation, BeginCopy(x),
         UNCHANGED <<text, bytes, count, next, http, submitted>>,
         \/ count + 1 <= arrayCapacity /\ UNCHANGED <<heap, ptr, arrayCapacity>>
         \/ \E capacity \in Size :
              /\ capacity > count /\ MulFits(capacity, ExpectationSize)
              /\ GrowArray(capacity)
  PROVE  Inv'
<1> DEFINE n == count + 1
<1>1. /\ slot' = [slot EXCEPT ![n] = [method |-> x.method, http |-> x.http,
                                      headerCount |-> slot[n].headerCount]]
      /\ copying' = x /\ step' = 1 /\ status' = status
  BY DEF BeginCopy
<1>2. /\ slot \in [Slot -> PlainFields] /\ Ownership
      /\ [method |-> x.method, http |-> x.http, headerCount |-> 0] \in PlainFields
      /\ count \in Nat /\ arrayCapacity \in Nat /\ next \in Nat
      /\ next <= count /\ count <= arrayCapacity
      /\ arrayCapacity * ExpectationSize <= SizeMax
  BY CountedSlots, ArgumentAssumption, SizeAssumption
  DEF Inv, Ownership, PlainFields, Size, CountsWithinCapacity
<1>3. /\ slot' \in [Slot -> PlainFields]
      /\ \A e \in Slot : e # n => slot'[e] = slot[e]
      /\ n \in Slot => slot'[n].headerCount = 0
  <2>1. n \in Slot => slot[n] = ZeroSlot
    BY <1>2 DEF Inv, UncountedBlank
  <2>2. n \in Slot => slot'[n] = [method |-> x.method, http |-> x.http, headerCount |-> 0]
    BY <1>1, <1>2, <2>1 DEF ZeroSlot
  <2>3. /\ \A e \in Slot : e # n => slot'[e] = slot[e]
        /\ slot' = [e \in Slot |-> slot'[e]]
    BY <1>1, <1>2
  <2>4. \A e \in Slot : slot'[e] \in PlainFields
    BY <1>2, <2>2, <2>3
  <2> QED  BY <2>2, <2>3, <2>4
<1>4. \A e \in Slot : e <= count => slot'[e] = slot[e]
  BY <1>2, <1>3 DEF Slot
<1>5. /\ Ownership'
      /\ \A o \in Owner : o # Array => ptr'[o] = ptr[o]
      /\ arrayCapacity' \in Size /\ arrayCapacity' >= n
      /\ arrayCapacity' * ExpectationSize <= SizeMax
  <2>1. CASE count + 1 <= arrayCapacity /\ UNCHANGED <<heap, ptr, arrayCapacity>>
    <3>1. \A q \in SlotOwner : ptr[q] # NoBlock => q[2] <= count
      BY DEF Inv, HeldIsCounted
    <3>2. ASSUME NEW q \in Owner, ptr[q] # NoBlock
          PROVE  FreedSize(q)' = FreedSize(q)
      <4>1. ASSUME q[1] = "headers"
            PROVE  slot'[q[2]].headerCount = slot[q[2]].headerCount
        <5>1. q \in SlotOwner
          BY <4>1, Owners DEF Self, Array, Response
        <5> QED  BY <3>1, <3>2, <5>1, <1>4, SlotOwners
      <4> QED  BY <2>1, <4>1, SameSize
    <3>3. Ownership'
      BY <2>1, <1>2, <1>3, <3>2 DEF Ownership, IsHeap, Pointers, OwnsExactly, PlainFields
    <3> QED  BY <2>1, <3>3, <1>2 DEF Inv, TypeOK
  <2>2. CASE \E capacity \in Size :
              /\ capacity > count /\ MulFits(capacity, ExpectationSize)
              /\ GrowArray(capacity)
    <3>1. PICK capacity \in Size :
              /\ capacity > count /\ MulFits(capacity, ExpectationSize)
              /\ GrowArray(capacity)
      BY <2>2
    <3>2. arrayCapacity' = capacity
      BY <3>1 DEF GrowArray
    <3> QED  BY <3>1, <3>2, <1>2, <1>3, <1>4, GrowArrayKeeps DEF Size
  <2> QED  BY <2>1, <2>2
<1>6. n \in Slot
  <2>1. arrayCapacity' \in Nat /\ n \in 1..arrayCapacity'
    BY <1>2, <1>5 DEF Size
  <2> QED  BY <1>5, <2>1, IndexIsSlot
<1>7. TypeOK'
  <2>1. LastStep' \in Nat /\ LastStep' >= 1
    <3>1. copying'.headers \in Seq([name : Text, value : Text])
      BY <1>1, ArgumentAssumption
    <3>2. Len(copying'.headers) \in Nat
      BY <3>1
    <3> QED  BY <3>2 DEF LastStep
  <2>2. \A e \in Slot : slot'[e].headerCount \in Size /\ slot'[e].http \in Nat
    BY <1>3 DEF PlainFields
  <2> QED  BY <1>1, <1>5, <2>1, <2>2 DEF Inv, TypeOK, Ownership, Pointers, IsHeap
<1>8. HeldIsCounted'
  <2> SUFFICES ASSUME NEW o \in SlotOwner, ptr'[o] # NoBlock
               PROVE  o[2] <= count /\ o[3] <= slot'[o[2]].headerCount
    BY <1>1 DEF HeldIsCounted
  <2>1. ptr[o] # NoBlock
    BY <1>5, Owners
  <2>2. o[2] <= count /\ o[3] <= slot[o[2]].headerCount
    BY <2>1 DEF Inv, HeldIsCounted
  <2> QED  BY <2>2, <1>4, SlotOwners
<1>9. UncountedBlank'
  BY <1>1, <1>3 DEF Inv, UncountedBlank
<1>10. CopyInBounds'
  BY <1>1, <1>3, <1>6 DEF CopyInBounds
<1>11. AbsentHoldsNothing'
  BY <1>1, <1>5, Owners DEF AbsentHoldsNothing, Exists
<1>12. CountsWithinCapacity'
  BY <1>2, <1>5 DEF CountsWithinCapacity, Size
<1> QED  BY <1>5, <1>7, <1>8, <1>9, <1>10, <1>11, <1>12 DEF Inv

LEMMA ExpectKeeps == ASSUME Inv, Expect PROVE Inv'
<1>1. step = 0 /\ UNCHANGED <<text, bytes, count, next, http, submitted>>
  BY DEF Expect
<1>2. CASE \E code \in {"OOM", "OVERFLOW", "INVALID_ARGUMENT"} : RefuseExpect(code)
  <2>1. UNCHANGED <<memory, transport, http, submitted, copying, step>>
        /\ status' \in {"OK", "OOM", "OVERFLOW", "INVALID_ARGUMENT", "MISMATCH"}
    BY <1>1, <1>2 DEF RefuseExpect, memory, transport, Return
  <2> QED  BY <2>1, UntouchedKeeps DEF Inv, TypeOK
<1>3. CASE ~\E code \in {"OOM", "OVERFLOW", "INVALID_ARGUMENT"} : RefuseExpect(code)
  <2>1. PICK x \in Expectation :
          LET required == count + 1
              capacity == Grown(arrayCapacity, required, FirstExpectations)
          IN  /\ Exists /\ BeginCopy(x)
              /\ \/ required <= arrayCapacity /\ UNCHANGED <<heap, ptr, arrayCapacity>>
                 \/ /\ AddFits(count, 1) /\ MulFits(capacity, ExpectationSize)
                    /\ GrowArray(capacity)
    BY <1>3 DEF Expect
  <2> DEFINE capacity == Grown(arrayCapacity, count + 1, FirstExpectations)
  <2>2. AddFits(count, 1) => capacity \in Size /\ capacity > count
    <3>1. count \in Size /\ 1 \in Size /\ count \in Nat
      BY SizeAssumption DEF Inv, TypeOK, Size
    <3>2. AddFits(count, 1) => count + 1 \in Size
      BY <3>1, AddFitsExact
    <3>3. AddFits(count, 1) => capacity \in Size /\ capacity >= count + 1
      BY <3>2, GrownHolds
    <3> QED  BY <3>1, <3>3 DEF Size
  <2> HIDE DEF capacity
  <2>3. \/ count + 1 <= arrayCapacity /\ UNCHANGED <<heap, ptr, arrayCapacity>>
        \/ \E c \in Size :
              /\ c > count /\ MulFits(c, ExpectationSize)
              /\ GrowArray(c)
    BY <2>1, <2>2 DEF capacity
  <2> QED  BY <1>1, <2>1, <2>3, BeginCopyKeeps
<1> QED  BY <1>2, <1>3

-----------------------------------------------------------------------------
\* A running expect and the field it fills next.
LEMMA Copying ==
  ASSUME Inv, step # 0
  PROVE  /\ copying.url \in Text /\ copying.body \in Text /\ copying.answer \in Text
         /\ copying.headers \in Seq([name : Text, value : Text])
         /\ Len(copying.headers) \in Nat
         /\ LastStep \in {3, 4 + 2 * Len(copying.headers)}
         /\ LastStep # 3 => Len(copying.headers) > 0
         /\ step \in 1..LastStep
<1>1. copying.headers \in Seq([name : Text, value : Text])
  <2>1. CASE copying \in Expectation
    BY <2>1, ArgumentAssumption
  <2>2. CASE copying = NoExpectation
    <3>1. copying.headers = << >>
      BY <2>2 DEF NoExpectation
    <3> QED  BY <3>1
  <2> QED  BY <2>1, <2>2 DEF Inv, TypeOK
<1>2. copying.url \in Text /\ copying.body \in Text /\ copying.answer \in Text
  BY ArgumentAssumption, TextAssumption DEF Inv, TypeOK, NoExpectation
<1>3. Len(copying.headers) \in Nat /\ (copying.headers # <<>> => Len(copying.headers) > 0)
  BY <1>1
<1>4. LastStep \in {3, 4 + 2 * Len(copying.headers)}
      /\ (LastStep # 3 => Len(copying.headers) > 0)
  BY <1>3 DEF LastStep
<1>5. LastStep \in Nat /\ step \in 0..LastStep
  BY <1>3, <1>4 DEF Inv, TypeOK
<1> QED  BY <1>1, <1>2, <1>3, <1>4, <1>5

LEMMA Element ==
  ASSUME NEW S, NEW s \in Seq(S), NEW i \in 1..Len(s)
  PROVE  s[i] \in S
  OBVIOUS

LEMMA FieldOf ==
  ASSUME Inv, step # 0, NEW n \in 1..step, NEW o, o = Field(count + 1, n)
  PROVE  /\ o \in SlotOwner /\ o[2] = count + 1 /\ o # Array /\ o # Self
         /\ o[3] <= IF n > 4 THEN Len(copying.headers) ELSE 0
         /\ o[1] = "headers" <=> n = 4
         /\ n <= 4 => o[3] = 0
         /\ n > 4 => o[1] \in {"name", "value"} /\ o[3] \in 1..Len(copying.headers)
         /\ n # 4 => Source(o) \in Text
<1> DEFINE e == count + 1
           hs == copying.headers
<1>1. /\ e \in Slot /\ step \in Nat /\ n \in Nat /\ n > 0 /\ n <= step
      /\ hs \in Seq([name : Text, value : Text]) /\ Len(hs) \in Nat
      /\ copying.url \in Text /\ copying.body \in Text /\ copying.answer \in Text
  BY CountedSlots, Copying
<1>2. CASE n \in {1, 2, 3}
  <2>1. o \in {Url(e), Body(e), Answer(e)}
    BY <1>2 DEF Field
  <2>2. /\ o \in SlotOwner /\ o[2] = e /\ o[3] = 0
        /\ o[1] \in {"url", "body", "answer"}
    BY <1>1, <2>1, SlotFields
  <2>3. Source(o) \in Text
    BY <1>1, <2>2 DEF Source
  <2> QED  BY <1>2, <2>2, <2>3, Owners
<1>3. CASE n = 4
  <2>1. o = Headers(e)
    BY <1>3 DEF Field
  <2> QED  BY <1>1, <1>3, <2>1, SlotFields, Owners
<1>4. CASE n > 4
  <2>1. n <= 4 + 2 * Len(hs) /\ Len(hs) * HeaderSize <= SizeMax
    BY <1>1, <1>4, Copying DEF Inv, CopyInBounds
  <2>2. PICK i \in 1..Len(hs) : o \in {NameOf(e, i), ValueOf(e, i)}
    <3>1. CASE n % 2 = 1
      <4>1. (n - 3) \div 2 \in 1..Len(hs)
        BY <1>1, <1>4, <2>1, <3>1
      <4>2. o = NameOf(e, (n - 3) \div 2)
        BY <1>4, <3>1 DEF Field
      <4> QED  BY <4>1, <4>2
    <3>2. CASE n % 2 # 1
      <4>1. (n - 4) \div 2 \in 1..Len(hs)
        BY <1>1, <1>4, <2>1, <3>2
      <4>2. o = ValueOf(e, (n - 4) \div 2)
        BY <1>4, <3>2 DEF Field
      <4> QED  BY <4>1, <4>2
    <3> QED  BY <3>1, <3>2
  <2>3. i \in HeaderSlot
    BY <1>1, <2>1, IndexIsHeaderSlot
  <2>4. /\ o \in SlotOwner /\ o[2] = e /\ o[3] = i /\ o[1] \in {"name", "value"}
    BY <1>1, <2>2, <2>3, SlotFields
  <2>5. hs[i] \in [name : Text, value : Text]
    BY <1>1, Element
  <2>6. Source(o) \in Text
    BY <2>4, <2>5 DEF Source
  <2> QED  BY <1>1, <1>4, <2>4, <2>6, Owners
<1> QED  BY <1>1, <1>2, <1>3, <1>4

\* What the copy into one field does to memory and slots.
LEMMA FieldFilled ==
  ASSUME Inv, step # 0, NEW o, o = Field(count + 1, step),
         FillBuffer(o) \/ FillString(o) \/ FillHeaders(o),
         UNCHANGED arrayCapacity
  PROVE  /\ Ownership' /\ ptr' \in Pointers(Owner)
         /\ \A q \in Owner : q # o => ptr'[q] = ptr[q] /\ text'[q] = text[q]
         /\ step # 4 => slot' = slot /\ text'[o] = Source(o)
         /\ step = 4 => /\ slot' = [slot EXCEPT ![count + 1].headerCount
                                                    = Len(copying.headers)]
                        /\ Len(copying.headers) * HeaderSize <= SizeMax
                        /\ Len(copying.headers) \in Size
                        /\ text' = text
<1>1. /\ o \in SlotOwner /\ o \in Owner /\ o[2] = count + 1 /\ o # Array
      /\ o[1] = "headers" <=> step = 4
      /\ step # 4 => Source(o) \in Text
      /\ Ownership
  BY CountedSlots, FieldOf, Owners DEF Inv
<1>2. CASE FillBuffer(o)
  <2>1. step # 4 /\ CopyBuffer(o, Source(o)) /\ slot' = slot /\ o \in BufferOwner
    BY <1>1, <1>2, SlotOwners DEF FillBuffer
  <2> QED  BY <1>1, <2>1, CopyBufferKeeps
<1>3. CASE FillString(o)
  <2>1. /\ step # 4 /\ CopyString(o, Source(o)) /\ slot' = slot
        /\ o[1] \in {"url", "name", "value"}
    BY <1>1, <1>3 DEF FillString
  <2> QED  BY <1>1, <2>1, CopyStringKeeps
<1>4. CASE FillHeaders(o)
  <2> DEFINE n == Len(copying.headers)
             e == count + 1
             size == n * HeaderSize
  <2>1. /\ step = 4 /\ MulFits(n, HeaderSize) /\ Allocate(o, size)
        /\ slot' = [slot EXCEPT ![e].headerCount = n]
        /\ text' = text /\ bytes' = bytes
    BY <1>1, <1>4 DEF FillHeaders
  <2>2. n \in Nat \ {0} /\ HeaderSize \in Nat \ {0} /\ SizeMax \in Nat /\ e \in Slot
    <3>1. n \in Nat /\ n > 0
      BY <2>1, Copying
    <3> QED  BY <3>1, <2>1, CountedSlots, LayoutAssumption, SizeAssumption
  <2> HIDE DEF n
  <2>3. size \in Size /\ size \in Nat
    BY <2>1, <2>2, ProductFits
  <2>4. n <= size
    BY <2>2
  <2>5. n \in Size /\ size \in 1..SizeMax /\ size <= SizeMax
    BY <2>2, <2>3, <2>4 DEF Size
  <2> HIDE DEF e, size
  <2>6. /\ slot \in [Slot -> PlainFields] /\ text \in [Owner -> Text]
        /\ bytes \in [BufferOwner -> Size]
    BY <1>1 DEF Ownership
  <2>7. /\ slot' \in [Slot -> PlainFields] /\ slot'[e].headerCount = n
        /\ \A d \in Slot : d # e => slot'[d] = slot[d]
    BY <2>1, <2>2, <2>5, <2>6 DEF PlainFields
  <2>8. FreedSize(o)' = size
    BY <1>1, <2>1, <2>7, FreedSizesNext DEF size, e
  <2>9. ASSUME NEW q \in Owner, q # o, ptr[q] # NoBlock
        PROVE  FreedSize(q)' = FreedSize(q)
    <3>1. ASSUME q[1] = "headers"
          PROVE  slot'[q[2]].headerCount = slot[q[2]].headerCount
      <4>1. q \in SlotOwner
        BY <3>1, Owners DEF Self, Array, Response
      <4>2. q = Headers(q[2]) /\ o = Headers(o[2]) /\ q[2] \in Slot
        BY <3>1, <4>1, <1>1, <2>1, SlotOwners DEF Url, Body, Answer, NameOf, ValueOf
      <4>3. q[2] # e
        BY <4>2, <2>9, <1>1 DEF e
      <4> QED  BY <4>2, <4>3, <2>7
    <3> QED  BY <2>1, <3>1, SameSize
  <2>10. text' \in [Owner -> Text] /\ bytes' \in [BufferOwner -> Size]
    BY <2>1, <2>6
  <2>11. /\ Ownership' /\ ptr' \in Pointers(Owner)
         /\ \A q \in Owner : q # o => ptr'[q] = ptr[q]
    BY <1>1, <2>1, <2>5, <2>7, <2>8, <2>9, <2>10, AllocateKeeps
  <2> QED  BY <2>1, <2>5, <2>11 DEF n, e, size
<1> QED  BY <1>2, <1>3, <1>4

LEMMA FillKeeps == ASSUME Inv, Fill PROVE Inv'
<1> DEFINE o == Field(count + 1, step)
           e == count + 1
<1>1. /\ step # 0
      /\ FillBuffer(o) \/ FillString(o) \/ FillHeaders(o)
      /\ \/ /\ step = LastStep /\ count' = count + 1 /\ status' = "OK"
            /\ copying' = NoExpectation /\ step' = 0
         \/ /\ step # LastStep /\ step' = step + 1
            /\ UNCHANGED <<count, status, copying>>
      /\ UNCHANGED <<arrayCapacity, next, http, submitted>>
  BY DEF Fill, Return
<1>2. /\ o \in SlotOwner /\ o[2] = e /\ o # Array /\ o # Self
      /\ o[3] <= IF step > 4 THEN Len(copying.headers) ELSE 0
      /\ e \in Slot /\ count \in Nat /\ step \in Nat \ {0} /\ next \in Nat
      /\ arrayCapacity \in Size /\ arrayCapacity \in Nat
  BY <1>1, CountedSlots, FieldOf DEF Inv, TypeOK
<1> HIDE DEF o
<1>3. /\ Ownership' /\ ptr' \in Pointers(Owner)
      /\ \A q \in Owner : q # o => ptr'[q] = ptr[q] /\ text'[q] = text[q]
      /\ step # 4 => slot' = slot
      /\ step = 4 => /\ slot' = [slot EXCEPT ![e].headerCount = Len(copying.headers)]
                     /\ Len(copying.headers) * HeaderSize <= SizeMax
  BY <1>1, FieldFilled DEF o
<1>4. /\ slot \in [Slot -> PlainFields] /\ slot' \in [Slot -> PlainFields]
      /\ \A d \in Slot : d # e => slot'[d] = slot[d]
      /\ slot'[e].headerCount = IF step < 4 THEN 0 ELSE Len(copying.headers)
      /\ slot[e].headerCount = IF step <= 4 THEN 0 ELSE Len(copying.headers)
      /\ Len(copying.headers) \in Nat
  <2>1. slot \in [Slot -> PlainFields] /\ slot' \in [Slot -> PlainFields]
    BY <1>3 DEF Inv, Ownership, PlainFields
  <2>2. /\ step \in 1..4 => slot[e].headerCount = 0
        /\ step > 4 => slot[e].headerCount = Len(copying.headers)
    BY DEF Inv, CopyInBounds
  <2>3. Len(copying.headers) \in Nat
    BY <1>1, Copying
  <2>4. CASE step = 4
    BY <1>2, <1>3, <2>1, <2>2, <2>3, <2>4 DEF PlainFields
  <2>5. CASE step # 4
    BY <1>2, <1>3, <2>1, <2>2, <2>3, <2>5
  <2> QED  BY <2>4, <2>5
<1>5. TypeOK'
  <2>1. step' \in 0..LastStep'
    <3>1. CASE step = LastStep
      <4>1. LastStep' = 3
        BY <1>1, <3>1 DEF LastStep, NoExpectation
      <4> QED  BY <1>1, <3>1, <4>1
    <3>2. CASE step # LastStep
      <4>1. LastStep' = LastStep
        BY <1>1, <3>2 DEF LastStep
      <4>2. step \in 1..LastStep /\ LastStep \in Nat
        BY <1>1, <1>4, Copying
      <4> QED  BY <1>1, <3>2, <4>1, <4>2
    <3> QED  BY <3>1, <3>2
  <2>2. count' \in Size
    BY <1>1, <1>2, SizeAssumption DEF Inv, CountsWithinCapacity, TypeOK, Size
  <2>3. \A d \in Slot : slot'[d].headerCount \in Size /\ slot'[d].http \in Nat
    BY <1>4 DEF PlainFields
  <2>4. /\ IsHeap(heap') /\ ptr' \in [Owner -> Block \cup {NoBlock}]
        /\ text' \in [Owner -> Text] /\ bytes' \in [BufferOwner -> Size]
    BY <1>3 DEF Ownership, Pointers, IsHeap
  <2>5. /\ status' \in {"OK", "OOM", "OVERFLOW", "INVALID_ARGUMENT", "MISMATCH"}
        /\ copying' \in Expectation \cup {NoExpectation}
    BY <1>1 DEF Inv, TypeOK
  <2>6. /\ next' \in Size /\ http' \in Nat /\ arrayCapacity' \in Size
        /\ submitted' \in Submission \cup {NoSubmission}
    BY <1>1 DEF Inv, TypeOK
  <2> QED  BY <2>1, <2>2, <2>3, <2>4, <2>5, <2>6 DEF TypeOK
<1>6. HeldIsCounted'
  <2> SUFFICES ASSUME NEW q \in SlotOwner, ptr'[q] # NoBlock
               PROVE  /\ q[2] <= count' \/ (step' # 0 /\ q[2] = count' + 1)
                      /\ q[3] <= slot'[q[2]].headerCount
    BY DEF HeldIsCounted
  <2>1. q \in Owner /\ q[2] \in Slot /\ q[2] \in Nat /\ q[3] \in Nat
    BY SlotOwners
  <2>2. q[2] <= count \/ q[2] = e
    BY <1>2, <1>3, <2>1 DEF Inv, HeldIsCounted
  <2>3. q[2] <= count' \/ (step' # 0 /\ q[2] = count' + 1)
    BY <1>1, <1>2, <2>1, <2>2
  <2>4. CASE q = o
    <3>1. o[3] \in Nat /\ o[3] <= IF step > 4 THEN Len(copying.headers) ELSE 0
      BY <1>2, <2>1, <2>4
    <3>2. o[3] <= slot'[e].headerCount
      BY <3>1, <1>2, <1>4
    <3> QED  BY <3>2, <1>2, <2>3, <2>4
  <2>5. CASE q # o
    <3>1. q[3] <= slot[q[2]].headerCount
      BY <1>3, <2>1, <2>5 DEF Inv, HeldIsCounted
    <3>2. slot[e].headerCount <= slot'[e].headerCount
      BY <1>2, <1>4
    <3>3. CASE q[2] = e
      <4>1. slot[e].headerCount \in Nat /\ slot'[e].headerCount \in Nat
        BY <1>2, <1>4
      <4> QED  BY <2>1, <2>3, <3>1, <3>2, <3>3, <4>1
    <3>4. CASE q[2] # e
      BY <1>4, <2>1, <2>3, <3>1, <3>4
    <3> QED  BY <3>3, <3>4
  <2> QED  BY <2>4, <2>5
<1>7. UncountedBlank'
  BY <1>1, <1>2, <1>4 DEF Inv, UncountedBlank, Slot
<1>8. CopyInBounds'
  <2>1. CASE step = LastStep
    BY <1>1, <2>1 DEF CopyInBounds
  <2>2. CASE step # LastStep
    BY <1>1, <1>2, <1>3, <1>4, <2>2 DEF Inv, CopyInBounds
  <2> QED  BY <2>1, <2>2
<1>9. AbsentHoldsNothing'
  BY <1>1, <1>2, <1>3, Owners DEF Inv, AbsentHoldsNothing, Exists
<1>10. CountsWithinCapacity'
  BY <1>1, <1>2, CountedSlots DEF Inv, CountsWithinCapacity
<1> QED  BY <1>3, <1>5, <1>6, <1>7, <1>8, <1>9, <1>10 DEF Inv

LEMMA FailureCodes ==
  ASSUME NEW q PROVE Failures(q) \subseteq {"OOM", "OVERFLOW", "INVALID_ARGUMENT"}
<1>1. CASE q[1] = "headers"
  BY <1>1, Owners DEF Failures, BufferOwner
<1>2. CASE q[1] # "headers" /\ q \in BufferOwner /\ Source(q).len = 0
  BY <1>2 DEF Failures
<1>3. CASE q[1] # "headers" /\ ~(q \in BufferOwner /\ Source(q).len = 0)
  BY <1>3 DEF Failures
<1> QED  BY <1>1, <1>2, <1>3

LEMMA FailedFillKeeps == ASSUME Inv, FillFails PROVE Inv'
<1> DEFINE e == count + 1
           D == OwnedBy(e)
           S == {o \in SlotOwner : o[2] = e}
<1>1. /\ step # 0 /\ Discard(D, S)
      /\ slot' = [slot EXCEPT ![e] = ZeroSlot]
      /\ copying' = NoExpectation /\ step' = 0
      /\ UNCHANGED <<count, arrayCapacity, next, http, submitted>>
      /\ \E code \in Failures(Field(e, step)) : status' = code
  BY DEF FillFails, Return
<1>2. e \in Slot /\ count \in Nat /\ Ownership /\ slot \in [Slot -> PlainFields]
      /\ slot[e].headerCount \in Nat
  BY <1>1, CountedSlots DEF Inv, Ownership
<1>3. S \subseteq Owner /\ D \subseteq S /\ Array \notin S
  BY <1>2, Owners, OwnedBySlot
<1>4. \A o \in S : ptr[o] # NoBlock => o \in D
  BY <1>2, OwnedBySlot DEF Inv, HeldIsCounted
<1>5. /\ slot' \in [Slot -> PlainFields]
      /\ \A d \in Slot : d # e => slot'[d] = slot[d]
      /\ slot'[e] = ZeroSlot
  BY <1>1, <1>2, SizeAssumption DEF ZeroSlot, PlainFields, Size
<1>6. \A q \in Owner : q \notin S /\ q[1] = "headers" =>
         slot'[q[2]].headerCount = slot[q[2]].headerCount
  <2> SUFFICES ASSUME NEW q \in Owner, q \notin S, q[1] = "headers"
               PROVE  slot'[q[2]].headerCount = slot[q[2]].headerCount
    OBVIOUS
  <2>1. q \in SlotOwner
    BY Owners DEF Self, Array, Response
  <2> QED  BY <2>1, <1>5, SlotOwners
<1>7. Self \notin S /\ \A o : o \in S <=> o \in SlotOwner /\ o[2] = e
  BY Owners
<1> HIDE DEF D, S
<1>8. /\ Ownership' /\ ptr' \in Pointers(Owner) /\ text' \in [Owner -> Text]
      /\ \A o \in S : ptr'[o] = NoBlock
      /\ \A o \in Owner : o \notin S => ptr'[o] = ptr[o] /\ text'[o] = text[o]
  BY <1>1, <1>2, <1>3, <1>4, <1>5, <1>6, DiscardKeeps
<1>9. TypeOK'
  <2>1. LastStep' = 3
    BY <1>1 DEF LastStep, NoExpectation
  <2>2. \A d \in Slot : slot'[d].headerCount \in Size /\ slot'[d].http \in Nat
    BY <1>5 DEF PlainFields
  <2>3. /\ IsHeap(heap') /\ ptr' \in [Owner -> Block \cup {NoBlock}]
        /\ text' \in [Owner -> Text] /\ bytes' \in [BufferOwner -> Size]
    BY <1>8 DEF Ownership, Pointers, IsHeap
  <2>4. status' \in {"OK", "OOM", "OVERFLOW", "INVALID_ARGUMENT", "MISMATCH"}
    BY <1>1, FailureCodes
  <2>5. /\ count' \in Size /\ next' \in Size /\ http' \in Nat /\ arrayCapacity' \in Size
        /\ submitted' \in Submission \cup {NoSubmission}
    BY <1>1 DEF Inv, TypeOK
  <2> QED  BY <1>1, <2>1, <2>2, <2>3, <2>4, <2>5 DEF TypeOK
<1>10. HeldIsCounted'
  <2> SUFFICES ASSUME NEW q \in SlotOwner, ptr'[q] # NoBlock
               PROVE  q[2] <= count /\ q[3] <= slot'[q[2]].headerCount
    BY <1>1 DEF HeldIsCounted
  <2>1. q \in Owner /\ q \notin S /\ ptr[q] # NoBlock /\ q[2] \in Slot
    BY <1>7, <1>8, SlotOwners
  <2>2. q[2] # e
    BY <2>1, <1>7
  <2> QED  BY <1>5, <2>1, <2>2 DEF Inv, HeldIsCounted
<1>11. UncountedBlank'
  BY <1>1, <1>5 DEF Inv, UncountedBlank
<1>12. CopyInBounds'
  BY <1>1 DEF CopyInBounds
<1>13. AbsentHoldsNothing'
  BY <1>1, <1>7, <1>8, Owners DEF Inv, AbsentHoldsNothing, Exists
<1>14. CountsWithinCapacity'
  BY <1>1 DEF Inv, CountsWithinCapacity
<1> QED  BY <1>8, <1>9, <1>10, <1>11, <1>12, <1>13, <1>14 DEF Inv

\* A call that changes nothing but the caller's response and how many
\* expectations are consumed.
LEMMA ResponseKeeps ==
  ASSUME Inv, step = 0, UNCHANGED <<slot, count, arrayCapacity, copying, step>>,
         Ownership', ptr' \in Pointers(Owner),
         \A q \in Owner : q # Response => ptr'[q] = ptr[q],
         http' \in Nat, next' \in Nat, next' <= count,
         submitted' \in Submission \cup {NoSubmission},
         status' \in {"OK", "OOM", "OVERFLOW", "INVALID_ARGUMENT", "MISMATCH"}
  PROVE  Inv'
<1>1. TypeOK'
  <2>1. LastStep' = LastStep
    BY DEF LastStep
  <2>2. next' \in Size
    BY CountedSlots, SizeAssumption DEF Inv, TypeOK, Size
  <2>3. /\ IsHeap(heap') /\ ptr' \in [Owner -> Block \cup {NoBlock}]
        /\ text' \in [Owner -> Text] /\ bytes' \in [BufferOwner -> Size]
    BY DEF Ownership, Pointers, IsHeap
  <2> QED  BY <2>1, <2>2, <2>3 DEF Inv, TypeOK
<1>2. HeldIsCounted' /\ AbsentHoldsNothing'
  BY Owners DEF Inv, HeldIsCounted, AbsentHoldsNothing, Exists
<1>3. UncountedBlank' /\ CopyInBounds'
  BY DEF Inv, UncountedBlank, CopyInBounds
<1>4. CountsWithinCapacity'
  BY DEF Inv, CountsWithinCapacity
<1> QED  BY <1>1, <1>2, <1>3, <1>4 DEF Inv

\* The response is reset.
LEMMA ResetKeeps ==
  ASSUME Ownership, Discard({Response}, {Response}), UNCHANGED <<slot, arrayCapacity>>
  PROVE  /\ Ownership' /\ ptr' \in Pointers(Owner) /\ text'[Response] = EmptyText
         /\ \A q \in Owner : q # Response => ptr'[q] = ptr[q] /\ text'[q] = text[q]
<1> DEFINE S == {Response}
<1>1. /\ S \subseteq Owner /\ S \subseteq S /\ \A q \in S : ptr[q] # NoBlock => q \in S
      /\ Array \notin S => arrayCapacity' = arrayCapacity
      /\ slot' \in [Slot -> PlainFields]
      /\ \A q \in Owner : q \notin S /\ q[1] = "headers" =>
            slot'[q[2]].headerCount = slot[q[2]].headerCount
      /\ Discard(S, S)
  BY Owners DEF Ownership
<1>2. Response \in S /\ \A q : q \notin S <=> q # Response
  OBVIOUS
<1> HIDE DEF S
<1> QED  BY <1>1, <1>2, DiscardKeeps

LEMMA ResetResponseKeeps == ASSUME Inv, ResetResponse PROVE Inv'
<1>1. /\ step = 0 /\ Discard({Response}, {Response}) /\ http' = 0
      /\ UNCHANGED <<slot, count, arrayCapacity, next, submitted, status, copying, step>>
  BY DEF ResetResponse, transport
<1>2. next \in Nat /\ next <= count /\ Ownership
  BY CountedSlots DEF Inv, CountsWithinCapacity
<1> QED  BY <1>1, <1>2, ResetKeeps, ResponseKeeps DEF Inv, TypeOK

LEMMA SendKeeps == ASSUME Inv, Send PROVE Inv'
<1>1. step = 0 /\ UNCHANGED <<slot, count, arrayCapacity, copying, step>>
  BY DEF Send
<1>2. /\ next \in Nat /\ count \in Nat /\ next <= count /\ Ownership
      /\ text \in [Owner -> Text] /\ slot \in [Slot -> PlainFields]
  BY CountedSlots DEF Inv, CountsWithinCapacity, Ownership
<1>3. CASE status' = "INVALID_ARGUMENT" /\ UNCHANGED <<memory, next, http, submitted>>
  BY <1>1, <1>3, UntouchedKeeps DEF Inv, TypeOK, transport
<1>4. CASE /\ submitted' \in Submission /\ http' \in Nat
           /\ \E code \in {"MISMATCH", "OOM"} : Reject(code)
  <2>1. Discard({Response}, {Response}) /\ next' = next /\ status' \in {"MISMATCH", "OOM"}
    BY <1>4 DEF Reject, Return
  <2> QED  BY <1>1, <1>2, <1>4, <2>1, ResetKeeps, ResponseKeeps
<1>5. CASE /\ submitted' \in Submission /\ next < count /\ http' = slot[next + 1].http
           /\ CopyBuffer(Response, text[Answer(next + 1)])
           /\ next' = next + 1 /\ status' = "OK"
  <2>1. next + 1 \in Slot
    BY <1>2, <1>5, CountedSlots
  <2>2. Answer(next + 1) \in Owner
    BY <2>1, SlotFields, Owners
  <2>3. text[Answer(next + 1)] \in Text /\ http' \in Nat /\ Response \in BufferOwner
    BY <1>2, <1>5, <2>1, <2>2, Owners DEF PlainFields
  <2>4. next' \in Nat /\ next' <= count
    BY <1>2, <1>5
  <2> QED  BY <1>1, <1>2, <1>5, <2>3, <2>4, CopyBufferKeeps, ResponseKeeps
<1>6. \/ status' = "INVALID_ARGUMENT" /\ UNCHANGED <<memory, next, http, submitted>>
      \/ submitted' \in Submission /\ http' = 0 /\ Reject("MISMATCH")
      \/ /\ submitted' \in Submission /\ next < count /\ http' = slot[next + 1].http
         /\ \/ /\ CopyBuffer(Response, text[Answer(next + 1)])
               /\ next' = next + 1 /\ status' = "OK"
            \/ Reject("OOM")
  BY DEF Send, Return
<1>7. ASSUME next < count, http' = slot[next + 1].http PROVE http' \in Nat
  <2>1. next + 1 \in Slot
    BY <1>2, <1>7, CountedSlots
  <2> QED  BY <1>2, <1>7, <2>1 DEF PlainFields
<1> QED  BY <1>3, <1>4, <1>5, <1>6, <1>7

LEMMA VerifyKeeps == ASSUME Inv, Verify PROVE Inv'
<1>1. UNCHANGED <<memory, transport, http, submitted, copying, step>>
      /\ status' \in {"INVALID_ARGUMENT", "MISMATCH", "OK"}
  BY DEF Verify, Return
<1> QED  BY <1>1, UntouchedKeeps DEF Inv, TypeOK

-----------------------------------------------------------------------------
\* Every step of the test transport keeps the invariant.
THEOREM InvNext == Inv /\ [Next]_vars => Inv'
<1> SUFFICES ASSUME Inv, [Next]_vars PROVE Inv'
  OBVIOUS
<1>1. CASE Create         BY <1>1, CreateKeeps
<1>2. CASE Destroy        BY <1>2, DestroyKeeps
<1>3. CASE Expect         BY <1>3, ExpectKeeps
<1>4. CASE Fill           BY <1>4, FillKeeps
<1>5. CASE FillFails      BY <1>5, FailedFillKeeps
<1>6. CASE Send           BY <1>6, SendKeeps
<1>7. CASE ResetResponse  BY <1>7, ResetResponseKeeps
<1>8. CASE Verify         BY <1>8, VerifyKeeps
<1>9. CASE UNCHANGED vars
  BY <1>9, UntouchedKeeps DEF vars, Inv, TypeOK
<1> QED
  BY <1>1, <1>2, <1>3, <1>4, <1>5, <1>6, <1>7, <1>8, <1>9 DEF Next

LEMMA InvAlways == Spec => []Inv
  BY InvInit, InvNext, PTL DEF Spec

\* Every reachable state of the transport is well typed.
THEOREM TypeCorrect == Spec => []TypeOK
<1>1. Inv => TypeOK
  BY DEF Inv
<1> QED  BY <1>1, InvAlways, PTL

\* At every allocator call of every operation, whichever copy of an expect
\* failed and however often it was retried: the allocated blocks are exactly
\* those the fields hold, once each, with the size that will be freed.
THEOREM ExactOwnership == Spec => []OwnershipExact
<1>1. Inv => OwnershipExact
  BY InvImplies
<1> QED  BY <1>1, InvAlways, PTL

\* What the counts cover lies inside the array, and nothing that destroy must
\* free or the next expect needs zeroed lies outside of what they cover.
THEOREM EverySlotAccounted == Spec => []SlotsAccounted
<1>1. Inv => SlotsAccounted
  BY InvImplies
<1> QED  BY <1>1, InvAlways, PTL

-----------------------------------------------------------------------------
(***************************************************************************)
(* The refinement of ExpectationQueue.  The copies of a running expect are *)
(* stutters, the last one is the step at which the expectation appears: it *)
(* appears as it was passed, because every field filled before it still    *)
(* holds what was copied into it.                                          *)
(***************************************************************************)
CopyFaithful ==
  /\ \A e \in Slot : slot[e].headerCount * HeaderSize <= SizeMax
  /\ step # 0 =>
       /\ copying \in Expectation
       /\ slot[count + 1].method = copying.method
       /\ slot[count + 1].http = copying.http
       /\ \A n \in 1..(step - 1) :
            n # 4 => text[Field(count + 1, n)] = Source(Field(count + 1, n))

LEMMA CopyFaithfulInit == Init => CopyFaithful
<1> SUFFICES ASSUME Init PROVE CopyFaithful
  OBVIOUS
<1>1. \A e \in Slot : slot[e].headerCount = 0
  BY DEF Init, ZeroSlot
<1> QED  BY <1>1, LayoutAssumption, SizeAssumption DEF Init, CopyFaithful

\* After the copy into the next field, all fields up to it hold their sources.
LEMMA FilledSoFar ==
  ASSUME Inv, CopyFaithful, step # 0, NEW o, o = Field(count + 1, step),
         FillBuffer(o) \/ FillString(o) \/ FillHeaders(o), UNCHANGED arrayCapacity,
         NEW n \in 1..step, n # 4
  PROVE  text'[Field(count + 1, n)] = Source(Field(count + 1, n))
<1> DEFINE q == Field(count + 1, n)
<1>1. /\ \A p \in Owner : p # o => text'[p] = text[p]
      /\ step # 4 => text'[o] = Source(o)
      /\ step = 4 => text' = text
  BY FieldFilled
<1>2. q \in Owner /\ q[1] # "headers" /\ step \in Nat /\ (step = 4 => o[1] = "headers")
  <2>1. step \in Nat /\ step \in 1..step
    BY CountedSlots
  <2> QED  BY <2>1, FieldOf, Owners
<1>3. CASE q = o
  BY <1>1, <1>2, <1>3
<1>4. CASE q # o
  <2>1. n \in 1..(step - 1)
    BY <1>2, <1>4
  <2>2. text[q] = Source(q)
    BY <2>1 DEF CopyFaithful
  <2> QED  BY <1>1, <1>2, <1>4, <2>2
<1> QED  BY <1>3, <1>4

LEMMA CopyFaithfulNext == Inv /\ CopyFaithful /\ [Next]_vars => CopyFaithful'
<1> SUFFICES ASSUME Inv, CopyFaithful, [Next]_vars PROVE CopyFaithful'
  OBVIOUS
<1>1. CASE UNCHANGED <<slot, count, text, copying, step>>
  BY <1>1 DEF CopyFaithful, Field, Source
<1>2. CASE step = 0 /\ UNCHANGED <<slot, step>>
  BY <1>2 DEF CopyFaithful
<1>3. CASE Destroy
  <2>1. step' = 0 /\ \A e \in Slot : slot'[e].headerCount = 0
    BY <1>3 DEF Destroy, ZeroSlot
  <2> QED  BY <2>1, LayoutAssumption, SizeAssumption DEF CopyFaithful
<1>4. ASSUME NEW x \in Expectation, step = 0, BeginCopy(x), count' = count, Inv'
      PROVE  CopyFaithful'
  <2>1. /\ slot' = [slot EXCEPT ![count + 1] =
                     [method |-> x.method, http |-> x.http,
                      headerCount |-> slot[count + 1].headerCount]]
        /\ copying' = x /\ step' = 1
    BY <1>4 DEF BeginCopy
  <2>2. slot \in [Slot -> PlainFields] /\ count + 1 \in Slot
    <3>1. step' # 0 => count' + 1 \in Slot
      <4>1. count' + 1 \in 1..arrayCapacity' /\ arrayCapacity' \in Nat
            /\ arrayCapacity' * ExpectationSize <= SizeMax
        BY <1>4, <2>1, SizeAssumption DEF Inv, TypeOK, CountsWithinCapacity, Size
      <4> QED  BY <4>1, IndexIsSlot
    <3> QED  BY <1>4, <2>1, <3>1 DEF Inv, Ownership
  <2>3. \A e \in Slot : slot'[e].headerCount \in {0, slot[e].headerCount}
    BY <2>1, <2>2
  <2>4. \A e \in Slot : slot'[e].headerCount * HeaderSize <= SizeMax
    BY <2>3, LayoutAssumption, SizeAssumption DEF CopyFaithful
  <2>5. slot'[count + 1].method = x.method /\ slot'[count + 1].http = x.http
    BY <2>1, <2>2
  <2>6. \A n \in 1..(step' - 1) : FALSE
    BY <2>1
  <2> QED  BY <1>4, <2>1, <2>4, <2>5, <2>6 DEF CopyFaithful
<1>5. CASE Fill
  <2> DEFINE o == Field(count + 1, step)
             e == count + 1
  <2>1. /\ step # 0
        /\ FillBuffer(o) \/ FillString(o) \/ FillHeaders(o)
        /\ \/ step = LastStep /\ step' = 0
           \/ step # LastStep /\ step' = step + 1 /\ UNCHANGED <<count, copying>>
        /\ arrayCapacity' = arrayCapacity
    BY <1>5 DEF Fill
  <2>2. /\ e \in Slot /\ step \in Nat \ {0} /\ slot \in [Slot -> PlainFields]
        /\ o \in Owner
    BY <2>1, CountedSlots, FieldOf, Owners DEF Inv, Ownership
  <2> HIDE DEF o
  <2>3. /\ \A q \in Owner : q # o => text'[q] = text[q]
        /\ step # 4 => slot' = slot /\ text'[o] = Source(o)
        /\ step = 4 => /\ slot' = [slot EXCEPT ![e].headerCount = Len(copying.headers)]
                       /\ Len(copying.headers) * HeaderSize <= SizeMax
                       /\ text' = text
    BY <2>1, FieldFilled DEF o
  <2>4. /\ \A d \in Slot : slot'[d].headerCount * HeaderSize <= SizeMax
        /\ slot'[e].method = slot[e].method /\ slot'[e].http = slot[e].http
    <3>1. CASE step = 4
      BY <2>2, <2>3, <3>1 DEF CopyFaithful, PlainFields
    <3>2. CASE step # 4
      BY <2>3, <3>2 DEF CopyFaithful
    <3> QED  BY <3>1, <3>2
  <2>5. CASE step' = 0
    BY <2>4, <2>5 DEF CopyFaithful
  <2>6. CASE step' # 0
    <3>1. step' = step + 1 /\ count' = count /\ copying' = copying
      BY <2>1, <2>6
    <3>2. ASSUME NEW n \in 1..step, n # 4
          PROVE  text'[Field(e, n)] = Source(Field(e, n))
      BY <2>1, <3>2, FilledSoFar DEF o
    <3>3. \A q : Source(q)' = Source(q)
      BY <3>1 DEF Source
    <3>4. \A n : Field(count + 1, n)' = Field(count + 1, n)
      BY <3>1 DEF Field
    <3>5. \A n \in 1..(step' - 1) :
            n # 4 => text'[Field(count + 1, n)'] = Source(Field(count + 1, n))'
      BY <2>2, <3>1, <3>2, <3>3, <3>4
    <3> QED  BY <2>1, <2>4, <3>1, <3>5 DEF CopyFaithful
  <2> QED  BY <2>5, <2>6
<1>6. CASE FillFails
  <2>1. slot' = [slot EXCEPT ![count + 1] = ZeroSlot] /\ step' = 0
    BY <1>6 DEF FillFails
  <2>2. slot \in [Slot -> PlainFields]
    BY DEF Inv, Ownership
  <2>3. \A e \in Slot : slot'[e].headerCount \in {0, slot[e].headerCount}
    BY <2>1, <2>2 DEF ZeroSlot
  <2>4. \A e \in Slot : slot'[e].headerCount * HeaderSize <= SizeMax
    BY <2>3, LayoutAssumption, SizeAssumption DEF CopyFaithful
  <2> QED  BY <2>1, <2>4 DEF CopyFaithful
<1>7. CASE Expect
  <2>1. step = 0 /\ count' = count /\ Inv'
    BY <1>7, InvNext DEF Expect
  <2>2. \/ \E code : RefuseExpect(code)
        \/ \E x \in Expectation : BeginCopy(x)
    BY <1>7 DEF Expect
  <2>3. CASE \E code : RefuseExpect(code)
    BY <1>2, <2>1, <2>3 DEF RefuseExpect
  <2> QED  BY <1>4, <2>1, <2>2, <2>3
<1>8. CASE Create \/ Send \/ ResetResponse \/ Verify \/ UNCHANGED vars
  BY <1>1, <1>2, <1>8 DEF Create, Send, ResetResponse, Verify, vars, memory, transport
<1> QED  BY <1>3, <1>5, <1>6, <1>7, <1>8 DEF Next

LEMMA CopyFaithfulAlways == Spec => []CopyFaithful
  BY InvAlways, CopyFaithfulInit, CopyFaithfulNext, PTL DEF Spec

-----------------------------------------------------------------------------
\* The expectation in slot e as Queue shows it.
Shown(e) ==
  [method |-> slot[e].method, url |-> text[Url(e)],
   body |-> text[Body(e)], headers |-> ShownHeaders(e),
   http |-> slot[e].http, answer |-> text[Answer(e)]]

ShownQueue == [e \in 1..count |-> Shown(e)]

\* The header fields of a slot are fields of the transport.
LEMMA ShownFields ==
  ASSUME Inv, CopyFaithful, NEW e \in Slot
  PROVE  /\ slot[e].headerCount \in Nat
         /\ \A i \in 1..slot[e].headerCount :
              /\ NameOf(e, i) \in SlotOwner /\ NameOf(e, i)[2] = e
              /\ ValueOf(e, i) \in SlotOwner /\ ValueOf(e, i)[2] = e
         /\ Url(e) \in SlotOwner /\ Url(e)[2] = e
         /\ Body(e) \in SlotOwner /\ Body(e)[2] = e
         /\ Answer(e) \in SlotOwner /\ Answer(e)[2] = e
<1>1. slot[e].headerCount \in Nat /\ slot[e].headerCount * HeaderSize <= SizeMax
  BY CountedSlots DEF CopyFaithful
<1>2. \A i \in 1..slot[e].headerCount : i \in HeaderSlot
  BY <1>1, IndexIsHeaderSlot
<1> QED  BY <1>1, <1>2, SlotFields

\* A slot none of whose fields changed shows what it showed.
LEMMA ShownKept ==
  ASSUME Inv, CopyFaithful, NEW e \in Slot, slot'[e] = slot[e],
         \A q \in SlotOwner : q[2] = e => text'[q] = text[q]
  PROVE  Shown(e)' = Shown(e)
<1>1. ShownHeaders(e)' = ShownHeaders(e)
  BY ShownFields DEF ShownHeaders
<1>2. /\ text'[Url(e)] = text[Url(e)] /\ text'[Body(e)] = text[Body(e)]
      /\ text'[Answer(e)] = text[Answer(e)]
  BY ShownFields
<1> QED  BY <1>1, <1>2 DEF Shown

\* So does the queue.
LEMMA QueueKept ==
  ASSUME Inv, CopyFaithful, count' = count,
         \A e \in 1..count :
            /\ slot'[e] = slot[e]
            /\ \A q \in SlotOwner : q[2] = e => text'[q] = text[q]
  PROVE  ShownQueue' = ShownQueue
<1>1. \A e \in 1..count : Shown(e)' = Shown(e)
  BY CountedSlots, ShownKept
<1> QED  BY <1>1 DEF ShownQueue

LEMMA QueueLength == ASSUME count \in Nat PROVE Len(ShownQueue) = count
  BY DEF ShownQueue

LEMMA Extended ==
  ASSUME NEW S, NEW n \in Nat, NEW f \in [1..n -> S], NEW g \in [1..(n + 1) -> S],
         \A i \in 1..n : g[i] = f[i]
  PROVE  g = Append(f, g[n + 1])
  OBVIOUS

\* The header strings are filled at two steps each.
LEMMA HeaderSteps ==
  ASSUME NEW e, NEW i \in Nat \ {0}
  PROVE  Field(e, 3 + 2 * i) = NameOf(e, i) /\ Field(e, 4 + 2 * i) = ValueOf(e, i)
<1>1. /\ (3 + 2 * i) % 2 = 1 /\ (4 + 2 * i) % 2 # 1
      /\ ((3 + 2 * i) - 3) \div 2 = i /\ ((4 + 2 * i) - 4) \div 2 = i
      /\ 3 + 2 * i > 4 /\ 4 + 2 * i > 4
  OBVIOUS
<1>2. Field(e, 3 + 2 * i) = NameOf(e, i)
  BY <1>1 DEF Field
<1>3. Field(e, 4 + 2 * i) = ValueOf(e, i)
  BY <1>1 DEF Field
<1> QED  BY <1>2, <1>3

\* The last copy makes the expectation appear as it was passed.
LEMMA CopyComplete ==
  ASSUME Inv, CopyFaithful, step # 0, step = LastStep,
         NEW e, e = count + 1, NEW o, o = Field(e, step),
         FillBuffer(o) \/ FillString(o) \/ FillHeaders(o), UNCHANGED arrayCapacity
  PROVE  /\ Shown(e)' = copying
         /\ slot' = slot
         /\ \A q \in Owner : q # o => text'[q] = text[q]
<1> DEFINE hs == copying.headers
           H  == [name : Text, value : Text]
<1>1. /\ e \in Slot /\ step \in Nat /\ step > 0 /\ count \in Nat
      /\ hs \in Seq(H) /\ Len(hs) \in Nat
      /\ LastStep \in {3, 4 + 2 * Len(hs)}
      /\ LastStep # 3 => Len(hs) > 0
  BY CountedSlots, Copying
<1>2. step # 4 /\ 3 <= step
  BY <1>1
<1>3. slot' = slot /\ \A q \in Owner : q # o => text'[q] = text[q]
  BY <1>2, FieldFilled
<1>4. \A n \in 1..step : n # 4 => text'[Field(e, n)] = Source(Field(e, n))
  BY FilledSoFar
<1>5. /\ copying \in Expectation
      /\ slot[e].method = copying.method /\ slot[e].http = copying.http
  BY DEF CopyFaithful
<1>6. /\ text'[Url(e)] = copying.url
      /\ text'[Body(e)] = copying.body
      /\ text'[Answer(e)] = copying.answer
  <2>1. /\ Field(e, 1) = Url(e) /\ Field(e, 2) = Body(e) /\ Field(e, 3) = Answer(e)
    BY DEF Field
  <2>2. /\ text'[Url(e)] = Source(Url(e)) /\ text'[Body(e)] = Source(Body(e))
        /\ text'[Answer(e)] = Source(Answer(e))
    BY <1>1, <1>2, <1>4, <2>1
  <2>3. /\ Source(Url(e)) = copying.url /\ Source(Body(e)) = copying.body
        /\ Source(Answer(e)) = copying.answer
    BY DEF Source, Url, Body, Answer
  <2> QED  BY <2>2, <2>3
<1>7. slot[e].headerCount = Len(hs)
  <2>1. CASE step = 3
    <3>1. Len(hs) = 0
      <4>1. LastStep = 3
        BY <2>1
      <4>2. hs = << >>
        BY <1>1, <4>1 DEF LastStep
      <4> QED  BY <4>2
    <3>2. slot[e].headerCount = 0
      BY <2>1 DEF Inv, CopyInBounds
    <3> QED  BY <3>1, <3>2
  <2>2. CASE step # 3
    BY <1>1, <1>2, <2>2 DEF Inv, CopyInBounds
  <2> QED  BY <2>1, <2>2
<1>8. ASSUME NEW i \in 1..Len(hs)
      PROVE  [name |-> text'[NameOf(e, i)], value |-> text'[ValueOf(e, i)]] = hs[i]
  <2>0. step = 4 + 2 * Len(hs)
    <3>1. hs # << >>
      BY <1>1, <1>8
    <3> QED  BY <1>1, <3>1 DEF LastStep
  <2>1. /\ 3 + 2 * i \in 1..step /\ 3 + 2 * i # 4
        /\ 4 + 2 * i \in 1..step /\ 4 + 2 * i # 4 /\ i \in Nat \ {0}
    BY <1>1, <1>8, <2>0
  <2>2. Field(e, 3 + 2 * i) = NameOf(e, i) /\ Field(e, 4 + 2 * i) = ValueOf(e, i)
    BY <2>1, HeaderSteps
  <2>3. /\ text'[NameOf(e, i)] = Source(NameOf(e, i))
        /\ text'[ValueOf(e, i)] = Source(ValueOf(e, i))
    BY <1>4, <2>1, <2>2
  <2>4. Source(NameOf(e, i)) = hs[i].name /\ Source(ValueOf(e, i)) = hs[i].value
    BY DEF Source, NameOf, ValueOf
  <2>5. hs[i] \in H
    BY <1>1, Element
  <2> QED  BY <2>3, <2>4, <2>5
<1>9. ShownHeaders(e)' = hs
  <2>1. ShownHeaders(e)' =
          [i \in 1..Len(hs) |->
             [name |-> text'[NameOf(e, i)], value |-> text'[ValueOf(e, i)]]]
    BY <1>3, <1>7 DEF ShownHeaders
  <2>2. ShownHeaders(e)' = [i \in 1..Len(hs) |-> hs[i]]
    BY <1>8, <2>1
  <2>3. hs = [i \in 1..Len(hs) |-> hs[i]]
    BY <1>1
  <2> QED  BY <2>2, <2>3
<1>10. copying = [method |-> copying.method, url |-> copying.url, body |-> copying.body,
                  headers |-> hs, http |-> copying.http, answer |-> copying.answer]
  <2>1. copying \in [method : {copying.method}, url : Text, body : Text,
                     headers : Seq(H), http : Nat, answer : Text]
    BY <1>5, ArgumentAssumption
  <2> HIDE DEF H
  <2> QED  BY <2>1
<1>11. Shown(e)' = [method |-> copying.method, url |-> copying.url, body |-> copying.body,
                    headers |-> hs, http |-> copying.http, answer |-> copying.answer]
  <2>1. Shown(e)' = [method |-> slot'[e].method, url |-> text'[Url(e)],
                     body |-> text'[Body(e)], headers |-> ShownHeaders(e)',
                     http |-> slot'[e].http, answer |-> text'[Answer(e)]]
    BY DEF Shown
  <2> QED  BY <1>3, <1>5, <1>6, <1>9, <2>1
<1> QED  BY <1>3, <1>10, <1>11

\* A step that keeps what is shown of the transport and of the response.
LEMMA SameShown ==
  ASSUME UNCHANGED <<next, http, submitted, status>>, Exists' = Exists,
         ShownQueue' = ShownQueue, text'[Response] = text[Response]
  PROVE  UNCHANGED Queue!vars
  BY DEF Queue!vars, ShownQueue, Shown

\* A failed call without an effect that a test can see.
LEMMA RefusedStep ==
  ASSUME UNCHANGED <<next, http, submitted>>, Exists' = Exists,
         status' \in {"OOM", "OVERFLOW", "INVALID_ARGUMENT"},
         ShownQueue' = ShownQueue, text'[Response] = text[Response]
  PROVE  Queue!Refused
  BY DEF Queue!Refused, ShownQueue, Shown

\* A step that shows one more expectation.
LEMMA ExpectedStep ==
  ASSUME NEW x \in Expectation, UNCHANGED <<next, http, submitted>>, Exists, Exists',
         status' = "OK", ShownQueue' = Append(ShownQueue, x),
         text'[Response] = text[Response]
  PROVE  Queue!Expected
<1>1. \E d \in Expectation : ShownQueue' = Append(ShownQueue, d)
  OBVIOUS
<1> QED  BY <1>1 DEF Queue!Expected, ShownQueue, Shown, Exists

LEMMA CreateRefines ==
  ASSUME Inv, Inv', CopyFaithful, Create PROVE Queue!Next
<1>1. /\ ~Exists /\ UNCHANGED <<text, slot, count, next, http, submitted>>
      /\ \/ Allocate(Self, TransportSize) /\ status' = "OK"
         \/ ptr' = ptr /\ status' = "OOM"
  BY DEF Create, transport, Return
<1>2. ShownQueue' = ShownQueue
  BY <1>1, QueueKept
<1>3. CASE Allocate(Self, TransportSize) /\ status' = "OK"
  <2>1. PICK b \in Candidates(Release(heap, {ptr[Self]})) : ptr' = [ptr EXCEPT ![Self] = b]
    BY <1>3 DEF Allocate
  <2>2. b \in Block /\ ptr \in [Owner -> Block \cup {NoBlock}] /\ Self \in Owner
    BY CandidateIsFree, Owners DEF Inv, TypeOK
  <2>3. Exists'
    BY <2>1, <2>2, BlockAssumption DEF Exists
  <2>4. Queue!Created
    BY <1>1, <1>2, <1>3, <2>3 DEF Queue!Created, Exists, ShownQueue, Shown
  <2> QED  BY <2>4 DEF Queue!Next
<1>4. CASE ptr' = ptr /\ status' = "OOM"
  <2>1. Exists' = Exists
    BY <1>4 DEF Exists
  <2> QED  BY <1>1, <1>2, <1>4, <2>1, RefusedStep DEF Queue!Next
<1> QED  BY <1>1, <1>3, <1>4

LEMMA DestroyRefines ==
  ASSUME Inv, Inv', CopyFaithful, Destroy PROVE Queue!Next
<1>1. /\ Exists /\ count' = 0 /\ next' = 0 /\ UNCHANGED <<http, submitted, status>>
      /\ ptr' = [o \in Owner |-> IF o \in Owner \ {Response} THEN NoBlock ELSE ptr[o]]
      /\ text' = [o \in Owner |-> IF o \in Owner \ {Response} THEN EmptyText ELSE text[o]]
  BY DEF Destroy, Discard
<1>2. ~Exists' /\ text'[Response] = text[Response]
  BY <1>1, Owners DEF Exists
<1>3. ShownQueue' = << >>
  BY <1>1 DEF ShownQueue
<1>4. Queue!Destroyed
  BY <1>1, <1>2, <1>3 DEF Queue!Destroyed, Exists, ShownQueue, Shown
<1> QED  BY <1>4 DEF Queue!Next

LEMMA ExpectRefines ==
  ASSUME Inv, Inv', CopyFaithful, Expect PROVE Queue!Next \/ UNCHANGED Queue!vars
<1>1. step = 0 /\ UNCHANGED <<text, count, next, http, submitted>>
  BY DEF Expect
<1>2. CASE \E code \in {"OOM", "OVERFLOW", "INVALID_ARGUMENT"} : RefuseExpect(code)
  <2>1. /\ status' \in {"OOM", "OVERFLOW", "INVALID_ARGUMENT"}
        /\ ptr' = ptr /\ slot' = slot
    BY <1>2 DEF RefuseExpect, Return
  <2>2. ShownQueue' = ShownQueue /\ Exists' = Exists
    BY <1>1, <2>1, QueueKept DEF Exists
  <2> QED  BY <1>1, <2>1, <2>2, RefusedStep DEF Queue!Next
<1>3. CASE ~\E code \in {"OOM", "OVERFLOW", "INVALID_ARGUMENT"} : RefuseExpect(code)
  <2>1. PICK x \in Expectation : Exists /\ BeginCopy(x)
    BY <1>3 DEF Expect
  <2>2. /\ slot' = [slot EXCEPT ![count + 1] =
                     [method |-> x.method, http |-> x.http,
                      headerCount |-> slot[count + 1].headerCount]]
        /\ step' = 1 /\ status' = status
    BY <2>1 DEF BeginCopy
  <2>3. Exists'
    BY <2>2 DEF Inv, AbsentHoldsNothing
  <2>4. \A e \in 1..count : slot'[e] = slot[e]
    <3>1. slot \in [Slot -> PlainFields] /\ count \in Nat /\ \A e \in 1..count : e \in Slot
      BY CountedSlots DEF Inv, Ownership
    <3> QED  BY <2>2, <3>1
  <2>5. ShownQueue' = ShownQueue
    BY <1>1, <2>4, QueueKept
  <2> QED  BY <1>1, <2>1, <2>2, <2>3, <2>5, SameShown
<1> QED  BY <1>2, <1>3

LEMMA FillRefines ==
  ASSUME Inv, Inv', CopyFaithful, Fill PROVE Queue!Next \/ UNCHANGED Queue!vars
<1>1. PICK e : e = count + 1
  OBVIOUS
<1>2. PICK o : o = Field(e, step)
  OBVIOUS
<1>3. /\ step # 0
      /\ FillBuffer(o) \/ FillString(o) \/ FillHeaders(o)
      /\ \/ step = LastStep /\ count' = count + 1 /\ status' = "OK"
         \/ step # LastStep /\ UNCHANGED <<count, status>>
      /\ UNCHANGED <<arrayCapacity, next, http, submitted>>
  BY <1>1, <1>2 DEF Fill, Return
<1>4. /\ e \in Slot /\ count \in Nat /\ o \in SlotOwner /\ o[2] = e /\ o # Self
      /\ o # Response /\ step \in Nat
      /\ Self \in Owner /\ Response \in Owner
      /\ \A d \in 1..count : d \in Slot
      /\ slot \in [Slot -> PlainFields]
  BY <1>1, <1>2, <1>3, CountedSlots, FieldOf, Owners DEF Inv, Ownership
<1>5. /\ \A q \in Owner : q # o => ptr'[q] = ptr[q] /\ text'[q] = text[q]
      /\ \A d \in Slot : d # e => slot'[d] = slot[d]
  <2>1. /\ \A q \in Owner : q # o => ptr'[q] = ptr[q] /\ text'[q] = text[q]
        /\ step # 4 => slot' = slot
        /\ step = 4 => slot' = [slot EXCEPT ![e].headerCount = Len(copying.headers)]
    BY <1>1, <1>2, <1>3, FieldFilled
  <2> QED  BY <1>4, <2>1
<1>6. Exists /\ Exists' /\ text'[Response] = text[Response]
  BY <1>3, <1>4, <1>5 DEF Inv, AbsentHoldsNothing, Exists
<1>7. \A d \in 1..count :
         /\ slot'[d] = slot[d]
         /\ \A q \in SlotOwner : q[2] = d => text'[q] = text[q]
  BY <1>1, <1>4, <1>5, Owners
<1>8. CASE step = LastStep /\ count' = count + 1 /\ status' = "OK"
  <2>1. Shown(e)' = copying /\ copying \in Expectation
    BY <1>1, <1>2, <1>3, <1>8, CopyComplete DEF CopyFaithful
  <2>2. \A d \in 1..count : Shown(d)' = Shown(d)
    BY <1>4, <1>7, ShownKept
  <2>3. PICK f, g, n : f = ShownQueue /\ g = ShownQueue' /\ n = count
    OBVIOUS
  <2>4. /\ f = [d \in 1..n |-> f[d]] /\ \A d \in 1..n : f[d] = Shown(d)
    BY <2>3 DEF ShownQueue
  <2>5. g = [d \in 1..(n + 1) |-> g[d]] /\ \A d \in 1..(n + 1) : g[d] = Shown(d)'
    BY <1>8, <2>3 DEF ShownQueue
  <2>6. ShownQueue' = Append(ShownQueue, copying)
    <3>1. n \in Nat /\ e = n + 1 /\ e \in 1..(n + 1)
      BY <1>1, <1>4, <2>3
    <3>2. \A d \in 1..n : g[d] = f[d]
      BY <2>2, <2>3, <2>4, <2>5, <3>1
    <3>3. g[n + 1] = copying
      BY <2>1, <2>5, <3>1
    <3>4. PICK x : x = copying
      OBVIOUS
    <3> DEFINE S == {f[d] : d \in 1..n} \cup {x}
    <3>5. f \in [1..n -> S]
      <4>1. \A d \in 1..n : f[d] \in S
        OBVIOUS
      <4> HIDE DEF S
      <4> QED  BY <2>4, <4>1
    <3>6. g \in [1..(n + 1) -> S]
      <4>1. ASSUME NEW d \in 1..(n + 1) PROVE g[d] \in S
        <5>1. d \in 1..n \/ d = n + 1
          BY <3>1
        <5> QED  BY <3>2, <3>3, <3>4, <5>1
      <4> HIDE DEF S
      <4> QED  BY <2>5, <4>1
    <3> HIDE DEF S
    <3>7. g = Append(f, g[n + 1])
      BY <3>1, <3>2, <3>5, <3>6, Extended
    <3> QED  BY <2>3, <3>3, <3>7
  <2>7. Queue!Expected
    BY <1>3, <1>6, <1>8, <2>1, <2>6, ExpectedStep
  <2> QED  BY <2>7 DEF Queue!Next
<1>9. CASE step # LastStep /\ UNCHANGED <<count, status>>
  <2>1. ShownQueue' = ShownQueue
    BY <1>7, <1>9, QueueKept
  <2> QED  BY <1>3, <1>6, <1>9, <2>1, SameShown
<1> QED  BY <1>3, <1>8, <1>9

\* A failed copy: nothing of the expectation is left to be seen.
LEMMA FailedFillRefines ==
  ASSUME Inv, Inv', CopyFaithful, FillFails PROVE Queue!Next
<1> DEFINE e == count + 1
           S == {o \in SlotOwner : o[2] = e}
<1>1. /\ step # 0 /\ Discard(OwnedBy(e), S)
      /\ slot' = [slot EXCEPT ![e] = ZeroSlot]
      /\ UNCHANGED <<count, next, http, submitted>>
      /\ \E code \in Failures(Field(e, step)) : status' = code
  BY DEF FillFails, Return
<1>2. /\ e \in Slot /\ count \in Nat /\ slot \in [Slot -> PlainFields]
      /\ \A d \in 1..count : d \in Slot /\ d # e
  BY <1>1, CountedSlots DEF Inv, Ownership
<1>3. /\ text' = [o \in Owner |-> IF o \in S THEN EmptyText ELSE text[o]]
      /\ ptr' = [o \in Owner |-> IF o \in S THEN NoBlock ELSE ptr[o]]
  BY <1>1 DEF Discard
<1>4. Self \in Owner /\ Self \notin S /\ Response \in Owner /\ Response \notin S
  BY Owners
<1>5. Exists' = Exists /\ text'[Response] = text[Response]
  BY <1>3, <1>4 DEF Exists
<1>6. \A d \in 1..count :
         /\ slot'[d] = slot[d]
         /\ \A q \in SlotOwner : q[2] = d => text'[q] = text[q]
  <2>1. \A d \in 1..count : slot'[d] = slot[d]
    BY <1>1, <1>2
  <2>2. ASSUME NEW d \in 1..count, NEW q \in SlotOwner, q[2] = d
        PROVE  text'[q] = text[q]
    <3>1. q \in Owner /\ q \notin S
      BY <1>2, <2>2, Owners
    <3> QED  BY <1>3, <3>1
  <2> QED  BY <2>1, <2>2
<1> HIDE DEF S
<1>7. ShownQueue' = ShownQueue
  BY <1>1, <1>6, QueueKept
<1>8. status' \in {"OOM", "OVERFLOW", "INVALID_ARGUMENT"}
  BY <1>1, FailureCodes
<1> QED  BY <1>1, <1>5, <1>7, <1>8, RefusedStep DEF Queue!Next

\* Only the caller's response changes.
LEMMA ResponseOnly ==
  ASSUME Inv, CopyFaithful, UNCHANGED <<slot, count>>,
         \A q \in Owner : q # Response => ptr'[q] = ptr[q] /\ text'[q] = text[q]
  PROVE  ShownQueue' = ShownQueue /\ Exists' = Exists
<1>1. Self \in Owner /\ Self # Response
      /\ \A q \in SlotOwner : q \in Owner /\ q # Response
  BY Owners
<1> QED  BY <1>1, QueueKept DEF Exists

\* What is shown of the next expectation.
LEMMA NextShown ==
  ASSUME count \in Nat, next \in Nat, next < count
  PROVE  ShownQueue[next + 1] = Shown(next + 1)
  BY DEF ShownQueue

LEMMA ResetResponseRefines ==
  ASSUME Inv, Inv', CopyFaithful, ResetResponse PROVE Queue!Next
<1>1. /\ Discard({Response}, {Response}) /\ http' = 0
      /\ UNCHANGED <<slot, count, arrayCapacity, next, submitted, status>>
  BY DEF ResetResponse, transport
<1>2. /\ text'[Response] = EmptyText
      /\ \A q \in Owner : q # Response => ptr'[q] = ptr[q] /\ text'[q] = text[q]
  BY <1>1, ResetKeeps DEF Inv
<1>3. ShownQueue' = ShownQueue /\ Exists' = Exists
  BY <1>1, <1>2, ResponseOnly
<1>4. Queue!ResponseDropped
  BY <1>1, <1>2, <1>3 DEF Queue!ResponseDropped, Exists, ShownQueue, Shown
<1> QED  BY <1>4 DEF Queue!Next

LEMMA VerifyRefines ==
  ASSUME Inv, Inv', CopyFaithful, Verify PROVE Queue!Next
<1>1. /\ UNCHANGED <<ptr, text, slot, count, next, http, submitted>>
      /\ status' = IF ~Exists THEN "INVALID_ARGUMENT"
                   ELSE IF next # count THEN "MISMATCH" ELSE "OK"
  BY DEF Verify, Return, memory, transport
<1>2. ShownQueue' = ShownQueue /\ Exists' = Exists
  BY <1>1, ResponseOnly
<1>3. Len(ShownQueue) = count
  BY CountedSlots, QueueLength DEF Inv
<1>4. CASE ~Exists
  BY <1>1, <1>2, <1>4, RefusedStep DEF Queue!Next
<1>5. CASE Exists
  <2>1. Queue!Verified
    BY <1>1, <1>2, <1>3, <1>5 DEF Queue!Verified, Exists, ShownQueue, Shown
  <2> QED  BY <2>1 DEF Queue!Next
<1> QED  BY <1>4, <1>5

\* test_send compares a request with what is shown of the expectation.
LEMMA MatchesShown ==
  ASSUME NEW e, NEW r PROVE Matches(e, r) <=> Queue!Answers(Shown(e), r)
<1>1. (\A wanted \in ToSet(ShownHeaders(e)) : wanted \in ToSet(r.headers))
        <=> Queue!ToSet(ShownHeaders(e)) \subseteq Queue!ToSet(r.headers)
  BY DEF ToSet, Queue!ToSet
<1>2. /\ Shown(e).method = slot[e].method /\ Shown(e).url = text[Url(e)]
      /\ Shown(e).body = text[Body(e)] /\ Shown(e).headers = ShownHeaders(e)
  BY DEF Shown
<1> QED  BY <1>1, <1>2 DEF Queue!Answers, Matches

\* What test_send finds is whether the request matches the next expectation.
LEMMA MatchedShown ==
  ASSUME Inv, NEW r
  PROVE  Queue!Matched(r) <=> Exists /\ next < count /\ Matches(next + 1, r)
<1>1. count \in Nat /\ next \in Nat /\ Len(ShownQueue) = count
  BY CountedSlots, QueueLength
<1>2. next < count => ShownQueue[next + 1] = Shown(next + 1)
  BY <1>1, NextShown
<1>3. Queue!Matched(r) <=> /\ Exists /\ next < Len(ShownQueue)
                           /\ Queue!Answers(ShownQueue[next + 1], r)
  BY DEF Queue!Matched, Exists, ShownQueue, Shown
<1> QED  BY <1>1, <1>2, <1>3, MatchesShown

\* A submission that is answered.
LEMMA AnsweredStep ==
  ASSUME Inv, next < count, Exists, NEW r \in Submission, Matches(next + 1, r),
         submitted' = r, CopyBuffer(Response, text[Answer(next + 1)]),
         http' = slot[next + 1].http, next' = next + 1, status' = "OK",
         Exists' = Exists, ShownQueue' = ShownQueue
  PROVE  Queue!Answered
<1>1. PICK n : n = next + 1
  OBVIOUS
<1>2. n \in Slot /\ Answer(n) \in Owner /\ Ownership
  <2>1. n \in 1..count
    BY <1>1, CountedSlots
  <2>2. n \in Slot
    BY <2>1, CountedSlots
  <2> QED  BY <2>2, SlotFields, Owners DEF Inv
<1>3. text'[Response] = text[Answer(n)]
  <2>1. text[Answer(n)] \in Text /\ Response \in BufferOwner
    BY <1>2, Owners DEF Ownership
  <2>2. text \in [Owner -> Text] /\ Response \in Owner
    BY <1>2, Owners DEF Ownership
  <2>3. \A t \in Text : t.len = 0 => t = EmptyText
    BY TextAssumption
  <2>4. CASE text[Answer(n)].len = 0
    BY <1>1, <2>1, <2>2, <2>3, <2>4 DEF CopyBuffer, Discard
  <2>5. CASE text[Answer(n)].len # 0
    BY <1>1, <2>1, <2>2, <2>5 DEF CopyBuffer
  <2> QED  BY <2>4, <2>5
<1>4. /\ ShownQueue[n] = Shown(n) /\ Len(ShownQueue) = count
  BY <1>1, CountedSlots, NextShown, QueueLength
<1>5. \E s \in Submission : submitted' = s /\ Queue!Matched(s)
  BY MatchedShown
<1>6. http' = ShownQueue[next + 1].http /\ text'[Response] = ShownQueue[next + 1].answer
  BY <1>1, <1>3, <1>4 DEF Shown
<1> QED  BY <1>5, <1>6 DEF Queue!Answered, Exists, ShownQueue, Shown

\* A submission that consumes nothing.
LEMMA NotAnsweredStep ==
  ASSUME Inv, next' = next, text'[Response] = EmptyText,
         Exists' = Exists, ShownQueue' = ShownQueue,
         NEW r \in Submission, submitted' = r,
         \/ /\ ~(Exists /\ next < count /\ Matches(next + 1, r))
            /\ http' = 0 /\ status' = "MISMATCH"
         \/ /\ Exists /\ next < count /\ Matches(next + 1, r)
            /\ http' = slot[next + 1].http /\ status' = "OOM"
  PROVE  Queue!NotAnswered
<1>1. CASE /\ ~(Exists /\ next < count /\ Matches(next + 1, r))
           /\ http' = 0 /\ status' = "MISMATCH"
  <2>1. \E s \in Submission :
          submitted' = s /\ ~Queue!Matched(s) /\ http' = 0 /\ status' = "MISMATCH"
    BY <1>1, MatchedShown
  <2> QED  BY <2>1 DEF Queue!NotAnswered, Exists, ShownQueue, Shown
<1>2. CASE /\ Exists /\ next < count /\ Matches(next + 1, r)
           /\ http' = slot[next + 1].http /\ status' = "OOM"
  <2>1. ShownQueue[next + 1] = Shown(next + 1)
    BY <1>2, CountedSlots, NextShown
  <2>2. http' = ShownQueue[next + 1].http
    BY <1>2, <2>1 DEF Shown
  <2>3. \E s \in Submission : /\ submitted' = s /\ Queue!Matched(s)
                              /\ http' = ShownQueue[next + 1].http /\ status' = "OOM"
    BY <1>2, <2>2, MatchedShown
  <2> QED  BY <2>3 DEF Queue!NotAnswered, Exists, ShownQueue, Shown
<1> QED  BY <1>1, <1>2

LEMMA SendRefines ==
  ASSUME Inv, Inv', CopyFaithful, Send PROVE Queue!Next
<1>1. UNCHANGED <<slot, count, arrayCapacity>>
  BY DEF Send
<1>2. CASE status' = "INVALID_ARGUMENT" /\ UNCHANGED <<memory, next, http, submitted>>
  <2>1. ShownQueue' = ShownQueue /\ Exists' = Exists /\ text' = text
    BY <1>1, <1>2, ResponseOnly DEF memory
  <2> QED  BY <1>2, <2>1, RefusedStep DEF Queue!Next
<1>3. ASSUME NEW code, NEW r \in Submission, submitted' = r, Reject(code),
             \/ /\ ~(Exists /\ next < count /\ Matches(next + 1, r))
                /\ http' = 0 /\ code = "MISMATCH"
             \/ /\ Exists /\ next < count /\ Matches(next + 1, r)
                /\ http' = slot[next + 1].http /\ code = "OOM"
      PROVE  Queue!Next
  <2>1. Discard({Response}, {Response}) /\ next' = next /\ status' = code
    BY <1>3 DEF Reject, Return
  <2>2. /\ text'[Response] = EmptyText
        /\ \A q \in Owner : q # Response => ptr'[q] = ptr[q] /\ text'[q] = text[q]
    BY <1>1, <2>1, ResetKeeps DEF Inv
  <2>3. ShownQueue' = ShownQueue /\ Exists' = Exists
    BY <1>1, <2>2, ResponseOnly
  <2> QED  BY <1>3, <2>1, <2>2, <2>3, NotAnsweredStep DEF Queue!Next
<1>4. ASSUME NEW r \in Submission, Exists, next < count, Matches(next + 1, r),
             submitted' = r, CopyBuffer(Response, text[Answer(next + 1)]),
             http' = slot[next + 1].http, next' = next + 1, status' = "OK"
      PROVE  Queue!Next
  <2>1. next + 1 \in Slot
    <3>1. next + 1 \in 1..count
      BY <1>4, CountedSlots
    <3> QED  BY <3>1, CountedSlots
  <2>2. text[Answer(next + 1)] \in Text /\ Response \in BufferOwner
    BY <2>1, SlotFields, Owners DEF Inv, Ownership
  <2>3. \A q \in Owner : q # Response => ptr'[q] = ptr[q] /\ text'[q] = text[q]
    BY <1>1, <1>4, <2>2, CopyBufferKeeps DEF Inv
  <2>4. ShownQueue' = ShownQueue /\ Exists' = Exists
    BY <1>1, <2>3, ResponseOnly
  <2> QED  BY <1>4, <2>4, AnsweredStep DEF Queue!Next
<1>5. \/ status' = "INVALID_ARGUMENT" /\ UNCHANGED <<memory, next, http, submitted>>
      \/ \E r \in Submission :
           /\ submitted' = r
           /\ \/ /\ ~(Exists /\ next < count /\ Matches(next + 1, r))
                 /\ http' = 0 /\ Reject("MISMATCH")
              \/ /\ Exists /\ next < count /\ Matches(next + 1, r)
                 /\ http' = slot[next + 1].http
                 /\ \/ /\ CopyBuffer(Response, text[Answer(next + 1)])
                       /\ next' = next + 1 /\ status' = "OK"
                    \/ Reject("OOM")
  BY DEF Send, Return
<1> QED  BY <1>2, <1>3, <1>4, <1>5

\* The test transport implements the queue of expectations: an expectation
\* appears complete and as it was passed or not at all, and it is consumed by
\* the one request that matches it, once its answer was delivered, whichever
\* allocation failed.
THEOREM QueueImplemented == Spec => ImplementsQueue
<1>1. Init => Queue!Init
  <2> SUFFICES ASSUME Init PROVE Queue!Init
    OBVIOUS
  <2>1. ~Exists /\ text[Response] = EmptyText
    BY Owners DEF Init, Exists
  <2>2. ShownQueue = << >>
    BY DEF Init, ShownQueue
  <2> QED  BY <2>1, <2>2 DEF Init, Queue!Init, Exists, ShownQueue, Shown
<1>2. Inv /\ Inv' /\ CopyFaithful /\ [Next]_vars => [Queue!Next]_(Queue!vars)
  <2> SUFFICES ASSUME Inv, Inv', CopyFaithful, [Next]_vars
               PROVE  Queue!Next \/ UNCHANGED Queue!vars
    OBVIOUS
  <2>1. CASE Create         BY <2>1, CreateRefines
  <2>2. CASE Destroy        BY <2>2, DestroyRefines
  <2>3. CASE Expect         BY <2>3, ExpectRefines
  <2>4. CASE Fill           BY <2>4, FillRefines
  <2>5. CASE FillFails      BY <2>5, FailedFillRefines
  <2>6. CASE Send           BY <2>6, SendRefines
  <2>7. CASE ResetResponse  BY <2>7, ResetResponseRefines
  <2>8. CASE Verify         BY <2>8, VerifyRefines
  <2>9. CASE UNCHANGED vars
    <3>1. UNCHANGED <<ptr, text, slot, count, next, http, submitted, status>>
      BY <2>9 DEF vars, memory, transport
    <3>2. ShownQueue' = ShownQueue /\ Exists' = Exists
      BY <3>1, ResponseOnly
    <3> QED  BY <3>1, <3>2, SameShown
  <2> QED
    BY <2>1, <2>2, <2>3, <2>4, <2>5, <2>6, <2>7, <2>8, <2>9 DEF Next
<1> QED
  BY <1>1, <1>2, InvAlways, CopyFaithfulAlways, PTL DEF Spec, ImplementsQueue, Queue!Spec
=============================================================================
