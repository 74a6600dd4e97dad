--------------------------- MODULE RequestProofs ---------------------------
(***************************************************************************)
(* Proofs about the request builder, for every width of size_t, every      *)
(* allocator, every set of texts and any number of headers, and at the end *)
(* about the loop in which it makes its arrays grow.                       *)
(*                                                                         *)
(* NothingLeaked and FreedAsAllocated are not inductive.  destroy frees    *)
(* the strings of counted headers only, so Inv also says that an uncounted *)
(* slot holds nothing except the name of a header whose value is about to  *)
(* be copied; and create overwrites every field, so Inv says that there is *)
(* nothing to overwrite when no request exists.                            *)
(***************************************************************************)
EXTENDS Request, GrowthLoop, HeapProofs, Sequences

\* The heap, the pointer fields and the contents agree.
Ownership ==
  /\ IsHeap(heap)
  /\ ptr \in Pointers(Owner)
  /\ text \in [Owner -> Text]
  /\ OwnsExactly(heap, ptr, Owner)
  /\ FreedAsAllocated

\* Uncounted slots are empty, but for the name of a half copied header.
SlotsClear ==
  \A o \in SlotOwner :
    o[2] > headerCount /\ ptr[o] # NoBlock
      => pc = "value" /\ o = NameOf(headerCount + 1)

\* While no request exists none of its fields holds anything.
AbsentHoldsNothing ==
  /\ ~Exists => \A o \in Owner : ptr[o] = NoBlock
  /\ pc # "idle" => Exists

Inv ==
  /\ TypeOK
  /\ Ownership
  /\ SlotsClear
  /\ AbsentHoldsNothing
  /\ CountsWithinCapacity

\* What the run checks follows from the inductive invariant.
LEMMA InvImplies ==
  Inv => /\ NothingShared /\ FreedAsAllocated /\ NothingLeaked
         /\ UncountedSlotsEmpty
  BY DEF Inv, Ownership, OwnsExactly, NothingShared, NothingLeaked, SlotsClear,
         UncountedSlotsEmpty

-----------------------------------------------------------------------------
LEMMA OwnersDiffer ==
  /\ Self \in Owner /\ Url \in Owner /\ Body \in Owner /\ Headers \in Owner
  /\ Self # Url /\ Self # Body /\ Self # Headers
  /\ Url # Body /\ Url # Headers /\ Body # Headers
  /\ SlotOwner \subseteq Owner
  /\ \A o \in SlotOwner : o # Self /\ o # Url /\ o # Body /\ o # Headers
  /\ Owner = {Self, Url, Body, Headers} \cup SlotOwner
  BY DEF Owner, SlotOwner, Self, Url, Body, Headers

LEMMA SlotOwners ==
  /\ \A i \in Slot : /\ NameOf(i) \in SlotOwner /\ NameOf(i)[2] = i
                     /\ ValueOf(i) \in SlotOwner /\ ValueOf(i)[2] = i
  /\ \A i, j : NameOf(i) # ValueOf(j)
  /\ \A o \in SlotOwner : o[2] \in Slot /\ (o = NameOf(o[2]) \/ o = ValueOf(o[2]))
  BY DEF SlotOwner, NameOf, ValueOf

\* The size each field passes to free.
LEMMA FreedSizes ==
  /\ FreedSize(Self) = RequestSize
  /\ FreedSize(Body) = bodyCapacity
  /\ FreedSize(Headers) = headerCapacity * HeaderSize
  /\ \A o \in Owner : o \notin {Self, Body, Headers} => FreedSize(o) = text[o].len + 1
  BY OwnersDiffer DEF FreedSize

LEMMA FreedSizesNext ==
  /\ FreedSize(Self)' = RequestSize
  /\ FreedSize(Body)' = bodyCapacity'
  /\ FreedSize(Headers)' = headerCapacity' * HeaderSize
  /\ \A o \in Owner : o \notin {Self, Body, Headers} => FreedSize(o)' = text'[o].len + 1
  BY OwnersDiffer DEF FreedSize

\* An index within a capacity whose array has a size is an index of a slot.
LEMMA IndexIsSlot ==
  ASSUME NEW room \in Nat, room * HeaderSize <= SizeMax,
         NEW i \in 1..room
  PROVE  i \in Slot
  BY LayoutAssumption, EntryFits DEF Slot

LEMMA TextSizes == \A t \in Text : t.len \in Nat /\ t.len + 1 \in 1..SizeMax
  BY TextAssumption, SizeAssumption

-----------------------------------------------------------------------------
\* A step that frees and allocates for the owners in S keeps the ownership,
\* given that the other owners' contents stay and S's blocks have the sizes
\* that will be freed.
LEMMA OwnershipKept ==
  ASSUME NEW S, Ownership,
         StillOwns(S, Owner, heap, ptr, heap', ptr'),
         text' \in [Owner -> Text],
         \A o \in Owner : o \notin S =>
            /\ ptr'[o] = ptr[o]
            /\ ptr[o] # NoBlock => FreedSize(o)' = FreedSize(o),
         \A o \in S : o \in Owner /\ ptr'[o] # NoBlock => heap'[ptr'[o]] = FreedSize(o)'
  PROVE  Ownership'
<1>1. IsHeap(heap)' /\ (ptr \in Pointers(Owner))' /\ OwnsExactly(heap, ptr, Owner)'
  BY DEF StillOwns, IsHeap, OwnsExactly, Pointers
<1>2. ASSUME NEW o \in Owner, ptr'[o] # NoBlock
      PROVE  heap'[ptr'[o]] = FreedSize(o)'
  <2>1. CASE o \in S
    BY <1>2, <2>1
  <2>2. CASE o \notin S
    BY <1>2, <2>2 DEF StillOwns, Ownership, FreedAsAllocated
  <2> QED  BY <2>1, <2>2
<1>3. FreedAsAllocated'
  BY <1>2 DEF FreedAsAllocated
<1> QED  BY <1>1, <1>3 DEF Ownership

\* A successful string copy.
LEMMA CopyStringKeeps ==
  ASSUME Ownership, NEW o \in {Url} \cup SlotOwner, NEW t \in Text,
         CopyString(o, t), UNCHANGED <<bodyCapacity, headerCapacity>>
  PROVE  Ownership' /\ ptr' \in Pointers(Owner)
         /\ \A q \in Owner : q # o => ptr'[q] = ptr[q] /\ text'[q] = text[q]
<1> DEFINE freed == Release(heap, {ptr[o]})
<1>1. PICK b \in Candidates(freed) :
        heap' = Place(freed, b, t.len + 1) /\ ptr' = [ptr EXCEPT ![o] = b]
  BY DEF CopyString
<1>2. text' = [text EXCEPT ![o] = t]
  BY DEF CopyString
<1>3. o \in Owner /\ o \notin {Self, Body, Headers}
  BY OwnersDiffer
<1>4. b \in Block /\ freed[b] = 0
  BY CandidateIsFree
<1>5. t.len + 1 \in 1..SizeMax
  BY TextSizes
<1>6. IsHeap(heap) /\ ptr \in Pointers(Owner) /\ OwnsExactly(heap, ptr, Owner)
      /\ text \in [Owner -> Text]
  BY DEF Ownership
<1>7. StillOwns({o}, Owner, heap, ptr, heap', ptr')
  BY <1>1, <1>3, <1>4, <1>5, <1>6, ReplaceField
<1>8. ptr'[o] = b /\ \A q \in Owner : q # o => ptr'[q] = ptr[q]
  BY <1>1, <1>3, <1>6 DEF Pointers
<1>9. text' \in [Owner -> Text] /\ text'[o] = t
      /\ \A q \in Owner : q # o => text'[q] = text[q]
  BY <1>2, <1>3, <1>6
<1>10. heap'[b] = FreedSize(o)'
  <2>1. IsHeap(freed)
    BY <1>6, SizeAssumption DEF IsHeap, Release, Size
  <2>2. heap'[b] = t.len + 1
    BY <1>1, <1>4, <2>1, PlacedSize
  <2> QED  BY <2>2, <1>3, <1>9, FreedSizesNext
<1>11. \A q \in Owner : q \notin {o} => FreedSize(q)' = FreedSize(q)
  BY <1>9, FreedSizes, FreedSizesNext
<1>12. \A q \in Owner : q \notin {o} =>
            /\ ptr'[q] = ptr[q]
            /\ ptr[q] # NoBlock => FreedSize(q)' = FreedSize(q)
  BY <1>8, <1>11
<1>13. \A q \in {o} : q \in Owner /\ ptr'[q] # NoBlock => heap'[ptr'[q]] = FreedSize(q)'
  BY <1>8, <1>10
<1> HIDE DEF freed
<1>14. Ownership'
  BY <1>7, <1>9, <1>12, <1>13, OwnershipKept
<1> QED  BY <1>8, <1>9, <1>14 DEF Ownership

\* Resetting owners: a failed copy, a failed add_header, an emptied body.
LEMMA ResetKeeps ==
  ASSUME Ownership, NEW S, S \subseteq Owner, NEW gone,
         \A b \in Block : b \in gone <=> \E o \in S : ptr[o] = b,
         heap' = Release(heap, gone),
         ptr' \in Pointers(Owner),
         \A o \in S : ptr'[o] = NoBlock,
         \A o \in Owner : o \notin S => ptr'[o] = ptr[o],
         text' \in [Owner -> Text],
         \A o \in Owner : o \notin S => text'[o] = text[o],
         Body \notin S => bodyCapacity' = bodyCapacity,
         Headers \notin S => headerCapacity' = headerCapacity
  PROVE  Ownership'
<1>1. IsHeap(heap) /\ ptr \in Pointers(Owner) /\ OwnsExactly(heap, ptr, Owner)
  BY DEF Ownership
<1>2. StillOwns(S, Owner, heap, ptr, heap', ptr')
  BY <1>1, ResetFields
<1>3. \A q \in Owner : q \notin S => FreedSize(q)' = FreedSize(q)
  BY FreedSizes, FreedSizesNext
<1>4. \A q \in Owner : q \notin S =>
            /\ ptr'[q] = ptr[q]
            /\ ptr[q] # NoBlock => FreedSize(q)' = FreedSize(q)
  BY <1>3
<1>5. \A q \in S : q \in Owner /\ ptr'[q] # NoBlock => heap'[ptr'[q]] = FreedSize(q)'
  OBVIOUS
<1> QED  BY <1>2, <1>4, <1>5, OwnershipKept

\* A failed string or body copy.
LEMMA CopyStringFailsKeeps ==
  ASSUME Ownership, NEW o \in {Url, Body} \cup SlotOwner, CopyStringFails(o),
         o # Body => bodyCapacity' = bodyCapacity,
         headerCapacity' = headerCapacity
  PROVE  Ownership' /\ ptr' \in Pointers(Owner)
         /\ ptr'[o] = NoBlock /\ text'[o] = EmptyText
         /\ \A q \in Owner : q # o => ptr'[q] = ptr[q] /\ text'[q] = text[q]
<1> DEFINE S == {o}
           gone == {ptr[o]}
<1>1. o \in Owner /\ o # Headers /\ S \subseteq Owner
      /\ ptr \in [Owner -> Block \cup {NoBlock}] /\ text \in [Owner -> Text]
  BY OwnersDiffer DEF Ownership, Pointers
<1>2. heap' = Release(heap, gone)
  BY DEF CopyStringFails
<1>3. ptr' \in Pointers(Owner) /\ ptr'[o] = NoBlock
      /\ \A q \in Owner : q # o => ptr'[q] = ptr[q]
  BY <1>1 DEF CopyStringFails, Pointers
<1>4. text' \in [Owner -> Text] /\ text'[o] = EmptyText
      /\ \A q \in Owner : q # o => text'[q] = text[q]
  BY <1>1, TextAssumption DEF CopyStringFails
<1>5. \A b \in Block : b \in gone <=> \E q \in S : ptr[q] = b
  OBVIOUS
<1>6. /\ \A q \in S : ptr'[q] = NoBlock
      /\ \A q \in Owner : q \notin S => ptr'[q] = ptr[q] /\ text'[q] = text[q]
      /\ Body \notin S => bodyCapacity' = bodyCapacity
      /\ Headers \notin S => headerCapacity' = headerCapacity
  BY <1>3, <1>4
<1> HIDE DEF S, gone
<1>7. Ownership'
  BY <1>1, <1>2, <1>3, <1>4, <1>5, <1>6, ResetKeeps
<1> QED  BY <1>3, <1>4, <1>7

-----------------------------------------------------------------------------
LEMMA InvInit == Init => Inv
<1> SUFFICES ASSUME Init PROVE Inv
  OBVIOUS
<1> USE SizeAssumption, BlockAssumption, TextAssumption DEF Init
<1>1. IsHeap(heap) /\ \A b \in Block : heap[b] = 0
  BY DEF EmptyHeap, IsHeap, Size
<1>2. ptr \in Pointers(Owner) /\ \A o \in Owner : ptr[o] = NoBlock
  BY DEF Pointers
<1>3. text \in [Owner -> Text] /\ \A o \in Owner : text[o] = EmptyText
  OBVIOUS
<1>4. Ownership
  BY <1>1, <1>2, <1>3 DEF Ownership, OwnsExactly, FreedAsAllocated
<1>5. TypeOK
  BY <1>1, <1>2, <1>3 DEF TypeOK, Status, NoHeader, Pointers, Size
<1>6. CountsWithinCapacity
  BY <1>3, OwnersDiffer, LayoutAssumption DEF CountsWithinCapacity
<1>7. SlotsClear /\ AbsentHoldsNothing
  BY <1>2, OwnersDiffer DEF SlotsClear, AbsentHoldsNothing
<1> QED  BY <1>4, <1>5, <1>6, <1>7 DEF Inv

LEMMA CreateKeeps == ASSUME Inv, Create PROVE Inv'
<1> USE DEF Inv
<1>1. CASE Refuse("OOM")
  BY <1>1 DEF Refuse, fields, TypeOK, Status, Ownership, FreedAsAllocated, FreedSize,
     SlotsClear, AbsentHoldsNothing, Exists, CountsWithinCapacity
<1>2. CASE ~Refuse("OOM")
  <2>1. PICK b \in Candidates(heap) :
          /\ heap' = Place(heap, b, RequestSize)
          /\ ptr' = [o \in Owner |-> IF o = Self THEN b ELSE NoBlock]
    BY <1>2 DEF Create
  <2>2. /\ text' = [o \in Owner |-> EmptyText]
        /\ method' = NoMethod /\ bodyCapacity' = 0 /\ headerCount' = 0
        /\ headerCapacity' = 0 /\ status' = "CREATED" /\ pc' = pc /\ adding' = adding
        /\ pc = "idle" /\ ~Exists
    BY <1>2 DEF Create
  <2>3. b \in Block /\ heap[b] = 0
    BY CandidateIsFree
  <2>4. \A o \in Owner : ptr[o] = NoBlock
    BY <2>2 DEF AbsentHoldsNothing
  <2>5. IsHeap(heap) /\ ptr \in Pointers(Owner) /\ OwnsExactly(heap, ptr, Owner)
    BY DEF Ownership
  <2>6. ptr' \in Pointers(Owner) /\ ptr'[Self] = b
        /\ \A o \in Owner : o # Self => ptr'[o] = ptr[o]
    BY <2>1, <2>3, <2>4, OwnersDiffer DEF Pointers
  <2>7. Self \in Owner /\ ptr[Self] = NoBlock /\ RequestSize \in 1..SizeMax
    BY <2>4, OwnersDiffer, LayoutAssumption
  <2>8. StillOwns({}, Owner, heap, ptr, heap', ptr')
    BY <2>1, <2>3, <2>5, <2>6, <2>7, FillField
  <2>9. text' \in [Owner -> Text] /\ \A o \in Owner : text'[o] = EmptyText
    BY <2>2, TextAssumption
  <2>10. heap'[b] = RequestSize
    BY <2>1, <2>3, <2>5, PlacedSize
  <2>11. Ownership'
    <3>1. \A o \in Owner : ptr'[o] # NoBlock => o = Self
      BY <2>4, <2>6
    <3>2. FreedAsAllocated'
      BY <3>1, <2>6, <2>10, FreedSizesNext DEF FreedAsAllocated
    <3> QED  BY <2>8, <2>9, <3>2 DEF Ownership, StillOwns, OwnsExactly, IsHeap, Pointers
  <2>12. TypeOK'
    BY <2>2, <2>8, <2>9, SizeAssumption
    DEF TypeOK, Status, StillOwns, IsHeap, Pointers, Size
  <2>13. CountsWithinCapacity'
    BY <2>2, <2>9, OwnersDiffer, TextAssumption, LayoutAssumption, SizeAssumption
    DEF CountsWithinCapacity
  <2>14. SlotsClear' /\ AbsentHoldsNothing'
    BY <2>2, <2>3, <2>4, <2>6, BlockAssumption, OwnersDiffer
    DEF SlotsClear, AbsentHoldsNothing, Exists
  <2> QED  BY <2>11, <2>12, <2>13, <2>14
<1> QED  BY <1>1, <1>2

LEMMA DestroyKeeps == ASSUME Inv, Destroy PROVE Inv'
<1> USE DEF Inv
<1> DEFINE gone == {ptr[o] : o \in DestroyedOwners}
<1>1. /\ heap' = Release(heap, gone)
      /\ ptr' = [o \in Owner |-> NoBlock]
      /\ text' = [o \in Owner |-> EmptyText]
      /\ method' = NoMethod /\ bodyCapacity' = 0 /\ headerCount' = 0
      /\ headerCapacity' = 0 /\ UNCHANGED <<status, pc, adding>>
      /\ pc = "idle"
  BY DEF Destroy
<1>2. ptr' \in Pointers(Owner) /\ \A o \in Owner : ptr'[o] = NoBlock
  BY <1>1 DEF Pointers
<1>3. text' \in [Owner -> Text] /\ \A o \in Owner : text'[o] = EmptyText
  BY <1>1, TextAssumption
<1>4. \A b \in Block : b \in gone <=> \E o \in Owner : ptr[o] = b
  <2>1. DestroyedOwners \subseteq Owner
    BY OwnersDiffer DEF DestroyedOwners
  <2>2. ASSUME NEW o \in Owner, o \notin DestroyedOwners PROVE ptr[o] = NoBlock
    <3>1. o \in SlotOwner /\ ~(o[2] <= headerCount)
      BY <2>2, OwnersDiffer DEF DestroyedOwners
    <3>2. o[2] \in Nat /\ headerCount \in Nat
      BY <3>1, SlotOwners DEF TypeOK, Slot, Size
    <3> QED  BY <1>1, <3>1, <3>2 DEF SlotsClear
  <2> QED  BY <2>1, <2>2, BlockAssumption
<1> HIDE DEF gone
<1>5. Ownership'
  <2>1. \A o \in Owner : o \notin Owner => ptr'[o] = ptr[o] /\ text'[o] = text[o]
    OBVIOUS
  <2>2. (Body \notin Owner => bodyCapacity' = bodyCapacity)
        /\ (Headers \notin Owner => headerCapacity' = headerCapacity)
        /\ Owner \subseteq Owner
    BY OwnersDiffer
  <2> QED  BY <1>1, <1>2, <1>3, <1>4, <2>1, <2>2, ResetKeeps
<1>6. TypeOK'
  BY <1>1, <1>2, <1>3, <1>5, SizeAssumption DEF TypeOK, Status, Ownership, Pointers, Size
<1>7. CountsWithinCapacity'
  BY <1>1, <1>3, OwnersDiffer, TextAssumption, LayoutAssumption, SizeAssumption
  DEF CountsWithinCapacity
<1>8. SlotsClear' /\ AbsentHoldsNothing'
  BY <1>1, <1>2, OwnersDiffer DEF SlotsClear, AbsentHoldsNothing
<1> QED  BY <1>5, <1>6, <1>7, <1>8

\* A step that leaves the request and the heap alone.
LEMMA UntouchedKeeps ==
  ASSUME Inv, UNCHANGED <<heap, ptr, text, bodyCapacity, headerCount,
                          headerCapacity, pc, adding>>,
         method' \in Method \cup {NoMethod},
         status' \in Status
  PROVE  Inv'
<1> USE DEF Inv
<1>1. Ownership'
  <2>1. \A o \in Owner : FreedSize(o)' = FreedSize(o)
    BY DEF FreedSize
  <2> QED  BY <2>1 DEF Ownership, FreedAsAllocated, IsHeap, OwnsExactly, Pointers
<1> QED
  BY <1>1 DEF TypeOK, Status, IsHeap, SlotsClear, AbsentHoldsNothing, Exists,
              CountsWithinCapacity

LEMMA RefuseKeeps ==
  ASSUME Inv, NEW code \in {"OOM", "OVERFLOW", "INVALID_ARGUMENT"}, Refuse(code)
  PROVE  Inv'
  BY UntouchedKeeps DEF Refuse, fields, Inv, TypeOK, Status

LEMMA SetMethodKeeps == ASSUME Inv, SetMethod PROVE Inv'
<1>1. PICK m \in Method \cup {NoMethod} :
        \/ Refuse("INVALID_ARGUMENT")
        \/ /\ method' = m /\ status' = "METHOD_SET"
           /\ UNCHANGED <<heap, ptr, text, bodyCapacity, headerCount,
                          headerCapacity, pc, adding>>
  BY DEF SetMethod
<1> QED  BY <1>1, RefuseKeeps, UntouchedKeeps DEF Status

\* What the rest of the invariant needs from a step that only changes owners
\* other than the request itself and the header slots.
LEMMA BodyOrUrlKeeps ==
  ASSUME Inv, NEW o \in {Url, Body}, pc = "idle", Exists,
         Ownership', ptr' \in Pointers(Owner),
         \A q \in Owner : q # o => ptr'[q] = ptr[q] /\ text'[q] = text[q],
         UNCHANGED <<method, headerCount, headerCapacity, pc, adding>>,
         status' \in Status,
         bodyCapacity' \in Size,
         text'[Body].len <= bodyCapacity'
  PROVE  Inv'
<1> USE OwnersDiffer DEF Inv
<1>1. TypeOK'
  BY DEF TypeOK, Status, Ownership, Pointers, IsHeap
<1>2. SlotsClear'
  BY DEF SlotsClear
<1>3. AbsentHoldsNothing'
  BY DEF AbsentHoldsNothing, Exists
<1>4. CountsWithinCapacity'
  BY DEF CountsWithinCapacity
<1> QED  BY <1>1, <1>2, <1>3, <1>4

LEMMA SetUrlKeeps == ASSUME Inv, SetUrl PROVE Inv'
<1> USE DEF Inv
<1>1. PICK t \in Text :
        \/ Refuse("INVALID_ARGUMENT")
        \/ /\ Exists
           /\ \/ CopyString(Url, t) /\ status' = "URL_SET"
              \/ CopyStringFails(Url) /\ status' = "OOM"
           /\ UNCHANGED <<method, bodyCapacity, headerCount, headerCapacity,
                          pc, adding>>
  BY DEF SetUrl
<1>2. pc = "idle"
  BY DEF SetUrl
<1>3. CASE Refuse("INVALID_ARGUMENT")
  BY <1>3, RefuseKeeps
<1>4. CASE ~Refuse("INVALID_ARGUMENT")
  <2>1. /\ Ownership' /\ ptr' \in Pointers(Owner)
        /\ \A q \in Owner : q # Url => ptr'[q] = ptr[q] /\ text'[q] = text[q]
    BY <1>1, <1>4, CopyStringKeeps, CopyStringFailsKeeps
  <2>2. bodyCapacity' \in Size /\ text'[Body].len <= bodyCapacity'
    BY <1>1, <1>4, <2>1, OwnersDiffer DEF TypeOK, CountsWithinCapacity
  <2> QED  BY <1>1, <1>2, <1>4, <2>1, <2>2, BodyOrUrlKeeps DEF Status
<1> QED  BY <1>3, <1>4

\* A successful copy of a non-empty body.
LEMMA CopyBodyKeeps ==
  ASSUME Inv, NEW t \in Text, NEW room,
         room = Grown(0, t.len, FirstBytes), t.len > 0,
         NEW b \in Candidates(Release(heap, {ptr[Body]})),
         heap' = Place(Release(heap, {ptr[Body]}), b, room),
         ptr' = [ptr EXCEPT ![Body] = b],
         text' = [text EXCEPT ![Body] = t],
         bodyCapacity' = room,
         UNCHANGED headerCapacity
  PROVE  /\ Ownership' /\ ptr' \in Pointers(Owner)
         /\ \A q \in Owner : q # Body => ptr'[q] = ptr[q] /\ text'[q] = text[q]
         /\ bodyCapacity' \in Size /\ text'[Body].len <= bodyCapacity'
<1> DEFINE freed == Release(heap, {ptr[Body]})
<1>1. t.len \in Size /\ room \in Size /\ room >= t.len /\ room \in 1..SizeMax
  <2>1. t.len \in Size
    BY TextSizes, SizeAssumption DEF Size
  <2>2. room \in Size /\ room >= t.len
    BY <2>1, GrownHolds
  <2> QED  BY <2>1, <2>2, SizeAssumption DEF Size
<1>2. b \in Block /\ freed[b] = 0
  BY CandidateIsFree
<1>3. IsHeap(heap) /\ ptr \in Pointers(Owner) /\ OwnsExactly(heap, ptr, Owner)
      /\ text \in [Owner -> Text] /\ Body \in Owner
  BY OwnersDiffer DEF Inv, Ownership
<1>4. StillOwns({Body}, Owner, heap, ptr, heap', ptr')
  BY <1>1, <1>2, <1>3, ReplaceField
<1>5. ptr'[Body] = b /\ \A q \in Owner : q # Body => ptr'[q] = ptr[q]
  BY <1>3 DEF Pointers
<1>6. text' \in [Owner -> Text] /\ text'[Body] = t
      /\ \A q \in Owner : q # Body => text'[q] = text[q]
  BY <1>3
<1>7. heap'[b] = room
  <2>1. IsHeap(freed)
    BY <1>3, SizeAssumption DEF IsHeap, Release, Size
  <2> QED  BY <1>2, <2>1, PlacedSize
<1>8. \A q \in Owner : q \notin {Body} =>
         /\ ptr'[q] = ptr[q]
         /\ ptr[q] # NoBlock => FreedSize(q)' = FreedSize(q)
  BY <1>5, <1>6, FreedSizes, FreedSizesNext
<1>9. \A q \in {Body} : q \in Owner /\ ptr'[q] # NoBlock => heap'[ptr'[q]] = FreedSize(q)'
  BY <1>5, <1>7, FreedSizesNext
<1>10. Ownership /\ text' \in [Owner -> Text]
  BY <1>6 DEF Inv
<1> HIDE DEF freed
<1>11. Ownership'
  BY ONLY <1>4, <1>8, <1>9, <1>10, OwnershipKept
<1> QED  BY <1>1, <1>5, <1>6, <1>11 DEF Ownership

\* Emptying the body, or failing to copy one.
LEMMA ClearBodyKeeps ==
  ASSUME Inv, CopyStringFails(Body), bodyCapacity' = 0, UNCHANGED headerCapacity
  PROVE  /\ Ownership' /\ ptr' \in Pointers(Owner)
         /\ \A q \in Owner : q # Body => ptr'[q] = ptr[q] /\ text'[q] = text[q]
         /\ bodyCapacity' \in Size /\ text'[Body].len <= bodyCapacity'
<1>1. /\ Ownership' /\ ptr' \in Pointers(Owner) /\ text'[Body] = EmptyText
      /\ \A q \in Owner : q # Body => ptr'[q] = ptr[q] /\ text'[q] = text[q]
  BY CopyStringFailsKeeps DEF Inv
<1> QED  BY <1>1, TextAssumption, SizeAssumption DEF Size

LEMMA SetBodyKeeps == ASSUME Inv, SetBody PROVE Inv'
<1>1. PICK t \in Text :
        LET freed    == Release(heap, {ptr[Body]})
            room == Grown(0, t.len, FirstBytes)
        IN  IF ~Exists
            THEN Refuse("INVALID_ARGUMENT")
            ELSE /\ \/ /\ t.len = 0
                       /\ heap' = freed
                       /\ ptr' = [ptr EXCEPT ![Body] = NoBlock]
                       /\ text' = [text EXCEPT ![Body] = EmptyText]
                       /\ bodyCapacity' = 0
                       /\ status' = "BODY_SET"
                    \/ /\ t.len > 0
                       /\ \E b \in Candidates(freed) :
                            /\ heap' = Place(freed, b, room)
                            /\ ptr' = [ptr EXCEPT ![Body] = b]
                       /\ text' = [text EXCEPT ![Body] = t]
                       /\ bodyCapacity' = room
                       /\ status' = "BODY_SET"
                    \/ /\ t.len > 0
                       /\ CopyStringFails(Body)
                       /\ bodyCapacity' = 0
                       /\ status' = "OOM"
                 /\ UNCHANGED <<method, headerCount, headerCapacity, pc, adding>>
  BY DEF SetBody
<1>2. pc = "idle"
  BY DEF SetBody
<1>3. CASE ~Exists
  BY <1>1, <1>3, RefuseKeeps
<1>4. CASE Exists
  <2>1. /\ UNCHANGED <<method, headerCount, headerCapacity, pc, adding>>
        /\ status' \in Status
        /\ \/ CopyStringFails(Body) /\ bodyCapacity' = 0
           \/ /\ t.len > 0
              /\ \E b \in Candidates(Release(heap, {ptr[Body]})) :
                   /\ heap' = Place(Release(heap, {ptr[Body]}), b,
                                    Grown(0, t.len, FirstBytes))
                   /\ ptr' = [ptr EXCEPT ![Body] = b]
              /\ text' = [text EXCEPT ![Body] = t]
              /\ bodyCapacity' = Grown(0, t.len, FirstBytes)
    BY <1>1, <1>4 DEF CopyStringFails, Status
  <2>2. /\ Ownership' /\ ptr' \in Pointers(Owner)
        /\ \A q \in Owner : q # Body => ptr'[q] = ptr[q] /\ text'[q] = text[q]
        /\ bodyCapacity' \in Size /\ text'[Body].len <= bodyCapacity'
    <3>1. CASE CopyStringFails(Body) /\ bodyCapacity' = 0
      BY <3>1, <2>1, ClearBodyKeeps
    <3>2. CASE ~(CopyStringFails(Body) /\ bodyCapacity' = 0)
      BY <3>2, <2>1, CopyBodyKeeps
    <3> QED  BY <3>1, <3>2
  <2> QED  BY <1>2, <1>4, <2>1, <2>2, BodyOrUrlKeeps
<1> QED  BY <1>3, <1>4

-----------------------------------------------------------------------------
\* Whatever a reallocation leaves in the slots it adds, zeroing them restores
\* what an idle request has there: nothing.
LEMMA ZeroingClears ==
  ASSUME Inv, pc = "idle", NEW room, NEW stale
  PROVE  Zeroed(WithAdded(ptr, room, stale), room) = ptr
<1>1. ptr \in [Owner -> Block \cup {NoBlock}]
  BY DEF Inv, Ownership, Pointers
<1>2. ASSUME NEW o \in SlotOwner, o[2] > headerCapacity PROVE ptr[o] = NoBlock
  <2>1. o[2] \in Nat /\ headerCount \in Nat /\ headerCapacity \in Nat
        /\ headerCount <= headerCapacity
    BY SlotOwners DEF Inv, TypeOK, Slot, Size, CountsWithinCapacity
  <2> QED  BY <1>2, <2>1 DEF Inv, SlotsClear
<1> QED  BY <1>1, <1>2, OwnersDiffer DEF Zeroed, WithAdded

\* A reallocation of the header array to a capacity whose size fits.
LEMMA GrowHeadersKeeps ==
  ASSUME Inv, pc = "idle", NEW room \in Size, room > 0,
         MulFits(room, HeaderSize), GrowHeaders(room),
         UNCHANGED bodyCapacity
  PROVE  /\ Ownership' /\ room * HeaderSize <= SizeMax
         /\ \A o \in Owner : o # Headers => ptr'[o] = ptr[o]
<1> DEFINE bytes == room * HeaderSize
<1>1. bytes \in 1..SizeMax
  <2>1. HeaderSize \in Size /\ HeaderSize > 0 /\ room \in Nat
    BY LayoutAssumption, SizeAssumption DEF Size
  <2>2. bytes \in Size
    BY <2>1, MulFitsExact
  <2>3. bytes > 0
    BY <2>1, <2>2 DEF Size
  <2> QED  BY <2>2, <2>3 DEF Size
<1>2. IsHeap(heap) /\ ptr \in Pointers(Owner) /\ OwnsExactly(heap, ptr, Owner)
      /\ text \in [Owner -> Text] /\ Headers \in Owner /\ Ownership
  BY OwnersDiffer DEF Inv, Ownership
<1>3. \/ \E b \in Candidates(heap) :
           /\ heap' = Place(Release(heap, {ptr[Headers]}), b, bytes)
           /\ ptr' = [ptr EXCEPT ![Headers] = b]
      \/ /\ ptr[Headers] # NoBlock
         /\ heap' = Place(heap, ptr[Headers], bytes)
         /\ ptr' = ptr
  <2>1. PICK stale \in Block \cup {NoBlock} :
          LET slots == Zeroed(WithAdded(ptr, room, stale), room)
          IN  \/ \E b \in Candidates(heap) :
                   /\ heap' = Place(Release(heap, {ptr[Headers]}), b, bytes)
                   /\ ptr' = [slots EXCEPT ![Headers] = b]
              \/ /\ ptr[Headers] # NoBlock
                 /\ heap' = Place(heap, ptr[Headers], bytes)
                 /\ ptr' = slots
    BY DEF GrowHeaders
  <2>2. Zeroed(WithAdded(ptr, room, stale), room) = ptr
    BY ZeroingClears
  <2> QED  BY <2>1, <2>2
<1>4. headerCapacity' = room /\ text' = text
  BY DEF GrowHeaders
<1>5. /\ StillOwns({Headers}, Owner, heap, ptr, heap', ptr')
      /\ \A o \in Owner : o # Headers => ptr'[o] = ptr[o]
      /\ heap'[ptr'[Headers]] = bytes
  <2>1. CASE \E b \in Candidates(heap) :
               /\ heap' = Place(Release(heap, {ptr[Headers]}), b, bytes)
               /\ ptr' = [ptr EXCEPT ![Headers] = b]
    <3>1. PICK b \in Candidates(heap) :
               /\ heap' = Place(Release(heap, {ptr[Headers]}), b, bytes)
               /\ ptr' = [ptr EXCEPT ![Headers] = b]
      BY <2>1
    <3>2. b \in Block /\ heap[b] = 0
      BY CandidateIsFree
    <3>3. Release(heap, {ptr[Headers]})[b] = 0 /\ IsHeap(Release(heap, {ptr[Headers]}))
      BY <3>2, <1>2, SizeAssumption DEF Release, IsHeap, Size
    <3>4. heap'[b] = bytes
      BY <3>1, <3>2, <3>3, PlacedSize
    <3>5. ptr'[Headers] = b /\ \A o \in Owner : o # Headers => ptr'[o] = ptr[o]
      BY <3>1, <1>2 DEF Pointers
    <3> HIDE DEF bytes
    <3>6. StillOwns({Headers}, Owner, heap, ptr, heap', ptr')
      BY <1>1, <1>2, <3>1, <3>2, <3>3, ReplaceField
    <3> QED  BY <3>4, <3>5, <3>6
  <2>2. CASE /\ ptr[Headers] # NoBlock
             /\ heap' = Place(heap, ptr[Headers], bytes)
             /\ ptr' = ptr
    <3>1. ptr' = ptr /\ ptr[Headers] \in Block
      BY <2>2, <1>2 DEF Pointers
    <3>2. heap'[ptr'[Headers]] = bytes
      BY <3>1, <2>2, <1>2, PlacedSize
    <3> HIDE DEF bytes
    <3>3. StillOwns({Headers}, Owner, heap, ptr, heap', ptr)
      BY <1>1, <1>2, <2>2, ResizeField
    <3> QED  BY <3>1, <3>2, <3>3
  <2> QED  BY <1>3, <2>1, <2>2
<1>6. \A q \in Owner : q \notin {Headers} =>
         /\ ptr'[q] = ptr[q]
         /\ ptr[q] # NoBlock => FreedSize(q)' = FreedSize(q)
  BY <1>4, <1>5, FreedSizes, FreedSizesNext
<1>7. \A q \in {Headers} :
        q \in Owner /\ ptr'[q] # NoBlock => heap'[ptr'[q]] = FreedSize(q)'
  BY <1>4, <1>5, FreedSizesNext
<1>8. text' \in [Owner -> Text]
  BY <1>2, <1>4
<1>9. Ownership'
  BY <1>2, <1>5, <1>6, <1>7, <1>8, OwnershipKept
<1> QED  BY <1>1, <1>5, <1>9

LEMMA AddHeaderKeeps == ASSUME Inv, AddHeader PROVE Inv'
<1> USE DEF Inv
<1>1. pc = "idle"
  BY DEF AddHeader
<1>2. PICK name \in Text, value \in Text :
       LET header   == [name |-> name, value |-> value]
           needed == headerCount + 1
           room == Grown(headerCapacity, needed, FirstHeaders)
       IN  \/ Refuse("INVALID_ARGUMENT")
           \/ /\ Exists
              /\ needed <= headerCapacity
              /\ pc' = "name"
              /\ adding' = header
              /\ UNCHANGED <<heap, fields, status>>
           \/ Refuse("OVERFLOW")
           \/ Refuse("OOM")
           \/ /\ Exists
              /\ needed > headerCapacity
              /\ AddFits(headerCount, 1) /\ MulFits(room, HeaderSize)
              /\ GrowHeaders(room)
              /\ pc' = "name"
              /\ adding' = header
              /\ UNCHANGED <<method, bodyCapacity, headerCount, status>>
  BY DEF AddHeader
<1> DEFINE header   == [name |-> name, value |-> value]
           needed == headerCount + 1
           room == Grown(headerCapacity, needed, FirstHeaders)
<1>3. CASE \E code \in {"OOM", "OVERFLOW", "INVALID_ARGUMENT"} : Refuse(code)
  BY <1>3, RefuseKeeps
<1>4. CASE /\ Exists
           /\ needed <= headerCapacity
           /\ pc' = "name"
           /\ adding' = header
           /\ UNCHANGED <<heap, fields, status>>
  <2>1. Ownership'
    <3>1. \A o \in Owner : FreedSize(o)' = FreedSize(o)
      BY <1>4 DEF FreedSize, fields
    <3> QED  BY <3>1, <1>4 DEF fields, Ownership, FreedAsAllocated, IsHeap,
                               OwnsExactly, Pointers
  <2>2. TypeOK'
    BY <1>4 DEF fields, TypeOK, Status, IsHeap
  <2>3. SlotsClear' /\ AbsentHoldsNothing'
    BY <1>1, <1>4 DEF fields, SlotsClear, AbsentHoldsNothing, Exists
  <2>4. CountsWithinCapacity'
    BY <1>4 DEF fields, CountsWithinCapacity, TypeOK, Size
  <2> QED  BY <2>1, <2>2, <2>3, <2>4
<1>5. CASE /\ Exists
           /\ needed > headerCapacity
           /\ AddFits(headerCount, 1) /\ MulFits(room, HeaderSize)
           /\ GrowHeaders(room)
           /\ pc' = "name"
           /\ adding' = header
           /\ UNCHANGED <<method, bodyCapacity, headerCount, status>>
  <2>1. needed \in Size /\ needed > 0
    <3>1. headerCount \in Size /\ 1 \in Size
      BY SizeAssumption DEF TypeOK, Size
    <3> QED  BY <1>5, <3>1, AddFitsExact DEF Size
  <2>2. room \in Size /\ room >= needed /\ room > 0
    BY <2>1, GrownHolds DEF Size
  <2> HIDE DEF room
  <2>3. /\ Ownership' /\ room * HeaderSize <= SizeMax
        /\ \A o \in Owner : o # Headers => ptr'[o] = ptr[o]
    BY <1>1, <1>5, <2>2, GrowHeadersKeeps
  <2>4. headerCapacity' = room /\ text' = text
    BY <1>5 DEF GrowHeaders
  <2>5. TypeOK'
    BY <1>5, <2>2, <2>3, <2>4 DEF TypeOK, Status, Ownership, Pointers, IsHeap
  <2>6. CountsWithinCapacity'
    BY <1>5, <2>1, <2>2, <2>3, <2>4 DEF CountsWithinCapacity, TypeOK, Size
  <2>7. SlotsClear'
    BY <1>1, <1>5, <2>3, OwnersDiffer DEF SlotsClear
  <2>8. AbsentHoldsNothing'
    BY <1>5, <2>3, OwnersDiffer DEF AbsentHoldsNothing, Exists
  <2> QED  BY <2>3, <2>5, <2>6, <2>7, <2>8
<1> QED  BY <1>2, <1>3, <1>4, <1>5

\* The slot that a running add_header fills exists.
LEMMA NextSlot ==
  ASSUME Inv, pc # "idle"
  PROVE  /\ headerCount + 1 \in Slot
         /\ NameOf(headerCount + 1) \in SlotOwner
         /\ ValueOf(headerCount + 1) \in SlotOwner
         /\ headerCount \in Nat /\ headerCapacity \in Nat /\ Exists
         /\ headerCount + 1 <= headerCapacity
         /\ headerCapacity * HeaderSize <= SizeMax
<1>1. /\ headerCount \in Nat /\ headerCapacity \in Nat /\ Exists
      /\ headerCount + 1 <= headerCapacity
      /\ headerCapacity * HeaderSize <= SizeMax
  BY DEF Inv, TypeOK, CountsWithinCapacity, AbsentHoldsNothing, Size
<1>2. headerCount + 1 \in 1..headerCapacity
  BY <1>1
<1>3. headerCount + 1 \in Slot
  BY <1>1, <1>2, IndexIsSlot
<1> QED  BY <1>1, <1>3, SlotOwners

LEMMA CopyNameKeeps == ASSUME Inv, CopyName PROVE Inv'
<1> DEFINE o == NameOf(headerCount + 1)
<1> USE DEF Inv
<1>1. /\ pc = "name"
      /\ \/ CopyString(o, adding.name) /\ pc' = "value" /\ UNCHANGED <<status, adding>>
         \/ CopyStringFails(o) /\ pc' = "idle" /\ status' = "OOM" /\ adding' = NoHeader
      /\ UNCHANGED <<method, bodyCapacity, headerCount, headerCapacity>>
  BY DEF CopyName
<1>2. adding.name \in Text /\ NoHeader \in [name : Text, value : Text]
  BY TextAssumption DEF TypeOK, NoHeader
<1>3. o \in SlotOwner /\ headerCount \in Nat /\ Exists /\ Ownership
      /\ headerCount + 1 <= headerCapacity
  BY <1>1, NextSlot
<1>4. o \notin {Self, Url, Body, Headers} /\ o \in Owner
  BY <1>3, OwnersDiffer
<1> HIDE DEF o
<1>5. /\ Ownership' /\ ptr' \in Pointers(Owner)
      /\ \A q \in Owner : q # o => ptr'[q] = ptr[q] /\ text'[q] = text[q]
      /\ pc' = "idle" => ptr'[o] = NoBlock
  BY <1>1, <1>2, <1>3, CopyStringKeeps, CopyStringFailsKeeps
<1>6. TypeOK'
  BY <1>1, <1>2, <1>5 DEF TypeOK, Status, Ownership, Pointers, IsHeap
<1>7. SlotsClear'
  BY <1>1, <1>5, <1>3, OwnersDiffer DEF SlotsClear, o
<1>8. AbsentHoldsNothing'
  BY <1>1, <1>3, <1>4, <1>5, OwnersDiffer DEF AbsentHoldsNothing, Exists
<1>9. CountsWithinCapacity'
  BY <1>1, <1>3, <1>4, <1>5, OwnersDiffer DEF CountsWithinCapacity, TypeOK, Size
<1> QED  BY <1>5, <1>6, <1>7, <1>8, <1>9

\* Giving both strings of the half copied header back.
LEMMA DropHeaderKeeps ==
  ASSUME Inv, CopyValue, UNCHANGED headerCount
  PROVE  /\ Ownership' /\ ptr' \in Pointers(Owner)
         /\ ptr'[NameOf(headerCount + 1)] = NoBlock
         /\ ptr'[ValueOf(headerCount + 1)] = NoBlock
         /\ \A q \in Owner :
              q # NameOf(headerCount + 1) /\ q # ValueOf(headerCount + 1)
                => ptr'[q] = ptr[q] /\ text'[q] = text[q]
<1> DEFINE name == NameOf(headerCount + 1)
           value == ValueOf(headerCount + 1)
           S == {name, value}
           gone == {ptr[name], ptr[value]}
<1>1. name \in SlotOwner /\ value \in SlotOwner /\ headerCount \in Nat
  BY NextSlot DEF CopyValue
<1>2. /\ heap' = Release(heap, gone)
      /\ ptr' = [ptr EXCEPT ![name] = NoBlock, ![value] = NoBlock]
      /\ text' = [text EXCEPT ![name] = EmptyText, ![value] = EmptyText]
      /\ UNCHANGED <<bodyCapacity, headerCapacity>>
  BY <1>1 DEF CopyValue
<1> HIDE DEF name, value
<1>3. /\ S \subseteq Owner /\ Body \notin S /\ Headers \notin S
      /\ ptr \in [Owner -> Block \cup {NoBlock}] /\ text \in [Owner -> Text] /\ Ownership
  BY <1>1, OwnersDiffer DEF Inv, Ownership, Pointers
<1>4. /\ ptr' \in Pointers(Owner)
      /\ ptr'[name] = NoBlock /\ ptr'[value] = NoBlock
      /\ \A q \in S : ptr'[q] = NoBlock
      /\ \A q \in Owner : q \notin S => ptr'[q] = ptr[q]
  BY <1>3, <1>2 DEF Pointers
<1>5. text' \in [Owner -> Text] /\ \A q \in Owner : q \notin S => text'[q] = text[q]
  BY <1>3, <1>2, TextAssumption
<1>6. \A b \in Block : b \in gone <=> \E q \in S : ptr[q] = b
  OBVIOUS
<1>7. heap' = Release(heap, gone)
      /\ (Body \notin S => bodyCapacity' = bodyCapacity)
      /\ (Headers \notin S => headerCapacity' = headerCapacity)
  BY <1>2
<1>8. \A q \in Owner : q # name /\ q # value => q \notin S
  OBVIOUS
<1> HIDE DEF S, gone
<1>9. Ownership'
  BY ONLY <1>3, <1>4, <1>5, <1>6, <1>7, ResetKeeps
<1> QED  BY ONLY <1>4, <1>5, <1>8, <1>9 DEF name, value

LEMMA CopyValueKeeps == ASSUME Inv, CopyValue PROVE Inv'
<1> DEFINE name  == NameOf(headerCount + 1)
           value == ValueOf(headerCount + 1)
<1> USE DEF Inv
<1>1. /\ pc = "value" /\ pc' = "idle" /\ adding' = NoHeader
      /\ UNCHANGED <<method, bodyCapacity, headerCapacity>>
      /\ \/ /\ CopyString(value, adding.value)
            /\ headerCount' = headerCount + 1
            /\ status' = "HEADER_ADDED"
         \/ /\ heap' = Release(heap, {ptr[name], ptr[value]})
            /\ ptr' = [ptr EXCEPT ![name] = NoBlock, ![value] = NoBlock]
            /\ text' = [text EXCEPT ![name] = EmptyText, ![value] = EmptyText]
            /\ status' = "OOM"
            /\ UNCHANGED headerCount
  BY DEF CopyValue
<1>2. adding.value \in Text /\ NoHeader \in [name : Text, value : Text]
  BY TextAssumption DEF TypeOK, NoHeader
<1>3. /\ headerCount + 1 \in Slot /\ name \in SlotOwner /\ value \in SlotOwner
      /\ headerCount \in Nat /\ Exists /\ Ownership
      /\ headerCount + 1 <= headerCapacity
  BY <1>1, NextSlot
<1>4. /\ name \notin {Self, Url, Body, Headers} /\ name[2] = headerCount + 1
      /\ value \notin {Self, Url, Body, Headers} /\ value[2] = headerCount + 1
      /\ Self \in Owner /\ Body \in Owner
  BY <1>3, OwnersDiffer, SlotOwners
<1>5. \A o \in SlotOwner : o[2] \in Nat
                           /\ (o[2] > headerCount /\ ptr[o] # NoBlock => o = name)
  BY <1>1, SlotOwners DEF SlotsClear, Slot
<1> HIDE DEF name, value
<1>6. CASE /\ CopyString(value, adding.value)
           /\ headerCount' = headerCount + 1
           /\ status' = "HEADER_ADDED"
  <2>1. /\ Ownership' /\ ptr' \in Pointers(Owner)
        /\ \A q \in Owner : q # value => ptr'[q] = ptr[q] /\ text'[q] = text[q]
    BY <1>1, <1>2, <1>3, <1>6, CopyStringKeeps
  <2>2. headerCount' \in Size
    <3>1. headerCapacity \in Size /\ SizeMax \in Nat
      BY SizeAssumption DEF TypeOK
    <3> QED  BY ONLY <3>1, <1>3, <1>6 DEF Size
  <2>3. TypeOK'
    BY <1>1, <1>2, <1>6, <2>1, <2>2 DEF TypeOK, Status, Ownership, Pointers, IsHeap
  <2>4. SlotsClear'
    BY <1>3, <1>4, <1>5, <1>6, <2>1, OwnersDiffer DEF SlotsClear
  <2>5. AbsentHoldsNothing' /\ CountsWithinCapacity'
    BY <1>1, <1>3, <1>4, <1>6, <2>1
    DEF AbsentHoldsNothing, Exists, CountsWithinCapacity, TypeOK, Size
  <2> QED  BY <2>1, <2>3, <2>4, <2>5
<1>7. CASE /\ heap' = Release(heap, {ptr[name], ptr[value]})
           /\ ptr' = [ptr EXCEPT ![name] = NoBlock, ![value] = NoBlock]
           /\ text' = [text EXCEPT ![name] = EmptyText, ![value] = EmptyText]
           /\ status' = "OOM"
           /\ UNCHANGED headerCount
  <2>1. /\ Ownership' /\ ptr' \in Pointers(Owner)
        /\ ptr'[name] = NoBlock /\ ptr'[value] = NoBlock
        /\ \A q \in Owner : q # name /\ q # value => ptr'[q] = ptr[q] /\ text'[q] = text[q]
    BY <1>7, DropHeaderKeeps DEF name, value
  <2>2. TypeOK'
    BY <1>1, <1>2, <1>7, <2>1 DEF TypeOK, Status, Ownership, Pointers, IsHeap
  <2>3. SlotsClear'
    BY <1>3, <1>5, <1>7, <2>1, OwnersDiffer DEF SlotsClear
  <2>4. AbsentHoldsNothing' /\ CountsWithinCapacity'
    BY <1>1, <1>3, <1>4, <1>7, <2>1
    DEF AbsentHoldsNothing, Exists, CountsWithinCapacity, TypeOK, Size
  <2> QED  BY <2>1, <2>2, <2>3, <2>4
<1> QED  BY <1>1, <1>6, <1>7

-----------------------------------------------------------------------------
\* Every step of the request builder keeps the invariant.
THEOREM InvNext == Inv /\ [Next]_vars => Inv'
<1> SUFFICES ASSUME Inv, [Next]_vars PROVE Inv'
  OBVIOUS
<1>1. CASE Create    BY <1>1, CreateKeeps
<1>2. CASE Destroy   BY <1>2, DestroyKeeps
<1>3. CASE SetMethod BY <1>3, SetMethodKeeps
<1>4. CASE SetUrl    BY <1>4, SetUrlKeeps
<1>5. CASE SetBody   BY <1>5, SetBodyKeeps
<1>6. CASE AddHeader BY <1>6, AddHeaderKeeps
<1>7. CASE CopyName  BY <1>7, CopyNameKeeps
<1>8. CASE CopyValue BY <1>8, CopyValueKeeps
<1>9. CASE UNCHANGED vars
  BY <1>9, UntouchedKeeps DEF vars, fields, Inv, TypeOK, Status
<1> QED
  BY <1>1, <1>2, <1>3, <1>4, <1>5, <1>6, <1>7, <1>8, <1>9 DEF Next

LEMMA InvAlways == Spec => []Inv
  BY InvInit, InvNext, PTL DEF Spec

\* Every reachable state of the request is well typed.
THEOREM TypeCorrect == Spec => []TypeOK
<1>1. Inv => TypeOK
  BY DEF Inv
<1> QED  BY <1>1, InvAlways, PTL

\* Whichever allocations fail, at every allocator call of every operation: the
\* allocated blocks are exactly the ones the request's fields hold, no block is
\* held twice, and each will be given back with the size it was allocated with.
THEOREM ExactOwnership == Spec => []OwnershipExact
<1>1. Inv => OwnershipExact
  BY InvImplies DEF OwnershipExact
<1> QED  BY <1>1, InvAlways, PTL

\* Between two calls no slot beyond headerCount holds a string: destroy, which
\* looks at the counted slots only, misses none, whichever add_header failed.
THEOREM NothingBehindTheCount == Spec => []UncountedSlotsEmpty
<1>1. Inv => UncountedSlotsEmpty
  BY DEF Inv, SlotsClear, UncountedSlotsEmpty
<1> QED  BY <1>1, InvAlways, PTL

\* The counts stay within the capacities, whose sizes fit size_t.
THEOREM InBounds == Spec => []CountsWithinCapacity
<1>1. Inv => CountsWithinCapacity
  BY DEF Inv
<1> QED  BY <1>1, InvAlways, PTL

\* The two together: destroy resets exactly the slots that hold something.
THEOREM EverySlotAccounted == Spec => []SlotsAccounted
BY NothingBehindTheCount, InBounds, PTL DEF SlotsAccounted

-----------------------------------------------------------------------------
(***************************************************************************)
(* The refinement of RequestContract.  The getters show the counted slots  *)
(* only, so the growth of the array and the copies of a running add_header *)
(* are stutters, and the copy of the value is the step at which the header *)
(* appears.                                                                *)
(***************************************************************************)
Shown == [i \in 1..headerCount |->
            [name |-> text[NameOf(i)], value |-> text[ValueOf(i)]]]

LEMMA NoneShown ==
  ASSUME NEW f, f = [i \in 1..0 |-> f[i]]
  PROVE  f = << >>
  OBVIOUS

LEMMA OneMoreShown ==
  ASSUME NEW S, NEW n \in Nat, NEW f \in [1..n -> S], NEW g \in [1..(n + 1) -> S],
         \A i \in 1..n : g[i] = f[i]
  PROVE  g = Append(f, g[n + 1])
  OBVIOUS

LEMMA ShownKept ==
  ASSUME headerCount' = headerCount,
         \A i \in 1..headerCount : /\ text'[NameOf(i)] = text[NameOf(i)]
                                   /\ text'[ValueOf(i)] = text[ValueOf(i)]
  PROVE  Shown' = Shown
  BY DEF Shown

\* The shown headers have a slot each.
LEMMA ShownSlots ==
  ASSUME Inv
  PROVE  /\ headerCount \in Nat
         /\ \A i \in 1..headerCount : i \in Slot
         /\ Shown \in [1..headerCount -> [name : Text, value : Text]]
<1>1. /\ headerCount \in Nat /\ headerCapacity \in Nat
      /\ headerCount <= headerCapacity /\ headerCapacity * HeaderSize <= SizeMax
      /\ text \in [Owner -> Text]
  BY DEF Inv, TypeOK, CountsWithinCapacity, Size
<1>2. \A i \in 1..headerCount : i \in Slot
  BY <1>1, IndexIsSlot
<1>3. \A i \in 1..headerCount : text[NameOf(i)] \in Text /\ text[ValueOf(i)] \in Text
  BY <1>1, <1>2, SlotOwners, OwnersDiffer
<1> QED  BY <1>1, <1>2, <1>3 DEF Shown

LEMMA RefusedStep ==
  ASSUME NEW code \in {"OOM", "OVERFLOW", "INVALID_ARGUMENT"}, Refuse(code)
  PROVE  Contract!Refused
  BY DEF Refuse, fields, Contract!Refused, Exists

LEMMA BlankShown == ASSUME headerCount = 0 PROVE Shown = << >>
  BY NoneShown DEF Shown

LEMMA BlankShownNext == ASSUME headerCount' = 0 PROVE Shown' = << >>
  BY NoneShown DEF Shown

LEMMA CreateRefines == ASSUME Inv, Inv', Create PROVE Contract!Next
<1>1. CASE Refuse("OOM")
  BY <1>1, RefusedStep DEF Contract!Next
<1>2. CASE ~Refuse("OOM")
  <2>1. /\ ~Exists /\ text' = [o \in Owner |-> EmptyText] /\ method' = NoMethod
        /\ headerCount' = 0 /\ status' = "CREATED"
    BY <1>2 DEF Create
  <2>2. Exists'
    <3>1. PICK b \in Candidates(heap) :
            ptr' = [o \in Owner |-> IF o = Self THEN b ELSE NoBlock]
      BY <1>2 DEF Create
    <3>2. b \in Block
      BY CandidateIsFree
    <3> QED  BY <3>1, <3>2, BlockAssumption, OwnersDiffer DEF Exists
  <2>3. text'[Url] = EmptyText /\ text'[Body] = EmptyText /\ Shown' = << >>
    BY <2>1, OwnersDiffer, BlankShownNext
  <2>4. Contract!Blanked
    BY <2>1, <2>3 DEF Contract!Blanked, Shown
  <2> QED  BY <2>1, <2>2, <2>4 DEF Contract!Next, Contract!Created, Exists
<1> QED  BY <1>1, <1>2

LEMMA DestroyRefines == ASSUME Inv, Inv', Destroy PROVE Contract!Next
<1>1. /\ Exists /\ ptr' = [o \in Owner |-> NoBlock] /\ method' = NoMethod
      /\ text' = [o \in Owner |-> EmptyText] /\ headerCount' = 0 /\ status' = status
  BY DEF Destroy
<1>2. ~Exists'
  BY <1>1, OwnersDiffer DEF Exists
<1>3. text'[Url] = EmptyText /\ text'[Body] = EmptyText /\ Shown' = << >>
  BY <1>1, OwnersDiffer, BlankShownNext
<1>4. Contract!Blanked
  BY <1>1, <1>3 DEF Contract!Blanked, Shown
<1> QED  BY <1>1, <1>2, <1>4 DEF Contract!Next, Contract!Destroyed, Exists

\* Everything but the URL or the body, whichever a call replaces, stays shown.
LEMMA OthersShown ==
  ASSUME Inv, NEW o \in Owner, o # Self,
         \A i \in 1..headerCount : o # NameOf(i) /\ o # ValueOf(i),
         \A q \in Owner : q # o => ptr'[q] = ptr[q] /\ text'[q] = text[q],
         headerCount' = headerCount
  PROVE  /\ Exists' = Exists /\ Shown' = Shown
         /\ o # Url => text'[Url] = text[Url]
         /\ o # Body => text'[Body] = text[Body]
<1>1. Exists' = Exists
  BY OwnersDiffer DEF Exists
<1>2. \A i \in 1..headerCount : /\ text'[NameOf(i)] = text[NameOf(i)]
                                /\ text'[ValueOf(i)] = text[ValueOf(i)]
  BY ShownSlots, SlotOwners, OwnersDiffer
<1>3. Shown' = Shown
  BY <1>2, ShownKept
<1> QED  BY <1>1, <1>3, OwnersDiffer

LEMMA SetMethodRefines == ASSUME Inv, Inv', SetMethod PROVE Contract!Next
<1>1. CASE Refuse("INVALID_ARGUMENT")
  BY <1>1, RefusedStep DEF Contract!Next
<1>2. CASE ~Refuse("INVALID_ARGUMENT")
  <2>1. /\ Exists /\ method' \in Method /\ status' = "METHOD_SET"
        /\ UNCHANGED <<ptr, text, headerCount>>
    BY <1>2 DEF SetMethod
  <2>2. Contract!MethodSet
    BY <2>1 DEF Contract!MethodSet, Exists
  <2> QED  BY <2>2 DEF Contract!Next
<1> QED  BY <1>1, <1>2

LEMMA SetUrlRefines == ASSUME Inv, Inv', SetUrl PROVE Contract!Next
<1>1. CASE Refuse("INVALID_ARGUMENT")
  BY <1>1, RefusedStep DEF Contract!Next
<1>2. CASE ~Refuse("INVALID_ARGUMENT")
  <2>1. PICK t \in Text :
          /\ Exists /\ t.len # 0
          /\ \/ CopyString(Url, t) /\ status' = "URL_SET"
             \/ CopyStringFails(Url) /\ status' = "OOM"
          /\ UNCHANGED <<method, bodyCapacity, headerCount, headerCapacity>>
    BY <1>2 DEF SetUrl
  <2>2. /\ \A q \in Owner : q # Url => ptr'[q] = ptr[q] /\ text'[q] = text[q]
        /\ \/ text'[Url] = t /\ status' = "URL_SET"
           \/ text'[Url] = EmptyText /\ status' = "OOM"
    <3>1. CASE CopyString(Url, t) /\ status' = "URL_SET"
      <4>1. text \in [Owner -> Text] /\ text' = [text EXCEPT ![Url] = t]
        BY <3>1 DEF CopyString, Inv, Ownership
      <4>2. text'[Url] = t
        BY <4>1, OwnersDiffer
      <4> QED  BY <2>1, <3>1, <4>2, CopyStringKeeps DEF Inv
    <3>2. CASE CopyStringFails(Url) /\ status' = "OOM"
      BY <2>1, <3>2, OwnersDiffer, CopyStringFailsKeeps DEF Inv
    <3> QED  BY <2>1, <3>1, <3>2
  <2>3. \A i \in 1..headerCount : Url # NameOf(i) /\ Url # ValueOf(i)
    BY DEF Url, NameOf, ValueOf
  <2>4. Exists' = Exists /\ Shown' = Shown /\ text'[Body] = text[Body]
    BY <2>1, <2>2, <2>3, OwnersDiffer, OthersShown
  <2>5. t # EmptyText
    BY <2>1, TextAssumption
  <2>6. Contract!UrlReplaced
    BY <2>1, <2>2, <2>4, <2>5 DEF Contract!UrlReplaced, Shown
  <2> QED  BY <2>6 DEF Contract!Next
<1> QED  BY <1>1, <1>2

LEMMA SetBodyRefines == ASSUME Inv, Inv', SetBody PROVE Contract!Next
<1>1. CASE Refuse("INVALID_ARGUMENT")
  BY <1>1, RefusedStep DEF Contract!Next
<1>2. CASE ~Refuse("INVALID_ARGUMENT")
  <2>1. PICK t \in Text :
          /\ Exists /\ UNCHANGED <<method, headerCount>>
          /\ \E b \in Block \cup {NoBlock} : ptr' = [ptr EXCEPT ![Body] = b]
          /\ \/ text' = [text EXCEPT ![Body] = t] /\ status' = "BODY_SET"
             \/ text' = [text EXCEPT ![Body] = EmptyText] /\ status' \in {"BODY_SET", "OOM"}
    BY <1>2, CandidateIsFree DEF SetBody, CopyStringFails
  <2>2. ptr \in [Owner -> Block \cup {NoBlock}] /\ text \in [Owner -> Text]
    BY DEF Inv, Ownership, Pointers
  <2>3. \A q \in Owner : q # Body => ptr'[q] = ptr[q] /\ text'[q] = text[q]
    BY <2>1, <2>2
  <2>4. /\ text'[Body] \in Text
        /\ \/ status' = "BODY_SET"
           \/ text'[Body] = EmptyText /\ status' = "OOM"
    BY <2>1, <2>2, TextAssumption, OwnersDiffer
  <2>5. \A i \in 1..headerCount : Body # NameOf(i) /\ Body # ValueOf(i)
    BY DEF Body, NameOf, ValueOf
  <2>6. Exists' = Exists /\ Shown' = Shown /\ text'[Url] = text[Url]
    BY <2>1, <2>3, <2>5, OwnersDiffer, OthersShown
  <2>7. Contract!BodyReplaced
    BY <2>1, <2>4, <2>6 DEF Contract!BodyReplaced, Shown
  <2> QED  BY <2>7 DEF Contract!Next
<1> QED  BY <1>1, <1>2

LEMMA AddHeaderRefines ==
  ASSUME Inv, Inv', AddHeader PROVE Contract!Next \/ UNCHANGED Contract!vars
<1>1. CASE \E code \in {"OOM", "OVERFLOW", "INVALID_ARGUMENT"} : Refuse(code)
  BY <1>1, RefusedStep DEF Contract!Next
<1>2. CASE ~\E code \in {"OOM", "OVERFLOW", "INVALID_ARGUMENT"} : Refuse(code)
  <2>1. /\ text' = text /\ UNCHANGED <<method, headerCount, status>>
        /\ Exists
    BY <1>2 DEF AddHeader, GrowHeaders, fields
  <2>2. pc' = "name"
    BY <1>2 DEF AddHeader
  <2>3. Exists'
    BY <2>2 DEF Inv, AbsentHoldsNothing
  <2> QED  BY <2>1, <2>3 DEF Contract!vars, Exists
<1> QED  BY <1>1, <1>2

LEMMA CopyNameRefines ==
  ASSUME Inv, Inv', CopyName PROVE Contract!Next \/ UNCHANGED Contract!vars
<1> DEFINE o == NameOf(headerCount + 1)
<1>1. /\ UNCHANGED <<method, bodyCapacity, headerCount, headerCapacity>>
      /\ \/ CopyString(o, adding.name) /\ UNCHANGED status
         \/ CopyStringFails(o) /\ status' = "OOM"
  BY DEF CopyName
<1>2. adding.name \in Text /\ o \in SlotOwner /\ o \in Owner /\ o # Self /\ o # Body
      /\ o # Url /\ headerCount \in Nat
  BY NextSlot, OwnersDiffer DEF CopyName, Inv, TypeOK
<1>3. \A q \in Owner : q # o => ptr'[q] = ptr[q] /\ text'[q] = text[q]
  BY <1>1, <1>2, CopyStringKeeps, CopyStringFailsKeeps DEF Inv
<1>4. \A i \in 1..headerCount : o # NameOf(i) /\ o # ValueOf(i)
  BY <1>2 DEF NameOf, ValueOf
<1> HIDE DEF o
<1>5. /\ Exists' = Exists /\ Shown' = Shown
      /\ text'[Url] = text[Url] /\ text'[Body] = text[Body]
  BY <1>1, <1>2, <1>3, <1>4, OthersShown
<1> QED
  BY <1>1, <1>5 DEF Contract!Next, Contract!Refused, Contract!vars, Shown

LEMMA CopyValueRefines == ASSUME Inv, Inv', CopyValue PROVE Contract!Next
<1> DEFINE n     == headerCount
           name  == NameOf(n + 1)
           value == ValueOf(n + 1)
<1>1. /\ UNCHANGED <<method, bodyCapacity, headerCapacity>>
      /\ \/ /\ CopyString(value, adding.value)
            /\ headerCount' = n + 1 /\ status' = "HEADER_ADDED"
         \/ /\ ptr' = [ptr EXCEPT ![name] = NoBlock, ![value] = NoBlock]
            /\ text' = [text EXCEPT ![name] = EmptyText, ![value] = EmptyText]
            /\ headerCount' = n /\ status' = "OOM"
  BY DEF CopyValue
<1>2. /\ name \in Owner /\ value \in Owner /\ value \in SlotOwner
      /\ name \notin {Self, Url, Body} /\ value \notin {Self, Url, Body}
      /\ headerCount \in Nat /\ adding.value \in Text
      /\ Self \in Owner /\ Url \in Owner /\ Body \in Owner /\ Exists
      /\ \A i \in 1..n : NameOf(i) \in Owner /\ ValueOf(i) \in Owner
  BY NextSlot, ShownSlots, SlotOwners, OwnersDiffer DEF CopyValue, Inv, TypeOK
<1>3. /\ ptr \in [Owner -> Block \cup {NoBlock}] /\ text \in [Owner -> Text]
  BY DEF Inv, Ownership, Pointers
<1>4. \A i \in 1..n : NameOf(i) \notin {name, value} /\ ValueOf(i) \notin {name, value}
  BY <1>2 DEF NameOf, ValueOf
<1> HIDE DEF name, value
<1>5. \A q \in Owner : q \notin {name, value} => ptr'[q] = ptr[q] /\ text'[q] = text[q]
  <2>1. CASE CopyString(value, adding.value)
    BY <1>1, <1>2, <2>1, <1>3 DEF CopyString
  <2>2. CASE ~CopyString(value, adding.value)
    BY <1>1, <1>2, <2>2, <1>3
  <2> QED  BY <2>1, <2>2
<1>6. /\ Exists' = Exists /\ text'[Url] = text[Url] /\ text'[Body] = text[Body]
  BY <1>2, <1>5 DEF Exists
<1>7. CASE headerCount' = n /\ status' = "OOM"
  <2>1. Shown' = Shown
    BY <1>2, <1>4, <1>5, <1>7, ShownKept
  <2> QED  BY <1>1, <1>6, <1>7, <2>1 DEF Contract!Next, Contract!Refused, Shown
<1>8. CASE headerCount' = n + 1 /\ status' = "HEADER_ADDED"
  <2> DEFINE H == [name : Text, value : Text]
  <2>1. Shown \in [1..n -> H]
    BY ShownSlots
  <2>2. Shown' \in [1..(n + 1) -> H]
    <3>1. /\ \A i \in 1..headerCount' : i \in Slot
          /\ text' \in [Owner -> Text]
      BY IndexIsSlot DEF Inv, TypeOK, CountsWithinCapacity, Size
    <3>2. \A i \in 1..(n + 1) : text'[NameOf(i)] \in Text /\ text'[ValueOf(i)] \in Text
      BY <1>8, <3>1, SlotOwners, OwnersDiffer
    <3> QED  BY <1>8, <3>2 DEF Shown
  <2>3. \A i \in 1..n : Shown'[i] = Shown[i]
    BY <1>2, <1>4, <1>5, <1>8 DEF Shown
  <2>4. Shown' = Append(Shown, Shown'[n + 1]) /\ Shown'[n + 1] \in H
    BY <1>2, <2>1, <2>2, <2>3, OneMoreShown
  <2>5. PICK h \in H : Shown' = Append(Shown, h)
    BY <2>4
  <2>6. h = [name |-> h.name, value |-> h.value] /\ h.name \in Text /\ h.value \in Text
    BY <2>5
  <2>7. Contract!HeaderAdded
    BY <1>1, <1>2, <1>6, <1>8, <2>5, <2>6 DEF Contract!HeaderAdded, Shown
  <2> QED  BY <2>7 DEF Contract!Next
<1> QED  BY <1>1, <1>7, <1>8

\* The request builder implements its contract: a call has its whole effect or
\* reports a failure, headers are appended complete and in order, and nothing
\* of a failed add_header can be seen, whichever allocation failed.
THEOREM ContractImplemented == Spec => ImplementsContract
<1>1. Init => Contract!Init
  <2> SUFFICES ASSUME Init PROVE Contract!Init
    OBVIOUS
  <2>1. Exists = FALSE /\ Shown = << >> /\ text[Url] = EmptyText /\ text[Body] = EmptyText
    BY BlankShown, OwnersDiffer DEF Init, Exists
  <2> QED  BY <2>1 DEF Init, Contract!Init, Contract!Blank, Shown
<1>2. Inv /\ Inv' /\ [Next]_vars => [Contract!Next]_(Contract!vars)
  <2> SUFFICES ASSUME Inv, Inv', [Next]_vars
               PROVE  Contract!Next \/ UNCHANGED Contract!vars
    OBVIOUS
  <2>1. CASE Create    BY <2>1, CreateRefines
  <2>2. CASE Destroy   BY <2>2, DestroyRefines
  <2>3. CASE SetMethod BY <2>3, SetMethodRefines
  <2>4. CASE SetUrl    BY <2>4, SetUrlRefines
  <2>5. CASE SetBody   BY <2>5, SetBodyRefines
  <2>6. CASE AddHeader BY <2>6, AddHeaderRefines
  <2>7. CASE CopyName  BY <2>7, CopyNameRefines
  <2>8. CASE CopyValue BY <2>8, CopyValueRefines
  <2>9. CASE UNCHANGED vars
    BY <2>9 DEF vars, fields, Contract!vars, Exists
  <2> QED
    BY <2>1, <2>2, <2>3, <2>4, <2>5, <2>6, <2>7, <2>8, <2>9 DEF Next
<1> QED  BY <1>1, <1>2, InvAlways, PTL DEF Spec, ImplementsContract, Contract!Spec

-----------------------------------------------------------------------------
(***************************************************************************)
(* The growth loop.  While it runs, the loop variable is a doubling of the *)
(* starting capacity, the first that could hold what is required: if it    *)
(* was doubled at all, it was less before.                                 *)
(***************************************************************************)
Doubling(n, k) ==
  LET start == GrowthStart(capacity, First)
  IN  /\ n = start * PowerOfTwo[k]
      /\ n = start \/ n \div 2 < required

LoopInv ==
  /\ LoopTypeOK
  /\ next > 0
  /\ next >= capacity
  /\ required > capacity
  /\ at = "loop" => \E k \in Nat : Doubling(next, k)
  /\ GrownEnough
  /\ LoopComputesGrown

\* An iteration that doubles stays within size_t.
LEMMA DoublingFits ==
  ASSUME NEW n \in Size, ~(n > SizeMax \div 2)
  PROVE  (2 * n) % (SizeMax + 1) = 2 * n /\ 2 * n \in Size
<1>1. n \in Nat /\ SizeMax \in Nat /\ 2 * n <= SizeMax
  BY SizeAssumption DEF Size
<1> QED  BY <1>1 DEF Size

LEMMA StartPositive ==
  ASSUME LoopTypeOK
  PROVE  GrowthStart(capacity, First) \in Nat \ {0} /\ GrowthStart(capacity, First) <= SizeMax
  BY SizeAssumption, FirstAssumption DEF LoopTypeOK, Size, GrowthStart

\* A capacity that is a size was doubled fewer times than size_t has bits.
LEMMA DoubledWithinWidth ==
  ASSUME NEW start \in Nat \ {0}, NEW k \in Nat, start * PowerOfTwo[k] <= SizeMax
  PROVE  k \in 0..WordBits
<1> SUFFICES ASSUME k > WordBits PROVE FALSE
  BY SizeAssumption
<1> DEFINE high == PowerOfTwo[k]
           low  == PowerOfTwo[WordBits]
<1>1. WordBits \in Nat /\ low = SizeMax + 1 /\ SizeMax \in Nat
  BY PowersOfTwo, SizeAssumption, WidthAssumption
<1>2. high \in Nat /\ 2 * low <= high
  BY <1>1, PowersOfTwo, PowersGrow
<1>3. start * high >= high
  <2> HIDE DEF high
  <2> QED  BY <1>2
<1> HIDE DEF high, low
<1> QED  BY <1>1, <1>2, <1>3 DEF high

\* The capacity at which the loop may stop is unique.
LEMMA StopsAtOne ==
  ASSUME NEW start \in Nat \ {0}, NEW needed \in Nat, NEW j \in Nat, NEW k \in Nat,
         start * PowerOfTwo[j] >= needed, start * PowerOfTwo[k] >= needed,
         j < k, start * PowerOfTwo[k] = start \/ (start * PowerOfTwo[k]) \div 2 < needed
  PROVE  FALSE
<1> DEFINE a == start * PowerOfTwo[j]
           b == start * PowerOfTwo[k]
<1>1. a \in Nat /\ b \in Nat /\ 2 * a <= b
  BY DoublingsGrow
<1>2. 2 * (start * PowerOfTwo[0]) <= b
  BY DoublingsGrow
<1>3. start * PowerOfTwo[0] = start
  BY PowersOfTwo
<1> HIDE DEF a, b
<1>4. b # start
  BY <1>1, <1>2, <1>3
<1>5. b \div 2 >= a
  BY <1>1
<1>6. a >= needed /\ (b = start \/ b \div 2 < needed)
  BY DEF a, b
<1>7. b \div 2 \in Nat
  BY <1>1
<1> QED  BY <1>1, <1>4, <1>5, <1>6, <1>7

\* The loop variable, once it suffices, is what Grown chooses.
LEMMA LeavesWithGrown ==
  ASSUME LoopTypeOK, next >= required, NEW k \in Nat, Doubling(next, k)
  PROVE  next = Grown(capacity, required, First)
<1> DEFINE start == GrowthStart(capacity, First)
           stops == StoppingSize(capacity, required, First)
<1>1. start \in Nat \ {0} /\ required \in Nat /\ next \in Nat /\ SizeMax \in Nat /\ next <= SizeMax
  BY StartPositive, SizeAssumption DEF LoopTypeOK, Size
<1>2. next = start * PowerOfTwo[k] /\ (next = start \/ next \div 2 < required)
  BY DEF Doubling
<1>3. next \in stops
  <2>1. k \in 0..WordBits
    <3> HIDE DEF start
    <3> QED  BY <1>1, <1>2, DoubledWithinWidth
  <2> QED  BY <1>1, <1>2, <2>1 DEF StoppingSize
<1>4. ASSUME NEW n \in stops PROVE n = next
  <2>1. PICK j \in 0..WordBits : n = start * PowerOfTwo[j]
    BY DEF StoppingSize
  <2>2. n >= required /\ (n = start \/ n \div 2 < required)
    BY DEF StoppingSize
  <2>3. j \in Nat
    BY SizeAssumption
  <2> HIDE DEF start, stops
  <2>4. ~(j < k)
    BY <1>1, <1>2, <2>1, <2>2, <2>3, StopsAtOne
  <2>5. ~(k < j)
    BY <1>1, <1>2, <2>1, <2>2, <2>3, StopsAtOne
  <2>6. j = k
    BY <2>3, <2>4, <2>5
  <2> QED  BY <1>2, <2>1, <2>6
<1> QED  BY <1>3, <1>4 DEF Grown

\* When the next doubling does not fit, no doubling suffices and fits.
LEMMA NoDoublingFits ==
  ASSUME LoopTypeOK, next < required, next > SizeMax \div 2, NEW k \in Nat, Doubling(next, k)
  PROVE  Grown(capacity, required, First) = required
<1> DEFINE start == GrowthStart(capacity, First)
           stops == StoppingSize(capacity, required, First)
<1>1. start \in Nat \ {0} /\ required \in Nat /\ next \in Nat /\ SizeMax \in Nat
  BY StartPositive, SizeAssumption DEF LoopTypeOK, Size
<1>2. next = start * PowerOfTwo[k]
  BY DEF Doubling
<1>3. ASSUME NEW n \in stops PROVE FALSE
  <2>1. PICK j \in 0..WordBits : n = start * PowerOfTwo[j]
    BY DEF StoppingSize
  <2>2. n >= required /\ n <= SizeMax /\ n \in Nat
    BY <1>1 DEF StoppingSize
  <2>3. j \in Nat
    BY SizeAssumption
  <2> HIDE DEF start, stops
  <2>4. CASE j < k
    <3>1. 2 * n <= next
      BY <1>1, <1>2, <2>1, <2>3, <2>4, DoublingsGrow
    <3> QED  BY <1>1, <2>2, <3>1
  <2>5. CASE j = k
    BY <1>1, <1>2, <2>1, <2>2, <2>5
  <2>6. CASE k < j
    <3>1. 2 * next <= n
      BY <1>1, <1>2, <2>1, <2>3, <2>6, DoublingsGrow
    <3> QED  BY <1>1, <2>2, <3>1
  <2> QED  BY <2>3, <2>4, <2>5, <2>6
<1>4. stops = {}
  <2> HIDE DEF stops
  <2> QED  BY <1>3
<1> QED  BY <1>4 DEF Grown

LEMMA LoopInvInit == LoopInit => LoopInv
<1> SUFFICES ASSUME LoopInit PROVE LoopInv
  OBVIOUS
<1>1. LoopTypeOK /\ next > 0 /\ next >= capacity /\ required > capacity /\ at = "loop"
  BY SizeAssumption, FirstAssumption DEF LoopInit, LoopTypeOK, GrowthStart, Size
<1>2. Doubling(next, 0)
  BY <1>1, StartPositive, PowersOfTwo DEF LoopInit, Doubling
<1> QED  BY <1>1, <1>2 DEF LoopInv, GrownEnough, LoopComputesGrown

LEMMA LoopInvNext == LoopInv /\ [Iterate]_loopVars => LoopInv'
<1> SUFFICES ASSUME LoopInv, [Iterate]_loopVars PROVE LoopInv'
  OBVIOUS
<1>1. /\ LoopTypeOK /\ SizeMax \in Nat /\ next \in Nat /\ required \in Nat /\ capacity \in Nat
      /\ required <= SizeMax /\ next > 0 /\ next >= capacity /\ required > capacity
  BY SizeAssumption DEF LoopInv, LoopTypeOK, Size
<1>2. CASE LeaveLoop
  <2>1. PICK k \in Nat : Doubling(next, k)
    BY <1>2 DEF LoopInv, LeaveLoop
  <2>2. next = Grown(capacity, required, First)
    BY <1>1, <1>2, <2>1, LeavesWithGrown DEF LeaveLoop
  <2> QED  BY <1>1, <1>2, <2>2 DEF LeaveLoop, LoopInv, LoopTypeOK, GrownEnough, LoopComputesGrown
<1>3. CASE TakeRequired
  <2>1. PICK k \in Nat : Doubling(next, k)
    BY <1>3 DEF LoopInv, TakeRequired
  <2>2. Grown(capacity, required, First) = required
    BY <1>1, <1>3, <2>1, NoDoublingFits DEF TakeRequired
  <2> QED  BY <1>1, <1>3, <2>2
           DEF TakeRequired, LoopInv, LoopTypeOK, GrownEnough, LoopComputesGrown, Size
<1>4. CASE DoubleNext
  <2>1. next' = 2 * next /\ next' \in Size
    BY <1>1, <1>4, DoublingFits DEF DoubleNext, LoopTypeOK
  <2>2. PICK k \in Nat : Doubling(next, k)
    BY <1>4 DEF LoopInv, DoubleNext
  <2>3. Doubling(next, k + 1)'
    <3> DEFINE start == GrowthStart(capacity, First)
               power == PowerOfTwo[k]
    <3>1. start \in Nat /\ power \in Nat /\ PowerOfTwo[k + 1] = 2 * power /\ next = start * power
      BY <1>1, <2>2, StartPositive, PowersOfTwo DEF Doubling
    <3>2. next' \div 2 < required
      BY <1>1, <1>4, <2>1 DEF DoubleNext
    <3>3. start' = start /\ required' = required
      BY <1>4 DEF DoubleNext, GrowthStart
    <3>4. 2 * next = start * PowerOfTwo[k + 1]
      <4> HIDE DEF start, power
      <4>1. start * (2 * power) = 2 * (start * power)
        BY <3>1
      <4> QED  BY <3>1, <4>1
    <3> QED  BY <2>1, <3>2, <3>3, <3>4 DEF Doubling
  <2> QED  BY <1>1, <1>4, <2>1, <2>3
           DEF DoubleNext, LoopInv, LoopTypeOK, GrownEnough, LoopComputesGrown
<1>5. CASE UNCHANGED loopVars
  BY <1>5 DEF loopVars, LoopInv, LoopTypeOK, GrownEnough, LoopComputesGrown, Doubling
<1> QED  BY <1>2, <1>3, <1>4, <1>5 DEF Iterate

LEMMA LoopInvAlways == LoopSpec => []LoopInv
  BY LoopInvInit, LoopInvNext, PTL DEF LoopSpec

\* The loop ends with a size that is enough, for every SIZE_MAX.
THEOREM GrowthSuffices == LoopSpec => []GrownEnough
<1>1. LoopInv => GrownEnough
  BY DEF LoopInv
<1> QED  BY <1>1, LoopInvAlways, PTL

\* The size it ends with is the one Grown describes: the modules that use Grown
\* instead of the loop say what the code does.
THEOREM GrowthIsGrown == LoopSpec => []LoopComputesGrown
<1>1. LoopInv => LoopComputesGrown
  BY DEF LoopInv
<1> QED  BY <1>1, LoopInvAlways, PTL

\* Every iteration increases the loop variable: the product never wraps.
THEOREM GrowthNeverWraps == LoopSpec => NeverWraps
<1>1. LoopInv /\ [Iterate]_loopVars => [next' >= next]_loopVars
  <2> SUFFICES ASSUME LoopInv, Iterate PROVE next' >= next
    OBVIOUS
  <2> USE SizeAssumption DEF LoopInv, LoopTypeOK, Size
  <2>1. CASE LeaveLoop
    BY <2>1 DEF LeaveLoop
  <2>2. CASE TakeRequired
    BY <2>2 DEF TakeRequired
  <2>3. CASE DoubleNext
    BY <2>3, DoublingFits DEF DoubleNext
  <2> QED  BY <2>1, <2>2, <2>3 DEF Iterate
<1> QED  BY <1>1, LoopInvInit, LoopInvNext, PTL DEF LoopSpec, NeverWraps
=============================================================================
