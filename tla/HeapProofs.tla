----------------------------- MODULE HeapProofs -----------------------------
(***************************************************************************)
(* Lemmas about the runtime's size arithmetic and about blocks and their   *)
(* owners, for every width of size_t and every allocator.                  *)
(***************************************************************************)
EXTENDS Heap, WellFoundedInduction, TLAPS

-----------------------------------------------------------------------------
\* Induction over the numbers, with a set for the property.
LEMMA LeastElement ==
  ASSUME NEW S, S \subseteq Nat, S # {}
  PROVE  \E least \in S : \A n \in S : least <= n
<1> DEFINE Less == {pair \in Nat \X Nat : pair[1] < pair[2]}
<1>1. OpToRel(<, Nat) = Less
  BY DEF OpToRel
<1>2. IsWellFoundedOn(Less, Nat)
  BY <1>1, NatLessThanWellFounded
<1> HIDE DEF Less
<1>3. PICK least \in S : \A n \in S : <<n, least>> \notin Less
  BY <1>2, WFMin
<1>4. \A n \in S : ~(n < least)
  BY <1>3 DEF Less
<1> QED  BY <1>4

LEMMA Induction ==
  ASSUME NEW S, 0 \in S, \A n \in Nat : n \in S => n + 1 \in S
  PROVE  Nat \subseteq S
<1> SUFFICES ASSUME Nat \ S # {} PROVE FALSE
  OBVIOUS
<1>1. PICK least \in Nat \ S : \A n \in Nat \ S : least <= n
  BY LeastElement
<1>2. least # 0 /\ least - 1 \in Nat /\ least - 1 \in S
  BY <1>1
<1> QED  BY <1>1, <1>2

\* A step from values to values can be iterated.
LEMMA Iteration ==
  ASSUME NEW S, NEW first \in S, NEW step \in [S -> S]
  PROVE  \E f \in [Nat -> S] : f[0] = first /\ \A n \in Nat : f[n + 1] = step[f[n]]
<1> DEFINE UpTo(n, f) == /\ f \in [0..n -> S]
                         /\ f[0] = first
                         /\ \A i \in 0..(n - 1) : f[i + 1] = step[f[i]]
           Reached == {n \in Nat : \E f : UpTo(n, f)}
<1>1. 0 \in Reached
  <2>1. UpTo(0, [i \in 0..0 |-> first])
    OBVIOUS
  <2> QED  BY <2>1
<1>2. ASSUME NEW n \in Nat, n \in Reached PROVE n + 1 \in Reached
  <2>1. PICK f : UpTo(n, f)
    BY <1>2
  <2> DEFINE g == [i \in 0..(n + 1) |-> IF i = n + 1 THEN step[f[n]] ELSE f[i]]
  <2>2. UpTo(n + 1, g)
    <3>1. g \in [0..(n + 1) -> S] /\ g[0] = first
      BY <2>1
    <3>2. ASSUME NEW i \in 0..n PROVE g[i + 1] = step[g[i]]
      BY <2>1
    <3> QED  BY <3>1, <3>2
  <2>3. \E h : UpTo(n + 1, h)
    <3> HIDE DEF g, UpTo
    <3> QED  BY <2>2
  <2> QED  BY <2>3
<1>3. Nat \subseteq Reached
  <2> HIDE DEF Reached
  <2> QED  BY <1>1, <1>2, Induction
<1> DEFINE Until(n) == CHOOSE f : UpTo(n, f)
           iterates == [n \in Nat |-> Until(n)[n]]
<1>4. \A n \in Nat : UpTo(n, Until(n))
  BY <1>3
<1>5. ASSUME NEW n \in Nat PROVE Until(n + 1)[n] = Until(n)[n]
  <2> DEFINE Same == {i \in Nat : i <= n => Until(n + 1)[i] = Until(n)[i]}
  <2> HIDE DEF Until
  <2>1. UpTo(n, Until(n)) /\ UpTo(n + 1, Until(n + 1))
    BY <1>4
  <2>2. 0 \in Same
    BY <2>1
  <2>3. ASSUME NEW i \in Nat, i \in Same PROVE i + 1 \in Same
    BY <2>1, <2>3
  <2>4. Nat \subseteq Same
    <3> HIDE DEF Same
    <3> QED  BY <2>2, <2>3, Induction
  <2> QED  BY <2>4
<1>6. iterates \in [Nat -> S] /\ iterates[0] = first
  <2> HIDE DEF Until
  <2> QED  BY <1>4
<1>7. ASSUME NEW n \in Nat PROVE iterates[n + 1] = step[iterates[n]]
  <2> HIDE DEF Until
  <2>1. UpTo(n + 1, Until(n + 1))
    BY <1>4
  <2>2. Until(n + 1)[n + 1] = step[Until(n + 1)[n]]
    BY <2>1
  <2> QED  BY <1>5, <2>2
<1> QED  BY <1>6, <1>7

\* The powers of two are what their definition says: it has a solution.
LEMMA PowersOfTwo ==
  /\ PowerOfTwo[0] = 1
  /\ \A k \in Nat : /\ PowerOfTwo[k] \in Nat \ {0}
                     /\ PowerOfTwo[k + 1] = 2 * PowerOfTwo[k]
<1> DEFINE Solves(f) == f = [k \in Nat |-> IF k = 0 THEN 1 ELSE 2 * f[k - 1]]
           S    == Nat \ {0}
           step == [n \in S |-> 2 * n]
<1>1. \E f : Solves(f)
  <2>1. 1 \in S /\ step \in [S -> S]
    OBVIOUS
  <2> HIDE DEF S, step
  <2>2. PICK f \in [Nat -> S] : f[0] = 1 /\ \A n \in Nat : f[n + 1] = step[f[n]]
    <3>1. step \in [S -> S]
      BY <2>1
    <3>2. ASSUME NEW x \in S
          PROVE  \E f \in [Nat -> S] : f[0] = x /\ \A n \in Nat : f[n + 1] = step[f[n]]
      BY ONLY <3>1, <3>2, Iteration
    <3> QED  BY <2>1, <3>2
  <2>3. ASSUME NEW k \in Nat PROVE f[k] = IF k = 0 THEN 1 ELSE 2 * f[k - 1]
    <3>1. CASE k = 0
      BY <2>2, <3>1
    <3>2. CASE k # 0
      <4>1. k - 1 \in Nat /\ (k - 1) + 1 = k
        BY <3>2
      <4>2. f[k] = step[f[k - 1]] /\ f[k - 1] \in S
        BY <2>2, <4>1
      <4> QED  BY <3>2, <4>2 DEF step
    <3> QED  BY <3>1, <3>2
  <2> QED  BY <2>2, <2>3
<1>2. PowerOfTwo = CHOOSE f : Solves(f)
  BY DEF PowerOfTwo
<1>3. Solves(PowerOfTwo)
  <2> HIDE DEF Solves
  <2> QED  BY <1>1, <1>2
<1>4. ASSUME NEW k \in Nat PROVE PowerOfTwo[k] = IF k = 0 THEN 1 ELSE 2 * PowerOfTwo[k - 1]
  BY <1>3
<1>5. PowerOfTwo[0] = 1 /\ \A k \in Nat : PowerOfTwo[k + 1] = 2 * PowerOfTwo[k]
  BY <1>4
<1> DEFINE Positive == {k \in Nat : PowerOfTwo[k] \in Nat \ {0}}
<1>6. Nat \subseteq Positive
  <2>1. 0 \in Positive
    BY <1>5
  <2>2. ASSUME NEW k \in Nat, k \in Positive PROVE k + 1 \in Positive
    BY <1>5, <2>2
  <2> HIDE DEF Positive
  <2> QED  BY <2>1, <2>2, Induction
<1> QED  BY <1>5, <1>6

\* A higher power is at least twice a lower one.
LEMMA PowersGrow ==
  ASSUME NEW j \in Nat, NEW k \in Nat, j < k
  PROVE  2 * PowerOfTwo[j] <= PowerOfTwo[k]
<1> DEFINE Above == {n \in Nat : 2 * PowerOfTwo[j] <= PowerOfTwo[j + 1 + n]}
<1>1. 0 \in Above
  BY PowersOfTwo
<1>2. ASSUME NEW n \in Nat, n \in Above PROVE n + 1 \in Above
  <2>1. j + 1 + n \in Nat /\ j + 1 + (n + 1) = (j + 1 + n) + 1
    OBVIOUS
  <2>2. /\ PowerOfTwo[j + 1 + (n + 1)] = 2 * PowerOfTwo[j + 1 + n]
        /\ PowerOfTwo[j + 1 + n] \in Nat \ {0} /\ PowerOfTwo[j] \in Nat
    BY <2>1, PowersOfTwo
  <2> QED  BY <1>2, <2>2
<1>3. Nat \subseteq Above
  <2> HIDE DEF Above
  <2> QED  BY <1>1, <1>2, Induction
<1>4. k - j - 1 \in Nat /\ j + 1 + (k - j - 1) = k
  OBVIOUS
<1> QED  BY <1>3, <1>4

\* The same for a capacity that was doubled so often.
LEMMA DoublingsGrow ==
  ASSUME NEW start \in Nat, NEW j \in Nat, NEW k \in Nat, j < k
  PROVE  /\ start * PowerOfTwo[j] \in Nat /\ start * PowerOfTwo[k] \in Nat
         /\ 2 * (start * PowerOfTwo[j]) <= start * PowerOfTwo[k]
<1> DEFINE a == PowerOfTwo[j]
           b == PowerOfTwo[k]
<1>1. a \in Nat /\ b \in Nat /\ 2 * a <= b
  BY PowersOfTwo, PowersGrow
<1> HIDE DEF a, b
<1>2. start * (2 * a) <= start * b
  BY <1>1
<1>3. start * (2 * a) = 2 * (start * a)
  BY <1>1
<1> QED  BY <1>1, <1>2, <1>3 DEF a, b

-----------------------------------------------------------------------------
\* checked_add accepts two sizes exactly when their sum is a size.
LEMMA AddFitsExact ==
  ASSUME NEW left \in Size, NEW right \in Size
  PROVE  AddFits(left, right) <=> left + right \in Size
  BY SizeAssumption DEF AddFits, Size

\* checked_mul accepts two numbers exactly when their product is a size: the
\* division by `left` that it uses instead of the product loses nothing.
LEMMA ProductFits ==
  ASSUME NEW left \in Nat, NEW right \in Nat
  PROVE  MulFits(left, right) <=> left * right \in Size
<1>1. CASE left = 0
  BY <1>1, SizeAssumption DEF MulFits, Size
<1>2. CASE left # 0
  <2> DEFINE q == SizeMax \div left
             r == SizeMax % left
  <2>1. left \in Nat \ {0} /\ right \in Nat /\ SizeMax \in Nat
    BY <1>2, SizeAssumption
  <2>2. q \in Nat /\ r \in 0..(left - 1) /\ SizeMax = left * q + r
    BY <2>1
  <2>3. left * right \in Nat /\ left * q \in Nat
    BY <2>1, <2>2
  <2>4. CASE right <= q
    <3>1. left * right <= left * q
      BY <2>1, <2>2, <2>4
    <3>2. left * right <= SizeMax
      BY <2>1, <2>2, <2>3, <3>1
    <3> QED  BY <1>2, <2>1, <2>2, <2>3, <2>4, <3>2 DEF MulFits, Size
  <2>5. CASE right > q
    <3>1. left * right >= left * (q + 1)
      BY <2>1, <2>2, <2>5
    <3>2. left * (q + 1) = left * q + left
      BY <2>1, <2>2
    <3>3. left * right > SizeMax
      BY <2>1, <2>2, <2>3, <3>1, <3>2
    <3> QED  BY <1>2, <2>1, <2>2, <2>3, <2>5, <3>3 DEF MulFits, Size
  <2> QED  BY <2>1, <2>2, <2>4, <2>5
<1> QED  BY <1>1, <1>2

\* The same for two sizes.
LEMMA MulFitsExact ==
  ASSUME NEW left \in Size, NEW right \in Size
  PROVE  MulFits(left, right) <=> left * right \in Size
<1>1. left \in Nat /\ right \in Nat
  BY SizeAssumption DEF Size
<1> QED  BY <1>1, ProductFits

\* The entries of an array whose bytes are a size are among those that fit.
LEMMA EntryFits ==
  ASSUME NEW entry \in 1..SizeMax, NEW capacity \in Nat,
         capacity * entry <= SizeMax, NEW i \in 1..capacity
  PROVE  i \in 1..(SizeMax \div entry)
<1> DEFINE q == SizeMax \div entry
           r == SizeMax % entry
<1>1. SizeMax \in Nat /\ entry \in Nat \ {0}
  BY SizeAssumption
<1>2. q \in Nat /\ r \in 0..(entry - 1) /\ SizeMax = entry * q + r
  BY <1>1
<1>3. capacity <= q
  <2> SUFFICES ASSUME capacity >= q + 1 PROVE FALSE
    BY <1>2
  <2>1. capacity * entry >= (q + 1) * entry
    BY <1>1, <1>2
  <2>2. (q + 1) * entry = entry * q + entry
    BY <1>1, <1>2
  <2> QED  BY <1>1, <1>2, <2>1, <2>2
<1> QED  BY <1>2, <1>3

\* The size a growing array asks for is a size and holds what is required.
LEMMA GrownHolds ==
  ASSUME NEW capacity, NEW required \in Size, NEW first
  PROVE  /\ Grown(capacity, required, first) \in Size
         /\ Grown(capacity, required, first) >= required
<1>1. StoppingSize(capacity, required, first) \subseteq required..SizeMax
  BY DEF StoppingSize
<1>2. CASE StoppingSize(capacity, required, first) = {}
  BY <1>2, SizeAssumption DEF Grown, Size
<1>3. CASE StoppingSize(capacity, required, first) # {}
  <2>1. Grown(capacity, required, first) \in StoppingSize(capacity, required, first)
    BY <1>3 DEF Grown
  <2> QED  BY <2>1, <1>1, SizeAssumption DEF Size
<1> QED  BY <1>2, <1>3

-----------------------------------------------------------------------------
(***************************************************************************)
(* Ownership.  `ptr` maps the pointer fields of some structures to the     *)
(* blocks they hold.  The fields own the heap exactly when every allocated *)
(* block is held by one field and every held block is allocated.           *)
(***************************************************************************)
Pointers(fields) == [fields -> Block \cup {NoBlock}]

OwnsExactly(heap, ptr, fields) ==
  /\ \A o1, o2 \in fields : ptr[o1] = ptr[o2] /\ ptr[o1] # NoBlock => o1 = o2
  /\ \A o \in fields : ptr[o] # NoBlock => heap[ptr[o]] # 0
  /\ \A b \in Block : heap[b] # 0 => \E o \in fields : ptr[o] = b

\* After an operation on the fields in S the ownership is exact again and the
\* blocks of the other fields kept their sizes.
StillOwns(S, fields, heap, ptr, heap2, ptr2) ==
  /\ IsHeap(heap2)
  /\ ptr2 \in Pointers(fields)
  /\ OwnsExactly(heap2, ptr2, fields)
  /\ \A o \in fields :
       o \notin S /\ ptr[o] # NoBlock => heap2[ptr[o]] = heap[ptr[o]]

\* Resetting some fields: they hold nothing and their blocks are free.
LEMMA ResetFields ==
  ASSUME NEW fields, NEW S, NEW gone, NEW heap, NEW ptr, NEW heap2, NEW ptr2,
         IsHeap(heap), ptr \in Pointers(fields), OwnsExactly(heap, ptr, fields),
         S \subseteq fields,
         \A b \in Block : b \in gone <=> \E o \in S : ptr[o] = b,
         heap2 = Release(heap, gone),
         ptr2 \in Pointers(fields),
         \A o \in S : ptr2[o] = NoBlock,
         \A o \in fields : o \notin S => ptr2[o] = ptr[o]
  PROVE  StillOwns(S, fields, heap, ptr, heap2, ptr2)
<1>1. IsHeap(heap2)
  BY SizeAssumption DEF IsHeap, Release, Size
<1>2. \A b \in Block : heap2[b] = IF \E o \in S : ptr[o] = b THEN 0 ELSE heap[b]
  BY DEF Release
<1>3. \A o \in fields :
        o \notin S /\ ptr[o] # NoBlock
          => ptr[o] \in Block /\ heap2[ptr[o]] = heap[ptr[o]]
  BY <1>2 DEF OwnsExactly, Pointers
<1>4. \A o1, o2 \in fields :
        ptr2[o1] = ptr2[o2] /\ ptr2[o1] # NoBlock => o1 = o2
  BY DEF OwnsExactly
<1>5. \A o \in fields : ptr2[o] # NoBlock => heap2[ptr2[o]] # 0
  BY <1>3 DEF OwnsExactly
<1>6. \A b \in Block : heap2[b] # 0 => \E o \in fields : ptr2[o] = b
  BY <1>2 DEF OwnsExactly
<1> QED  BY <1>1, <1>3, <1>4, <1>5, <1>6 DEF StillOwns, OwnsExactly

\* A placed block has the size it was asked for.
LEMMA PlacedSize ==
  ASSUME NEW heap, IsHeap(heap), NEW b \in Block, NEW size
  PROVE  Place(heap, b, size)[b] = size
  BY DEF IsHeap, Place

\* Storing a free block in a field that holds nothing.
LEMMA FillField ==
  ASSUME NEW fields, NEW o, NEW b, NEW size,
         NEW heap, NEW ptr, NEW heap2, NEW ptr2,
         IsHeap(heap), ptr \in Pointers(fields), OwnsExactly(heap, ptr, fields),
         o \in fields, ptr[o] = NoBlock, b \in Block, heap[b] = 0,
         size \in 1..SizeMax,
         heap2 = Place(heap, b, size),
         ptr2 \in Pointers(fields),
         ptr2[o] = b,
         \A q \in fields : q # o => ptr2[q] = ptr[q]
  PROVE  StillOwns({}, fields, heap, ptr, heap2, ptr2)
<1>1. IsHeap(heap2) /\ heap2[b] = size
  BY SizeAssumption DEF IsHeap, Place, Size
<1>2. \A c \in Block : c # b => heap2[c] = heap[c]
  BY DEF IsHeap, Place
<1>3. \A q \in fields :
        ptr[q] # NoBlock => /\ ptr[q] \in Block
                            /\ ptr[q] # b
                            /\ heap2[ptr[q]] = heap[ptr[q]]
  BY <1>2 DEF OwnsExactly, Pointers
<1>4. \A o1, o2 \in fields :
        ptr2[o1] = ptr2[o2] /\ ptr2[o1] # NoBlock => o1 = o2
  BY <1>3 DEF OwnsExactly
<1>5. \A q \in fields : ptr2[q] # NoBlock => heap2[ptr2[q]] # 0
  BY <1>1, <1>3 DEF OwnsExactly
<1>6. ASSUME NEW c \in Block, heap2[c] # 0
      PROVE  \E q \in fields : ptr2[q] = c
  <2>1. CASE c = b
    BY <2>1
  <2>2. CASE c # b
    <3>1. PICK q \in fields : ptr[q] = c
      BY <1>6, <2>2, <1>2 DEF OwnsExactly
    <3>2. q # o
      BY <3>1, BlockAssumption
    <3> QED  BY <3>1, <3>2
  <2> QED  BY <2>1, <2>2
<1> QED  BY <1>1, <1>3, <1>4, <1>5, <1>6 DEF StillOwns, OwnsExactly

\* What the allocator returns is a free block.
LEMMA CandidateIsFree ==
  ASSUME NEW heap, NEW b \in Candidates(heap)
  PROVE  b \in Block /\ heap[b] = 0
<1>1. FreeBlocks(heap) \in SUBSET Block
  BY DEF FreeBlocks
<1>2. b \in FreeBlocks(heap)
  BY <1>1, AddressAssumption DEF Candidates
<1> QED  BY <1>2 DEF FreeBlocks

\* Replacing what a field holds: its block is freed, then another is stored.
LEMMA ReplaceField ==
  ASSUME NEW fields, NEW o, NEW b, NEW size,
         NEW heap, NEW ptr, NEW heap2, NEW ptr2,
         IsHeap(heap), ptr \in Pointers(fields), OwnsExactly(heap, ptr, fields),
         o \in fields, b \in Block, Release(heap, {ptr[o]})[b] = 0,
         size \in 1..SizeMax,
         heap2 = Place(Release(heap, {ptr[o]}), b, size),
         ptr2 = [ptr EXCEPT ![o] = b]
  PROVE  StillOwns({o}, fields, heap, ptr, heap2, ptr2)
<1> DEFINE S     == {o}
           gone  == {ptr[o]}
           freed == Release(heap, gone)
           ptr1  == [ptr EXCEPT ![o] = NoBlock]
<1>1. b \in Block /\ freed[b] = 0
  OBVIOUS
<1>2. ptr1 \in Pointers(fields) /\ ptr2 \in Pointers(fields)
  BY <1>1 DEF Pointers
<1>3. /\ \A q \in S : ptr1[q] = NoBlock
      /\ \A q \in fields : q \notin S => ptr1[q] = ptr[q]
  BY DEF Pointers
<1>4. ptr2[o] = b /\ \A q \in fields : q # o => ptr2[q] = ptr1[q]
  BY DEF Pointers
<1>5. freed = Release(heap, gone) /\ heap2 = Place(freed, b, size)
  OBVIOUS
<1>6. S \subseteq fields /\ S = {o}
  OBVIOUS
<1>7. \A c \in Block : c \in gone <=> \E q \in S : ptr[q] = c
  OBVIOUS
<1> HIDE DEF S, gone, freed, ptr1
<1>8. StillOwns(S, fields, heap, ptr, freed, ptr1)
  BY <1>2, <1>3, <1>5, <1>6, <1>7, ResetFields
<1>9. ptr1[o] = NoBlock /\ IsHeap(freed) /\ OwnsExactly(freed, ptr1, fields)
  BY <1>3, <1>6, <1>8 DEF StillOwns
<1>10. StillOwns({}, fields, freed, ptr1, heap2, ptr2)
  <2>1. heap2 = Place(freed, b, size) /\ o \in fields /\ size \in 1..SizeMax
    BY <1>5
  <2> QED  BY ONLY <1>1, <1>2, <1>4, <1>9, <2>1, FillField
<1>11. IsHeap(heap2) /\ OwnsExactly(heap2, ptr2, fields)
  BY <1>10 DEF StillOwns
<1>12. ASSUME NEW q \in fields, q \notin {o}, ptr[q] # NoBlock PROVE heap2[ptr[q]] = heap[ptr[q]]
  <2>1. ptr1[q] = ptr[q]
    BY <1>3, <1>6, <1>12
  <2>2. freed[ptr[q]] = heap[ptr[q]]
    BY <1>6, <1>8, <1>12 DEF StillOwns
  <2>3. heap2[ptr1[q]] = freed[ptr1[q]]
    BY <1>10, <1>12, <2>1 DEF StillOwns
  <2> QED  BY <2>1, <2>2, <2>3
<1> QED  BY <1>2, <1>11, <1>12 DEF StillOwns

\* Resizing the block that a field holds, where it is.
LEMMA ResizeField ==
  ASSUME NEW fields, NEW o, NEW size, NEW heap, NEW ptr, NEW heap2,
         IsHeap(heap), ptr \in Pointers(fields), OwnsExactly(heap, ptr, fields),
         o \in fields, ptr[o] # NoBlock,
         size \in 1..SizeMax,
         heap2 = Place(heap, ptr[o], size)
  PROVE  StillOwns({o}, fields, heap, ptr, heap2, ptr)
<1>1. ptr[o] \in Block
  BY DEF Pointers
<1>2. IsHeap(heap2) /\ heap2[ptr[o]] = size
  BY <1>1, SizeAssumption DEF IsHeap, Place, Size
<1>3. \A c \in Block : c # ptr[o] => heap2[c] = heap[c]
  BY DEF IsHeap, Place
<1>4. \A q \in fields :
        q # o /\ ptr[q] # NoBlock
          => ptr[q] \in Block /\ ptr[q] # ptr[o] /\ heap2[ptr[q]] = heap[ptr[q]]
  BY <1>3 DEF OwnsExactly, Pointers
<1>5. \A q \in fields : ptr[q] # NoBlock => heap2[ptr[q]] # 0
  BY <1>2, <1>4 DEF OwnsExactly
<1>6. \A c \in Block : heap2[c] # 0 => \E q \in fields : ptr[q] = c
  BY <1>3 DEF OwnsExactly
<1> QED  BY <1>2, <1>4, <1>5, <1>6 DEF StillOwns, OwnsExactly
=============================================================================
