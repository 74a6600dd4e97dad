-------------------------------- MODULE Heap --------------------------------
(***************************************************************************)
(* The allocator as the runtime sees it through sdkcc_allocator_t: alloc,  *)
(* realloc and free on sized blocks, any allocation of which may fail.     *)
(* A heap maps every block to the size it was allocated with, 0 when it is *)
(* not allocated.  The allocator is a callback of the embedding program;   *)
(* `Address` says which of the free blocks it may hand out.                *)
(***************************************************************************)
EXTENDS CheckedSize

CONSTANTS
  Block,        \* the blocks the allocator manages
  NoBlock,      \* the null pointer
  Address(_)    \* the blocks it may choose from among the free ones

ASSUME BlockAssumption == NoBlock \notin Block

ASSUME AddressAssumption ==
  \A free \in SUBSET Block : Address(free) \subseteq free

-----------------------------------------------------------------------------
EmptyHeap == [b \in Block |-> 0]

IsHeap(heap) == heap \in [Block -> Size]

FreeBlocks(heap) == {b \in Block : heap[b] = 0}

\* The heap after the blocks of `freed` are given back. Freeing the null
\* pointer changes nothing.
Release(heap, freed) == [b \in Block |-> IF b \in freed THEN 0 ELSE heap[b]]

\* The heap after an allocation of `size` bytes that returned block b.
Place(heap, b, size) == [heap EXCEPT ![b] = size]

\* The blocks that an allocation may return; when there is none it fails.
Candidates(heap) == Address(FreeBlocks(heap))
=============================================================================
