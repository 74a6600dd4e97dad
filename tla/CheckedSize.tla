---------------------------- MODULE CheckedSize ----------------------------
(***************************************************************************)
(* The size_t arithmetic of the C runtime: the two overflow tests of       *)
(* runtime/src/allocator.c and the growth rule shared by the byte buffer,  *)
(* the request's header array and the test transport's expectation array.  *)
(* The module is constant-level; GrowthLoop runs the loop step by step.    *)
(***************************************************************************)
EXTENDS Naturals

CONSTANTS
  WordBits,   \* width of size_t
  SizeMax     \* SIZE_MAX

ASSUME SizeAssumption == WordBits \in Nat \ {0} /\ SizeMax \in Nat \ {0}

PowerOfTwo[k \in Nat] == IF k = 0 THEN 1 ELSE 2 * PowerOfTwo[k - 1]

ASSUME WidthAssumption == SizeMax = PowerOfTwo[WordBits] - 1

Size == 0..SizeMax

-----------------------------------------------------------------------------
\* sdkcc_internal_checked_add and sdkcc_internal_checked_mul return false when
\* the result would not fit; the caller then never uses the result.
AddFits(left, right) == ~(left > SizeMax - right)

\* Mutant: the product is not checked.
MulFitsUnchecked(left, right) == TRUE

MulFits(left, right) == ~(left # 0 /\ right > SizeMax \div left)

-----------------------------------------------------------------------------
\* Where the growth loop starts: the current capacity, or `first` (64 bytes
\* for a buffer, 4 entries for an array) when nothing was allocated yet.
GrowthStart(capacity, first) == IF capacity = 0 THEN first ELSE capacity

\* The doubling of the starting capacity at which the loop stops: it fits
\* size_t, holds `required`, and the doubling before it did not.
StoppingSize(capacity, required, first) ==
  {n \in required..SizeMax :
     /\ \E k \in 0..WordBits : n = GrowthStart(capacity, first) * PowerOfTwo[k]
     /\ n = GrowthStart(capacity, first) \/ n \div 2 < required}

\* The capacity the loop asks for: exactly `required` when no doubling fits.
Grown(capacity, required, first) ==
  IF StoppingSize(capacity, required, first) = {} THEN required
  ELSE CHOOSE n \in StoppingSize(capacity, required, first) : TRUE
=============================================================================
