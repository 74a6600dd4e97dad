----------------------------- MODULE GrowthLoop -----------------------------
(***************************************************************************)
(* The capacity loop of sdkcc_v1_buffer_reserve, reserve_headers and       *)
(* reserve_expectations, one iteration per step:                           *)
(*                                                                         *)
(*   size_t next = capacity == 0 ? first : capacity;                       *)
(*   while (next < required) {                                             *)
(*     if (next > SIZE_MAX / 2) { next = required; break; }                *)
(*     next *= 2;                                                          *)
(*   }                                                                     *)
(*                                                                         *)
(* `next *= 2` is unsigned arithmetic and wraps modulo SIZE_MAX + 1.       *)
(***************************************************************************)
EXTENDS CheckedSize

CONSTANT First    \* the capacity of a first allocation

ASSUME FirstAssumption == First \in 1..SizeMax

VARIABLES
  capacity,   \* capacity on entry
  required,   \* what the caller needs
  next,       \* the loop variable
  at          \* "loop" while the loop runs, then "done"

loopVars == <<capacity, required, next, at>>

-----------------------------------------------------------------------------
\* The loop is reached only when the capacity does not already suffice.
LoopInit ==
  /\ capacity \in Size
  /\ required \in Size
  /\ required > capacity
  /\ next = GrowthStart(capacity, First)
  /\ at = "loop"

LeaveLoop ==
  /\ at = "loop"
  /\ next >= required
  /\ at' = "done"
  /\ UNCHANGED <<capacity, required, next>>

\* Mutant: the loop is left without taking what is required.
TakeRequiredForgotten ==
  /\ at = "loop"
  /\ next < required
  /\ next > SizeMax \div 2
  /\ at' = "done"
  /\ UNCHANGED <<capacity, required, next>>

TakeRequired ==
  /\ at = "loop"
  /\ next < required
  /\ next > SizeMax \div 2
  /\ next' = required
  /\ at' = "done"
  /\ UNCHANGED <<capacity, required>>

\* Mutants: doubling without the test that it fits, and growth by steps of
\* `First`.
DoubleNextWrapping ==
  /\ at = "loop"
  /\ next < required
  /\ next' = (2 * next) % (SizeMax + 1)
  /\ UNCHANGED <<capacity, required, at>>

DoubleNextAdding ==
  /\ at = "loop"
  /\ next < required
  /\ ~(next > SizeMax \div 2)
  /\ next' = next + First
  /\ UNCHANGED <<capacity, required, at>>

DoubleNext ==
  /\ at = "loop"
  /\ next < required
  /\ ~(next > SizeMax \div 2)
  /\ next' = (2 * next) % (SizeMax + 1)
  /\ UNCHANGED <<capacity, required, at>>

Iterate == LeaveLoop \/ TakeRequired \/ DoubleNext

\* The loop is sequential code: it takes its next iteration.
LoopFairness == WF_loopVars(Iterate)

LoopSpec == LoopInit /\ [][Iterate]_loopVars

FairLoopSpec == LoopSpec /\ LoopFairness

-----------------------------------------------------------------------------
LoopTypeOK ==
  /\ capacity \in Size
  /\ required \in Size
  /\ next \in Size
  /\ at \in {"loop", "done"}

\* The array that is allocated is large enough for the request and grew: the
\* write that follows the reservation stays inside it, whatever SIZE_MAX is and
\* however close to it the loop came.
GrownEnough == at = "done" => next >= required /\ next > capacity

\* Doubling never wraps to a smaller (or zero) value, which would make the
\* loop run forever or hand back too little: next only increases.
NeverWraps == [][next' >= next]_loopVars

\* The value the loop ends with is the one Grown gives to the modules that
\* call the three functions.
LoopComputesGrown == at = "done" => next = Grown(capacity, required, First)

\* The loop ends for every capacity and every request.
LoopEnds == <>(at = "done")
=============================================================================
