\* A 5-bit size_t: every capacity and every request up to SIZE_MAX. The first
\* allocation of 4 entries is the code's; it is not a power-of-two divisor of
\* SIZE_MAX, so the saturating branch is taken from many capacities.
CONSTANTS
  WordBits = 5
  SizeMax = 31
  First = 4

SPECIFICATION FairLoopSpec

INVARIANTS
  GrownEnough
  LoopComputesGrown

PROPERTIES
  NeverWraps
  LoopEnds

\* The loop terminates.
CHECK_DEADLOCK FALSE
