CONSTANTS
  Source <- MCSource
  MaxBytes = 1
  MaxNodes = 4
  MaxDepth = 2
  Key = {"a", "b", "long", "complex"}
  LongKey = {"long"}
  ComplexKey = "complex"
  NoKey = "element"

SPECIFICATION FairSpec

INVARIANTS
  TypeOK
  RefusedForCause
  AcceptedWhole

PROPERTY
  ParseEnds

CHECK_DEADLOCK FALSE
