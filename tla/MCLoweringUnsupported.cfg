CONSTANTS
  Description <- MCUnsupported
  SchemeName = {"k1", "k2"}
  Absent = Absent

SPECIFICATION Spec

INVARIANT UnsupportedRejected

CHECK_DEADLOCK FALSE
