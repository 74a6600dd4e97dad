\* The smallest instance: a second run replaces the only file.
CONSTANTS
  File = {1}
  UnsafePath = {}
  MaxRuns = 2

SPECIFICATION Spec

PROPERTIES
  ReplacedAtomically

CHECK_DEADLOCK FALSE
