\* The code's limits are 4096 bytes of a key, 2^63 - 1, and 64 levels; each is
\* small here, so that the inputs reach it and pass it by one.
CONSTANTS
  MaxKey = 3
  Int64Max = 31
  MaxDepth = 4
  None = None
  Input <- MCInput
  Document <- MCDocument
  Name <- MCName

SPECIFICATION Spec

INVARIANTS
  TypeOK
  AcceptsExactlyJson
  ValuesExact
  ReadsBackWritten
