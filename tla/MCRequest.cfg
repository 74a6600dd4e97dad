\* At most 2 headers fit, so 8 blocks can be live at once and a reallocation
\* needs a ninth: the heap never limits the run, only the OOM disjuncts do.
CONSTANTS
  WordBits = 3
  SizeMax = 7
  Block = {1, 2, 3, 4, 5, 6, 7, 8, 9}
  NoBlock = 0
  Address <- MCAddress
  Text <- MCText
  EmptyText <- MCEmptyText
  Method = {GET}
  NoMethod = INVALID
  RequestSize = 5
  HeaderSize = 2
  FirstHeaders = 1
  FirstBytes = 2

SPECIFICATION Spec

INVARIANTS
  TypeOK
  OwnershipExact
  SlotsAccounted

PROPERTIES
  ImplementsContract
