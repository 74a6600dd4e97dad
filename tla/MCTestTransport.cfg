\* Two expectations fit, so 13 blocks can be live at once and a reallocation of
\* the array needs one more: the heap never limits the run.
CONSTANTS
  WordBits = 3
  SizeMax = 7
  Block = {1, 2, 3, 4, 5, 6, 7, 8, 9, 10, 11, 12, 13, 14}
  NoBlock = 0
  Address <- MCAddress
  Text <- MCText
  EmptyText <- MCEmptyText
  NullText <- MCNullText
  NoMethod = INVALID
  Expectation <- MCExpectation
  Submission <- MCSubmission
  TransportSize = 5
  ExpectationSize = 3
  HeaderSize = 3
  FirstExpectations = 1
  FirstBytes = 2

SPECIFICATION Spec

INVARIANTS
  TypeOK
  OwnershipExact
  SlotsAccounted

PROPERTIES
  ImplementsQueue
