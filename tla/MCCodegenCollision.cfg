\* The same instance.
CONSTANTS
  Word <- MCWord
  DigitWord <- MCDigitWord
  Keyword <- MCKeyword
  Numeral <- MCNumeral
  MaxClaims = 4
  Source <- MCSource
  MaxNames = 3

SPECIFICATION NamesSpec

INVARIANTS
  NoCollision

CHECK_DEADLOCK FALSE
