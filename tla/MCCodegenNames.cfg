\* Three names at a time: enough for a name, a second spelling of it and its
\* numbered form in one scope, in every order. MaxClaims leaves room for the
\* identifier that was claimed beforehand.
CONSTANTS
  Word <- MCWord
  DigitWord <- MCDigitWord
  Keyword <- MCKeyword
  Numeral <- MCNumeral
  MaxClaims = 4
  Source <- MCSource
  MaxNames = 3

SPECIFICATION NamesSpec

INVARIANTS
  NamesAllowed
  CollisionsAreNumbered

\* The bounds end the run.
CHECK_DEADLOCK FALSE
