\* Two variables and two addresses: a client moves from one to the other, or is
\* assigned over another. Two values tell an answer from the one before it.
CONSTANTS
  Endpoint <- MCEndpoint
  Field = {"name", "count"}
  Required = {"name"}
  StringField = {"name"}
  Value = {"v1", "v2"}
  Alien = "alien"
  Answer <- MCAnswer
  Verdict <- MCVerdict
  None = None
  Object = {o1, o2}
  Handle = {h1, h2}

SPECIFICATION CppSpec

SYMMETRY Symmetry

INVARIANTS
  CppTypeOK
  NothingLeft
  ResponseWholeOrBlank
  SubmittedAsAsked
  CallerLearnsOutcome
  HandlesOwned
