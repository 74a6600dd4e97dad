CONSTANTS
  Description <- MCDescription
  SchemeName = {"k1", "k2"}
  Absent = Absent

SPECIFICATION Spec

INVARIANTS
  TypeOK
  AuthAllowed
  ParametersAsDescribed
  EndpointsAsDescribed

CHECK_DEADLOCK FALSE
