\* Three runs of the writer: one to fill the directory, one to fail or die in it,
\* one to find what was left. The options ask for the C files, taken as one, or
\* for another file behind them; file 3 has a path that is refused as unsafe, which
\* only another program can ask for. The input has up to one block more than the
\* limit of two, and is edited once.
CONSTANTS
  File = {1, 2, 3}
  UnsafePath = {3}
  Emission = {{1}, {1, 2}}
  MaxRuns = 3
  ByteLimit = 2
  MaxEdits = 1

SPECIFICATION FairDriverSpec

INVARIANTS
  DriverTypeOK
  NeverTorn
  SuccessIsComplete
  PrefixInstalled
  ExitTold
  GeneratedFromInput

PROPERTIES
  ReplacementKept
  InvocationEnds

\* After the last run of a program nothing happens any more.
CHECK_DEADLOCK FALSE
