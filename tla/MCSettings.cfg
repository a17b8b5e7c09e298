SPECIFICATION Spec
CONSTANTS
  Modes <- MCModes
  Inputs <- MCInputs
INVARIANTS
  TypeOK
  LastLayerWins
  TestsKeepToTheirDatabase
  RefusedForCause
\* Settings are read once.
CHECK_DEADLOCK FALSE
