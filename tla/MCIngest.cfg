SPECIFICATION Spec
CONSTANTS
  MaxIndexes = 2
  MaxCrashes = 1
  Requests <- MCSupported
INVARIANTS
  TypeOK
  DoneMeansOutcome
  NeverWaitsInVain
PROPERTIES
  NoGapInHistory
  OwnRowIsKept
  EachBuildIsAnFSM
\* Builds end, and requests are bounded.
CHECK_DEADLOCK FALSE
