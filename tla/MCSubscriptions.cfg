SPECIFICATION MCSupportedFirst
CONSTANTS
  MaxIndexes = 2
  MaxCrashes = 0
  Requests <- MCBoth
  Clients = {c1}
CONSTRAINT
  MCOnlyFirstPanics
INVARIANTS
  StreamNeverWaitsInVain
  StreamAndTableAgree
PROPERTIES
  StreamHasNoGap
\* Builds end, and requests are bounded.
CHECK_DEADLOCK FALSE
