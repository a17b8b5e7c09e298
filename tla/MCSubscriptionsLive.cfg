SPECIFICATION MCLiveSpec
CONSTANTS
  MaxIndexes = 2
  MaxCrashes = 1
  Requests <- MCBoth
  Clients = {c1}
ACTION_CONSTRAINT
  MCSecondIsAlone
INVARIANTS
  StreamTypeOK
  OneBuildAtATime
PROPERTIES
  EndpointIsReleased
  HeardInTheEnd
  LastWordHeard
\* Builds end, and requests are bounded.
CHECK_DEADLOCK FALSE
