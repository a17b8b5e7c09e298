SPECIFICATION Spec
CONSTANTS
  MaxIndexes = 2
  MaxCrashes = 0
  Requests <- MCUnknown
INVARIANT
  RowShowsOwnNotifications
CHECK_DEADLOCK FALSE
