SPECIFICATION Spec
CONSTANTS
  Statuses <- MCStatuses
  MaxFaults = 1
  MaxChunks = 1
  MaxSubmits = 1
INVARIANT
  WaitIsBounded
CHECK_DEADLOCK FALSE
