SPECIFICATION FairSpec
CONSTANTS
  Statuses <- MCStatuses
  MaxFaults = 2
  MaxChunks = 2
  MaxSubmits = 2
INVARIANTS
    OnlyCleanBodiesComplete
    RetryIsOfferedWhenItHelps
PROPERTY
    EverySubmitAnswered
CHECK_DEADLOCK FALSE
