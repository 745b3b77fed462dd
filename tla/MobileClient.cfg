SPECIFICATION FairSpec
CONSTANTS
  MaxAttempts = 3
  MaxSockets = 5
  MaxLoops = 2
INVARIANTS SocketsBounded FailedAfterAll
PROPERTY LoopEnds
CHECK_DEADLOCK FALSE
