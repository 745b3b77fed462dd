SPECIFICATION CallSpec
CONSTANTS
  MaxAttempts = 3
  MaxSockets = 5
  MaxLoops = 2
INVARIANT KeptAfterReconnect
CHECK_DEADLOCK FALSE
