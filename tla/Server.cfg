CONSTANTS
  IPs = {ip1}
  Limit = 1
  Window = 5
  Second = 2
  MaxTime = 11
  None = None
  Requests = {q1, q2}
  Codes = {k1, k2}
  MaxShortCodeRetries = 2
SPECIFICATION FairServerSpec
INVARIANTS HandlersAgree RetryHonoured RetryNotTooLong ClashMeansOverlap
PROPERTIES Refinement SignalEnds SocketsServed
CHECK_DEADLOCK FALSE
