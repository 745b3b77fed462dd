CONSTANTS
  Rooms = {r1}
  Users = {u1}
  Sessions = {s1, s2}
  Conns = {c1}
  Admins = {a1}
  Timers = {t1, t2}
  Capacity = 2
  PeerFailures = TRUE
  Sweeps = TRUE
  None = None
SPECIFICATION FairSpec
INVARIANTS TimerEntrySound 
PROPERTIES ExpiryCloses GraceCloses
CHECK_DEADLOCK FALSE
