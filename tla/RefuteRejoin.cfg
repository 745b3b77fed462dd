CONSTANTS
  Rooms = {r1}
  Users = {u1}
  Sessions = {s1, s2}
  Conns = {c1}
  Admins = {}
  Timers = {t1, t2}
  Capacity = 2
  PeerFailures = FALSE
  Sweeps = FALSE
  None = None
SPECIFICATION Spec
SYMMETRY Symmetry
PROPERTY CancelPreventsDeletion
CHECK_DEADLOCK FALSE
