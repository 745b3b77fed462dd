CONSTANTS
  Rooms = {r1}
  Users = {u1, u2}
  Sessions = {s1, s2}
  Conns = {c1, c2}
  Admins = {}
  Timers = {t1}
  Capacity = 2
  PeerFailures = FALSE
  Sweeps = FALSE
  None = None
SPECIFICATION Spec
SYMMETRY Symmetry
PROPERTY RemainingPeerNotified
CHECK_DEADLOCK FALSE
