CONSTANTS
  Rooms = {r1}
  Users = {u1, u2, u3}
  Sessions = {s1, s2}
  Conns = {c1, c2}
  Admins = {a1}
  Timers = {}
  Capacity = 2
  PeerFailures = TRUE
  Sweeps = FALSE
  None = None
SPECIFICATION Spec
SYMMETRY Symmetry
INVARIANTS LookupSound  
PROPERTIES Refinement ClosedByOwner StrandedOnlyByFailure
CHECK_DEADLOCK FALSE
