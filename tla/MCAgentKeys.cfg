CONSTANTS
  User = {u1}
  Agent = {a1}
  Team = {t1, t2}
  Key = {k1, k2, k3}
  Request = {r1, r2}
  Unborn = Unborn
  Gone = Gone
  None = None
SYMMETRY Symmetry
SPECIFICATION Spec
CHECK_DEADLOCK FALSE
INVARIANT TypeOK
PROPERTIES
  OwnAgentsOnly
  NoKeyRevives
