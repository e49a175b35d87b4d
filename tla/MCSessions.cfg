CONSTANTS
  User = {u1, u2}
  Token = {s1, s2}
  Password = {p1, p2}
  Request = {r1, r2}
  Unborn = Unborn
  Gone = Gone
  None = None
  Lifetime = 1
  MaxNow = 3
SPECIFICATION Spec
CHECK_DEADLOCK FALSE
INVARIANT TypeOK
PROPERTIES
  SessionEarned
  PasswordEarned
  ExpiredRemoved
