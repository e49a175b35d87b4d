CONSTANTS
  a = a
  b = b
  t1 = t1
  t2 = t2
  User = {a, b}
  Team = {t1, t2}
  Request = {r1, r2}
  NoRow = NoRow
  Keep = Keep
  Org = Org
  Lists <- MCPlainLists
  Start <- MCTwoAdmins
SYMMETRY Symmetry
SPECIFICATION Spec
CHECK_DEADLOCK FALSE
PROPERTY TeamKeepsAdmin
