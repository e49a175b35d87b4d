CONSTANTS
  a = a
  b = b
  t1 = t1
  t2 = t2
  User = {a, b}
  Team = {t1, t2}
  Request = {r1, r2, r3}
  NoRow = NoRow
  Keep = Keep
  Org = Org
  Lists <- MCLists
  Start <- MCStart
SYMMETRY Symmetry
SPECIFICATION Spec
CHECK_DEADLOCK FALSE
INVARIANT TypeOK
PROPERTIES
  LastAdminGuarded
  OnlyAskedMembership
  WriterHasAuthority
