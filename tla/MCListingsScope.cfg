CONSTANTS
  a1 = a1
  a2 = a2
  o1 = o1
  x1 = x1
  x2 = x2
  x3 = x3
  Agent = {a1, a2}
  Tool = {o1}
  Txn = {x1, x2, x3}
  Team = {t1, t2}
  OfAgent <- MCOfAgent
  OfTool <- MCOfTool
  Item = {a1, a2, o1, x1, x2, x3}
  At <- MCAt
  MaxPage = 6
  Limit = {1, 2}
SPECIFICATION Spec
CHECK_DEADLOCK FALSE
PROPERTY TeamUsageOnly
