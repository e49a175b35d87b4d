CONSTANTS
  Tool = {t1}
  Request = {r1, r2}
  NoVar = NoVar
  Var = Var
  Variables <- MCVariables
  NoVariables = NoVar
  Endpoint <- MCEndpoint
  Credential = {c0, c1}
  NoCredential = c0
  Unborn = Unborn
  Gone = Gone
  Absent = Absent
  Body <- MCBody
SYMMETRY Symmetry
SPECIFICATION Spec
PROPERTY CredentialsEncrypted
