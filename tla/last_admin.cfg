SPECIFICATION AdministrationSpec
CONSTANTS
  u1 = u1
  u2 = u2
  User = {u1, u2}
  Subject = {b1}
  Session = {s1, s2}
  Request = {r1, r2}
  MaxRequest = 3
  Scope <- MCGoverning
  Watching = {s1}
  Replacement <- MCReplacement
  Agent = {a1, a2}
  Token = {t1, t2}
  Call = {c1, c2}
  MaxEdit = 4
  MaxLoss = 1
  MaxConfiguration = 3
  MaxBreak = 3
  None = None
  Null = Null
PROPERTY AdminAlwaysRemains
CHECK_DEADLOCK FALSE
