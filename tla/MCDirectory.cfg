SPECIFICATION Spec
CONSTANTS
  c1 = c1
  c2 = c2
  i1 = i1
  i2 = i2
  u1 = u1
  u2 = u2
  m1 = m1
  m2 = m2
  t1 = t1
  t2 = t2
  r1 = r1
  None = None
  Workers = {w1, w2}
  Callers = {c1, c2}
  Identities = {i1, i2}
  Users = {u1, u2}
  Rows = {m1, m2, m3}
  Tenants = {t1, t2}
  Roles = {r1}
  Starts <- MCStarts
  Requests <- MCRequests
  MaxRequests = 3
  MaxSwitches = 1
INVARIANTS
  OneUserPerIdentity
  ContextsHold
PROPERTY
  ManagementIsExclusive
CHECK_DEADLOCK FALSE
