SPECIFICATION Spec
CONSTANTS
  t1 = t1
  t2 = t2
  None = None
  Keys = {k1, k2}
  Clients = {c1}
  Tenants = {t1, t2}
  Workers = {w1, w2}
  Grants <- MCGrants
  Deadlines <- MCDeadlines
  Settings <- MCSettings
  TokenTtl = 0
  Leeway = 1
  MaxSecrets = 1
  MaxTokens = 1
  MaxClock = 1
INVARIANTS
  EndedOpensNothing
  BypassYields
  WithinGrant
PROPERTIES
  RevokedForGood
SYMMETRY Symmetry
