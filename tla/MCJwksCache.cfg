SPECIFICATION JwksSpec
CONSTANTS
  i1 = i1
  other = other
  k1 = k1
  k2 = k2
  None = None
  Threads = {h1, h2}
  Issuers <- MCIssuers
  Kids = {k1, k2}
  Tokens <- MCTokens
  Ttl = 1
  Leeway = 0
  MaxClock = 1
  MaxRotations = 1
  MaxCalls = 3
SYMMETRY Symmetry
INVARIANTS
  WithdrawnKeysFade
  RefusalsHaveCause
CHECK_DEADLOCK FALSE
