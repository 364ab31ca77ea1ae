SPECIFICATION Spec
CONSTANTS
  Users = {u1}
  Agents = {g1}
  p1 = p1
  r1 = r1
  r2 = r2
  Perms = {p1}
  Roles = {r1, r2}
  Defaults = {r1}
  Starts <- MCStarts
  Creates = {c1}
  Calls = {v1}
  Keys = {k1, k2}
  NoKey = NoKey
  Ttls = {1}
  Leeway = 1
  MaxClock = 2
  MaxWrites = 2
INVARIANTS
  GrantsWarranted
  RefusalsJustified
PROPERTIES
  ImplementsContract
CHECK_DEADLOCK FALSE
