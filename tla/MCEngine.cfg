SPECIFICATION RbacSpec
CONSTANTS
  Tenants = {t1, t2}
  Apps = {a1}
  Users = {u1}
  Agents = {g1}
  RoleNames = {r1}
  Perms = {p1}
  MaskNames = {p1, x}
  None = None
  Unknown = Unknown
  Scopes = {a1}
  MaxWrites = 3
SYMMETRY Symmetry
INVARIANTS
  EntryPointsAgree
  AllowsExactlyTheEntitled
CHECK_DEADLOCK FALSE
