SPECIFICATION RbacSpec
CONSTANTS
  Tenants = {t1, t2}
  Apps = {a1}
  Users = {u1}
  Agents = {g1}
  RoleNames = {r1}
  Perms = {p1}
  MaskNames = {}
  None = None
  Scopes = {a1, None}
  MaxWrites = 5
SYMMETRY Symmetry
INVARIANTS
  LinksStayInScope
  UserPermissionsFollowNames
  AgentPermissionsFollowNames
  StoresAgree
PROPERTY
  HoldersKeepNames
CHECK_DEADLOCK FALSE
