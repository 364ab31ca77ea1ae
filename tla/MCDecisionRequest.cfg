SPECIFICATION DecisionSpec
CONSTANTS
  Tenants = {t1}
  Apps = {a1}
  Users = {u1}
  Agents = {g1}
  RoleNames = {r1}
  Perms = {p1}
  MaskNames = {x}
  None = None
  Unknown = Unknown
  DelegationRequired = FALSE
  Scopes = {a1, None}
  MaxWrites = 2
INVARIANTS
  KillSwitchesHold
  QuietRequestsMatchEngine
CHECK_DEADLOCK FALSE
