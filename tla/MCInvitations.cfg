SPECIFICATION FairSpec
CONSTANTS
  Invites = {i1}
  Users = {u1, u2}
  Accepts = {q1, q2}
  NoUser = NoUser
  Faults = {"error", "ackLost", "crash"}
INVARIANTS
  TokenSpentOnce
  MemberIsRecorded
  AcceptedMeansMember
PROPERTIES
  ClaimsResolve
CHECK_DEADLOCK FALSE
