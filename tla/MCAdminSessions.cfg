SPECIFICATION FairSpec
CONSTANTS
  Attempts = {a1, a2}
  Codes = {k1}
  Callbacks = {c1, c2}
  Requests = {r1}
  AttemptTtl = 1
  SessionTtl = 0
  MaxClock = 2
  RowLocks = TRUE
INVARIANTS
  AttemptUsedOnce
  SessionsEarned
  EndedSessionsAdmitNobody
PROPERTIES
  DeletedForGood
  ExpiredRowsGo
CHECK_DEADLOCK FALSE
