SPECIFICATION Spec
CONSTANTS
  t1 = t1
  t2 = t2
  a1 = a1
  None = None
  Threads = {h1, h2}
  Keys <- MCKeys
  Perms = {p1}
  Ttl = 2
  MaxEntries = 1
  MaxRetries = 1
  MaxClock = 2
  MaxChanges = 1
  MaxCalls = 3
SYMMETRY Symmetry
INVARIANTS
  AnswersBounded
  InvalidationHolds
  CriticalActionsCurrent
  CacheBounded
CHECK_DEADLOCK FALSE
