SPECIFICATION FrontSpec
CONSTANTS
  c1 = c1
  c2 = c2
  k1 = k1
  NoKey = NoKey
  Senders = {s1, s2}
  Ops <- MCOps
  MaxResends = 1
  Limit = 1
  Window = 1
  KeepFor = 1
  MaxAnswers = 1
  MaxRequests = 3
  MaxFrontClock = 2
SYMMETRY Symmetry
INVARIANTS
  LimitExact
  HandledOnce
  ReplaysAreOwn
CHECK_DEADLOCK FALSE
