SPECIFICATION Spec
CONSTANTS
  Keys = {k1, k2, k3}
  Workers = {w1, w2}
  NoKey = NoKey
  MaxTokenTtl = 1
  Ttls = {1}
  MaxTime = 3
  MaxTokens = 1
SYMMETRY Symmetry
INVARIANTS
  ExactlyOneActive
  InFlightTokensVerify
PROPERTY
  KeyLifecycle
