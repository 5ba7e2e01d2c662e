SPECIFICATION DeliverySpec
CONSTANTS
  Messages = {m1}
  Workers = {w1, w2, w3}
  Bodies = {b1, b2}
  Results = {r1, r2}
  None = None
  MaxClaims = 5
  Nodes = {n1, n2}
  Copies = {k1, k2, k3}
  RetryLimit = 1
  MaxSends = 2
  MaxFaults = 2
SYMMETRY Symmetry
INVARIANTS ReportsAgree NothingSilentlyLost
PROPERTIES NoDuplicateJudging RegisterSpec
CHECK_DEADLOCK FALSE
