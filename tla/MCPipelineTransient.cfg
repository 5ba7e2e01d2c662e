SPECIFICATION Spec
CONSTANTS
  Nodes = {n1, n2}
  Copies = {k1, k2, k3}
  Bodies = {b1}
  Results = {r1, r2}
  None = None
  RetryLimit = 3
  MaxSends = 2
  MaxFaults = 2
SYMMETRY Symmetry
INVARIANT OnlyConflictsDeadLettered
CHECK_DEADLOCK FALSE
