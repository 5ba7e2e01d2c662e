SPECIFICATION Spec
CONSTANTS
  Messages = {m1}
  Publishers = {p1, p2}
  Callers = {c1}
  Results = {r1}
  None = None
  MaxAttempts = 2
  MaxFaults = 1
  MaxUnacked = 1
SYMMETRY Symmetry
INVARIANTS NothingLost
PROPERTIES OnlyStaleWritesUnsettle
