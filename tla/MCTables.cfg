SPECIFICATION TablesSpec
CONSTANTS
  None = None
  Messages = {m1, m2}
  Publishers = {p1}
  Callers = {c1, c2}
  Results = {r1, r2}
  MaxAttempts = 1
  Sessions = {s1, s2}
  Users = {u1, u2}
  Kinds = {like}
  MaxComments = 2
  CountMax = 2
  Nobody = Nobody
SYMMETRY Symmetry
INVARIANTS OneResultPerMessage VerdictIsReceipt CountsMatchRows
PROPERTIES ResultsMoveForward
CHECK_DEADLOCK FALSE
