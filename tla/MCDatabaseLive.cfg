SPECIFICATION DatabaseSpec
CONSTANTS
  Messages = {m1}
  Publishers = {p1, p2}
  Callers = {c1}
  Results = {r1}
  None = None
  MaxAttempts = 1
  MaxFaults = 2
  MaxUnacked = 1
  Sessions = {s1, s2}
  Users = {u1}
  Kinds = {like}
  MaxComments = 3
  CountMax = 2
  Nobody = Nobody
INVARIANTS TwoLevels 
PROPERTIES  RowsSettle TransactionsEnd
CHECK_DEADLOCK FALSE
