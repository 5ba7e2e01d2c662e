SPECIFICATION LiveSpec
CONSTANTS
  Tasks = {t1, t2}
  Owners = {o1, o2}
  IoThreads = {w1}
  NoTask = NoTask
  Calls = 1
  Nodes = {n1, n2}
  Copies = {k1, k2, k3}
  Bodies = {b1}
  Results = {r1}
  None = None
  RetryLimit = 1
  MaxSends = 1
  MaxFaults = 2
PROPERTIES CallbackRuns StopReturnsOrMisses PublishedIsJudged
CHECK_DEADLOCK FALSE
