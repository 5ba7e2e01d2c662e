SPECIFICATION Spec
CONSTANTS
  Tasks = {t1}
  Owners = {o1, o2}
  IoThreads = {w1}
  NoTask = NoTask
  Calls = 2
INVARIANT NoDestroyWhileRunning
CHECK_DEADLOCK FALSE
