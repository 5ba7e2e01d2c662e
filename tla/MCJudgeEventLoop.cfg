SPECIFICATION LoopSpec
CONSTANTS
  Tasks = {t1, t2}
  Owners = {o1, o2}
  IoThreads = {w1, w2}
  NoTask = NoTask
  Calls = 2
  MaxTests = 3
  MaxDockerFaults = 2
SYMMETRY Symmetry
INVARIANTS CallbackAtMostOnce NoResumeDuringIo NoDestroyDuringIo UndisturbedVerdict AcceptedIsEarned NoContainerLeft
CHECK_DEADLOCK FALSE
