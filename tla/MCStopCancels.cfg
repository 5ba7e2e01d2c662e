SPECIFICATION JudgerSpec
CONSTANTS
  MaxTests = 2
  MaxDockerFaults = 0
INVARIANT StopCancels
CHECK_DEADLOCK FALSE
