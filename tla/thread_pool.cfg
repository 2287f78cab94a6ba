SPECIFICATION FairSpec
CONSTANTS
  MaxThread = 2
  MaxTask = 2
  MaxExecutor = 3
  PerExecutor = 1
  MaxPool = 2
  Priorities = {0, 1}
INVARIANTS TypeOK PoolKeepsAThread
PROPERTIES StopDropsOnlyLate TaskRunsOrMissed CalledThreadsEnd
CHECK_DEADLOCK FALSE
