SPECIFICATION FairSpec
CONSTANTS
  j1 = j1
  j2 = j2
  j3 = j3
  Jobs = {j1, j2, j3}
  Priority <- MCPriority
  TimedJobs = {j1}
  MaxSize = 2
  MaxRetries = 1
  MaxHistory = 2
  StarvationThreshold = 1
  Drains = {"d1", "d2"}
  NoDrain = "none"
  MaxNow = 2
  MaxAccepted = 4
INVARIANTS
  TypeOK
  CountersExact
  ArrayIsLinear
  TimerArmedWhileRunning
  NothingLostUntilTrimmed
PROPERTIES
  OvertakingBounded
  DrainResolvesWithNothingRunning
  DrainTerminates
CHECK_DEADLOCK FALSE
