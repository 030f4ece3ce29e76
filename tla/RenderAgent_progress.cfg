SPECIFICATION FairSpec
CONSTANTS
  j1 = j1
  j2 = j2
  j3 = j3
  Jobs = {j1, j2}
  Priority <- MCPriority2
  TimedJobs = {j1}
  MaxSize = 1
  MaxRetries = 1
  MaxHistory = 1
  StarvationThreshold = 0
  Drains = {d1}
  NoDrain = NoDrain
  MaxConcurrent = 1
  Supported = {j1, j2}
  HealthReports = {TRUE}
  MemoryPressure = TRUE
  Slots = {1, 2}
  Nothing = Nothing
PROPERTIES
  EveryJobSettles
  ShutdownTerminates
CHECK_DEADLOCK FALSE
