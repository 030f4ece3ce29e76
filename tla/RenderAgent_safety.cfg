SPECIFICATION Spec
CONSTANTS
  j1 = j1
  j2 = j2
  j3 = j3
  Jobs = {j1, j2, j3}
  Priority <- MCPriority
  TimedJobs = {}
  MaxSize = 1
  MaxRetries = 1
  MaxHistory = 1
  StarvationThreshold = 0
  Drains = {}
  NoDrain = NoDrain
  MaxConcurrent = 1
  Supported = {j1, j2, j3}
  HealthReports = {TRUE, FALSE}
  MemoryPressure = FALSE
  Slots = {1, 2}
  Nothing = Nothing
INVARIANTS
  TypeOK
  RunningHasOneAttempt
  TerminalMeansGone
  IdleMeansNoActive
CHECK_DEADLOCK FALSE
