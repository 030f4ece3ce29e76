SPECIFICATION Spec
CONSTANTS
  j1 = j1
  j2 = j2
  j3 = j3
  Jobs = {j1, j2}
  Priority <- MCPriority2
  TimedJobs = {}
  MaxSize = 1
  MaxRetries = 1
  MaxHistory = 1
  StarvationThreshold = 0
  Drains = {}
  NoDrain = NoDrain
  MaxConcurrent = 1
  Supported = {j1, j2}
  HealthReports = {TRUE}
  MemoryPressure = FALSE
  Slots = {1}
  Nothing = Nothing
INVARIANTS
  ConcurrencyBounded
CHECK_DEADLOCK FALSE
