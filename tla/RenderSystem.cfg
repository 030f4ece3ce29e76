SPECIFICATION SystemSpec
CONSTANTS
  Jobs = {1, 2}
  Priority <- MCPriority
  TimedJobs = {}
  MaxSize = 1
  MaxRetries = 0
  MaxHistory = 1
  StarvationThreshold = 0
  Drains = {}
  NoDrain = NoDrain
  MaxConcurrent = 1
  Supported = {1, 2}
  HealthReports = {TRUE, FALSE}
  MemoryPressure = FALSE
  Slots = {1}
  Workers = {1, 2}
  Urgency <- MCUrgency
  SubmittedAt <- MCSubmittedAt
  Cancellable = {1}
  Removable = {2}
  Silent = {2}
  InTransit = 1
INVARIANTS
  NobodyForgets
  CompletedWasRendered
PROPERTIES
  ImplementsFarm
CHECK_DEADLOCK FALSE
