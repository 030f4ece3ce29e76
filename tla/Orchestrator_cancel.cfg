SPECIFICATION Spec
CONSTANTS
  Steps = {1, 2, 3}
  Destructive = {1, 3}
  Modes <- MCModes
  BatchSize = 2
  MaxAttempts = 2
  Consumption = {1}
  Ceiling = 3
PROPERTIES
  NoCallAfterTheEnd
CHECK_DEADLOCK FALSE
