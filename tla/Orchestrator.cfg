SPECIFICATION Spec
CONSTANTS
  Steps = {1, 2, 3}
  Destructive = {1, 3}
  Modes <- MCModes
  BatchSize = 2
  MaxAttempts = 2
  Consumption = {1, 2}
  Ceiling = 3
INVARIANTS
  TypeOK
  DestructiveOnce
  NothingStranded
  CompensatedIsUndone
PROPERTIES
  CompletedHonestly
  ExecutionEnds
CHECK_DEADLOCK FALSE
