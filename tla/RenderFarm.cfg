SPECIFICATION Spec
CONSTANTS
  Workers = {1, 2}
  Jobs = {1, 2}
  Priority <- MCPriority
  SubmittedAt <- MCSubmittedAt
  Matches <- MCMatches
  NoJob = NoJob
  Pausing = TRUE
  Indices = {0, 1}
  Moments <- MCMoments
INVARIANTS
  TypeOK
  CurrentIsAssigned
  GivenOnce
PROPERTIES
  OutcomeIsFinal
  UrgentFirst
CHECK_DEADLOCK FALSE
