SPECIFICATION Spec
CONSTANTS
  MinLength = 1
  Sources = {"a", "b", "asset"}
  SyncLocked = {2}
  Initial <- MCInitial
  Positions = {1}
  Lengths = {1}
  MaxHistory = 2
  MaxTracks = 2
  MaxEdits = 3
  Horizon = 6
INVARIANTS
  HistoryExact
  SegmentLands
  InsertShifts
CHECK_DEADLOCK FALSE
