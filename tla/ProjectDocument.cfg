SPECIFICATION Spec
CONSTANTS
  Nodes = {1, 2}
  Keys = {"k"}
  Tracks = {"V1"}
  Clips = {c1, c2}
  Contents = {"a"}
  Times = {0, 1, 2}
  Spans <- MCSpans
  Moments = {1, 2}
  MaxCounter = 2
  MaxChanges = 3
SYMMETRY MCSymmetry
INVARIANTS
  SameChangesSameDocument
PROPERTIES
  EditsTakeEffect
CHECK_DEADLOCK FALSE
