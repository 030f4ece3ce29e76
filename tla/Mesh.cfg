SPECIFICATION Spec
CONSTANTS
  a = a
  b = b
  Nodes = {a, b}
  Sockets = {1, 2}
  Searches = {1}
  MaxRestarts = 1
  Nobody = Nobody
INVARIANTS
  EntriesAreLive
  ListedUntilClosed
  AwaitedIsPending
CHECK_DEADLOCK FALSE
