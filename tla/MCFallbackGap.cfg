SPECIFICATION Spec
CONSTANTS
  c1 = c1
  c2 = c2
  Clients = {c1, c2}
  Sockets = 2
  SnapshotThreshold = 1
  Elsewhere = {0}
  UnreachableAfter = 3
  EditSizes <- OneByOne
  MaxCounter <- TwoAndOne
  Disturbances = {}
  Disturbed = {}
  MaxDisturbances = 0
CHECK_DEADLOCK FALSE
INVARIANT CursorComplete
