SPECIFICATION FairSpec
CONSTANTS
  c1 = c1
  c2 = c2
  Clients = {c1, c2}
  Sockets = 2
  SnapshotThreshold = 10
  Elsewhere = {0}
  UnreachableAfter = 3
  EditSizes <- OneByOne
  MaxCounter <- OneWriter
  Disturbances = {"drop", "restart", "close"}
  Disturbed = {c1}
  MaxDisturbances = 1
CHECK_DEADLOCK FALSE
INVARIANTS
  CursorNotAhead
  JoinedMissesNothing
PROPERTY EventuallySynced
