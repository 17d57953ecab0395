SPECIFICATION Spec
CONSTANTS
  c1 = c1
  c2 = c2
  Clients = {c1, c2}
  Sockets = 1
  SnapshotThreshold = 1
  Elsewhere = {1}
  UnreachableAfter = 3
  EditSizes <- PairByOne
  MaxCounter <- TwoAndOne
  Disturbances = {"storage"}
  Disturbed = {c2}
  MaxDisturbances = 1
CHECK_DEADLOCK FALSE
INVARIANTS
  TypeOK
  NoLostEdit
PROPERTY ImplementsSharedDocument
