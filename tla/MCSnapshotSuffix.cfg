SPECIFICATION FairSpec
CONSTANTS
  c1 = c1
  c2 = c2
  Clients = {c1, c2}
  Sockets = 1
  SnapshotThreshold = 2
  Elsewhere = {1}
  UnreachableAfter = 3
  EditSizes <- ThreeByOne
  MaxCounter <- ThreeWriter
  Disturbances = {"close"}
  Disturbed = {c2}
  MaxDisturbances = 2
CHECK_DEADLOCK FALSE
INVARIANTS
  EvidenceIsDurable
  CursorComplete
PROPERTY EventuallySynced
