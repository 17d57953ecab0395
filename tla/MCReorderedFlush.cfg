SPECIFICATION Spec
CONSTANTS
  c1 = c1
  c2 = c2
  Clients = {c1, c2}
  Sockets = 2
  SnapshotThreshold = 10
  Elsewhere = {0}
  UnreachableAfter = 3
  EditSizes <- OneByOne
  MaxCounter <- TwoWriter
  Disturbances = {"close"}
  Disturbed = {c2}
  MaxDisturbances = 1
CHECK_DEADLOCK FALSE
INVARIANT StoredDocumentOpens
