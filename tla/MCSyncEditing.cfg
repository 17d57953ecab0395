SPECIFICATION Spec
CONSTANTS
  c1 = c1
  c2 = c2
  Clients = {c1, c2}
  Sockets = 2
  SnapshotThreshold = 10
  Elsewhere = {1}
  UnreachableAfter = 3
  EditSizes <- OneByOne
  MaxCounter <- OneEach
  Disturbances = {"close", "suspend"}
  Disturbed = {c1}
  MaxDisturbances = 1
CHECK_DEADLOCK FALSE
INVARIANTS
  OneIdentity
  LamportDominance
  CursorComplete
PROPERTIES
  DurableStateGrows
  ImplementsSharedDocument
