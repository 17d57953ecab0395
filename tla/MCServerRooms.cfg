SPECIFICATION FairSpec
CONSTANTS
  Clients = {c1, c2}
  Documents = {d1}
  Nobody = nobody
  MaxConnections = 3
CHECK_DEADLOCK FALSE
INVARIANTS
  TypeOK
  RosterIsCurrent
  RoomsMatchConnections
  DatabaseClosesLast
PROPERTIES
  DeadPeersLeave
  ShutdownEnds
