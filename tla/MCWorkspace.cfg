SPECIFICATION FairSpec
CONSTANTS
  home = home
  other = other
  Documents = {home, other}
  DefaultDocument = home
  Nothing = nothing
  Orders <- Documented
  MaxRequests = 3
  MaxEdits = 2
  MaxBatches = 1
  MaxFailures = 1
CHECK_DEADLOCK FALSE
INVARIANTS
  TypeOK
  OneConnectedSession
  EditsStayInTheirDocument
  EditorShowsItsDocument
  LatestTargetOpens
  OfflineModeHolds
  CollaboratorFollowsSession
  CompositionKeepsSession
PROPERTY NavigationSettles
