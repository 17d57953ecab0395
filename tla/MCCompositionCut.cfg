SPECIFICATION Spec
CONSTANTS
  home = home
  other = other
  Documents = {home, other}
  DefaultDocument = home
  Nothing = nothing
  Orders <- Hasty
  MaxRequests = 2
  MaxEdits = 2
  MaxBatches = 0
  MaxFailures = 0
CHECK_DEADLOCK FALSE
INVARIANT CompositionKeepsSession
