SPECIFICATION Spec
CONSTANTS
  Clients = {1, 2}
  Alphabet = {a, b}
  MaxLength = 2
  Quota <- MCQuota
  SnapshotInterval = 2
  a = a
  b = b
INVARIANTS TypeOK MaterializesReference NothingForgotten Convergence RestartChangesNothing TypedIsShown CaretStays
SYMMETRY Letters
CHECK_DEADLOCK FALSE
