SPECIFICATION Spec
CONSTANTS
  Alphabet = {a, b}
  MaxTyped = 1
  MaxBatches = 1
  MaxCompositions = 0
  MaxFailures = 0
  a = a
  b = b
INVARIANT EditTouchesOnlyWhatWasSeen
CHECK_DEADLOCK FALSE
