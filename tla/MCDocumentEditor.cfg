SPECIFICATION FairSpec
CONSTANTS
  Alphabet = {a, b}
  MaxTyped = 2
  MaxBatches = 2
  MaxCompositions = 1
  MaxFailures = 1
  a = a
  b = b
INVARIANTS TypeOK ShownIsReplica EditsAloneTouchWhatWasSeen
PROPERTY ServerOperationsLand
CHECK_DEADLOCK FALSE
