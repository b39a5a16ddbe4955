CONSTANTS
  w1 = w1
  w2 = w2
  Writer <- MCTwoWriters
  BatchSize = 2
  None = None
  StartFrom = 0
  Faults = {}
  MaxSequence = 3
SPECIFICATION Spec
INVARIANT NothingIsSkipped
CHECK_DEADLOCK FALSE
