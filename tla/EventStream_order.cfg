CONSTANTS
  w1 = w1
  w2 = w2
  Writer <- MCTwoWriters
  BatchSize = 2
  None = None
  StartFrom = None
  Faults = {"link", "fatal", "drop", "stop", "restart"}
  MaxSequence = 4
SPECIFICATION FairSpec
INVARIANTS TypeOK NoWakeupIsLost HandledInOrder OnlyLateEventsAreSkipped
PROPERTIES EveryEventIsReached ImplementsOrderedDelivery
CHECK_DEADLOCK FALSE
