SPECIFICATION FairSpec
CONSTANTS
  Contents = {0, 1, 2, 3}
  ClientTimeout = 0
  ServerTimeout = 0
  OutCapacity = 2
  LINE_MAX_SIZE = 3
  LINE_BUFFER_SIZE = 2
  InputSize = 2
  MaxCommandSize = 2
  Unreliable = TRUE
  MaxTyped = 2
INVARIANTS
  QueuedInOrder
  SuccessMeansQueued
PROPERTIES
  BothFinish
CHECK_DEADLOCK FALSE
