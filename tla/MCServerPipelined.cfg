SPECIFICATION FairSpec
CONSTANTS
  Timeout = 1
  OutCapacity = 1
  LINE_MAX_SIZE = 3
  LINE_BUFFER_SIZE = 2
  AutoDie = FALSE
  InitialHandshake <- MCHandshake
  MaxCommandSize = 2
  Requests <- MCFew
  Data <- MCData
  Pipelining = TRUE
  Unreliable = TRUE
  MaxSent = 3
  MaxParts = 0
  MaxHandshakes = 2
INVARIANTS
  MemorySafe
  NoLostWakeup
  DrainedBeforeClose
PROPERTIES
  NotDroppedWithoutReason
  EventuallyClosed
CHECK_DEADLOCK FALSE
