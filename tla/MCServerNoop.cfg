SPECIFICATION FairSpec
CONSTANTS
  Timeout = 0
  OutCapacity = 2
  LINE_MAX_SIZE = 3
  LINE_BUFFER_SIZE = 2
  AutoDie = FALSE
  InitialHandshake <- MCHandshake
  MaxCommandSize = 2
  Requests <- MCWithNoop
  Data <- MCData
  Pipelining = FALSE
  Unreliable = FALSE
  MaxSent = 3
  MaxParts = 0
  MaxHandshakes = 1
PROPERTIES
  EveryRequestAnswered
CHECK_DEADLOCK FALSE
