SPECIFICATION LoopSpec
CONSTANTS
  Timeout = 1
  OutCapacity = 1
  LINE_MAX_SIZE = 3
  LINE_BUFFER_SIZE = 2
  AutoDie = FALSE
  InitialHandshake <- MCHandshake
  MaxCommandSize = 2
  Requests <- MCPushOnly
  Data <- MCData
  Pipelining = TRUE
  Unreliable = FALSE
  MaxSent = 3
  MaxParts = 0
  MaxHandshakes = 1
PROPERTIES
  EventuallyClosed
CHECK_DEADLOCK FALSE
