SPECIFICATION Spec
CONSTANTS
  Timeout = 1
  OutCapacity = 1
  LINE_MAX_SIZE = 3
  LINE_BUFFER_SIZE = 2
  AutoDie = FALSE
  InitialHandshake <- MCHandshake
  MaxCommandSize = 2
  Requests <- MCPushOnly
  Data <- MCData
  Pipelining = FALSE
  Unreliable = TRUE
  MaxSent = 2
  MaxParts = 0
  MaxHandshakes = 1
INVARIANTS
  NoStaleTimeout
CHECK_DEADLOCK FALSE
