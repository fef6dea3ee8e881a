SPECIFICATION FairSpec
CONSTANTS
  Timeout = 1
  OutCapacity = 2
  LINE_MAX_SIZE = 3
  LINE_BUFFER_SIZE = 2
  AutoDie = TRUE
  InitialHandshake <- MCHandshake
  Contents = {0, 2, 4}
  InputSize = 2
  Responses <- MCResponses
  MaxTyped = 2
  MaxSaid = 6
INVARIANTS
  TypeOK
  MemorySafe
  ExitStatusHonest
  OneRequestAtATime
PROPERTIES
  EventuallyEnds
CHECK_DEADLOCK FALSE
