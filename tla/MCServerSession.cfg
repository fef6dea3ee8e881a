SPECIFICATION FairSpec
CONSTANTS
  Timeout = 0
  OutCapacity = 1
  LINE_MAX_SIZE = 3
  LINE_BUFFER_SIZE = 2
  AutoDie = FALSE
  InitialHandshake <- MCHandshake
  MaxCommandSize = 2
  Requests <- MCRequests
  Data <- MCData
  Pipelining = FALSE
  Unreliable = FALSE
  MaxSent = 5
  MaxParts = 0
  MaxHandshakes = 1
INVARIANTS
  TypeOK
  AnswersAsSpecified
PROPERTIES
  EveryRequestAnswered
CHECK_DEADLOCK FALSE
