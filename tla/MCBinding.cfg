SPECIFICATION FairSpec
CONSTANTS
  DataSize = 2
  MaxCalls = 2
INVARIANTS
  TypeOK
  QueuedAsReported
  InStep
PROPERTIES
  CallReturns
CHECK_DEADLOCK FALSE
