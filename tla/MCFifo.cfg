SPECIFICATION FairSpec
CONSTANTS
  PIPE_BUF = 2
  PipeCapacity = 3
  MaxQueueSize = 3
  RefSize = 1
  Sizes = {1, 3}
  MaxPush = 3
INVARIANTS
  TypeOK
  EachPushInOnePlace
  DumpAnnouncedOnce
  AtomicWrites
  NothingStranded
  QueueBounded
  OrderKept
PROPERTIES
  EventuallySettled
