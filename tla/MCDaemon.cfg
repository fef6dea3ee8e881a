SPECIFICATION FairSpec
CONSTANTS
  Procs = {p1, p2, p3}
  Inodes = {i1, i2, i3}
  None = None
  NoFile = NoFile
  MaxStarts = 3
  MaxFaults = 1
INVARIANTS
  TypeOK
  MutualExclusion
  PidFileNamesServer
  NoFileLeftBehind
PROPERTIES
  StartSettles
  FreedOnce
CHECK_DEADLOCK FALSE
