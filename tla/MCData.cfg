SPECIFICATION MCSpec
CONSTANTS
  Bytes <- MCBytes
  BlockSize = 2
  MaxAppend = 2
  MaxSize = 5
  ReadSize = 3
  Submissions <- MCSubmissions
  Sections <- MCSections
  Defaults <- MCDefaults
  Identities = {"c", "d"}
  LineSize = 6
  ValueSize = 4
  ConfFiles <- MCConfFiles
INVARIANTS
  SubmittedAsWritten
  ConfAsWritten
PROPERTIES
  BufferIsQueue
CHECK_DEADLOCK FALSE
