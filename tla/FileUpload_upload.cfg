SPECIFICATION Spec
CONSTANTS
  NUM_INODES = 3
  Zeros = zeros
  None = none
  User = user
  Other = other
  MaxChunks = 4
CHECK_DEADLOCK FALSE
INVARIANTS
  InodesSettle
  SettledIsFile
  DownloadInOrder
