SPECIFICATION Spec
CONSTANTS
  Chunks = {"a", "b", "0"}
  Files = {"f", "s", "e"}
  Content <- MCContent
  Small = {"s"}
  Zeros = "0"
  Junk = "junk"
  Uploads = {"upload"}
  Downloads = {"download"}
  Deletes = {"delete"}
  FileOf <- MCFileOf
  ByHand <- MCByHand
  MaxLives = 2
INVARIANTS
  TypeOK
  RootsComplete
  DeletesComplete
  DownloadInOrder
CHECK_DEADLOCK FALSE
