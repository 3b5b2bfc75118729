SPECIFICATION Spec
CONSTANTS
  TxNames = {"a"}
  Refs = {1, 2, 3, 4}
  TxPrices = {1, 4}
  TxLoads = {1, 3}
  Txs <- MCTxs
  Times = {1, 2, 3, 4, 6}
  MaxBlockTxs = 2
  MaxBlocks = 5
  MinPrice = 1
  MinBlockCost = 0
  LookbackWindow = 1
  TargetBlockRate = 1
  TargetBlockSize = 2
  MaxBlockSize = 3
  BlockCostEnabled = TRUE
CHECK_DEADLOCK FALSE
INVARIANTS
  NoReplay
  WindowsNest
  TypeOK
  CostPaces
  PriceEarned
