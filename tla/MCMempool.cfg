SPECIFICATION MempoolSpec
CONSTANTS
  Txs = {1, 2, 3, 4, 5, 6}
  Price <- MCPrice
  Load <- MCLoad
  BlockID <- MCBlockID
  MaxSize = 5
  GossipUnits = 2
  MaxNew = 2
INVARIANTS
  HeapsInSync
PROPERTIES
  ImplementsPool
