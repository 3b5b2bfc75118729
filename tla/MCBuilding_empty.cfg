SPECIFICATION BuildingSpec
CONSTANTS
  Txs = {1, 2}
  Price <- MCPrice
  Load <- MCLoad
  MaxSize = 2
  GossipUnits = 2
  ChannelSize = 1
  Dispatched = FALSE
  MaxNew = 2
CHECK_DEADLOCK FALSE
INVARIANTS
  NonZeroItems
