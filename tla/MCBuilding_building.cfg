SPECIFICATION BuildingSpec
CONSTANTS
  Txs = {1, 2, 3}
  Price <- MCPrice
  Load <- MCLoad
  MaxSize = 2
  GossipUnits = 2
  ChannelSize = 1
  Dispatched = TRUE
  MaxNew = 2
\* the process may die
CHECK_DEADLOCK FALSE
INVARIANTS
  OneRequest
  NoneForgotten
PROPERTIES
  Signalled
