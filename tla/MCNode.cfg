SPECIFICATION Spec
CONSTANTS
  CacheSizes = {0, 2, 3}
  Blocks <- MCBlocks
  MaxHeight = 3
  MaxBoots = 3
INVARIANTS
  TypeOK
  RestartSound
  RecentIsNewest
PROPERTIES
  ShutdownReturns
CHECK_DEADLOCK FALSE
