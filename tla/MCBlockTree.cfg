SPECIFICATION Spec
CONSTANTS
  Blocks = {0, 1, 2, 3, 4, 5, 6, 7}
  Genesis = 0
  Parent <- MCParent
  Height <- MCHeight
  CacheSize = 2
  Disk = ondisk
  NoDB = nodb
INVARIANTS
  TypeOK
  Durable
  OverlaysOnParent
  ViewIsBranch
