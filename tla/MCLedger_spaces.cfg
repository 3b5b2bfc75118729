SPECIFICATION Spec
CONSTANTS
  Addresses = {alice, bob}
  ZeroAddress = "zero"
  Spaces = {sx, sy}
  Keys = {"k"}
  Values = {"big"}
  Times = {1, 2, 4}
  Prices = {0}
  LifelineUnits = {1}
  TransferUnits = {}
  NameLength <- MCNameLength
  Size <- MCSize
  HashKeys <- MCHashKeys
  ValueHash <- MCValueHash
  NamedAfter <- MCNobody
  BaseTxUnits = 1
  ValueUnitSize = 1
  MaxValueSize = 2
  ValueExpiryDiscount = 1
  ClaimLoadMultiplier = 1
  MinClaimFee = 1
  SpaceDesirabilityMultiplier = 1
  SpaceRenewalDiscount = 1
  ClaimReward = 4
  ClaimExpiryUnits = 2
  LotteryRewardMultipler = 50
  MaxIdentifierSize = 6
  GenesisPrice = 0
  Allocation <- MCPoor
  PruneLimit = 1
  MaxExpiry = 5
INVARIANTS
  TypeOK
  IndexesExact
  LiveNotExpired
  PrunedIsDead
  NoOrphanValues
PROPERTIES
  ImplementsSpaceStore
  EventuallyPruned
