SPECIFICATION Spec
CONSTANTS
  Addresses = {"alice", "bob"}
  ZeroAddress = "zero"
  Spaces = {"x"}
  Keys = {"k", "hash"}
  Values = {"small", "big"}
  Times = {1, 4}
  Prices = {0, 2}
  LifelineUnits = {1}
  TransferUnits = {1}
  NameLength <- MCNameLength
  Size <- MCSize
  HashKeys <- MCHashKeys
  ValueHash <- MCValueHash
  NamedAfter <- MCNobody
  BaseTxUnits = 1
  ValueUnitSize = 2
  MaxValueSize = 2
  ValueExpiryDiscount = 1
  ClaimLoadMultiplier = 1
  MinClaimFee = 1
  SpaceDesirabilityMultiplier = 1
  SpaceRenewalDiscount = 1
  ClaimReward = 4
  ClaimExpiryUnits = 2
  LotteryRewardMultipler = 50
  MaxIdentifierSize = 6
  GenesisPrice = 0
  Allocation <- MCRich
  PruneLimit = 1
  MaxExpiry = 6
INVARIANTS
  UnitsExact
PROPERTIES
  SupplyNeverGrows
