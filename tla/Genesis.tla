------------------------------- MODULE Genesis -------------------------------
(***************************************************************************)
(* The parameters of the chain (chain/genesis.go) and the fee arithmetic   *)
(* that depends on nothing else.  Genesis.Verify checks only the magic     *)
(* number and the block rate, so the assumptions below are what the code   *)
(* needs in order not to divide by zero; DefaultGenesis satisfies them.    *)
(* Naturals stand for uint64: no instance reaches 2^64.                    *)
(***************************************************************************)
EXTENDS Integers, FiniteSets

CONSTANTS
  Addresses,     \* account addresses that can sign transactions
  ZeroAddress,   \* the address nobody owns; not a valid recipient
  Spaces,        \* space names that pass parser.CheckContents
  Keys,          \* keys that pass parser.CheckContents
  Values,        \* value contents
  Times,         \* unix timestamps a block may carry
  Prices,        \* unit prices of blocks and transactions
  LifelineUnits, \* Units fields of LifelineTx
  TransferUnits  \* Units fields of TransferTx

CONSTANTS
  NameLength,    \* [Spaces -> Nat], len(space)
  Size,          \* [Values -> Nat], len(value)
  HashKeys,      \* the keys as long as a hash (HashLen)
  ValueHash,     \* [Values -> key], valueHash(value)
  NamedAfter     \* [Spaces -> address]: a space as long as an address and the
                 \* address it spells; ZeroAddress for every other space

CONSTANTS
  BaseTxUnits, ValueUnitSize, MaxValueSize, ValueExpiryDiscount,
  ClaimLoadMultiplier, MinClaimFee, SpaceDesirabilityMultiplier,
  SpaceRenewalDiscount, ClaimReward, ClaimExpiryUnits,
  LotteryRewardMultipler, MaxIdentifierSize, GenesisPrice,
  Allocation     \* [Addresses -> Nat], the balances of CustomAllocation

ASSUME DomainsAssumption ==
  /\ ZeroAddress \notin Addresses
  /\ IsFiniteSet(Addresses)  \* 20 bytes each
  /\ IsFiniteSet(Keys)       \* at most MaxIdentifierSize characters each
  /\ Times \subseteq Nat \ {0}
  /\ Prices \subseteq Nat
  /\ LifelineUnits \subseteq Nat
  /\ TransferUnits \subseteq Nat
  /\ NameLength \in [Spaces -> 1..MaxIdentifierSize]
  /\ Size \in [Values -> Nat]
  /\ Allocation \in [Addresses -> Nat]

ASSUME ParametersAssumption ==
  /\ {BaseTxUnits, ClaimLoadMultiplier, MinClaimFee, SpaceDesirabilityMultiplier,
      ClaimReward, MaxValueSize, MaxIdentifierSize, GenesisPrice} \subseteq Nat
  /\ {ValueUnitSize, ValueExpiryDiscount, SpaceRenewalDiscount, ClaimExpiryUnits}
       \subseteq Nat \ {0}
  \* No more than the fee is ever handed out: DefaultGenesis uses 50.
  /\ LotteryRewardMultipler \in 0..100

-----------------------------------------------------------------------------

\* common_tx.go: valueUnits, and its share in the life of a space.
ValueUnits(v) == Size[v] \div ValueUnitSize + 1
ExpiryUnits(v) == ValueUnits(v) \div ValueExpiryDiscount

\* claim_tx.go: spaceNameUnits.  Shorter names cost more.
SpaceNameUnits(s) ==
  LET desirability ==
        (MaxIdentifierSize - NameLength[s]) * SpaceDesirabilityMultiplier
  IN IF desirability < MinClaimFee THEN MinClaimFee ELSE desirability

\* FeeUnits of each transaction type; Move, Delete and Transfer pay BaseTxUnits.
ClaimFeeUnits(s) == BaseTxUnits * ClaimLoadMultiplier + SpaceNameUnits(s)
LifelineFeeUnits(s, units) ==
  BaseTxUnits * ClaimLoadMultiplier + (SpaceNameUnits(s) \div SpaceRenewalDiscount) * units
SetFeeUnits(v) == BaseTxUnits + ValueUnits(v)

=============================================================================
