-------------------------------- MODULE Chain --------------------------------
(***************************************************************************)
(* One branch of the block tree, from genesis to its tip: which blocks the *)
(* VM admits on it.  A block is judged by its ancestors alone              *)
(* (StatelessBlock.verify, VM.lookback, VM.ExecutionContext), so whatever  *)
(* holds of every branch holds along every path of the tree.               *)
(*                                                                         *)
(* A block's id is its position, 1 for genesis.  A transaction names the   *)
(* block it was signed against (BlockID); one that names a block of        *)
(* another branch has a ref outside 1..Len(chain) for ever.  Transactions  *)
(* with equal contents have equal ids.  What a transaction does to the     *)
(* database is Ledger's business: here it may always succeed.  The wall    *)
(* clock that refuses a block more than futureBound ahead of it is left    *)
(* out, since a block refused now is admitted later.                       *)
(***************************************************************************)
EXTENDS Integers, Sequences, FiniteSets, Functions

CONSTANTS
  Txs,              \* transactions: [id, ref, price, load, fee]
  Times,            \* timestamps of blocks
  MaxBlockTxs,      \* bound of the model: transactions in a block
  MaxBlocks         \* bound of the model: blocks on the branch

CONSTANTS           \* the fee mechanism of the genesis
  MinPrice, MinBlockCost, LookbackWindow, TargetBlockRate, TargetBlockSize,
  MaxBlockSize, BlockCostEnabled

ASSUME ChainAssumption ==
  /\ \A tx \in Txs : /\ {tx.price, tx.load, tx.fee} \subseteq Nat
                     /\ tx.ref \in Nat
  /\ Times \subseteq Nat
  /\ {MaxBlockTxs, MaxBlocks, MinPrice, MinBlockCost, TargetBlockSize, MaxBlockSize}
       \subseteq Nat
  /\ {LookbackWindow, TargetBlockRate} \subseteq Nat \ {0}
  /\ BlockCostEnabled \in BOOLEAN

VARIABLE chain      \* the blocks: [tmstmp, price, cost, txs]

Block == [tmstmp : Nat, price : Nat, cost : Nat, txs : Seq(Txs)]

TypeOK ==
  /\ chain \in Seq(Block)
  /\ Len(chain) > 0

\* Genesis.StatefulBlock.
Init == chain = <<[tmstmp |-> 0, price |-> MinPrice, cost |-> MinBlockCost, txs |-> <<>>]>>

SumOver(field(_), txs) ==
  SumFunctionOnSet([n \in DOMAIN txs |-> field(txs[n])], DOMAIN txs)
LoadOf(tx) == tx.load
Load(txs) == SumOver(LoadOf, txs)

-----------------------------------------------------------------------------
(* The execution context of a block at time t whose parent is block n      *)

\* lookback: the parent however old it is, then back from ancestor to ancestor
\* until one is too old.
Window(n, t) ==
  {i \in 1..n : \A j \in i..(n - 1) : t - chain[j].tmstmp <= LookbackWindow}

RecentTxsOfParent(n, t) == Range(chain[n].txs)

RecentTxs(n, t) == UNION {Range(chain[i].txs) : i \in Window(n, t)}

RecentUnits(n, t) ==
  LET window == Window(n, t) IN
  SumFunctionOnSet([i \in window |-> Load(chain[i].txs)], window)

NextCostFree(n, t) ==
  IF t - chain[n].tmstmp < TargetBlockRate THEN chain[n].cost ELSE MinBlockCost

NextCostUnclamped(n, t) ==
  chain[n].cost + TargetBlockRate - (t - chain[n].tmstmp)

\* A block early by some seconds costs as much more; a late one as much less,
\* down to the minimum.
NextCost(n, t) ==
  LET cost == chain[n].cost
      since == t - chain[n].tmstmp
      late == since - TargetBlockRate
  IN
  IF ~BlockCostEnabled THEN cost
  ELSE IF late < 0 THEN cost - late
  ELSE IF cost >= MinBlockCost /\ late < cost - MinBlockCost THEN cost - late
  ELSE MinBlockCost

TargetRangeUnits == (TargetBlockSize \div TargetBlockRate) * LookbackWindow

NextPriceAtTarget(n, t) ==
  IF RecentUnits(n, t) >= TargetRangeUnits THEN chain[n].price + 1 ELSE MinPrice

\* One more per block while the window holds more than its target, less by the
\* windows elapsed, down to the minimum, while it holds less.
NextPrice(n, t) ==
  LET price == chain[n].price
      windows == (t - chain[n].tmstmp) \div LookbackWindow + 1
  IN
  CASE RecentUnits(n, t) > TargetRangeUnits -> price + 1
    [] RecentUnits(n, t) = TargetRangeUnits -> price
    [] OTHER -> IF price >= MinPrice /\ windows < price - MinPrice
                THEN price - windows ELSE MinPrice

-----------------------------------------------------------------------------
(* Blocks                                                                  *)

NotBeforeGenesis(n, t) == chain[1].tmstmp <= t

\* ErrTimestampTooEarly; a block may carry its parent's timestamp.
NotBeforeParent(n, t) == chain[n].tmstmp <= t

\* ExecuteBase and the head of Transaction.Execute.
Admissible(tx, n, t) ==
  /\ tx.price >= MinPrice
  /\ tx.ref \in Window(n, t)
  /\ tx \notin RecentTxs(n, t)
  /\ tx.price >= NextPrice(n, t)

\* verify, for a block with transactions txs at time t on the tip.  It compares
\* the block's price and cost with those of its context; every transaction is
\* judged by the context of the block, whatever stands before it in the block.
Verify(t, txs) ==
  LET n == Len(chain)
      price == NextPrice(n, t)
      cost == NextCost(n, t)
      surplus(tx) == (tx.price - price) * tx.fee
  IN
  /\ n < MaxBlocks
  /\ txs # <<>>
  /\ Load(txs) <= MaxBlockSize
  /\ NotBeforeParent(n, t)
  /\ \A k \in DOMAIN txs : Admissible(txs[k], n, t)
  /\ SumOver(surplus, txs) >= price * cost
  /\ chain' = Append(chain, [tmstmp |-> t, price |-> price, cost |-> cost, txs |-> txs])

Next ==
  \E t \in Times, m \in 1..MaxBlockTxs : \E txs \in [1..m -> Txs] : Verify(t, txs)

Spec == Init /\ [][Next]_chain

-----------------------------------------------------------------------------
(* Properties                                                              *)

\* No transaction is executed by two blocks of a branch.  The context knows the
\* transactions of the window only: it must be that a transaction whose block
\* id is still in the window was executed inside the window or not at all.
NoReplay ==
  \A i, j \in DOMAIN chain :
    i < j => Range(chain[i].txs) \cap Range(chain[j].txs) = {}

\* The windows of successive blocks only move forward: a block id that a block
\* finds too old is too old for all its descendants.  Mempool.Prune relies on
\* it when it drops a transaction for good.
WindowsNest ==
  \A i, j \in DOMAIN chain :
    (1 < i /\ i < j) =>
      Window(j - 1, chain[j].tmstmp) \cap 1..(i - 1) \subseteq Window(i - 1, chain[i].tmstmp)

\* Blocks cannot outpace the target rate for nothing: between any two blocks
\* the cost rises by at least what they are ahead of it.
CostPaces ==
  BlockCostEnabled =>
    \A i, j \in DOMAIN chain :
      i <= j => chain[j].cost >=
                  chain[i].cost + TargetBlockRate * (j - i) - (chain[j].tmstmp - chain[i].tmstmp)

\* The price exceeds the minimum by no more than the blocks that found their
\* window above its target.
PriceEarned ==
  \A j \in DOMAIN chain :
    chain[j].price <= MinPrice +
      Cardinality({i \in 2..j : RecentUnits(i - 1, chain[i].tmstmp) > TargetRangeUnits})

=============================================================================
