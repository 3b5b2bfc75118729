--------------------------- MODULE MempoolInterface ---------------------------
(***************************************************************************)
(* What the mempool and those who call it have in common: transactions,    *)
(* limits, and what a caller sees besides the transactions held.           *)
(***************************************************************************)
EXTENDS Integers

CONSTANTS
  Txs,          \* transactions
  Price,        \* [Txs -> Nat], GetPrice
  Load,         \* [Txs -> Nat], LoadUnits
  MaxSize,      \* config.MempoolSize
  GossipUnits,  \* genesis.TargetBlockSize, what the gossip loop asks for
  MaxNew        \* bound of the model: length of newTxs

ASSUME InterfaceAssumption ==
  /\ Price \in [Txs -> Nat] /\ Load \in [Txs -> Nat]
  /\ MaxSize \in Nat \ {0} /\ GossipUnits \in Nat /\ MaxNew \in Nat

VARIABLES
  newTxs,       \* transactions to be gossiped, oldest first
  pending,      \* whether there is an item on Pending
  got           \* what the last call returned

===============================================================================
