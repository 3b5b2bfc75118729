------------------------------ MODULE MCChain ------------------------------
(***************************************************************************)
(* Small instances of Chain: transactions that differ in the block they    *)
(* were signed against, in their price and in the units they load.         *)
(***************************************************************************)
EXTENDS Chain

CONSTANTS TxNames, Refs, TxPrices, TxLoads

MCTxs ==
  {[id |-> name, ref |-> r, price |-> p, load |-> l, fee |-> l] :
     name \in TxNames, r \in Refs, p \in TxPrices, l \in TxLoads}

=============================================================================
