------------------------------ MODULE MCMempool ------------------------------
(***************************************************************************)
(* Small instances of Mempool: transactions of different prices, two of    *)
(* them of the same, one too large to share a gossip message.  The heaps    *)
(* are deep enough for an entry that replaces a removed one to rise.        *)
(***************************************************************************)
EXTENDS Mempool, TLC

MCPrice == 1 :> 1 @@ 2 :> 2 @@ 3 :> 2 @@ 4 :> 3 @@ 5 :> 4 @@ 6 :> 5
MCLoad == [tx \in Txs |-> IF tx = 3 THEN 2 ELSE 1]
MCBlockID == [tx \in Txs |-> tx % 2]

=============================================================================
