------------------------------ MODULE MCBuilding ------------------------------
(***************************************************************************)
(* Small instances of Building: transactions of two prices and two sizes,  *)
(* and a gossip message that holds one or two of them.                     *)
(***************************************************************************)
EXTENDS Building

MCPrice == [tx \in Txs |-> IF tx = 1 THEN 1 ELSE 2]
MCLoad == [tx \in Txs |-> IF tx = 3 THEN 2 ELSE 1]

===============================================================================
