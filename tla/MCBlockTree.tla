----------------------------- MODULE MCBlockTree -----------------------------
(***************************************************************************)
(* Small instances of BlockTree: a tree with forks at two heights and      *)
(* branches of different length.                                           *)
(*                                                                         *)
(*   0 -- 1 -- 3 -- 6                                                      *)
(*    \     \- 4 -- 7                                                      *)
(*     \- 2 -- 5                                                           *)
(***************************************************************************)
EXTENDS BlockTree, TLC

MCParent == 0 :> 0 @@ 1 :> 0 @@ 2 :> 0 @@ 3 :> 1 @@ 4 :> 1 @@ 5 :> 2 @@ 6 :> 3 @@ 7 :> 4
MCHeight == 0 :> 0 @@ 1 :> 1 @@ 2 :> 1 @@ 3 :> 2 @@ 4 :> 2 @@ 5 :> 2 @@ 6 :> 3 @@ 7 :> 3

=============================================================================
