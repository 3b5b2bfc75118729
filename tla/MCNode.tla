-------------------------------- MODULE MCNode --------------------------------
(***************************************************************************)
(* A small instance of Node: three starts, blocks without transactions,    *)
(* with one, and with two of which the first wins.                         *)
(***************************************************************************)
EXTENDS Node

MCBlocks == {<<>>, <<FALSE>>, <<TRUE, FALSE>>}

=============================================================================
