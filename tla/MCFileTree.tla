------------------------------ MODULE MCFileTree ------------------------------
(***************************************************************************)
(* A small instance of FileTree: a file with a chunk that occurs twice,    *)
(* which is uploaded, downloaded and deleted at the same time.  By hand an *)
(* owner puts the root of a small or of an empty file in place of its root,*)
(* and something else in place of a chunk.                                 *)
(***************************************************************************)
EXTENDS FileTree

MCContent ==
  [f \in Files |-> IF f = "f" THEN <<"a", "b", "a">> ELSE IF f = "s" THEN <<"a">> ELSE <<>>]

MCFileOf == [c \in Calls |-> "f"]

MCByHand == {<<"f", "s">>, <<"f", "e">>, <<"a", "junk">>}

=============================================================================
