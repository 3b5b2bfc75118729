------------------------------ MODULE MCJourney ------------------------------
(***************************************************************************)
(* A small instance of Journey: a claim of a space and, after one block or *)
(* another, a value set in it.                                             *)
(***************************************************************************)
EXTENDS Journey

After(typ, blockID, data) ==
  [typ |-> typ, magic |-> 1,
   data |-> [k \in FieldNames(typ) |->
     CASE k = "price" -> 1 [] k = "blockID" -> blockID [] OTHER -> data[k]]]

MCInputs ==
  {After("claim", "b", [space |-> "x"]),
   After("set", "b", [space |-> "x", key |-> "k", value |-> "v"]),
   After("set", "c", [space |-> "x", key |-> "k", value |-> "v"])}

MCFunds == [a \in Accounts |-> 1]

=============================================================================
