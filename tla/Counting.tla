------------------------------ MODULE Counting ------------------------------
(***************************************************************************)
(* The sum of the values of a map to naturals, as the cardinality of the   *)
(* set that holds one element for every unit: the balances of the accounts *)
(* and the units a space weighs are totals of this kind.  (A sum written   *)
(* as a fold would need an induction; facts about this one follow from     *)
(* those on finite sets.)                                                  *)
(***************************************************************************)
EXTENDS Integers, FiniteSets

UnitsAt(f, x) == {x} \X (1..f[x])
Units(f) == UNION {UnitsAt(f, x) : x \in DOMAIN f}
Total(f) == Cardinality(Units(f))

=============================================================================
