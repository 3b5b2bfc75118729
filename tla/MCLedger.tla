------------------------------ MODULE MCLedger ------------------------------
(***************************************************************************)
(* Small instances of Ledger.  The value "big" is twice as long as the     *)
(* other; the key "hash" is as long as a hash and equals the hash of "big".*)
(***************************************************************************)
EXTENDS Ledger

MCNameLength == [s \in Spaces |-> IF s = "x" THEN 5 ELSE MaxIdentifierSize]
MCSize == [v \in Values |-> IF v = "big" THEN 2 ELSE 1]
MCHashKeys == {"hash"} \cap Keys
MCValueHash == [v \in Values |-> IF v = "big" THEN "hash" ELSE "otherhash"]

\* No name spells an address.
MCNobody == [s \in Spaces |-> ZeroAddress]

\* Every account starts with nothing, or with enough for a claim.
MCPoor == [a \in Addresses |-> 0]
MCRich == [a \in Addresses |-> 4]

=============================================================================
