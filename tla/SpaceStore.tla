------------------------------ MODULE SpaceStore ------------------------------
(***************************************************************************)
(* What the chain promises its users about spaces, with none of the        *)
(* database's machinery: a space is a record with the values stored in it, *)
(* it exists exactly until its expiry has passed, its owner alone changes  *)
(* it, and a name that is claimed again starts empty.  There is no expiry  *)
(* queue, no owned index, no pruning queue and no stored unit count: the   *)
(* units a space weighs are those of the values it holds.                  *)
(* Ledger implements this module: run "spaces" checks it on a small        *)
(* instance, LedgerProofs proves it.                                       *)
(***************************************************************************)
EXTENDS Genesis, KeyValue, Counting

VARIABLES
  now,     \* timestamp of the latest block
  spaces   \* map from names to [owner, updated, expiry, store]

vars == <<now, spaces>>

\* The units a store weighs: those of the claim and those of every value.
Weight(store) ==
  ClaimExpiryUnits + Total([k \in DOMAIN store |-> ExpiryUnits(store[k])])

EmptyStore == [k \in {} |-> 0]

Init ==
  /\ now = 0
  /\ spaces = [s \in {} |-> 0]

\* Time reaches t: every space whose expiry is before t is gone.
Advance(t) ==
  /\ now <= t
  /\ now' = t
  /\ spaces' = Remove(spaces, {s \in DOMAIN spaces : spaces[s].expiry < t})

Claim(a, s) ==
  /\ s \notin DOMAIN spaces
  /\ spaces' = Put(spaces, s,
       [owner |-> a, updated |-> now, store |-> EmptyStore,
        expiry |-> now + ClaimReward \div ClaimExpiryUnits])
  /\ UNCHANGED now

\* Anyone may prolong the life of a space; heavier spaces gain less.
Lifeline(s, units) ==
  LET sp == spaces[s] IN
  /\ s \in DOMAIN spaces
  /\ spaces' = Put(spaces, s,
       [sp EXCEPT !.expiry = @ + (ClaimReward * units) \div Weight(sp.store)])
  /\ UNCHANGED now

\* The life of a space as it was at its last update, not what is left of it, is
\* spread over the new weight of its store and begins now.
Restock(s, store) ==
  LET sp == spaces[s]
      prepaid == (sp.expiry - sp.updated) * Weight(sp.store)
  IN
  /\ spaces' = Put(spaces, s,
       [sp EXCEPT !.updated = now, !.store = store,
                  !.expiry = now + prepaid \div Weight(store)])
  /\ UNCHANGED now

Set(a, s, k, v) ==
  /\ s \in DOMAIN spaces
  /\ spaces[s].owner = a
  /\ Restock(s, Put(spaces[s].store, k, v))

Delete(a, s, k) ==
  /\ s \in DOMAIN spaces
  /\ spaces[s].owner = a
  /\ k \in DOMAIN spaces[s].store
  /\ Restock(s, Remove(spaces[s].store, {k}))

Move(a, s, to) ==
  /\ s \in DOMAIN spaces
  /\ spaces[s].owner = a
  /\ to # a
  /\ spaces' = Put(spaces, s, [spaces[s] EXCEPT !.owner = to])
  /\ UNCHANGED now

Next ==
  \/ \E t \in Times : Advance(t)
  \/ \E a \in Addresses, s \in Spaces :
       \/ Claim(a, s)
       \/ \E k \in Keys, v \in Values : Set(a, s, k, v)
       \/ \E k \in Keys : Delete(a, s, k)
       \/ \E to \in Addresses : Move(a, s, to)
  \/ \E s \in Spaces, units \in LifelineUnits : Lifeline(s, units)

Spec == Init /\ [][Next]_vars

==============================================================================
