--------------------------------- MODULE Pool ---------------------------------
(***************************************************************************)
(* What the mempool promises its callers: a bounded set of transactions    *)
(* that drops its cheapest when full and hands out its dearest, a list of  *)
(* newcomers to be gossiped in the order of their arrival, and a token     *)
(* that says that something came in.  Mempool implements it.               *)
(***************************************************************************)
EXTENDS Integers, Sequences, FiniteSets, MempoolInterface

VARIABLE pool   \* the transactions held

vars == <<pool, newTxs, pending, got>>

Init == pool = {} /\ newTxs = <<>> /\ pending = FALSE /\ got = <<>>

Cheapest(txs) == {tx \in txs : \A other \in txs : Price[tx] <= Price[other]}
Dearest(txs) == {tx \in txs : \A other \in txs : Price[tx] >= Price[other]}

\* A newcomer is announced unless it is the one that had to go.
Add(tx) ==
  LET more == pool \cup {tx} IN
  /\ tx \notin pool
  /\ \E left \in IF Cardinality(more) > MaxSize
                 THEN {more \ {cheap} : cheap \in Cheapest(more)} ELSE {more} :
       /\ pool' = left
       /\ IF tx \in left
          THEN newTxs' = Append(newTxs, tx) /\ pending' = TRUE
          ELSE UNCHANGED <<newTxs, pending>>
  /\ got' = <<>>

PopMax ==
  \E tx \in Dearest(pool) :
    /\ pool' = pool \ {tx}
    /\ got' = <<tx>>
    /\ UNCHANGED <<newTxs, pending>>

Remove(tx) ==
  /\ pool' = pool \ {tx}
  /\ got' = <<>>
  /\ UNCHANGED <<newTxs, pending>>

\* Of the first newcomers, those that are still in the pool, and their units.
Present ==
  LET among[n \in 0..Len(newTxs)] ==
        IF n = 0 THEN <<>>
        ELSE IF newTxs[n] \in pool THEN Append(among[n - 1], newTxs[n]) ELSE among[n - 1]
  IN  among

Units ==
  LET of[n \in 0..Len(newTxs)] ==
        IF n = 0 THEN 0 ELSE of[n - 1] + IF newTxs[n] \in pool THEN Load[newTxs[n]] ELSE 0
  IN  of

\* As many newcomers as fit a gossip message and are still in the pool, taken
\* from the front; the rest waits for the next one.
NewTxs ==
  \E n \in 0..Len(newTxs) :
    /\ Units[n] <= GossipUnits
    /\ n < Len(newTxs) => newTxs[n + 1] \in pool /\ Units[n + 1] > GossipUnits
    /\ got' = Present[n]
    /\ newTxs' = SubSeq(newTxs, n + 1, Len(newTxs))
    /\ UNCHANGED <<pool, pending>>

TakePending == pending /\ pending' = FALSE /\ got' = <<>> /\ UNCHANGED <<pool, newTxs>>

Next ==
  \/ \E tx \in Txs : Add(tx) \/ Remove(tx)
  \/ PopMax \/ NewTxs \/ TakePending

Spec == Init /\ [][Next]_vars

===============================================================================
