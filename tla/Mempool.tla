------------------------------- MODULE Mempool -------------------------------
(***************************************************************************)
(* mempool/mempool.go: two heaps over one set of transactions, one by the  *)
(* highest and one by the lowest price.  An operation holds the mutex from *)
(* start to end, except Prune, which reads under the lock and removes one  *)
(* by one: a pop of the gossip goroutine may come between, while the       *)
(* engine's lock keeps every other caller out.                             *)
(***************************************************************************)
EXTENDS Integers, Sequences, FiniteSets, Functions, MempoolInterface

INSTANCE TxHeap

CONSTANT BlockID   \* [Txs -> block ids], GetBlockID

ASSUME MempoolAssumption == DOMAIN BlockID = Txs

VARIABLES
  heaps,        \* [max, min]: maxHeap and minHeap
  toRemove      \* toRemove of the running Prune

mempoolVars == <<heaps, newTxs, pending, toRemove, got>>

MempoolInit ==
  /\ heaps = [max |-> EmptyHeap(FALSE), min |-> EmptyHeap(TRUE)]
  /\ newTxs = <<>> /\ pending = FALSE /\ toRemove = {} /\ got = <<>>

\* The remove of the mempool: each heap removes by the index its entry holds.
Without(tx, both) ==
  IF ~Has(both.max, tx) THEN both
  ELSE [max |-> RemoveAt(both.max, both.max.index[tx]),
        min |-> IF Has(both.min, tx) THEN RemoveAt(both.min, both.min.index[tx]) ELSE both.min]

Overflows(both) == Len(both.max.items) > MaxSize

\* Add: in a full pool the cheapest transaction goes, which may be the new one.
Add(tx) ==
  LET both == [max |-> Push(heaps.max, tx), min |-> Push(heaps.min, tx)]
      full == Overflows(both)
      cheapest == both.min.items[1]
  IN
  /\ toRemove = {}
  /\ ~Has(heaps.max, tx)
  /\ Len(newTxs) < MaxNew
  /\ heaps' = IF full THEN Without(cheapest, both) ELSE both
  /\ IF full /\ cheapest = tx
     THEN UNCHANGED <<newTxs, pending>>
     ELSE newTxs' = Append(newTxs, tx) /\ pending' = TRUE
  /\ got' = <<>>
  /\ UNCHANGED toRemove

\* PopMax, whose callers have seen a length above zero.
PopMax ==
  /\ heaps.max.items # <<>>
  /\ heaps' = Without(heaps.max.items[1], heaps)
  /\ got' = <<heaps.max.items[1]>>
  /\ UNCHANGED <<newTxs, pending, toRemove>>

\* Remove, called for the transactions of a verified block.
Remove(tx) ==
  /\ toRemove = {}
  /\ heaps' = Without(tx, heaps)
  /\ got' = <<>>
  /\ UNCHANGED <<newTxs, pending, toRemove>>

\* Prune, first half: the transactions whose block id is not valid any more.
PruneScan(validHashes) ==
  /\ toRemove = {}
  /\ toRemove' = {tx \in Range(heaps.max.items) : BlockID[tx] \notin validHashes}
  /\ UNCHANGED <<heaps, newTxs, pending, got>>

\* Prune, second half.
PruneRemove(tx) ==
  /\ tx \in toRemove
  /\ toRemove' = toRemove \ {tx}
  /\ heaps' = Without(tx, heaps)
  /\ got' = <<>>
  /\ UNCHANGED <<newTxs, pending>>

\* The loop of NewTxs over the newcomers: what it selects, their units, and the
\* first it leaves, where a newcomer that is too large makes it return.
SelectNewSkipping ==
  LET run[i \in 0..Len(newTxs)] ==
        IF i = 0 THEN [selected |-> <<>>, units |-> 0, next |-> 1]
        ELSE LET before == run[i - 1]
                 tx == newTxs[i]
             IN
             IF ~Has(heaps.max, tx) \/ Load[tx] > GossipUnits - before.units
             THEN [before EXCEPT !.next = i + 1]
             ELSE [selected |-> Append(before.selected, tx),
                   units |-> before.units + Load[tx], next |-> i + 1]
  IN  run[Len(newTxs)]

SelectNew ==
  LET run[i \in 0..Len(newTxs)] ==
        IF i = 0 THEN [selected |-> <<>>, units |-> 0, next |-> 1]
        ELSE LET before == run[i - 1]
                 tx == newTxs[i]
             IN
             IF before.next < i THEN before
             ELSE IF ~Has(heaps.max, tx) THEN [before EXCEPT !.next = i + 1]
             ELSE IF Load[tx] > GossipUnits - before.units THEN before
             ELSE [selected |-> Append(before.selected, tx),
                   units |-> before.units + Load[tx], next |-> i + 1]
  IN  run[Len(newTxs)]

NewTxs ==
  LET run == SelectNew IN
  /\ got' = run.selected
  /\ newTxs' = SubSeq(newTxs, run.next, Len(newTxs))
  /\ UNCHANGED <<heaps, pending, toRemove>>

\* The build loop receives from Pending.
TakePending ==
  /\ pending
  /\ pending' = FALSE
  /\ got' = <<>>
  /\ UNCHANGED <<heaps, newTxs, toRemove>>

MempoolNext ==
  \/ \E tx \in Txs : Add(tx) \/ Remove(tx) \/ PruneRemove(tx)
  \/ \E valid \in SUBSET Range(BlockID) : PruneScan(valid)
  \/ PopMax \/ NewTxs \/ TakePending

MempoolSpec == MempoolInit /\ [][MempoolNext]_mempoolVars

-----------------------------------------------------------------------------
(* Properties                                                              *)

\* The two heaps hold the same transactions, each in heap order and with every
\* entry at the position it remembers: the cases remove() calls impossible are,
\* and what is removed by index is what was meant.
HeapsInSync ==
  /\ \A h \in {heaps.max, heaps.min} : /\ h.items \in Seq(Txs) /\ DOMAIN h.index \subseteq Txs
                                       /\ Len(h.items) <= MaxSize
  /\ WellFormed(heaps.max) /\ WellFormed(heaps.min)
  /\ DOMAIN heaps.max.index = DOMAIN heaps.min.index
  /\ Len(heaps.max.items) = Cardinality(DOMAIN heaps.max.index)

Held == DOMAIN heaps.max.index
Promised == INSTANCE Pool WITH pool <- Held

\* The callers see a bounded priority pool: the dearest leaves first, the
\* cheapest is dropped, gossip keeps the order of arrival.
ImplementsPool == Promised!Spec

=============================================================================
