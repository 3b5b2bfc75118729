-------------------------------- MODULE TxHeap --------------------------------
(***************************************************************************)
(* The heap of mempool/tx_heap.go under the operations of container/heap,  *)
(* an array in which every entry also remembers its own position: Swap     *)
(* must keep the two in step, since the mempool removes entries by the     *)
(* position they remember.  Positions count from 1.                        *)
(***************************************************************************)
EXTENDS Integers, Sequences, Functions

CONSTANT Price    \* [transactions -> Nat]

\* A heap: items and, for every item of lookup, the index its entry remembers.
EmptyHeap(isMinHeap) ==
  [isMinHeap |-> isMinHeap, items |-> <<>>, index |-> [tx \in {} |-> 0]]

Has(h, tx) == tx \in DOMAIN h.index

Less(h, i, j) ==
  IF h.isMinHeap THEN Price[h.items[i]] < Price[h.items[j]]
                 ELSE Price[h.items[i]] > Price[h.items[j]]

Swap(h, i, j) ==
  [h EXCEPT !.items = [@ EXCEPT ![i] = h.items[j], ![j] = h.items[i]],
            !.index = [@ EXCEPT ![h.items[j]] = i, ![h.items[i]] = j]]

\* container/heap: an entry rises while it comes before its parent, and since each
\* step halves its position, as many steps as the position has numbers suffice.
Rise(s) ==
  LET parent == s.at \div 2 IN
  IF s.at = 1 \/ ~Less(s.heap, s.at, parent) THEN s
  ELSE [heap |-> Swap(s.heap, parent, s.at), at |-> parent]

Up(h, j) ==
  LET after[n \in 0..j] == IF n = 0 THEN [heap |-> h, at |-> j] ELSE Rise(after[n - 1])
  IN  after[j].heap

\* container/heap: among the first n, an entry sinks while a child comes first.
Sink(s, n) ==
  LET left == 2 * s.at
      child == IF left < n /\ Less(s.heap, left + 1, left) THEN left + 1 ELSE left
  IN
  IF left > n \/ ~Less(s.heap, child, s.at) THEN s
  ELSE [heap |-> Swap(s.heap, s.at, child), at |-> child]

Down(h, i, n) ==
  LET after[k \in 0..n] == IF k = 0 THEN [heap |-> h, at |-> i] ELSE Sink(after[k - 1], n)
  IN  after[n].heap

\* Push, of an entry whose index is the old length.
Push(h, tx) ==
  LET n == Len(h.items) + 1 IN
  IF Has(h, tx) THEN h
  ELSE Up([h EXCEPT !.items = Append(@, tx),
                    !.index = [t \in DOMAIN @ \cup {tx} |-> IF t = tx THEN n ELSE @[t]]], n)

\* Pop: the last item leaves the array and the lookup.
Pop(h) ==
  LET n == Len(h.items) IN
  [h EXCEPT !.items = SubSeq(@, 1, n - 1),
            !.index = Restrict(@, DOMAIN @ \ {h.items[n]})]

RemoveWithoutUp(h, i) ==
  LET n == Len(h.items) IN
  IF i = n THEN Pop(h) ELSE Pop(Down(Swap(h, i, n), i, n - 1))

\* heap.Remove: the last item takes the place, and sinks or else rises from it.
RemoveAt(h, i) ==
  LET n == Len(h.items)
      swapped == Swap(h, i, n)
      sunk == Down(swapped, i, n - 1)
  IN
  IF i = n THEN Pop(h) ELSE Pop(IF sunk # swapped THEN sunk ELSE Up(swapped, i))

\* No entry comes before its parent, and every entry knows where it is.
WellFormed(h) ==
  /\ DOMAIN h.index = Range(h.items)
  /\ \A i \in DOMAIN h.items : h.index[h.items[i]] = i
  /\ \A i \in DOMAIN h.items : i > 1 => ~Less(h, i, i \div 2)

===============================================================================
