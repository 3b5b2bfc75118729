------------------------------- MODULE VMProofs -------------------------------
(***************************************************************************)
(* The process of a node: what a start finds on disk after a crash at any  *)
(* moment, loops, locks and the ring of recent activity (Node), the        *)
(* threads around the mempool (Building), and the mempool itself: that its *)
(* heaps stay in step and are, together, the pool of Pool.  For any number *)
(* of starts, blocks and transactions, and any sizes of ring, pool and     *)
(* channel.                                                                *)
(***************************************************************************)
EXTENDS Node, Mempool, Building, SequenceTheorems, Facts

-----------------------------------------------------------------------------
(* Crashes: the first start writes several times, so the invariant says of *)
(* every prefix of its writes what is on disk after it.                    *)

\* What is on disk while the first start writes, by what is still to be written.
FirstBootWrites ==
  phase = "first" =>
    \/ todo = FirstBoot /\ disk.pointer = None
    \/ todo = <<"pointer", "block">> /\ disk.pointer = None /\ disk.state = 0
    \/ todo = <<"block">> /\ disk.pointer = 0

\* The node knows the block it takes for the last accepted.
Whole == disk.pointer # None /\ disk.pointer \in disk.stored

DiskInv ==
  /\ disk = [pointer |-> disk.pointer, stored |-> disk.stored, state |-> disk.state]
  /\ phase \in {"down", "first", "start", "up", "failed", "closing", "closed"}
  /\ disk.pointer \in Nat \cup {None}
  /\ disk.pointer # None => disk.state = disk.pointer
  /\ FirstBootWrites
  /\ (phase \in {"start", "up", "closing", "closed"} \/ wasUp) => Whole
  /\ phase = "failed" => ~Whole
  /\ wasUp => phase # "first"

\* An empty disk.
LEMMA DiskInit == Init => DiskInv
BY DEF Init, DiskInv, FirstBootWrites, Whole, None

\* A start: the first, one that finds its last block, or one that does not.
LEMMA InitializeInv ==
  ASSUME DiskInv, Initialize
  PROVE  DiskInv'
BY DEF DiskInv, Initialize, FirstBootWrites, FirstBoot, Whole

\* One put of the first start.
LEMMA WriteInv ==
  ASSUME DiskInv, Write
  PROVE  DiskInv'
<1>1. /\ phase = "first" /\ wasUp' = wasUp /\ ~wasUp
      /\ todo' = Tail(todo)
      /\ phase' = IF Tail(todo) = <<>> THEN "start" ELSE "first"
  BY DEF Write, DiskInv
<1>2. CASE todo = FirstBoot /\ disk.pointer = None
  <2>1. Head(todo) = "load" /\ Tail(todo) = <<"pointer", "block">>
    BY <1>2 DEF FirstBoot
  <2>2. disk' = [disk EXCEPT !.state = 0]
    BY <2>1 DEF Write
  <2>3. disk'.pointer = None /\ disk'.state = 0 /\ disk'.stored = disk.stored
    BY <1>2, <2>2 DEF DiskInv
  <2> QED
    BY <1>1, <2>1, <2>2, <2>3 DEF DiskInv, FirstBootWrites, Whole
<1>3. CASE todo = <<"pointer", "block">> /\ disk.pointer = None /\ disk.state = 0
  <2>1. Head(todo) = "pointer" /\ Tail(todo) = <<"block">>
    BY <1>3
  <2>2. disk' = [disk EXCEPT !.pointer = 0]
    BY <2>1 DEF Write
  <2>3. disk'.pointer = 0 /\ disk'.state = 0 /\ disk'.stored = disk.stored
    BY <1>3, <2>2 DEF DiskInv
  <2> QED
    BY <1>1, <2>1, <2>2, <2>3 DEF DiskInv, FirstBootWrites, Whole
<1>4. CASE todo = <<"block">> /\ disk.pointer = 0
  <2>1. Head(todo) = "block" /\ Tail(todo) = <<>>
    BY <1>4
  <2>2. disk' = [disk EXCEPT !.stored = @ \cup {0}]
    BY <2>1 DEF Write
  <2>3. /\ disk'.pointer = 0 /\ disk'.state = disk.state
        /\ disk'.stored = disk.stored \cup {0}
        /\ disk' = [pointer |-> disk'.pointer, stored |-> disk'.stored, state |-> disk'.state]
    BY <1>4, <2>2 DEF DiskInv
  <2>4. Whole' /\ phase' = "start" /\ disk'.state = 0
    BY <1>1, <1>4, <2>1, <2>3 DEF DiskInv, Whole, None
  <2> QED
    BY <1>1, <2>3, <2>4 DEF DiskInv, FirstBootWrites, None
<1> QED
  BY <1>1, <1>2, <1>3, <1>4 DEF DiskInv, FirstBootWrites

\* An accepted block reaches the disk as one batch.
LEMMA AcceptInv ==
  ASSUME DiskInv, Accept
  PROVE  DiskInv'
<1>1. /\ phase = "up" /\ phase' = phase /\ wasUp' = wasUp
      /\ disk' = [pointer |-> disk.pointer + 1, state |-> disk.pointer + 1,
                  stored |-> disk.stored \cup {disk.pointer + 1}]
  BY DEF Accept, Committed
<1>2. disk.pointer + 1 \in Nat /\ disk.pointer + 1 # None
  BY <1>1 DEF DiskInv, Whole, None
<1> QED
  BY <1>1, <1>2 DEF DiskInv, FirstBootWrites, Whole

\* Every step, a crash among them, preserves the invariant.
LEMMA DiskStep == DiskInv /\ [Next]_vars => DiskInv'
<1> SUFFICES ASSUME DiskInv, [Next]_vars PROVE DiskInv'
  OBVIOUS
<1>1. CASE UNCHANGED vars
  BY <1>1 DEF vars, DiskInv, FirstBootWrites, Whole
<1>2. CASE Initialize \/ Write \/ Accept
  BY <1>2, InitializeInv, WriteInv, AcceptInv
<1>3. CASE StartLoops
  BY <1>3 DEF StartLoops, DiskInv, FirstBootWrites, Whole
<1>4. ASSUME NEW l \in Loops, Tick(l) \/ Acquire(l) \/ Finish(l) \/ Leave(l)
      PROVE  DiskInv'
  BY <1>4 DEF Tick, Acquire, Finish, Leave, DiskInv, FirstBootWrites, Whole
<1>5. CASE Shutdown
  BY <1>5 DEF Shutdown, DiskInv, FirstBootWrites, Whole
<1>6. CASE Await
  BY <1>6 DEF Await, DiskInv, FirstBootWrites, Whole
<1>7. CASE Close
  BY <1>7 DEF Close, DiskInv, FirstBootWrites, Whole
<1>8. CASE Exit
  BY <1>8 DEF Exit, DiskInv, FirstBootWrites, Whole
<1> QED
  BY <1>1, <1>2, <1>3, <1>4, <1>5, <1>6, <1>7, <1>8 DEF Next

\* The inductive invariant holds in every reachable state.
THEOREM DiskInvariance == Spec => []DiskInv
BY DiskInit, DiskStep, PTL DEF Spec

\* A node that is up has the balances of its last accepted block, and one that
\* has been up once comes up again after every crash.
THEOREM RestartsAreSound == Spec => []RestartSound
<1>1. DiskInv => RestartSound
  BY DEF DiskInv, RestartSound, Whole
<1> QED
  BY <1>1, DiskInvariance, PTL

-----------------------------------------------------------------------------
(* The ring of recent activity                                             *)

Items == Int \X Nat \X {"tx", "reward"}

Rings(n) == [size : {n}, items : [0..(n - 1) -> Items \cup {Nothing}], cursor : Nat]

\* The ring after the first len activities of h: filled below its cursor, with the
\* latest where their numbers say.
RingAt(c, h, len) ==
  /\ c.size \in Nat \ {0} /\ c \in Rings(c.size) /\ c.cursor = len
  /\ \A i \in 0..(c.size - 1) : c.items[i] # Nothing <=> i < len
  /\ \A k \in 1..len : len - k < c.size => c.items[(k - 1) % c.size] = h[k]

LEMMA Remainder ==
  ASSUME NEW n \in Nat \ {0}, NEW a \in Nat
  PROVE  a % n \in 0..(n - 1) /\ (a < n => a % n = a)
OBVIOUS

LEMMA SmallMultiple ==
  ASSUME NEW n \in Nat \ {0}, NEW d \in Int, 0 < n * d, n * d < n
  PROVE  FALSE
<1>1. CASE d >= 1
  <2>1. n * 1 <= n * d
    BY <1>1
  <2> QED BY <2>1
<1>2. CASE d <= 0
  <2>1. n * d <= n * 0
    BY <1>2
  <2> QED BY <2>1
<1> QED BY <1>1, <1>2

\* Numbers less than n apart go to different places.
LEMMA PlacesDiffer ==
  ASSUME NEW n \in Nat \ {0}, NEW a \in Nat, NEW b \in Nat, a < b, b < a + n
  PROVE  a % n # b % n
<1> DEFINE p == a \div n
           q == b \div n
<1>1. p \in Int /\ q \in Int /\ a = n * p + (a % n) /\ b = n * q + (b % n)
  OBVIOUS
<1>2. a % n \in Int /\ b % n \in Int
  BY Remainder
<1> HIDE DEF p, q
<1>3. n * (q - p) = n * q - n * p
  BY <1>1
<1> SUFFICES ASSUME a % n = b % n PROVE FALSE
  OBVIOUS
<1>4. n * (q - p) = b - a
  BY <1>1, <1>2, <1>3
<1>5. q - p \in Int /\ 0 < b - a /\ b - a < n
  BY <1>1
<1> QED BY <1>4, <1>5, SmallMultiple

LEMMA NothingIsNone == Nothing \notin Items
BY DEF Nothing, Items

LEMMA Updated ==
  ASSUME NEW S, NEW R, NEW c \in [size : S, items : R, cursor : Nat], NEW more \in R,
         NEW after \in Nat
  PROVE  [c EXCEPT !.items = more, !.cursor = after] \in [size : S, items : R, cursor : Nat]
OBVIOUS

\* What one more activity makes of a ring.
LEMMA AppendStores ==
  ASSUME NEW n \in Nat \ {0}, NEW c \in Rings(n), NEW item \in Items
  PROVE  LET new == AppendActivity(c, item) IN
         /\ new \in Rings(n) /\ new.size = n /\ new.cursor = c.cursor + 1
         /\ new.items = [c.items EXCEPT ![c.cursor % n] = item]
<1> DEFINE more == [c.items EXCEPT ![c.cursor % n] = item]
           new == [c EXCEPT !.items = more, !.cursor = c.cursor + 1]
<1>1. c.size = n /\ c.items \in [0..(n - 1) -> Items \cup {Nothing}] /\ c.cursor \in Nat
  BY DEF Rings
<1>2. more \in [0..(n - 1) -> Items \cup {Nothing}]
  BY <1>1
<1>3. AppendActivity(c, item) = new
  BY <1>1 DEF AppendActivity
<1> HIDE DEF more
<1>4. new.size = n /\ new.cursor = c.cursor + 1 /\ new.items = more
  BY DEF Rings
<1>5. new \in Rings(n)
  <2>1. c.cursor + 1 \in Nat
    BY <1>1
  <2> QED BY <1>2, <2>1, Updated DEF Rings
<1> HIDE DEF new
<1> QED BY <1>3, <1>4, <1>5 DEF more

\* One more activity.
LEMMA AppendOne ==
  ASSUME NEW c, NEW h, NEW len \in Nat, RingAt(c, h, len), h[len + 1] \in Items
  PROVE  RingAt(AppendActivity(c, h[len + 1]), h, len + 1)
<1> DEFINE item == h[len + 1]
           new == AppendActivity(c, item)
           n == c.size
           place == len % n
<1>1. /\ c \in Rings(n) /\ n \in Nat \ {0} /\ c.cursor = len
      /\ c.items \in [0..(n - 1) -> Items \cup {Nothing}]
      /\ \A i \in 0..(n - 1) : c.items[i] # Nothing <=> i < len
      /\ \A k \in 1..len : len - k < n => c.items[(k - 1) % n] = h[k]
  BY DEF RingAt, Rings
<1>2. place \in 0..(n - 1) /\ (len < n => place = len)
  BY <1>1, Remainder
<1>3. item # Nothing
  BY NothingIsNone
<1>4. /\ new \in Rings(n) /\ new.size = n /\ new.cursor = len + 1
      /\ new.items = [c.items EXCEPT ![place] = item]
  BY <1>1, AppendStores
<1> HIDE DEF new, item
<1>5. ASSUME NEW i \in 0..(n - 1)
      PROVE  new.items[i] # Nothing <=> i < len + 1
  <2>1. CASE i = place
    <3>1. new.items[i] = item
      BY <1>1, <1>4, <2>1
    <3>2. i <= len
      BY <1>1, <1>2, <2>1
    <3> QED BY <1>3, <3>1, <3>2
  <2>2. CASE i # place
    <3>1. new.items[i] = c.items[i]
      BY <1>1, <1>4, <2>2
    <3>2. i # len
      BY <1>1, <1>2, <2>2
    <3> QED BY <1>1, <3>1, <3>2
  <2> QED BY <2>1, <2>2
<1>6. ASSUME NEW k \in 1..(len + 1), len + 1 - k < n
      PROVE  new.items[(k - 1) % n] = h[k]
  <2>1. CASE k = len + 1
    <3>1. (k - 1) % n = place
      BY <2>1
    <3> QED BY <1>1, <1>2, <1>4, <2>1, <3>1 DEF item
  <2>2. CASE k # len + 1
    <3>1. k \in 1..len /\ len - k < n /\ k - 1 \in Nat /\ k - 1 < len /\ len < (k - 1) + n
      BY <1>1, <1>6, <2>2
    <3>2. (k - 1) % n # place /\ (k - 1) % n \in 0..(n - 1)
      BY <1>1, <3>1, PlacesDiffer, Remainder
    <3> QED BY <1>1, <1>4, <3>1, <3>2
  <2> QED BY <2>1, <2>2
<1> QED BY <1>4, <1>5, <1>6 DEF RingAt, new, item

\* All the activities of a block.
LEMMA RememberAll ==
  ASSUME NEW c, NEW old \in Seq(Items), NEW new \in Seq(Items), RingAt(c, old, Len(old))
  PROVE  RingAt(Remembering(c, new), old \o new, Len(old \o new))
<1> DEFINE N == Len(new)
           L == Len(old)
           h == old \o new
           Runs(f) == f = [n \in 0..N |-> IF n = 0 THEN c ELSE AppendActivity(f[n - 1], new[n])]
           run == CHOOSE f : Runs(f)
<1>1. /\ N \in Nat /\ L \in Nat /\ Len(h) = L + N
      /\ \A k \in 1..L : h[k] = old[k]
      /\ \A n \in 1..N : h[L + n] = new[n] /\ new[n] \in Items
  OBVIOUS
<1>2. Remembering(c, new) = run[N]
  BY DEF Remembering
<1>3. c \in Rings(c.size) /\ RingAt(c, h, L)
  BY <1>1 DEF RingAt
<1> HIDE DEF N, L, h
<1>4. \E f : Runs(f)
  <2> DEFINE step == [n \in 1..N |-> [r \in Rings(c.size) |-> AppendActivity(r, new[n])]]
  <2>1. ASSUME NEW r \in Rings(c.size), NEW item \in Items
        PROVE  AppendActivity(r, item) \in Rings(c.size)
    BY <1>3, AppendStores DEF RingAt
  <2>2. step \in [1..N -> [Rings(c.size) -> Rings(c.size)]]
    BY <1>1, <2>1
  <2> HIDE DEF step
  <2>3. PICK f \in [0..N -> Rings(c.size)] : FollowsUpTo(N, f, c, step)
    BY <1>1, <1>3, <2>2, RecursionUpTo
  <2>4. f = [n \in 0..N |-> IF n = 0 THEN c ELSE step[n][f[n - 1]]]
    BY <2>3 DEF FollowsUpTo
  <2>5. \A n \in 0..N : n # 0 => step[n][f[n - 1]] = AppendActivity(f[n - 1], new[n])
    <3> TAKE n \in 0..N
    <3>1. CASE n # 0
      <4>1. n \in 1..N /\ n - 1 \in 0..N
        BY <1>1, <3>1
      <4> QED BY <2>3, <4>1 DEF step
    <3> QED BY <3>1
  <2>6. f = [n \in 0..N |-> IF n = 0 THEN c ELSE AppendActivity(f[n - 1], new[n])]
    BY <2>4, <2>5, Zenon
  <2> QED BY <2>6
<1>5. Runs(run)
  <2> HIDE DEF Runs
  <2> QED BY <1>4
<1> HIDE DEF run
<1> DEFINE T == {n \in 0..N : RingAt(run[n], h, L + n)}
<1>6. 0 \in T
  BY <1>1, <1>3, <1>5
<1>7. \A n \in 0..(N - 1) : n \in T => n + 1 \in T
  <2> SUFFICES ASSUME NEW n \in 0..(N - 1), RingAt(run[n], h, L + n)
               PROVE  n + 1 \in T
    OBVIOUS
  <2>1. /\ n + 1 \in 1..N /\ n + 1 \in 0..N /\ n + 1 # 0 /\ (n + 1) - 1 = n
        /\ L + n \in Nat /\ (L + n) + 1 = L + (n + 1)
    BY <1>1
  <2>2. run[n + 1] = AppendActivity(run[n], new[n + 1])
    <3>1. run[n + 1] = IF n + 1 = 0 THEN c ELSE AppendActivity(run[(n + 1) - 1], new[n + 1])
      BY <1>5, <2>1
    <3> QED BY <2>1, <3>1
  <2>3. h[(L + n) + 1] = new[n + 1] /\ new[n + 1] \in Items
    BY <1>1, <2>1
  <2>4. RingAt(AppendActivity(run[n], h[(L + n) + 1]), h, (L + n) + 1)
    BY <2>1, <2>3, AppendOne
  <2> QED BY <2>1, <2>2, <2>3, <2>4
<1>8. N \in T
  <2>1. 0..N \subseteq T
    <3> HIDE DEF T
    <3> QED BY <1>1, <1>6, <1>7, InductionUpTo
  <2> QED BY <1>1, <2>1
<1> QED BY <1>1, <1>2, <1>8 DEF h

\* Sequences put one after the other.
LEMMA FlattenIsSeq ==
  ASSUME NEW S, NEW seqs \in Seq(Seq(S))
  PROVE  Lists!FlattenSeq(seqs) \in Seq(S)
<1> DEFINE N == Len(seqs)
           Runs(f) == f = [i \in 1..N |-> IF i = 1 THEN seqs[i] ELSE f[i - 1] \o seqs[i]]
           run == CHOOSE f : Runs(f)
<1>1. N \in Nat /\ \A i \in 1..N : seqs[i] \in Seq(S)
  OBVIOUS
<1>2. Lists!FlattenSeq(seqs) = IF N = 0 THEN seqs ELSE run[N]
  BY DEF Lists!FlattenSeq
<1>3. CASE N = 0
  <2>1. seqs = <<>>
    BY <1>3, EmptySeq
  <2> QED BY <1>2, <1>3, <2>1
<1>4. CASE N # 0
  <2> HIDE DEF N
  <2>1. \E f : Runs(f)
    <3> DEFINE step == [n \in 1..N |-> [r \in Seq(S) |-> r \o seqs[n]]]
    <3>1. step \in [1..N -> [Seq(S) -> Seq(S)]]
      BY <1>1
    <3>2. <<>> \in Seq(S)
      OBVIOUS
    <3> HIDE DEF step
    <3>3. PICK g \in [0..N -> Seq(S)] : FollowsUpTo(N, g, <<>>, step)
      BY <1>1, <3>1, <3>2, RecursionUpTo
    <3> DEFINE f == [i \in 1..N |-> g[i]]
    <3>4. \A i \in 1..N : g[i] = step[i][g[i - 1]] /\ g[0] = <<>>
      BY <1>1, <3>3 DEF FollowsUpTo
    <3>5. ASSUME NEW i \in 1..N
          PROVE  f[i] = IF i = 1 THEN seqs[i] ELSE f[i - 1] \o seqs[i]
      <4>1. f[i] = g[i - 1] \o seqs[i]
        <5>1. i - 1 \in 0..N /\ g[i - 1] \in Seq(S)
          BY <1>1, <3>3
        <5> QED BY <3>4, <5>1 DEF step
      <4>2. CASE i = 1
        <5>1. g[i - 1] = <<>> /\ seqs[i] \in Seq(S)
          BY <1>1, <3>4, <4>2
        <5> QED BY <4>1, <4>2, <5>1
      <4>3. CASE i # 1
        <5>1. i - 1 \in 1..N
          BY <1>1, <4>3
        <5>2. f[i - 1] = g[i - 1]
          BY <5>1
        <5> QED BY <4>1, <4>3, <5>2
      <4> QED BY <4>2, <4>3
    <3>6. f = [i \in 1..N |-> f[i]]
      OBVIOUS
    <3> HIDE DEF f
    <3>7. Runs(f)
      BY <3>5, <3>6, Zenon
    <3> QED BY <3>7
  <2>2. Runs(run)
    <3> HIDE DEF Runs
    <3> QED BY <2>1
  <2> HIDE DEF run
  <2> DEFINE T == {n \in 0..N : n # 0 => run[n] \in Seq(S)}
  <2>3. 0 \in T
    BY <1>1
  <2>4. \A n \in 0..(N - 1) : n \in T => n + 1 \in T
    <3> SUFFICES ASSUME NEW n \in 0..(N - 1), n # 0 => run[n] \in Seq(S)
                 PROVE  run[n + 1] \in Seq(S)
      BY <1>1
    <3>1. n + 1 \in 1..N /\ (n + 1) - 1 = n /\ n \in Int
      BY <1>1
    <3>2. run[n + 1] = IF n + 1 = 1 THEN seqs[n + 1] ELSE run[(n + 1) - 1] \o seqs[n + 1]
      BY <2>2, <3>1
    <3>3. seqs[n + 1] \in Seq(S)
      BY <1>1, <3>1
    <3>4. CASE n = 0
      BY <3>1, <3>2, <3>3, <3>4
    <3>5. CASE n # 0
      <4>1. n + 1 # 1
        BY <3>1, <3>5
      <4>2. run[n + 1] = run[n] \o seqs[n + 1]
        BY <3>1, <3>2, <4>1
      <4> QED BY <3>3, <3>5, <4>2
    <3> QED BY <3>4, <3>5
  <2>5. 0..N \subseteq T
    <3> HIDE DEF T
    <3> QED BY <1>1, <2>3, <2>4, InductionUpTo
  <2> QED BY <1>1, <1>2, <1>4, <2>5
<1> QED BY <1>3, <1>4

LEMMA ActivitiesAreItems ==
  ASSUME NEW b \in Blocks, NEW height \in Int
  PROVE  Activities(b, height) \in Seq(Items)
<1> DEFINE of == [i \in DOMAIN b |-> IF b[i] THEN <<<<height, i, "tx">>, <<height, i, "reward">>>>
                                     ELSE <<<<height, i, "tx">>>>]
<1>1. b \in Seq(BOOLEAN) /\ DOMAIN b = 1..Len(b) /\ Len(b) \in Nat
  BY NodeAssumption
<1>2. ASSUME NEW i \in 1..Len(b)
      PROVE  of[i] \in Seq(Items)
  <2>1. i \in Nat /\ <<height, i, "tx">> \in Items /\ <<height, i, "reward">> \in Items
    BY DEF Items
  <2>2. <<<<height, i, "tx">>, <<height, i, "reward">>>> \in Seq(Items)
        /\ <<<<height, i, "tx">>>> \in Seq(Items)
    BY <2>1
  <2> QED BY <1>1, <2>2
<1>3. of \in [1..Len(b) -> Seq(Items)]
  BY <1>1, <1>2
<1> HIDE DEF of
<1>4. of \in Seq(Seq(Items))
  BY <1>1, <1>3, ListIsSeq
<1> QED BY <1>4, FlattenIsSeq DEF Activities, of

LEMMA MinOfTwo ==
  ASSUME NEW a \in Nat, NEW b \in Nat
  PROVE  Min({a, b}) = IF a <= b THEN a ELSE b
<1> DEFINE m == IF a <= b THEN a ELSE b
<1>1. m \in {a, b} /\ \A y \in {a, b} : m <= y
  OBVIOUS
<1>2. \A x \in {a, b} : (\A y \in {a, b} : x <= y) => x = m
  OBVIOUS
<1> HIDE DEF m
<1>3. Min({a, b}) = m
  BY <1>1, <1>2 DEF Min
<1> QED BY <1>3 DEF m

\* Reading back from the cursor finds the latest activities, newest first.
LEMMA ReadBack ==
  ASSUME NEW c, NEW h \in Seq(Items), RingAt(c, h, Len(h))
  PROVE  LET n == Min({Len(h), c.size}) IN
         RecentActivity(c) = [j \in 1..n |-> h[Len(h) + 1 - j]]
<1> DEFINE L == Len(h)
           max == Min({L, c.size})
           Enough(n) == /\ \A j \in 1..n : c.items[(c.cursor - j) % c.size] # Nothing
                        /\ n < max => c.items[(c.cursor - (n + 1)) % c.size] = Nothing
           n == CHOOSE n \in 0..max : Enough(n)
<1>1. /\ c.size \in Nat \ {0} /\ c.cursor = L /\ L \in Nat
      /\ \A k \in 1..L : L - k < c.size => c.items[(k - 1) % c.size] = h[k]
      /\ \A k \in 1..L : h[k] \in Items
  BY DEF RingAt
<1>2. max \in Nat /\ max <= L /\ max <= c.size
  <2> HIDE DEF L
  <2> QED BY <1>1, MinOfTwo
<1>3. RecentActivity(c) = [j \in 1..n |-> c.items[(c.cursor - j) % c.size]]
  BY <1>1 DEF RecentActivity, Recent
<1> HIDE DEF L, max
<1>4. ASSUME NEW j \in 1..max
      PROVE  /\ c.items[(c.cursor - j) % c.size] = h[L + 1 - j]
             /\ c.items[(c.cursor - j) % c.size] # Nothing
  <2> DEFINE k == L + 1 - j
  <2>1. k \in 1..L /\ L - k < c.size /\ k - 1 = c.cursor - j
    BY <1>1, <1>2
  <2> HIDE DEF k
  <2>2. c.items[(k - 1) % c.size] = h[k] /\ h[k] # Nothing
    BY <1>1, <2>1, NothingIsNone
  <2>3. c.items[(c.cursor - j) % c.size] = h[k]
    BY <2>1, <2>2
  <2> QED BY <2>2, <2>3 DEF k
<1>5. max \in 0..max /\ Enough(max)
  BY <1>2, <1>4
<1>6. ASSUME NEW m \in 0..max, Enough(m)
      PROVE  m = max
  <2>1. CASE m < max
    <3>1. m + 1 \in 1..max
      BY <1>2, <2>1
    <3>2. c.items[(c.cursor - (m + 1)) % c.size] # Nothing
      BY <1>4, <3>1
    <3> QED BY <1>6, <2>1, <3>2
  <2> QED BY <1>2, <2>1
<1> HIDE DEF Enough
<1>7. n = max
  BY <1>5, <1>6
<1>8. [j \in 1..max |-> c.items[(c.cursor - j) % c.size]] = [j \in 1..max |-> h[L + 1 - j]]
  BY <1>4
<1> HIDE DEF n
<1> QED BY <1>3, <1>7, <1>8 DEF max, L

\* The ring holds the latest of the activities since the start.
RingInv ==
  /\ history \in Seq(Items)
  /\ cache.size = 0 => cache = Ring(0)
  /\ cache.size # 0 => RingAt(cache, history, Len(history))

LEMMA EmptyRing ==
  ASSUME NEW n \in Nat, cache' = Ring(n), history' = <<>>
  PROVE  RingInv'
<1>1. /\ Ring(n).size = n /\ Ring(n).cursor = 0
      /\ Ring(n).items = [i \in 0..(n - 1) |-> Nothing]
  BY DEF Ring
<1>2. n # 0 => RingAt(Ring(n), <<>>, 0)
  BY <1>1 DEF RingAt, Rings, Ring
<1>3. Len(<<>>) = 0 /\ <<>> \in Seq(Items)
  OBVIOUS
<1> QED BY <1>1, <1>2, <1>3 DEF RingInv

LEMMA RingStep ==
  ASSUME DiskInv, RingInv, [Next]_vars
  PROVE  RingInv'
<1> USE DEF cacheVars, loopVars
<1>1. CASE Initialize
  BY <1>1, NodeAssumption, EmptyRing DEF Initialize
<1>2. CASE Exit
  BY <1>2, EmptyRing DEF Exit
<1>3. CASE Accept
  <2> DEFINE height == disk.pointer + 1
  <2>1. disk.pointer \in Int
    BY <1>3 DEF DiskInv, Accept, Whole, None
  <2>2. PICK b \in Blocks :
          /\ cache' = IF cache.size = 0 THEN cache
                      ELSE Remembering(cache, Activities(b, height))
          /\ history' = history \o Activities(b, height)
    BY <1>3 DEF Accept
  <2> DEFINE new == Activities(b, height)
  <2>3. new \in Seq(Items)
    BY <2>1, ActivitiesAreItems
  <2> HIDE DEF new, height
  <2>4. history' \in Seq(Items)
    BY <2>2, <2>3 DEF RingInv, new
  <2>5. CASE cache.size = 0
    BY <2>2, <2>4, <2>5 DEF RingInv
  <2>6. CASE cache.size # 0
    <3>1. cache' = Remembering(cache, new) /\ history' = history \o new
      BY <2>2, <2>6 DEF new
    <3>2. RingAt(cache', history', Len(history'))
      BY <2>3, <2>6, <3>1, RememberAll DEF RingInv
    <3>3. cache'.size # 0
      BY <3>2 DEF RingAt
    <3> QED BY <2>4, <3>2, <3>3 DEF RingInv
  <2> QED BY <2>5, <2>6
<1>4. CASE Write \/ StartLoops \/ Shutdown \/ Await \/ Close \/ UNCHANGED vars
  BY <1>4 DEF Write, StartLoops, Shutdown, Await, Close, vars, RingInv
<1>5. ASSUME NEW l \in Loops, Tick(l) \/ Acquire(l) \/ Finish(l) \/ Leave(l)
      PROVE  RingInv'
  BY <1>5 DEF Tick, Acquire, Finish, Leave, RingInv
<1> QED BY <1>1, <1>2, <1>3, <1>4, <1>5 DEF Next

LEMMA RingInvariance == Spec => []RingInv
<1>1. Init => RingInv
  <2>1. ASSUME cache = Ring(0), history = <<>>
        PROVE  RingInv
    BY <2>1 DEF Ring, RingInv
  <2> QED BY <2>1 DEF Init
<1>2. DiskInv /\ RingInv /\ [Next]_vars => RingInv'
  BY RingStep
<1> QED BY <1>1, <1>2, DiskInvariance, PTL DEF Spec

\* RecentActivity answers with the latest activities, newest first, for every size
\* of the ring, 0 included, and however often it went round
\* (vm/public_service.go).
THEOREM RecentIsNewestAlways == Spec => []RecentIsNewest
<1>1. RingInv => RecentIsNewest
  <2> SUFFICES ASSUME RingInv PROVE RecentIsNewest
    OBVIOUS
  <2>1. CASE cache.size = 0
    <3>1. Len(history) \in Nat
      BY DEF RingInv
    <3>2. Min({Len(history), cache.size}) = 0
      BY <2>1, <3>1, MinOfTwo
    <3>3. RecentActivity(cache) = <<>>
      BY <2>1 DEF RecentActivity
    <3>4. [j \in 1..0 |-> history[Len(history) + 1 - j]] = <<>>
      OBVIOUS
    <3> QED BY <3>2, <3>3, <3>4 DEF RecentIsNewest
  <2>2. CASE cache.size # 0
    BY <2>2, ReadBack DEF RingInv, RecentIsNewest
  <2> QED BY <2>1, <2>2
<1> QED BY <1>1, RingInvariance, PTL

-----------------------------------------------------------------------------
(* Loops, and what the variables hold                                      *)

\* Loops have not started before the node is up; when it closes, Shutdown still
\* waits for those that are not done.
LoopsInv ==
  /\ pc \in [Loops -> {"none", "select", "lock", "work", "done"}]
  /\ ctxLock \in {"free", "engine"} \cup Locking
  /\ \A l \in Locking : pc[l] = "work" <=> ctxLock = l
  /\ \A l \in Loops : pc[l] = "lock" => l \in Locking
  /\ awaited \in Seq(Loops)
  /\ phase \in {"down", "first", "start", "failed"} => pc = [l \in Loops |-> "none"]
  /\ phase \in {"closing", "closed"} => \A l \in Loops : l \in Range(awaited) \/ pc[l] = "done"
  /\ phase = "closed" => awaited = <<>>

LEMMA LoopsStep ==
  ASSUME LoopsInv, [Next]_vars
  PROVE  LoopsInv'
<1> USE DEF cacheVars, loopVars
<1>0. Locking \subseteq Loops /\ Locking = {"prune", "compact"}
  BY DEF Locking, Loops
<1>1. CASE Initialize
  BY <1>1 DEF Initialize, LoopsInv
<1>2. CASE Write
  BY <1>2 DEF Write, LoopsInv
<1>3. CASE StartLoops
  <2>1. /\ phase = "start" /\ phase' = "up" /\ pc' = [l \in Loops |-> "select"]
        /\ pc = [l \in Loops |-> "none"] /\ UNCHANGED <<ctxLock, awaited>>
    BY <1>3 DEF StartLoops, LoopsInv
  <2>2. \A l \in Locking : pc'[l] # "work" /\ ctxLock # l
    BY <1>0, <2>1 DEF LoopsInv
  <2> QED BY <2>1, <2>2 DEF LoopsInv
<1>4. CASE Accept
  BY <1>4 DEF Accept, LoopsInv
<1>5. ASSUME NEW l \in Loops, Tick(l)
      PROVE  LoopsInv'
  BY <1>0, <1>5 DEF Tick, LoopsInv
<1>6. ASSUME NEW l \in Loops, Acquire(l)
      PROVE  LoopsInv'
  <2>1. l \in Locking
    BY <1>6 DEF Acquire, LoopsInv
  <2> QED BY <1>0, <1>6, <2>1 DEF Acquire, LoopsInv
<1>7. ASSUME NEW l \in Loops, Finish(l)
      PROVE  LoopsInv'
  BY <1>0, <1>7 DEF Finish, LoopsInv
<1>8. ASSUME NEW l \in Loops, Leave(l)
      PROVE  LoopsInv'
  BY <1>0, <1>8 DEF Leave, LoopsInv
<1>9. CASE Shutdown
  <2>1. awaited' = <<"build", "gossip", "prune", "compact">>
    BY <1>9 DEF Shutdown, AwaitedLoops
  <2>2. awaited' \in Seq(Loops)
    BY <2>1 DEF Loops
  <2>3. \A l \in Loops : l \in Range(awaited')
    BY <2>1 DEF Loops, Range
  <2> QED BY <1>0, <1>9, <2>2, <2>3 DEF Shutdown, LoopsInv
<1>10. CASE Await
  <2>1. /\ phase = "closing" /\ phase' = "closing" /\ awaited # <<>> /\ awaited' = Tail(awaited)
        /\ pc[Head(awaited)] = "done" /\ UNCHANGED <<pc, ctxLock>> /\ awaited \in Seq(Loops)
    BY <1>10 DEF Await, LoopsInv
  <2>2. awaited' \in Seq(Loops)
    BY <2>1
  <2>3. ASSUME NEW i \in DOMAIN awaited
        PROVE  awaited[i] = Head(awaited) \/ awaited[i] \in Range(awaited')
    <3>1. i \in 1..Len(awaited) /\ Len(awaited) \in Nat
      BY <2>1
    <3>2. Head(awaited) = awaited[1] /\ DOMAIN awaited' = 1..(Len(awaited) - 1)
          /\ \A k \in 1..(Len(awaited) - 1) : awaited'[k] = awaited[k + 1]
      BY <2>1
    <3>3. CASE i # 1
      <4>1. i - 1 \in DOMAIN awaited' /\ awaited'[i - 1] = awaited[i]
        BY <3>1, <3>2, <3>3
      <4> QED BY <4>1 DEF Range
    <3> QED BY <3>2, <3>3
  <2>4. \A l \in Range(awaited) : l = Head(awaited) \/ l \in Range(awaited')
    BY <2>3 DEF Range
  <2> QED BY <2>1, <2>2, <2>4 DEF LoopsInv
<1>11. CASE Close
  BY <1>11 DEF Close, LoopsInv
<1>12. CASE Exit
  BY <1>0, <1>12 DEF Exit, LoopsInv
<1>13. CASE UNCHANGED vars
  BY <1>13 DEF vars, LoopsInv
<1> QED BY <1>1, <1>2, <1>3, <1>4, <1>5, <1>6, <1>7, <1>8, <1>9, <1>10, <1>11, <1>12, <1>13 DEF Next

BoundsInv ==
  /\ disk \in [pointer : None..MaxHeight, stored : SUBSET (0..MaxHeight), state : None..MaxHeight]
  /\ boots \in 0..MaxBoots /\ wasUp \in BOOLEAN

LEMMA BoundsStep ==
  ASSUME DiskInv, BoundsInv, [Next]_vars
  PROVE  BoundsInv'
<1> USE DEF cacheVars, loopVars
<1>1. CASE Initialize
  BY <1>1, NodeAssumption DEF Initialize, BoundsInv
<1>2. CASE Write
  <2>1. Head(todo) \in {"load", "pointer", "block"}
    BY <1>2 DEF Write, DiskInv, FirstBootWrites, FirstBoot
  <2>2. \/ disk' = [disk EXCEPT !.state = 0]
        \/ disk' = [disk EXCEPT !.pointer = 0]
        \/ disk' = [disk EXCEPT !.stored = @ \cup {0}]
    BY <1>2, <2>1 DEF Write
  <2>3. 0 \in None..MaxHeight /\ 0 \in 0..MaxHeight
    BY NodeAssumption DEF None
  <2>4. UNCHANGED <<boots, wasUp>>
    BY <1>2 DEF Write
  <2> QED BY <2>2, <2>3, <2>4 DEF BoundsInv
<1>3. CASE StartLoops
  BY <1>3 DEF StartLoops, BoundsInv
<1>4. CASE Accept
  <2> DEFINE height == disk.pointer + 1
  <2>1. disk.pointer \in Nat
    BY <1>4 DEF Accept, DiskInv, Whole
  <2>2. height \in None..MaxHeight /\ height \in 0..MaxHeight
    BY <1>4, <2>1, NodeAssumption DEF Accept, None
  <2>3. disk' = [pointer |-> height, stored |-> disk.stored \cup {height}, state |-> height]
    BY <1>4 DEF Accept, Committed
  <2>4. UNCHANGED <<boots, wasUp>>
    BY <1>4 DEF Accept
  <2> HIDE DEF height
  <2> QED BY <2>2, <2>3, <2>4 DEF BoundsInv
<1>5. CASE Shutdown \/ Await \/ Close \/ Exit \/ UNCHANGED vars
  BY <1>5 DEF Shutdown, Await, Close, Exit, vars, BoundsInv
<1>6. ASSUME NEW l \in Loops, Tick(l) \/ Acquire(l) \/ Finish(l) \/ Leave(l)
      PROVE  BoundsInv'
  BY <1>6 DEF Tick, Acquire, Finish, Leave, BoundsInv
<1> QED BY <1>1, <1>2, <1>3, <1>4, <1>5, <1>6 DEF Next

\* The variables hold what they should; a loop works on the database only with the
\* lock, and none is left when Shutdown closes it.
THEOREM NodeTypeCorrect == Spec => []TypeOK
<1>1. Init => LoopsInv /\ BoundsInv
  <2>1. Init => LoopsInv
    BY DEF Init, LoopsInv, Loops, Locking
  <2>2. Init => BoundsInv
    <3>1. 0 \in 0..MaxBoots /\ None \in None..MaxHeight
      BY NodeAssumption DEF None
    <3>2. ASSUME Init
          PROVE  BoundsInv
      <4>1. disk = [pointer |-> None, stored |-> {}, state |-> None] /\ boots = 0 /\ wasUp = FALSE
        BY <3>2 DEF Init
      <4> HIDE DEF None
      <4> QED BY <3>1, <4>1 DEF BoundsInv
    <3> QED BY <3>2
  <2> QED BY <2>1, <2>2
<1>2. LoopsInv /\ [Next]_vars => LoopsInv'
  BY LoopsStep
<1>3. DiskInv /\ BoundsInv /\ [Next]_vars => BoundsInv'
  BY BoundsStep
<1>4. DiskInv /\ RingInv /\ LoopsInv /\ BoundsInv => TypeOK
  <2> SUFFICES ASSUME DiskInv, RingInv, LoopsInv, BoundsInv PROVE TypeOK
    OBVIOUS
  <2>1. DOMAIN cache.items = 0..(cache.size - 1)
        /\ \A i \in DOMAIN cache.items : cache.items[i] # Nothing <=> i < cache.cursor
    <3>1. CASE cache.size = 0
      BY <3>1 DEF RingInv, Ring
    <3>2. CASE cache.size # 0
      BY <3>2 DEF RingInv, RingAt, Rings
    <3> QED BY <3>1, <3>2
  <2>2. Range(awaited) \subseteq Loops
    BY DEF LoopsInv, Range
  <2>3. phase = "closed" => \A l \in Loops : pc[l] = "done"
    BY DEF LoopsInv, Range
  <2> QED BY <2>1, <2>2, <2>3 DEF DiskInv, LoopsInv, BoundsInv, TypeOK
<1> QED BY <1>1, <1>2, <1>3, <1>4, DiskInvariance, RingInvariance, PTL DEF Spec

-----------------------------------------------------------------------------
(* The threads around the mempool, for any transactions and prices, pool   *)
(* and channel: they neither forget a transaction nor ask the engine twice.*)

\* The values of the variables the proof is about.
Kinds ==
  /\ pending \in BOOLEAN /\ need \in BOOLEAN
  /\ status \in {"dontBuild", "mayBuild", "building"}
  /\ toEngine \in Nat /\ asked \in Nat
  /\ engine \in {"idle", "check", "pop", "execute", "verify", "need", "status"}
  /\ builder \in {"wait", "signal"}

\* The token is there or the goroutine Build has it in its hands.
Noticed == pending \/ builder = "signal"

\* Between its two halves HandleGenerateBlock holds the mutex: what came in after
\* it read an empty mempool is noticed and waits for the new status.
NoneMissed == engine = "status" /\ ~need /\ pool # {} => Noticed

ThreadsInv == Kinds /\ OneRequest /\ NoneForgotten /\ NoneMissed

-----------------------------------------------------------------------------
(* What operations of the mempool do to the token                          *)

\* An addition leaves a token, or the pool as it was.
LEMMA AddNotices ==
  ASSUME NEW tx, AddToMempool(tx), pending \in BOOLEAN
  PROVE  /\ pending' \in BOOLEAN
         /\ pending => pending'
         /\ pending' \/ pool' = pool
<1>1. CASE tx \in pool
  BY <1>1 DEF AddToMempool, poolVars
<1>2. CASE tx \notin pool
  <2> DEFINE more == pool \cup {tx}
  <2>1. PICK left \in {more} \cup {more \ {cheap} : cheap \in Mempool!Cheapest(more)} :
          /\ pool' = left
          /\ IF tx \in left
             THEN newTxs' = Append(newTxs, tx) /\ pending' = TRUE
             ELSE UNCHANGED <<newTxs, pending>>
    BY <1>2 DEF AddToMempool, Mempool!Add
  <2>2. CASE tx \in left
    BY <2>1, <2>2
  <2>3. CASE tx \notin left
    <3>1. PICK cheap \in more : left = more \ {cheap}
      BY <2>1, <2>3 DEF Mempool!Cheapest
    <3>2. left = pool
      BY <3>1, <2>3, <1>2
    <3> QED
      BY <2>1, <2>3, <3>2
  <2> QED
    BY <2>2, <2>3
<1> QED
  BY <1>1, <1>2

\* A pop takes no token and adds no transaction.
LEMMA PopTakes ==
  ASSUME PopOrPanic
  PROVE  pool' \subseteq pool /\ UNCHANGED pending
BY DEF PopOrPanic, Mempool!PopMax, poolVars

-----------------------------------------------------------------------------
(* The invariant                                                           *)

LEMMA ThreadsInit == BuildingInit => ThreadsInv
<1> SUFFICES ASSUME BuildingInit PROVE ThreadsInv
  OBVIOUS
<1> USE DEF BuildingInit, Mempool!Init
<1>1. Kinds
  BY DEF Kinds
<1>2. OneRequest
  BY DEF OneRequest
<1>3. NoneForgotten /\ NoneMissed
  BY DEF NoneForgotten, NoneMissed
<1> QED
  BY <1>1, <1>2, <1>3 DEF ThreadsInv

\* markBuilding under the invariant, when nobody has been asked: it is not dropped.
LEMMA MarkedIsAsked ==
  ASSUME ChannelSize \in Nat \ {0}, ThreadsInv, status # "building",
         MarkBuilding
  PROVE  toEngine = 0 /\ asked = 0 /\ engine = "idle" /\ toEngine' = 1 /\ status' = "building"
<1>1. toEngine = 0 /\ asked = 0 /\ engine = "idle"
  BY DEF ThreadsInv, Kinds, OneRequest
<1> QED
  BY <1>1 DEF MarkBuilding

LEMMA ThreadsStep ==
  ASSUME ChannelSize \in Nat \ {0}, ThreadsInv, [BuildingNext]_(buildingVars)
  PROVE  ThreadsInv'
<1> USE DEF Noticed, ThreadsInv, Kinds, OneRequest, NoneForgotten, NoneMissed,
        poolVars, statusVars, blockVars
<1>1. ASSUME NEW tx \in Txs, Submit(tx) PROVE ThreadsInv'
  BY <1>1, AddNotices DEF Submit
<1>2. ASSUME NEW tx \in Txs, Verified(tx) PROVE ThreadsInv'
  BY <1>2 DEF Verified, Mempool!Remove
<1>3. CASE Notice
  BY <1>3 DEF Notice, Mempool!TakePending
<1>4. CASE SignalTxsReady
  <2>1. CASE status = "dontBuild"
    <3>1. toEngine = 0 /\ asked = 0 /\ engine = "idle" /\ toEngine' = 1 /\ status' = "building"
      BY <1>4, <2>1, MarkedIsAsked DEF SignalTxsReady, SignalOnce
    <3> QED
      BY <1>4, <3>1 DEF SignalTxsReady
  <2>2. CASE status # "dontBuild"
    BY <1>4, <2>2 DEF SignalTxsReady, SignalOnce, StatusLocked
  <2> QED
    BY <2>1, <2>2
<1>5. CASE Timeout
  <2>1. CASE status = "mayBuild"
    <3>1. toEngine = 0 /\ asked = 0 /\ engine = "idle" /\ toEngine' = 1 /\ status' = "building"
      BY <1>5, <2>1, MarkedIsAsked DEF Timeout
    <3> QED
      BY <1>5, <3>1 DEF Timeout
  <2>2. CASE status # "mayBuild"
    BY <1>5, <2>2 DEF Timeout
  <2> QED
    BY <2>1, <2>2
<1>6. CASE Receive
  BY <1>6 DEF Receive
<1>7. ASSUME NEW pruned \in SUBSET pool, BuildBlock(pruned) PROVE ThreadsInv'
  BY <1>7 DEF BuildBlock
<1>8. CASE BuildCheck
  BY <1>8 DEF BuildCheck
<1>9. CASE BuildPop
  BY <1>9, PopTakes DEF BuildPop
<1>10. CASE TooCheap
  BY <1>10, AddNotices DEF TooCheap
<1>11. CASE Execute
  BY <1>11 DEF Execute
<1>12. ASSUME NEW tx \in Txs, PutBack(tx) PROVE ThreadsInv'
  BY <1>12, AddNotices DEF PutBack
<1>13. CASE Return
  BY <1>13 DEF Return
<1>14. CASE ReadNeed
  BY <1>14 DEF ReadNeed, NeedToBuild
<1>15. CASE SetStatus
  <2> USE <1>15 DEF SetStatus
  <2>1. Kinds'
    OBVIOUS
  <2>2. OneRequest'
    OBVIOUS
  <2>3. NoneForgotten'
    <3>1. CASE need
      BY <3>1
    <3>2. CASE ~need
      BY <3>2
    <3> QED
      BY <3>1, <3>2
  <2>4. NoneMissed'
    OBVIOUS
  <2> QED
    BY <2>1, <2>2, <2>3, <2>4
<1>16. CASE GossipNewTxs
  <2>1. UNCHANGED <<pool, pending>>
    BY <1>16 DEF GossipNewTxs, Mempool!NewTxs
  <2> QED
    BY <1>16, <2>1 DEF GossipNewTxs
<1>17. CASE Regossip \/ RegossipCheck
  BY <1>17 DEF Regossip, RegossipCheck
<1>18. CASE RegossipPop
  BY <1>18, PopTakes DEF RegossipPop
<1>19. CASE UNCHANGED buildingVars
  BY <1>19 DEF buildingVars
<1> QED
  BY <1>1, <1>2, <1>3, <1>4, <1>5, <1>6, <1>7, <1>8, <1>9, <1>10, <1>11, <1>12, <1>13, <1>14, <1>15,
     <1>16, <1>17, <1>18, <1>19 DEF BuildingNext, Engine

\* The invariant holds in every reachable state.
THEOREM ThreadsInvariance == BuildingSpec => []ThreadsInv
BY ThreadsInit, ThreadsStep, BuildingAssumption, PTL DEF BuildingSpec

\* The status is `building` exactly while one request is under way: markBuilding
\* never drops its message and the engine is never asked twice (vm/block_builder.go).
THEOREM OneRequestAtATime == BuildingSpec => []OneRequest
<1>1. ThreadsInv => OneRequest
  BY DEF ThreadsInv
<1> QED
  BY <1>1, ThreadsInvariance, PTL

\* However submissions, pops and status changes interleave, a builder at rest with
\* a non-empty mempool has the token, or its goroutine has (vm/block_builder.go).
THEOREM NoTransactionForgotten == BuildingSpec => []NoneForgotten
<1>1. ThreadsInv => NoneForgotten
  BY DEF ThreadsInv
<1> QED
  BY <1>1, ThreadsInvariance, PTL

-----------------------------------------------------------------------------
(* The heap: an array and, for every item, the place it is at.             *)

\* An array of the transactions R, each at the place it remembers.
Arrays(isMin, n, R) ==
  {h \in [isMinHeap : {isMin}, items : [1..n -> R], index : [R -> 1..n]] :
     /\ \A i \in 1..n : h.index[h.items[i]] = i
     /\ \A tx \in R : h.items[h.index[tx]] = tx}

\* What is less comes first, in either heap.
Key(isMin, tx) == IF isMin THEN Price[tx] ELSE 0 - Price[tx]
Keys(h) == [i \in DOMAIN h.items |-> Key(h.isMinHeap, h.items[i])]

\* No child among the first m comes before its parent.
InOrder(k, m) == \A i \in 2..m : k[i \div 2] <= k[i]

\* The item at p may come before its parent, and nothing else is wrong.
Rising(k, p, m) ==
  \A i \in 2..m : /\ i # p => k[i \div 2] <= k[i]
                  /\ i \div 2 = p /\ p > 1 => k[p \div 2] <= k[i]

\* The item at p may be out of place either way, and nothing else is wrong.
Misplaced(k, p, m) ==
  \A i \in 2..m : /\ i # p /\ i \div 2 # p => k[i \div 2] <= k[i]
                  /\ i \div 2 = p /\ p > 1 => k[p \div 2] <= k[i]

LEMMA Halves ==
  ASSUME NEW i \in Nat, i >= 2
  PROVE  /\ i \div 2 \in Nat /\ 1 <= i \div 2 /\ i \div 2 < i
         /\ \A p \in Nat : i \div 2 = p <=> i = 2 * p \/ i = 2 * p + 1
OBVIOUS

LEMMA LessIsKey ==
  ASSUME NEW isMin, NEW n \in Nat, NEW R \in SUBSET Txs,
         NEW h \in Arrays(isMin, n, R)
  PROVE  /\ Keys(h) \in [1..n -> Int]
         /\ \A i, j \in 1..n : Less(h, i, j) <=> Keys(h)[i] < Keys(h)[j]
<1>1. /\ DOMAIN h.items = 1..n
      /\ \A i \in 1..n : Price[h.items[i]] \in Nat
  BY InterfaceAssumption DEF Arrays
<1> QED
  BY <1>1 DEF Less, Keys, Key

\* Arrays of which two have changed places.
Swapped(k, l, i, j) ==
  /\ l[i] = k[j] /\ l[j] = k[i]
  /\ \A o \in DOMAIN k : o # i /\ o # j => l[o] = k[o]

\* Two items change places, and know it.
LEMMA SwapKeeps ==
  ASSUME NEW isMin, NEW n \in Nat, NEW R, NEW h \in Arrays(isMin, n, R)
  PROVE  \A i, j \in 1..n :
           /\ Swap(h, i, j) \in Arrays(isMin, n, R)
           /\ Swapped(h.items, Swap(h, i, j).items, i, j)
<1> TAKE i, j \in 1..n
<1> DEFINE items == [h.items EXCEPT ![i] = h.items[j], ![j] = h.items[i]]
           index == [h.index EXCEPT ![h.items[j]] = i, ![h.items[i]] = j]
           s == [isMinHeap |-> isMin, items |-> items, index |-> index]
<1>1. /\ h = [isMinHeap |-> isMin, items |-> h.items, index |-> h.index]
      /\ h.items \in [1..n -> R] /\ h.index \in [R -> 1..n]
      /\ \A k \in 1..n : h.index[h.items[k]] = k
      /\ \A tx \in R : h.items[h.index[tx]] = tx
  BY DEF Arrays
<1>2. Swap(h, i, j) = s
  <2>1. [h EXCEPT !.items = items, !.index = index] = s
    <3>1. h \in [isMinHeap : {isMin}, items : [1..n -> R], index : [R -> 1..n]]
      BY DEF Arrays
    <3>2. items \in [1..n -> R] /\ index \in [R -> 1..n]
      BY <1>1
    <3>3. h.isMinHeap = isMin
      BY <3>1
    <3> HIDE DEF items, index
    <3> DEFINE new == [h EXCEPT !.items = items, !.index = index]
    <3>4. new \in [isMinHeap : {isMin}, items : [1..n -> R], index : [R -> 1..n]]
      BY <3>1, <3>2
    <3>5. new.isMinHeap = isMin /\ new.items = items /\ new.index = index
      BY <3>1, <3>3
    <3> HIDE DEF new
    <3>6. new = s
      BY <3>4, <3>5
    <3> QED
      BY <3>6 DEF new
  <2>2. Swap(h, i, j) = [h EXCEPT !.items = items, !.index = index]
    BY <1>1 DEF Swap
  <2> QED
    BY <2>1, <2>2
<1>3. items \in [1..n -> R] /\ index \in [R -> 1..n]
  BY <1>1
<1>4. /\ \A k \in 1..n : items[k] = IF k = j THEN h.items[i]
                                    ELSE IF k = i THEN h.items[j] ELSE h.items[k]
      /\ \A tx \in R : index[tx] = IF tx = h.items[i] THEN j
                                   ELSE IF tx = h.items[j] THEN i ELSE h.index[tx]
  BY <1>1
<1> HIDE DEF items, index
<1>5. \A k \in 1..n : index[items[k]] = k
  <2> TAKE k \in 1..n
  <2>1. CASE k = j
    BY <1>1, <1>4, <2>1
  <2>2. CASE k # j /\ k = i
    BY <1>1, <1>4, <2>2
  <2>3. CASE k # j /\ k # i
    BY <1>1, <1>4, <2>3
  <2> QED
    BY <2>1, <2>2, <2>3
<1>6. \A tx \in R : items[index[tx]] = tx
  <2> TAKE tx \in R
  <2>1. CASE tx = h.items[i]
    BY <1>1, <1>4, <2>1
  <2>2. CASE tx # h.items[i] /\ tx = h.items[j]
    BY <1>1, <1>4, <2>2
  <2>3. CASE tx # h.items[i] /\ tx # h.items[j]
    BY <1>1, <1>4, <2>3
  <2> QED
    BY <2>1, <2>2, <2>3
<1>7. s \in Arrays(isMin, n, R)
  BY <1>3, <1>5, <1>6 DEF Arrays
<1>8. DOMAIN h.items = 1..n
  BY <1>1
<1> QED
  BY <1>2, <1>4, <1>7, <1>8 DEF Swapped

LEMMA SwapKeys ==
  ASSUME NEW isMin, NEW n \in Nat, NEW R \in SUBSET Txs, NEW h \in Arrays(isMin, n, R)
  PROVE  \A i, j \in 1..n : Swapped(Keys(h), Keys(Swap(h, i, j)), i, j)
<1> TAKE i, j \in 1..n
<1> DEFINE s == Swap(h, i, j)
<1>1. s \in Arrays(isMin, n, R) /\ Swapped(h.items, s.items, i, j)
  BY SwapKeeps, Zenon
<1> HIDE DEF s
<1>2. DOMAIN h.items = 1..n /\ DOMAIN s.items = 1..n /\ s.isMinHeap = h.isMinHeap
  BY <1>1 DEF Arrays
<1> QED
  BY <1>1, <1>2 DEF Keys, Swapped, s

\* One step up leaves the parent's place to be looked at.
LEMMA RisenKeys ==
  ASSUME NEW n \in Nat, NEW m \in 1..n, NEW k \in [1..n -> Int], NEW l \in [1..n -> Int],
         NEW p \in 2..m, Rising(k, p, m), k[p] < k[p \div 2], Swapped(k, l, p \div 2, p)
  PROVE  Rising(l, p \div 2, m)
<1> DEFINE q == p \div 2
<1>1. q \in 1..n /\ q < p
  BY Halves
<1> SUFFICES ASSUME NEW i \in 2..m
             PROVE  /\ i # q => l[i \div 2] <= l[i]
                    /\ i \div 2 = q /\ q > 1 => l[q \div 2] <= l[i]
  BY DEF Rising
<1>2. /\ i \div 2 \in 1..n /\ i \div 2 < i /\ i \in 1..n /\ p \in 1..n
      /\ q > 1 => q \div 2 \in 1..n /\ q \div 2 < q /\ q \in 2..m
  BY <1>1, Halves
<1>3. /\ l[q] = k[p] /\ l[p] = k[q]
      /\ \A o \in 1..n : o # q /\ o # p => l[o] = k[o]
  BY DEF Swapped
<1>4. /\ i # p => k[i \div 2] <= k[i]
      /\ i \div 2 = p => k[q] <= k[i]
      /\ q > 1 => k[q \div 2] <= k[q]
  BY <1>1, <1>2 DEF Rising
<1>5. k[p] < k[q]
  OBVIOUS
<1>6. /\ k[i] \in Int /\ k[p] \in Int /\ k[q] \in Int /\ k[i \div 2] \in Int
      /\ q > 1 => k[q \div 2] \in Int
  BY <1>1, <1>2
<1>9. i = p => i \div 2 = q
  OBVIOUS
<1> HIDE DEF q
<1>7. ASSUME i # q
      PROVE  l[i \div 2] <= l[i]
  <2>1. CASE i = p
    BY <1>1, <1>2, <1>3, <1>5, <1>6, <2>1, <1>9
  <2>2. CASE i # p /\ i \div 2 = p
    BY <1>1, <1>2, <1>3, <1>4, <1>5, <1>6, <1>7, <2>2
  <2>3. CASE i # p /\ i \div 2 = q
    <3>1. l[i \div 2] = k[p] /\ l[i] = k[i]
      BY <1>2, <1>3, <1>7, <2>3
    <3>2. k[q] <= k[i]
      BY <1>4, <2>3
    <3> QED
      BY <1>5, <1>6, <3>1, <3>2
  <2>4. CASE i # p /\ i \div 2 # p /\ i \div 2 # q
    BY <1>1, <1>2, <1>3, <1>4, <1>5, <1>6, <1>7, <2>4
  <2> QED
    BY <2>1, <2>2, <2>3, <2>4
<1>8. ASSUME i \div 2 = q, q > 1
      PROVE  l[q \div 2] <= l[i]
  <2>1. l[q \div 2] = k[q \div 2]
    BY <1>1, <1>2, <1>3, <1>8
  <2>2. CASE i = p
    BY <2>1, <1>3, <1>4, <1>8, <2>2
  <2>3. CASE i # p
    <3>1. l[i] = k[i]
      BY <1>1, <1>2, <1>3, <1>8, <2>3
    <3>2. k[q] <= k[i] /\ k[q \div 2] <= k[q]
      BY <1>4, <1>8, <2>3
    <3>3. k[q \div 2] \in Int /\ k[q] \in Int /\ k[i] \in Int
      BY <1>6, <1>8
    <3> QED
      BY <2>1, <3>1, <3>2, <3>3
  <2> QED
    BY <2>2, <2>3
<1> QED
  BY <1>7, <1>8

\* Among the children of p, the one at c comes first.
FirstChild(k, c, p, m) ==
  c \div 2 = p /\ \A i \in 2..m : i \div 2 = p => k[c] <= k[i]

\* One step down leaves the child's place to be looked at.
LEMMA SunkKeys ==
  ASSUME NEW n \in Nat, NEW m \in 1..n, NEW k \in [1..n -> Int], NEW l \in [1..n -> Int],
         NEW p \in 1..m, NEW c \in 2..m, FirstChild(k, c, p, m),
         Misplaced(k, p, m), k[c] < k[p], Swapped(k, l, p, c)
  PROVE  Misplaced(l, c, m) /\ l[p] <= l[c]
<1> USE DEF FirstChild
<1>1. /\ c \in 1..n /\ p \in 1..n /\ p < c
      /\ k[c] \in Int /\ k[p] \in Int
  BY Halves
<1>2. /\ l[p] = k[c] /\ l[c] = k[p]
      /\ \A o \in 1..n : o # p /\ o # c => l[o] = k[o]
  BY DEF Swapped
<1>7. l[p] <= l[c]
  BY <1>1, <1>2
<1> SUFFICES ASSUME NEW i \in 2..m
             PROVE  /\ i # c /\ i \div 2 # c => l[i \div 2] <= l[i]
                    /\ i \div 2 = c /\ c > 1 => l[c \div 2] <= l[i]
  BY <1>7 DEF Misplaced
<1>3. /\ i \div 2 \in 1..n /\ i \div 2 < i /\ i \in 1..n
      /\ k[i \div 2] \in Int /\ k[i] \in Int
  BY Halves
<1>4. /\ i # p /\ i \div 2 # p => k[i \div 2] <= k[i]
      /\ c \div 2 = p /\ p > 1 => k[p \div 2] <= k[c]
      /\ i \div 2 = p => k[c] <= k[i]
  BY DEF Misplaced
<1>5. ASSUME i # c, i \div 2 # c
      PROVE  l[i \div 2] <= l[i]
  <2>1. CASE i = p
    <3>1. l[i \div 2] = k[p \div 2] /\ l[i] = k[c] /\ p > 1
      BY <1>2, <1>3, <1>5, <2>1
    <3> QED
      BY <1>4, <3>1
  <2>2. CASE i # p /\ i \div 2 = p
    BY <1>2, <1>3, <1>4, <1>5, <2>2
  <2>3. CASE i # p /\ i \div 2 # p
    BY <1>2, <1>3, <1>4, <1>5, <2>3
  <2> QED
    BY <2>1, <2>2, <2>3
<1>6. ASSUME i \div 2 = c
      PROVE  l[p] <= l[i]
  <2>1. i # p /\ i # c /\ i \div 2 # p
    BY <1>1, <1>3, <1>6
  <2>2. l[i] = k[i] /\ k[c] <= k[i]
    BY <1>2, <1>3, <1>4, <1>6, <2>1
  <2> QED
    BY <1>2, <2>2
<1> QED
  BY <1>5, <1>6

\* Where a loop over a heap of n items, the first m of them in use, may be.
Places(isMin, n, m, R) == [heap : Arrays(isMin, n, R), at : 1..m]

\* What is not in use stays.
Beyond(h, new, n, m) == \A i \in (m + 1)..n : new.items[i] = h.items[i]

LEMMA RiseStep ==
  ASSUME NEW isMin, NEW n \in Nat, NEW m \in 1..n, NEW R \in SUBSET Txs,
         NEW s \in Places(isMin, n, m, R), Rising(Keys(s.heap), s.at, m)
  PROVE  LET t == Rise(s) IN
         /\ t \in Places(isMin, n, m, R)
         /\ Rising(Keys(t.heap), t.at, m)
         /\ Beyond(s.heap, t.heap, n, m)
         /\ IF InOrder(Keys(s.heap), m) THEN t = s ELSE t.at < s.at
<1> DEFINE h == s.heap
           p == s.at
           q == p \div 2
<1>1. h \in Arrays(isMin, n, R) /\ p \in 1..m /\ p \in 1..n
  BY DEF Places
<1>2. /\ Keys(h) \in [1..n -> Int]
      /\ \A i, j \in 1..n : Less(h, i, j) <=> Keys(h)[i] < Keys(h)[j]
  BY <1>1, LessIsKey
<1>3. CASE p = 1
  <2>1. Rise(s) = s
    BY <1>3 DEF Rise
  <2>2. InOrder(Keys(h), m)
    BY <1>3 DEF Rising, InOrder
  <2> QED
    BY <2>1, <2>2 DEF Beyond
<1>4. ASSUME p # 1
      PROVE  q \in 1..m /\ q \in 1..n /\ q < p /\ p \in 2..m
  BY <1>1, <1>4, Halves
<1>5. CASE p # 1 /\ ~Less(h, p, q)
  <2>1. Rise(s) = s
    BY <1>5 DEF Rise
  <2>2. Keys(h)[q] <= Keys(h)[p]
    <3>1. Keys(h)[q] \in Int /\ Keys(h)[p] \in Int /\ ~(Keys(h)[p] < Keys(h)[q])
      BY <1>1, <1>2, <1>4, <1>5
    <3> QED
      BY <3>1
  <2>3. InOrder(Keys(h), m)
    BY <2>2 DEF Rising, InOrder
  <2> QED
    BY <2>1, <2>3 DEF Beyond
<1>6. CASE p # 1 /\ Less(h, p, q)
  <2> DEFINE new == Swap(h, q, p)
             t == [heap |-> new, at |-> q]
  <2>1. Rise(s) = t
    BY <1>6 DEF Rise
  <2>2. new \in Arrays(isMin, n, R) /\ Swapped(h.items, new.items, q, p)
    <3>1. q \in 1..n /\ p \in 1..n /\ h \in Arrays(isMin, n, R)
      BY <1>1, <1>4, <1>6
    <3> HIDE DEF q, p, h
    <3> QED
      BY <3>1, SwapKeeps, Zenon
  <2>3. Swapped(Keys(h), Keys(new), q, p)
    BY <1>1, <1>4, <1>6, SwapKeys
  <2>4. Keys(h)[p] < Keys(h)[q]
    BY <1>1, <1>2, <1>4, <1>6
  <2> HIDE DEF new
  <2>5. Keys(new) \in [1..n -> Int]
    BY <2>2, LessIsKey
  <2>6. Rising(Keys(new), q, m)
    BY <1>2, <1>4, <1>6, <2>3, <2>4, <2>5, RisenKeys
  <2>7. t \in Places(isMin, n, m, R)
    BY <1>4, <1>6, <2>2 DEF Places
  <2>8. Beyond(h, new, n, m)
    <3>1. DOMAIN h.items = 1..n
      BY <1>1 DEF Arrays
    <3> QED
      BY <1>4, <1>6, <2>2, <3>1 DEF Beyond, Swapped
  <2>9. ~InOrder(Keys(h), m)
    <3>1. Keys(h)[q] \in Int /\ Keys(h)[p] \in Int
      BY <1>1, <1>2, <1>4, <1>6
    <3> QED
      BY <1>4, <1>6, <2>4, <3>1 DEF InOrder
  <2> QED
    BY <1>4, <1>6, <2>1, <2>6, <2>7, <2>8, <2>9
<1> QED
  BY <1>3, <1>5, <1>6

LEMMA UpOrders ==
  ASSUME NEW isMin, NEW n \in Nat, NEW m \in 1..n, NEW R \in SUBSET Txs,
         NEW h \in Arrays(isMin, n, R), NEW j \in 1..m, Rising(Keys(h), j, m)
  PROVE  /\ Up(h, j) \in Arrays(isMin, n, R)
         /\ InOrder(Keys(Up(h, j)), m)
         /\ Beyond(h, Up(h, j), n, m)
<1> DEFINE S == {s \in Places(isMin, n, m, R) : Rising(Keys(s.heap), s.at, m)}
           start == [heap |-> h, at |-> j]
           Runs(f) == f = [k \in 0..j |-> IF k = 0 THEN start ELSE Rise(f[k - 1])]
           run == CHOOSE f : Runs(f)
<1> j \in Nat
  OBVIOUS
<1>1. Up(h, j) = run[j].heap
  BY DEF Up
<1>2. start \in S
  BY DEF Places
<1>3. \A s \in S : /\ Rise(s) \in S
                   /\ Beyond(s.heap, Rise(s).heap, n, m)
                   /\ IF InOrder(Keys(s.heap), m) THEN Rise(s) = s ELSE Rise(s).at < s.at
  BY RiseStep
<1>4. \A s \in S : s.at \in 1..m /\ s.heap \in Arrays(isMin, n, R)
  BY DEF Places
<1> HIDE DEF S
<1>5. \E f : Runs(f)
  <2> DEFINE step == [k \in 1..j |-> [s \in S |-> Rise(s)]]
  <2>1. step \in [1..j -> [S -> S]]
    BY <1>3
  <2> HIDE DEF step
  <2>2. PICK f \in [0..j -> S] : FollowsUpTo(j, f, start, step)
    BY <1>2, <2>1, RecursionUpTo
  <2>3. f = [k \in 0..j |-> IF k = 0 THEN start ELSE step[k][f[k - 1]]]
    BY <2>2 DEF FollowsUpTo
  <2>4. \A k \in 0..j : k # 0 => step[k][f[k - 1]] = Rise(f[k - 1])
    <3> TAKE k \in 0..j
    <3>1. k # 0 => k \in 1..j /\ k - 1 \in 0..j
      OBVIOUS
    <3> QED
      BY <2>2, <3>1 DEF step
  <2>5. f = [k \in 0..j |-> IF k = 0 THEN start ELSE Rise(f[k - 1])]
    BY <2>3, <2>4, Zenon
  <2> QED
    BY <2>5
<1>6. Runs(run)
  <2> HIDE DEF Runs
  <2> QED
    BY <1>5
<1> HIDE DEF run
<1> DEFINE T == {k \in 0..j : /\ run[k] \in S
                              /\ Beyond(h, run[k].heap, n, m)
                              /\ run[k].at <= j - k \/ InOrder(Keys(run[k].heap), m)}
<1>7. 0 \in T
  <2>1. run[0] = start
    BY <1>6
  <2> QED
    BY <1>2, <2>1 DEF Beyond
<1>8. ASSUME NEW k \in 0..(j - 1), k \in T
      PROVE  k + 1 \in T
  <2>1. run[k + 1] = Rise(run[k])
    <3>1. k + 1 \in 0..j /\ k + 1 # 0 /\ (k + 1) - 1 = k
      OBVIOUS
    <3> QED
      BY <1>6, <3>1
  <2>2. run[k + 1] \in S /\ Beyond(h, run[k + 1].heap, n, m)
    BY <1>3, <1>8, <2>1 DEF Beyond
  <2>3. run[k].at \in 1..m /\ run[k + 1].at \in 1..m
    BY <1>4, <1>8, <2>2
  <2>4. CASE InOrder(Keys(run[k].heap), m)
    <3>1. run[k + 1] = run[k]
      BY <1>3, <1>8, <2>1, <2>4
    <3> QED
      BY <2>2, <2>4, <3>1
  <2>5. CASE ~InOrder(Keys(run[k].heap), m)
    <3>1. run[k + 1].at < run[k].at /\ run[k].at <= j - k
      BY <1>3, <1>8, <2>1, <2>5
    <3>2. run[k + 1].at <= j - (k + 1)
      BY <2>3, <3>1
    <3> QED
      BY <2>2, <3>2
  <2> QED
    BY <2>4, <2>5
<1>9. j \in T
  <2> HIDE DEF T
  <2>1. 0..j \subseteq T
    BY <1>7, <1>8, InductionUpTo
  <2> QED
    BY <2>1
<1> QED
  BY <1>1, <1>4, <1>9

LEMMA SinkPlace ==
  ASSUME NEW isMin, NEW n \in Nat, NEW m \in 1..n, NEW R \in SUBSET Txs,
         NEW h \in Arrays(isMin, n, R), NEW p \in 1..m, Misplaced(Keys(h), p, m)
  PROVE  LET s == [heap |-> h, at |-> p]
             t == Sink(s, m)
         IN
         /\ t \in Places(isMin, n, m, R)
         /\ Misplaced(Keys(t.heap), t.at, m)
         /\ Beyond(h, t.heap, n, m)
         /\ \/ t = s /\ Rising(Keys(h), p, m)
            \/ /\ t.at > p
               /\ t.heap.items[t.at] = h.items[p]
               /\ Keys(t.heap)[t.at \div 2] <= Keys(t.heap)[t.at]
<1> DEFINE s == [heap |-> h, at |-> p]
           left == 2 * p
           c == IF left < m /\ Less(h, left + 1, left) THEN left + 1 ELSE left
<1>1. p \in 1..n /\ p \in Nat
  OBVIOUS
<1>2. /\ Keys(h) \in [1..n -> Int]
      /\ \A i, j \in 1..n : Less(h, i, j) <=> Keys(h)[i] < Keys(h)[j]
  BY <1>1, LessIsKey
<1>3. Sink(s, m) = IF left > m \/ ~Less(h, c, p) THEN s ELSE [heap |-> Swap(h, p, c), at |-> c]
  BY DEF Sink
<1>4. \A i \in 2..m : i \div 2 = p <=> i = left \/ i = left + 1
  <2> TAKE i \in 2..m
  <2>1. i \in Nat /\ i >= 2 /\ p \in Nat
    BY <1>1
  <2> QED
    BY <2>1, Halves
<1>5. ASSUME left <= m
      PROVE  c \in 2..m /\ c \in 1..n /\ c > p /\ FirstChild(Keys(h), c, p, m)
  <2>1. left \in 2..m /\ left \in 1..n /\ (left < m => left + 1 \in 2..m /\ left + 1 \in 1..n)
    BY <1>1, <1>5
  <2>2. c \in 2..m /\ c \in 1..n /\ c > p
    BY <1>1, <2>1
  <2>3. c \div 2 = p
    BY <1>4, <2>2
  <2>4. ASSUME NEW i \in 2..m, i \div 2 = p
        PROVE  Keys(h)[c] <= Keys(h)[i]
    <3>1. i = left \/ i = left + 1
      BY <1>4, <2>4
    <3>2. Keys(h)[left] \in Int /\ (left < m => Keys(h)[left + 1] \in Int)
      BY <1>2, <2>1
    <3>3. CASE left < m /\ Less(h, left + 1, left)
      <4>1. Keys(h)[left + 1] < Keys(h)[left] /\ c = left + 1
        BY <1>2, <2>1, <3>3
      <4> QED
        BY <3>1, <3>2, <3>3, <4>1
    <3>4. CASE ~(left < m /\ Less(h, left + 1, left))
      <4>1. c = left /\ (i = left + 1 => left < m)
        BY <1>1, <2>4, <3>4
      <4>2. i = left + 1 => ~(Keys(h)[left + 1] < Keys(h)[left])
        BY <1>2, <2>1, <3>4, <4>1
      <4> QED
        BY <3>1, <3>2, <4>1, <4>2
    <3> QED
      BY <3>3, <3>4
  <2> QED
    BY <2>2, <2>3, <2>4 DEF FirstChild
<1>8. left \in Nat /\ c \in Nat
  BY <1>1
<1> HIDE DEF left, c
<1>6. CASE left > m \/ ~Less(h, c, p)
  <2>1. ASSUME NEW i \in 2..m
        PROVE  i # p => Keys(h)[i \div 2] <= Keys(h)[i]
    <3>1. CASE i \div 2 = p
      <4>1. left <= m
        BY <1>4, <1>8, <3>1
      <4>5. c \in 1..n /\ Keys(h)[c] <= Keys(h)[i]
        BY <1>5, <3>1, <4>1 DEF FirstChild
      <4>2. ~(Keys(h)[c] < Keys(h)[p])
        <5>1. ~Less(h, c, p)
          BY <1>6, <1>8, <4>1
        <5> QED
          BY <1>1, <1>2, <4>5, <5>1
      <4>3. Keys(h)[c] \in Int /\ Keys(h)[i] \in Int /\ Keys(h)[p] \in Int
        <5>1. i \in 1..n
          OBVIOUS
        <5> QED
          BY <1>1, <1>2, <4>5, <5>1
      <4>4. Keys(h)[p] <= Keys(h)[i]
        BY <4>2, <4>3, <4>5
      <4> QED
        BY <3>1, <4>4
    <3>2. CASE i \div 2 # p
      BY <3>2 DEF Misplaced
    <3> QED
      BY <3>1, <3>2
  <2>2. Rising(Keys(h), p, m)
    BY <2>1 DEF Rising, Misplaced
  <2>3. Sink(s, m) = s
    BY <1>3, <1>6
  <2>4. Beyond(h, h, n, m) /\ s \in Places(isMin, n, m, R)
    BY DEF Beyond, Places
  <2> QED
    BY <2>2, <2>3, <2>4
<1>7. CASE left <= m /\ Less(h, c, p)
  <2> DEFINE new == Swap(h, p, c)
             t == [heap |-> new, at |-> c]
  <2>1. Sink(s, m) = t
    BY <1>3, <1>7, <1>8
  <2>2. c \in 2..m /\ c \in 1..n /\ c > p /\ c \div 2 = p
    BY <1>5, <1>7 DEF FirstChild
  <2>3. FirstChild(Keys(h), c, p, m)
    BY <1>5, <1>7
  <2>4. Keys(h)[c] < Keys(h)[p]
    BY <1>1, <1>2, <1>7, <2>2
  <2>5. new \in Arrays(isMin, n, R) /\ Swapped(h.items, new.items, p, c)
    BY <1>1, <2>2, SwapKeeps, Zenon
  <2>6. Swapped(Keys(h), Keys(new), p, c)
    BY <1>1, <2>2, SwapKeys
  <2> HIDE DEF new
  <2>7. Keys(new) \in [1..n -> Int]
    BY <2>5, LessIsKey
  <2>8. Misplaced(Keys(new), c, m) /\ Keys(new)[p] <= Keys(new)[c]
    BY <1>2, <2>2, <2>3, <2>4, <2>6, <2>7, SunkKeys
  <2>9. Beyond(h, new, n, m)
    <3>1. DOMAIN h.items = 1..n
      BY DEF Arrays
    <3> QED
      BY <1>1, <2>2, <2>5, <3>1 DEF Beyond, Swapped
  <2>10. t \in Places(isMin, n, m, R)
    BY <2>1, <2>2, <2>5 DEF Places
  <2>11. new.items[c] = h.items[p]
    BY <2>5 DEF Swapped
  <2> QED
    BY <2>1, <2>2, <2>8, <2>9, <2>10, <2>11
<1> QED
  BY <1>6, <1>7, <1>8

LEMMA SinkStep ==
  ASSUME NEW isMin, NEW n \in Nat, NEW m \in 1..n, NEW R \in SUBSET Txs,
         NEW s \in Places(isMin, n, m, R), Misplaced(Keys(s.heap), s.at, m)
  PROVE  LET t == Sink(s, m) IN
         /\ t \in Places(isMin, n, m, R)
         /\ Misplaced(Keys(t.heap), t.at, m)
         /\ Beyond(s.heap, t.heap, n, m)
         /\ \/ t = s /\ Rising(Keys(s.heap), s.at, m)
            \/ /\ t.at > s.at
               /\ t.heap.items[t.at] = s.heap.items[s.at]
               /\ Keys(t.heap)[t.at \div 2] <= Keys(t.heap)[t.at]
<1>1. s = [heap |-> s.heap, at |-> s.at] /\ s.heap \in Arrays(isMin, n, R) /\ s.at \in 1..m
  BY DEF Places
<1> QED
  BY <1>1, SinkPlace

\* Where the item that sinks from i in h has got to: it has not moved, or it is below
\* and does not come before its parent.
Sunk(h, i, s) ==
  IF s.at = i THEN s.heap = h
  ELSE /\ s.at > i
       /\ s.heap.items[s.at] = h.items[i]
       /\ Keys(s.heap)[s.at \div 2] <= Keys(s.heap)[s.at]

\* An item out of place has sunk to its place, or only has to rise.
LEMMA DownOrders ==
  ASSUME NEW isMin, NEW n \in Nat, NEW m \in 1..n, NEW R \in SUBSET Txs,
         NEW h \in Arrays(isMin, n, R), NEW i \in 1..m, Misplaced(Keys(h), i, m)
  PROVE  /\ Down(h, i, m) \in Arrays(isMin, n, R)
         /\ Beyond(h, Down(h, i, m), n, m)
         /\ IF Down(h, i, m) = h THEN Rising(Keys(h), i, m)
            ELSE InOrder(Keys(Down(h, i, m)), m)
<1> DEFINE S == {s \in Places(isMin, n, m, R) : Misplaced(Keys(s.heap), s.at, m)}
           start == [heap |-> h, at |-> i]
           Runs(f) == f = [k \in 0..m |-> IF k = 0 THEN start ELSE Sink(f[k - 1], m)]
           run == CHOOSE f : Runs(f)
           Moved(s) == /\ Sink(s, m).at > s.at
                       /\ Sink(s, m).heap.items[Sink(s, m).at] = s.heap.items[s.at]
                       /\ Keys(Sink(s, m).heap)[Sink(s, m).at \div 2]
                            <= Keys(Sink(s, m).heap)[Sink(s, m).at]
<1> m \in Nat
  OBVIOUS
<1>1. Down(h, i, m) = run[m].heap
  BY DEF Down
<1>2. start \in S
  BY DEF Places
<1>3. \A s \in S : /\ Sink(s, m) \in S
                   /\ Beyond(s.heap, Sink(s, m).heap, n, m)
                   /\ Moved(s) \/ (Sink(s, m) = s /\ Rising(Keys(s.heap), s.at, m))
  BY SinkStep
<1>4. \A s \in S : s.at \in 1..m /\ s.heap \in Arrays(isMin, n, R)
  BY DEF Places
<1> HIDE DEF S
<1>5. \E f : Runs(f)
  <2> DEFINE step == [k \in 1..m |-> [s \in S |-> Sink(s, m)]]
  <2>1. step \in [1..m -> [S -> S]]
    BY <1>3
  <2> HIDE DEF step
  <2>2. PICK f \in [0..m -> S] : FollowsUpTo(m, f, start, step)
    BY <1>2, <2>1, RecursionUpTo
  <2>3. f = [k \in 0..m |-> IF k = 0 THEN start ELSE step[k][f[k - 1]]]
    BY <2>2 DEF FollowsUpTo
  <2>4. \A k \in 0..m : k # 0 => step[k][f[k - 1]] = Sink(f[k - 1], m)
    <3> TAKE k \in 0..m
    <3>1. k # 0 => k \in 1..m /\ k - 1 \in 0..m
      OBVIOUS
    <3> QED
      BY <2>2, <3>1 DEF step
  <2>5. f = [k \in 0..m |-> IF k = 0 THEN start ELSE Sink(f[k - 1], m)]
    BY <2>3, <2>4, Zenon
  <2> QED
    BY <2>5
<1>6. Runs(run)
  <2> HIDE DEF Runs
  <2> QED
    BY <1>5
<1> HIDE DEF run
<1> DEFINE T == {k \in 0..m : /\ run[k] \in S
                              /\ Beyond(h, run[k].heap, n, m)
                              /\ Sunk(h, i, run[k])
                              /\ run[k].at >= i + k \/ Sink(run[k], m) = run[k]}
<1>7. 0 \in T
  <2>1. run[0] = start
    BY <1>6
  <2> QED
    BY <1>2, <2>1 DEF Beyond, Sunk
<1>8. ASSUME NEW k \in 0..(m - 1), k \in T
      PROVE  k + 1 \in T
  <2>1. run[k + 1] = Sink(run[k], m)
    <3>1. k + 1 \in 0..m /\ k + 1 # 0 /\ (k + 1) - 1 = k
      OBVIOUS
    <3> QED
      BY <1>6, <3>1
  <2>2. run[k + 1] \in S /\ Beyond(h, run[k + 1].heap, n, m)
    BY <1>3, <1>8, <2>1 DEF Beyond
  <2>3. run[k].at \in 1..m /\ run[k + 1].at \in 1..m
    BY <1>4, <1>8, <2>2
  <2>4. CASE run[k + 1] = run[k]
    <3>1. Sink(run[k + 1], m) = run[k + 1] /\ Sunk(h, i, run[k + 1])
      BY <1>8, <2>1, <2>4
    <3> QED
      BY <2>2, <3>1
  <2>5. CASE run[k + 1] # run[k]
    <3>1. /\ run[k + 1].at > run[k].at
          /\ run[k + 1].heap.items[run[k + 1].at] = run[k].heap.items[run[k].at]
          /\ Keys(run[k + 1].heap)[run[k + 1].at \div 2] <= Keys(run[k + 1].heap)[run[k + 1].at]
          /\ run[k].at >= i + k
      BY <1>3, <1>8, <2>1, <2>5
    <3>2. run[k + 1].at >= i + (k + 1) /\ run[k + 1].at > i
      BY <2>3, <3>1
    <3>3. run[k].heap.items[run[k].at] = h.items[i]
      BY <1>8 DEF Sunk
    <3>4. Sunk(h, i, run[k + 1])
      BY <3>1, <3>2, <3>3 DEF Sunk
    <3> QED
      BY <2>2, <3>2, <3>4
  <2> QED
    BY <2>4, <2>5
<1>9. m \in T
  <2> HIDE DEF T
  <2>1. 0..m \subseteq T
    BY <1>7, <1>8, InductionUpTo
  <2> QED
    BY <2>1
<1> DEFINE r == run[m]
<1>10. r \in S /\ r.at \in 1..m /\ r.heap \in Arrays(isMin, n, R) /\ Sunk(h, i, r)
  BY <1>4, <1>9
<1>11. Rising(Keys(r.heap), r.at, m)
  <2>1. Sink(r, m) = r
    BY <1>9, <1>10
  <2> QED
    BY <1>3, <1>10, <2>1
<1>12. CASE r.at = i
  BY <1>1, <1>9, <1>10, <1>11, <1>12 DEF Sunk
<1>13. CASE r.at # i
  <2>1. r.heap # h
    <3>1. h.index[h.items[i]] = i /\ h.index[h.items[r.at]] = r.at
      <4>1. i \in 1..n /\ r.at \in 1..n
        BY <1>10
      <4> QED
        BY <4>1 DEF Arrays
    <3> QED
      BY <1>10, <1>13, <3>1 DEF Sunk
  <2>2. InOrder(Keys(r.heap), m)
    BY <1>10, <1>11, <1>13 DEF Sunk, Rising, InOrder
  <2> QED
    BY <1>1, <1>9, <1>10, <2>1, <2>2
<1> QED
  BY <1>12, <1>13

\* What comes before everything it is above comes first of all.
LEMMA RootFirst ==
  ASSUME NEW n \in Nat, NEW k \in [1..n -> Int], InOrder(k, n)
  PROVE  \A i \in 1..n : k[1] <= k[i]
<1> DEFINE T == {i \in 0..n : \A j \in 1..i : k[1] <= k[j]}
<1>1. 0 \in T
  OBVIOUS
<1>2. ASSUME NEW i \in 0..(n - 1), i \in T
      PROVE  i + 1 \in T
  <2>1. i + 1 \in 1..n /\ k[i + 1] \in Int /\ k[1] \in Int
    OBVIOUS
  <2>2. k[1] <= k[i + 1]
    <3>1. CASE i = 0
      BY <2>1, <3>1
    <3>2. CASE i # 0
      <4> DEFINE p == (i + 1) \div 2
      <4>1. i + 1 \in 2..n
        BY <3>2
      <4>2. p \in 1..i
        BY <4>1, Halves
      <4>3. k[1] <= k[p] /\ k[p] <= k[i + 1]
        BY <1>2, <4>1, <4>2 DEF InOrder
      <4>4. k[p] \in Int
        BY <4>2
      <4> HIDE DEF p
      <4> QED
        BY <2>1, <4>3, <4>4
    <3> QED
      BY <3>1, <3>2
  <2>3. \A j \in 1..(i + 1) : j \in 1..i \/ j = i + 1
    OBVIOUS
  <2> QED
    BY <1>2, <2>1, <2>2, <2>3
<1>3. 0..n \subseteq T
  <2> HIDE DEF T
  <2> QED
    BY <1>1, <1>2, InductionUpTo
<1> QED
  BY <1>3

\* A heap of n items holds n transactions.
LEMMA HeldByHeap ==
  ASSUME NEW isMin, NEW n \in Nat, NEW R, NEW h \in Arrays(isMin, n, R)
  PROVE  /\ IsFiniteSet(R) /\ Cardinality(R) = n
         /\ h.items \in Seq(R) /\ Len(h.items) = n
         /\ DOMAIN h.index = R /\ R = {h.items[i] : i \in 1..n}
<1>1. /\ h.items \in [1..n -> R] /\ h.index \in [R -> 1..n]
      /\ \A i \in 1..n : h.index[h.items[i]] = i
      /\ \A tx \in R : h.items[h.index[tx]] = tx
  BY DEF Arrays
<1>2. h.items \in Bijection(1..n, R)
  <2>1. h.items \in Injection(1..n, R)
    BY <1>1 DEF Injection, IsInjective
  <2>2. h.items \in Surjection(1..n, R)
    BY <1>1 DEF Surjection
  <2> QED
    BY <2>1, <2>2 DEF Bijection
<1>3. IsFiniteSet(1..n) /\ Cardinality(1..n) = n
  BY FS_Interval
<1>4. IsFiniteSet(R) /\ Cardinality(R) = n
  <2>1. ExistsBijection(1..n, R)
    BY <1>2 DEF ExistsBijection
  <2> QED
    BY <1>3, <2>1, FS_Bijection
<1> QED
  BY <1>1, <1>4, ListIsSeq

LEMMA Front ==
  ASSUME NEW R, NEW w \in Seq(R), NEW n \in Nat \ {0}, Len(w) = n
  PROVE  /\ SubSeq(w, 1, n - 1) \in [1..(n - 1) -> R]
         /\ \A i \in 1..(n - 1) : SubSeq(w, 1, n - 1)[i] = w[i]
<1>1. n - 1 \in Nat /\ n - 1 <= Len(w)
  OBVIOUS
<1>2. w \in [1..n -> R]
  BY LenProperties
<1>3. SubSeq(w, 1, n - 1) = [i \in 1..(n - 1) |-> w[i]]
  BY <1>1, <1>2
<1>4. \A i \in 1..(n - 1) : i \in 1..n
  OBVIOUS
<1> QED
  BY <1>2, <1>3, <1>4

\* The last item leaves.
LEMMA PopKeeps ==
  ASSUME NEW isMin, NEW n \in Nat \ {0}, NEW R \in SUBSET Txs,
         NEW h \in Arrays(isMin, n, R), InOrder(Keys(h), n - 1)
  PROVE  /\ Pop(h) \in Arrays(isMin, n - 1, R \ {h.items[n]})
         /\ InOrder(Keys(Pop(h)), n - 1)
<1> DEFINE m == n - 1
           last == h.items[n]
           rest == R \ {last}
           items == SubSeq(h.items, 1, m)
           index == Restrict(h.index, DOMAIN h.index \ {last})
           new == [h EXCEPT !.items = items, !.index = index]
<1>1. /\ h.items \in [1..n -> R] /\ h.index \in [R -> 1..n] /\ h.isMinHeap = isMin
      /\ \A i \in 1..n : h.index[h.items[i]] = i
      /\ \A tx \in R : h.items[h.index[tx]] = tx
      /\ h \in [isMinHeap : {isMin}, items : [1..n -> R], index : [R -> 1..n]]
  BY DEF Arrays
<1>2. h.items \in Seq(R) /\ Len(h.items) = n /\ DOMAIN h.index = R
  BY HeldByHeap
<1>3. Pop(h) = new
  BY <1>2 DEF Pop
<1>4. m \in Nat /\ m < n /\ last \in R /\ h.index[last] = n
  BY <1>1
<1>5. items \in [1..m -> R] /\ \A i \in 1..m : items[i] = h.items[i]
  BY <1>2, Front
<1>15. DOMAIN items = 1..m /\ DOMAIN h.items = 1..n /\ \A i \in 1..m : i \in 1..n /\ i # n
  BY <1>1, <1>5
<1>6. index \in [rest -> 1..n] /\ \A tx \in rest : index[tx] = h.index[tx]
  BY <1>1, <1>2 DEF Restrict
<1> HIDE DEF items, index, last
<1>7. new.isMinHeap = isMin /\ new.items = items /\ new.index = index
      /\ new = [isMinHeap |-> isMin, items |-> items, index |-> index]
  <2>1. new.isMinHeap = isMin /\ new.items = items /\ new.index = index
    BY <1>1
  <2>2. DOMAIN new = {"isMinHeap", "items", "index"}
    BY <1>1
  <2>3. new = [f \in DOMAIN new |-> new[f]]
    BY <1>1
  <2> HIDE DEF new
  <2> QED
    BY <2>1, <2>2, <2>3
<1> HIDE DEF new
<1>8. \A i \in 1..m : items[i] \in rest
  <2> TAKE i \in 1..m
  <2>1. i \in 1..n /\ i # n /\ items[i] = h.items[i]
    BY <1>5, <1>15
  <2>2. h.items[i] \in R /\ h.index[h.items[i]] = i
    BY <1>1, <2>1
  <2>3. h.items[i] # last
    BY <1>4, <2>1, <2>2
  <2> QED
    BY <2>1, <2>2, <2>3
<1>9. \A tx \in rest : index[tx] \in 1..m
  <2> TAKE tx \in rest
  <2>1. h.index[tx] \in 1..n /\ h.items[h.index[tx]] = tx /\ tx # last
    BY <1>1
  <2>2. h.index[tx] # n
    BY <2>1 DEF last
  <2> QED
    BY <1>4, <1>6, <2>1, <2>2
<1>10. items \in [1..m -> rest] /\ index \in [rest -> 1..m]
  BY <1>5, <1>6, <1>8, <1>9
<1>11. \A i \in 1..m : index[items[i]] = i
  BY <1>1, <1>5, <1>6, <1>8, <1>15
<1>12. \A tx \in rest : items[index[tx]] = tx
  BY <1>1, <1>5, <1>6, <1>9
<1>13. new \in Arrays(isMin, m, rest)
  BY <1>7, <1>10, <1>11, <1>12 DEF Arrays
<1>14. InOrder(Keys(new), m)
  <2>1. \A i \in 1..m : Keys(new)[i] = Keys(h)[i]
    BY <1>1, <1>5, <1>7, <1>15 DEF Keys
  <2>2. \A i \in 2..m : i \in 1..m /\ i \div 2 \in 1..m
    BY <1>4, Halves
  <2> QED
    BY <2>1, <2>2 DEF InOrder
<1> QED
  BY <1>3, <1>13, <1>14 DEF last

\* An item taken from anywhere leaves a heap of the others.
LEMMA RemoveKeeps ==
  ASSUME NEW isMin, NEW n \in Nat \ {0}, NEW R \in SUBSET Txs,
         NEW h \in Arrays(isMin, n, R), InOrder(Keys(h), n), NEW i \in 1..n
  PROVE  /\ RemoveAt(h, i) \in Arrays(isMin, n - 1, R \ {h.items[i]})
         /\ InOrder(Keys(RemoveAt(h, i)), n - 1)
<1> DEFINE m == n - 1
           swapped == Swap(h, i, n)
           sunk == Down(swapped, i, m)
           new == IF sunk # swapped THEN sunk ELSE Up(swapped, i)
<1>1. Len(h.items) = n
  BY HeldByHeap
<1>2. RemoveAt(h, i) = IF i = n THEN Pop(h) ELSE Pop(new)
  BY <1>1 DEF RemoveAt
<1>3. InOrder(Keys(h), m)
  BY DEF InOrder
<1>4. CASE i = n
  BY <1>2, <1>3, <1>4, PopKeeps
<1>5. CASE i # n
  <2>1. m \in 1..n /\ i \in 1..m /\ n \in 1..n /\ i \in 1..n
    BY <1>5
  <2>2. swapped \in Arrays(isMin, n, R) /\ Swapped(h.items, swapped.items, i, n)
    BY <2>1, SwapKeeps, Zenon
  <2>3. Swapped(Keys(h), Keys(swapped), i, n)
    BY <2>1, SwapKeys, Zenon
  <2>4. Keys(h) \in [1..n -> Int]
    BY LessIsKey
  <2> HIDE DEF swapped
  <2>5. Misplaced(Keys(swapped), i, m)
    <3> DEFINE k == Keys(h)
               l == Keys(swapped)
    <3>1. \A o \in 1..m : o # i => l[o] = k[o]
      BY <2>3, <2>4 DEF Swapped
    <3> SUFFICES ASSUME NEW j \in 2..m
                 PROVE  /\ j # i /\ j \div 2 # i => l[j \div 2] <= l[j]
                        /\ j \div 2 = i /\ i > 1 => l[i \div 2] <= l[j]
      BY DEF Misplaced
    <3>2. j \in 1..m /\ j \div 2 \in 1..m /\ j \div 2 < j /\ k[j \div 2] <= k[j]
      BY Halves DEF InOrder
    <3>3. ASSUME j \div 2 = i, i > 1
          PROVE  l[i \div 2] <= l[j]
      <4>1. i \in 2..n /\ i \div 2 \in 1..m /\ i \div 2 < i /\ k[i \div 2] <= k[i]
        BY <2>1, <3>3, Halves DEF InOrder
      <4>2. l[i \div 2] = k[i \div 2] /\ l[j] = k[j]
        BY <3>1, <3>2, <3>3, <4>1
      <4>3. k[i \div 2] \in Int /\ k[i] \in Int /\ k[j] \in Int
        BY <2>1, <2>4, <3>2, <4>1
      <4>4. k[i] <= k[j]
        BY <3>2, <3>3
      <4> HIDE DEF k, l
      <4> QED
        BY <4>1, <4>2, <4>3, <4>4
    <3> QED
      BY <3>1, <3>2, <3>3
  <2>6. /\ sunk \in Arrays(isMin, n, R)
        /\ Beyond(swapped, sunk, n, m)
        /\ IF sunk = swapped THEN Rising(Keys(swapped), i, m) ELSE InOrder(Keys(sunk), m)
    BY <2>1, <2>2, <2>5, DownOrders
  <2> HIDE DEF sunk
  <2>7. /\ new \in Arrays(isMin, n, R)
        /\ Beyond(swapped, new, n, m)
        /\ InOrder(Keys(new), m)
    <3>1. CASE sunk # swapped
      BY <2>6, <3>1
    <3>2. CASE sunk = swapped
      BY <2>1, <2>2, <2>6, <3>2, UpOrders
    <3> QED
      BY <3>1, <3>2
  <2> HIDE DEF new
  <2>8. new.items[n] = h.items[i]
    <3>1. n \in (m + 1)..n
      OBVIOUS
    <3> QED
      BY <2>2, <2>7, <3>1 DEF Beyond, Swapped
  <2> QED
    BY <1>2, <1>5, <2>7, <2>8, PopKeeps
<1> QED
  BY <1>4, <1>5

\* A new item goes to the end of the array and rises.
LEMMA PushKeeps ==
  ASSUME NEW isMin, NEW n \in Nat, NEW R \in SUBSET Txs,
         NEW h \in Arrays(isMin, n, R), InOrder(Keys(h), n), NEW tx \in Txs \ R
  PROVE  /\ Push(h, tx) \in Arrays(isMin, n + 1, R \cup {tx})
         /\ InOrder(Keys(Push(h, tx)), n + 1)
<1> DEFINE m == n + 1
           more == R \cup {tx}
           items == Append(h.items, tx)
           index == [t \in DOMAIN h.index \cup {tx} |-> IF t = tx THEN m ELSE h.index[t]]
           new == [h EXCEPT !.items = items, !.index = index]
<1>1. /\ h.items \in [1..n -> R] /\ h.index \in [R -> 1..n] /\ h.isMinHeap = isMin
      /\ \A i \in 1..n : h.index[h.items[i]] = i
      /\ \A t \in R : h.items[h.index[t]] = t
      /\ h \in [isMinHeap : {isMin}, items : [1..n -> R], index : [R -> 1..n]]
  BY DEF Arrays
<1>2. h.items \in Seq(R) /\ Len(h.items) = n /\ DOMAIN h.index = R
  BY HeldByHeap
<1>3. Push(h, tx) = Up(new, m)
  BY <1>2 DEF Push, Has
<1>4. /\ items \in [1..m -> more] /\ items[m] = tx
      /\ \A i \in 1..n : items[i] = h.items[i]
  <2>1. h.items \in Seq(more)
    BY <1>1, ListIsSeq
  <2>2. items \in Seq(more) /\ Len(items) = m
    BY <1>2, <2>1
  <2>3. items \in [1..m -> more]
    BY <2>2, LenProperties
  <2> QED
    BY <1>2, <2>1, <2>3
<1>5. index \in [more -> 1..m] /\ index[tx] = m /\ \A t \in R : index[t] = h.index[t]
  BY <1>1, <1>2
<1> HIDE DEF items, index
<1>6. new.isMinHeap = isMin /\ new.items = items /\ new.index = index
      /\ new = [isMinHeap |-> isMin, items |-> items, index |-> index]
  <2>1. new.isMinHeap = isMin /\ new.items = items /\ new.index = index
    BY <1>1
  <2>2. DOMAIN new = {"isMinHeap", "items", "index"}
    BY <1>1
  <2>3. new = [f \in DOMAIN new |-> new[f]]
    BY <1>1
  <2> HIDE DEF new
  <2> QED
    BY <2>1, <2>2, <2>3
<1> HIDE DEF new
<1>7. \A i \in 1..m : i = m \/ i \in 1..n
  OBVIOUS
<1>8. \A i \in 1..m : index[items[i]] = i
  <2> TAKE i \in 1..m
  <2>1. CASE i = m
    BY <1>4, <1>5, <2>1
  <2>2. CASE i \in 1..n
    <3>1. items[i] = h.items[i] /\ h.items[i] \in R /\ h.index[h.items[i]] = i
      BY <1>1, <1>4, <2>2
    <3> QED
      BY <1>5, <3>1
  <2> QED
    BY <1>7, <2>1, <2>2
<1>9. \A t \in more : items[index[t]] = t
  <2> TAKE t \in more
  <2>1. CASE t = tx
    BY <1>4, <1>5, <2>1
  <2>2. CASE t \in R
    <3>1. index[t] = h.index[t] /\ h.index[t] \in 1..n /\ h.items[h.index[t]] = t
      BY <1>1, <1>5, <2>2
    <3> QED
      BY <1>4, <3>1
  <2> QED
    BY <2>1, <2>2
<1>10. new \in Arrays(isMin, m, more)
  BY <1>4, <1>5, <1>6, <1>8, <1>9 DEF Arrays
<1>11. Rising(Keys(new), m, m)
  <2>1. \A i \in 1..n : Keys(new)[i] = Keys(h)[i]
    <3>1. DOMAIN new.items = 1..m /\ DOMAIN h.items = 1..n /\ 1..n \subseteq 1..m
      BY <1>1, <1>4, <1>6
    <3> QED
      BY <1>1, <1>4, <1>6, <3>1 DEF Keys
  <2> SUFFICES ASSUME NEW i \in 2..m
               PROVE  /\ i # m => Keys(new)[i \div 2] <= Keys(new)[i]
                      /\ i \div 2 # m
    BY DEF Rising
  <2>2. i \div 2 < i /\ i \div 2 \in Nat /\ 1 <= i \div 2
    BY Halves
  <2>3. i \div 2 # m
    BY <2>2
  <2>4. ASSUME i # m
        PROVE  Keys(new)[i \div 2] <= Keys(new)[i]
    <3>1. i \in 2..n /\ i \in 1..n /\ i \div 2 \in 1..n
      BY <2>2, <2>4
    <3>2. Keys(h)[i \div 2] <= Keys(h)[i]
      BY <3>1 DEF InOrder
    <3> QED
      BY <2>1, <3>1, <3>2
  <2> QED
    BY <2>3, <2>4
<1>12. m \in Nat /\ m \in 1..m /\ more \in SUBSET Txs
  OBVIOUS
<1>13. ASSUME NEW k \in 1..m, k = m
       PROVE  /\ Up(new, k) \in Arrays(isMin, m, more)
              /\ InOrder(Keys(Up(new, k)), m)
  <2> HIDE DEF m, more
  <2>1. Rising(Keys(new), k, m) /\ m \in 1..m
    BY <1>11, <1>12, <1>13
  <2> QED
    BY <1>10, <1>12, <2>1, UpOrders
<1> QED
  BY <1>3, <1>12, <1>13

-----------------------------------------------------------------------------
(* The mempool: two heaps of the same transactions.                        *)

\* The heaps that may hold the transactions R, and the pairs of them.
Ordered(isMin, R) ==
  {h \in Arrays(isMin, Cardinality(R), R) : InOrder(Keys(h), Cardinality(R))}
HeapsOf(R) == [max : Ordered(FALSE, R), min : Ordered(TRUE, R)]

MempoolInv ==
  /\ Held \in SUBSET Txs /\ IsFiniteSet(Held)
  /\ Cardinality(Held) <= MaxSize
  /\ heaps \in HeapsOf(Held)
  /\ newTxs \in Seq(Txs)

\* What is in a heap is what its lookup and its array hold.
LEMMA OrderedHolds ==
  ASSUME NEW isMin, NEW R \in SUBSET Txs, IsFiniteSet(R), NEW h \in Ordered(isMin, R)
  PROVE  /\ DOMAIN h.index = R
         /\ Len(h.items) = Cardinality(R)
         /\ h.items \in Seq(R)
         /\ R = {h.items[i] : i \in 1..Len(h.items)}
<1> DEFINE n == Cardinality(R)
<1>1. n \in Nat
  BY FS_CardinalityType
<1>2. h \in Arrays(isMin, n, R)
  BY DEF Ordered
<1> HIDE DEF n
<1>3. /\ DOMAIN h.index = R /\ Len(h.items) = n
      /\ h.items \in Seq(R) /\ R = {h.items[i] : i \in 1..n}
  <2>1. DOMAIN h.index = R
    BY <1>1, <1>2, HeldByHeap
  <2>2. Len(h.items) = n
    BY <1>1, <1>2, HeldByHeap
  <2>3. h.items \in Seq(R)
    BY <1>1, <1>2, HeldByHeap
  <2>4. R = {h.items[i] : i \in 1..n}
    <3>1. /\ h.items \in [1..n -> R] /\ h.index \in [R -> 1..n]
          /\ \A tx \in R : h.items[h.index[tx]] = tx
      BY <1>2 DEF Arrays
    <3> QED
      BY <3>1
  <2> QED
    BY <2>1, <2>2, <2>3, <2>4
<1>4. R = {h.items[i] : i \in 1..Len(h.items)}
  BY <1>3, Zenon
<1> QED
  BY <1>3, <1>4 DEF n

LEMMA OrderedRemove ==
  ASSUME NEW isMin, NEW R \in SUBSET Txs, IsFiniteSet(R), NEW h \in Ordered(isMin, R),
         NEW tx \in R
  PROVE  RemoveAt(h, h.index[tx]) \in Ordered(isMin, R \ {tx})
<1> DEFINE n == Cardinality(R)
           i == h.index[tx]
<1>1. n \in Nat \ {0} /\ Cardinality(R \ {tx}) = n - 1
  <2>1. n \in Nat /\ Cardinality(R \ {tx}) = n - 1
    BY FS_CardinalityType, FS_RemoveElement
  <2>2. Cardinality(R \ {tx}) \in Nat
    BY FS_Subset, FS_CardinalityType
  <2> QED
    BY <2>1, <2>2
<1>2. h \in Arrays(isMin, n, R) /\ InOrder(Keys(h), n)
  BY DEF Ordered
<1>3. i \in 1..n /\ h.items[i] = tx
  BY <1>2 DEF Arrays
<1> HIDE DEF n, i
<1>4. /\ RemoveAt(h, i) \in Arrays(isMin, n - 1, R \ {tx})
      /\ InOrder(Keys(RemoveAt(h, i)), n - 1)
  BY <1>1, <1>2, <1>3, RemoveKeeps
<1> QED
  BY <1>1, <1>4 DEF Ordered, i

LEMMA OrderedPush ==
  ASSUME NEW isMin, NEW R \in SUBSET Txs, IsFiniteSet(R), NEW h \in Ordered(isMin, R),
         NEW tx \in Txs \ R
  PROVE  Push(h, tx) \in Ordered(isMin, R \cup {tx})
<1> DEFINE n == Cardinality(R)
<1>1. n \in Nat /\ Cardinality(R \cup {tx}) = n + 1
  BY FS_CardinalityType, FS_AddElement
<1>2. h \in Arrays(isMin, n, R) /\ InOrder(Keys(h), n)
  BY DEF Ordered
<1> HIDE DEF n
<1>3. Push(h, tx) \in Arrays(isMin, n + 1, R \cup {tx}) /\ InOrder(Keys(Push(h, tx)), n + 1)
  BY <1>1, <1>2, PushKeeps
<1> QED
  BY <1>1, <1>3 DEF Ordered

\* The first item of a heap that holds something has the least key.
LEMMA OrderedFirst ==
  ASSUME NEW isMin \in BOOLEAN, NEW R \in SUBSET Txs, IsFiniteSet(R),
         NEW h \in Ordered(isMin, R), R # {}
  PROVE  /\ h.items[1] \in R
         /\ \A tx \in R : IF isMin THEN Price[h.items[1]] <= Price[tx]
                                   ELSE Price[h.items[1]] >= Price[tx]
<1> DEFINE n == Cardinality(R)
<1>1. n \in Nat /\ n # 0
  BY FS_CardinalityType, FS_EmptySet
<1>2. h \in Arrays(isMin, n, R) /\ InOrder(Keys(h), n)
  BY DEF Ordered
<1> HIDE DEF n
<1>3. Keys(h) \in [1..n -> Int]
  BY <1>1, <1>2, LessIsKey
<1>4. \A i \in 1..n : Keys(h)[1] <= Keys(h)[i]
  BY <1>1, <1>2, <1>3, RootFirst
<1>5. /\ h.items \in [1..n -> R] /\ h.index \in [R -> 1..n] /\ h.isMinHeap = isMin
      /\ \A tx \in R : h.items[h.index[tx]] = tx
  BY <1>2 DEF Arrays
<1>6. 1 \in 1..n
  BY <1>1
<1>7. h.items[1] \in R
  BY <1>5, <1>6
<1>8. ASSUME NEW tx \in R
      PROVE  IF isMin THEN Price[h.items[1]] <= Price[tx] ELSE Price[h.items[1]] >= Price[tx]
  <2> DEFINE i == h.index[tx]
  <2>1. i \in 1..n /\ h.items[i] = tx
    BY <1>5
  <2> HIDE DEF i
  <2>2. Keys(h)[1] = Key(isMin, h.items[1]) /\ Keys(h)[i] = Key(isMin, tx)
    BY <1>5, <1>6, <2>1 DEF Keys
  <2>3. Key(isMin, h.items[1]) <= Key(isMin, tx)
    BY <1>4, <2>1, <2>2
  <2>4. Price[h.items[1]] \in Nat /\ Price[tx] \in Nat
    BY <1>7, InterfaceAssumption
  <2> QED
    BY <2>3, <2>4 DEF Key
<1> QED
  BY <1>7, <1>8

\* Both heaps lose the transaction, if they have it.
LEMMA WithoutKeeps ==
  ASSUME NEW R \in SUBSET Txs, IsFiniteSet(R), NEW both \in HeapsOf(R), NEW tx
  PROVE  Without(tx, both) \in HeapsOf(R \ {tx})
<1>1. both.max \in Ordered(FALSE, R) /\ both.min \in Ordered(TRUE, R)
  BY DEF HeapsOf
<1>2. DOMAIN both.max.index = R /\ DOMAIN both.min.index = R
  BY <1>1, OrderedHolds, Zenon
<1>3. CASE tx \in R
  <2>1. /\ RemoveAt(both.max, both.max.index[tx]) \in Ordered(FALSE, R \ {tx})
        /\ RemoveAt(both.min, both.min.index[tx]) \in Ordered(TRUE, R \ {tx})
    BY <1>1, <1>3, OrderedRemove, Zenon
  <2> QED
    BY <1>2, <1>3, <2>1 DEF Without, Has, HeapsOf
<1>4. CASE tx \notin R
  <2>1. R \ {tx} = R
    BY <1>4
  <2> QED
    BY <1>2, <1>4, <2>1 DEF Without, Has
<1> QED
  BY <1>3, <1>4

LEMMA PushesKeep ==
  ASSUME NEW R \in SUBSET Txs, IsFiniteSet(R), NEW both \in HeapsOf(R), NEW tx \in Txs \ R
  PROVE  [max |-> Push(both.max, tx), min |-> Push(both.min, tx)] \in HeapsOf(R \cup {tx})
<1>1. both.max \in Ordered(FALSE, R) /\ both.min \in Ordered(TRUE, R)
  BY DEF HeapsOf
<1>2. /\ Push(both.max, tx) \in Ordered(FALSE, R \cup {tx})
      /\ Push(both.min, tx) \in Ordered(TRUE, R \cup {tx})
  BY <1>1, OrderedPush, Zenon
<1> QED
  BY <1>2 DEF HeapsOf

LEMMA HeldIs ==
  ASSUME NEW R \in SUBSET Txs, IsFiniteSet(R), NEW both \in HeapsOf(R)
  PROVE  DOMAIN both.max.index = R
BY OrderedHolds DEF HeapsOf

LEMMA MempoolInitInv == MempoolInit => MempoolInv
<1> SUFFICES ASSUME MempoolInit PROVE MempoolInv
  OBVIOUS
<1>1. ASSUME NEW isMin
      PROVE  EmptyHeap(isMin) \in Ordered(isMin, {})
  <2> DEFINE h == [isMinHeap |-> isMin, items |-> <<>>, index |-> [tx \in {} |-> 0]]
  <2>1. Cardinality({}) = 0
    BY FS_EmptySet
  <2>2. h.items \in [1..0 -> {}] /\ h.index \in [{} -> 1..0]
    OBVIOUS
  <2>3. h \in Arrays(isMin, 0, {})
    BY <2>2 DEF Arrays
  <2>4. InOrder(Keys(h), 0)
    BY DEF InOrder
  <2> QED
    BY <2>1, <2>3, <2>4 DEF Ordered, EmptyHeap
<1>2. heaps = [max |-> EmptyHeap(FALSE), min |-> EmptyHeap(TRUE)] /\ newTxs = <<>>
  BY DEF MempoolInit
<1>3. heaps \in HeapsOf({})
  BY <1>1, <1>2 DEF HeapsOf
<1>4. IsFiniteSet({}) /\ Cardinality({}) = 0
  BY FS_EmptySet
<1>5. Held = {}
  BY <1>3, <1>4, HeldIs DEF Held
<1> QED
  BY <1>2, <1>3, <1>4, <1>5, InterfaceAssumption DEF MempoolInv

\* The invariant gives what each heap promises.
LEMMA MempoolSync == MempoolInv => HeapsInSync
<1> SUFFICES ASSUME MempoolInv PROVE HeapsInSync
  OBVIOUS
<1> DEFINE n == Cardinality(Held)
<1>1. n \in Nat /\ n <= MaxSize /\ Held \in SUBSET Txs /\ IsFiniteSet(Held)
  BY FS_CardinalityType DEF MempoolInv
<1>2. heaps.max \in Ordered(FALSE, Held) /\ heaps.min \in Ordered(TRUE, Held)
  BY DEF MempoolInv, HeapsOf
<1>3. ASSUME NEW isMin, NEW h \in Ordered(isMin, Held)
      PROVE  /\ h.items \in Seq(Txs) /\ DOMAIN h.index = Held /\ Len(h.items) = n
             /\ WellFormed(h)
  <2>1. /\ DOMAIN h.index = Held /\ h.items \in Seq(Held) /\ Len(h.items) = n
        /\ Held = {h.items[i] : i \in 1..Len(h.items)}
    BY <1>1, <1>3, OrderedHolds
  <2>2. h \in Arrays(isMin, n, Held) /\ InOrder(Keys(h), n)
    BY <1>3 DEF Ordered
  <2> HIDE DEF n
  <2>3. h.items \in [1..n -> Held] /\ \A i \in 1..n : h.index[h.items[i]] = i
    BY <2>2 DEF Arrays
  <2>4. h.items \in [1..n -> Txs]
    BY <1>1, <2>3
  <2>5. h.items \in Seq(Txs)
    BY <1>1, <2>4, ListIsSeq
  <2>6. DOMAIN h.items = 1..n
    BY <2>3
  <2>7. ASSUME NEW i \in 1..n, i > 1
        PROVE  ~Less(h, i, i \div 2)
    <3>1. i \in 2..n /\ i \div 2 \in 1..n
      BY <1>1, <2>7, Halves
    <3>2. Keys(h)[i \div 2] <= Keys(h)[i]
      BY <2>2, <3>1 DEF InOrder
    <3>3. Keys(h)[i \div 2] \in Int /\ Keys(h)[i] \in Int
      BY <1>1, <2>2, <3>1, LessIsKey
    <3>4. Less(h, i, i \div 2) <=> Keys(h)[i] < Keys(h)[i \div 2]
      BY <1>1, <2>2, <3>1, LessIsKey
    <3> QED
      BY <3>2, <3>3, <3>4
  <2>8. Range(h.items) = Held
    BY <2>1, <2>6 DEF Range
  <2> QED
    BY <2>1, <2>3, <2>5, <2>6, <2>7, <2>8 DEF WellFormed
<1>4. /\ heaps.max.items \in Seq(Txs) /\ DOMAIN heaps.max.index = Held
      /\ Len(heaps.max.items) = n /\ WellFormed(heaps.max)
  BY <1>2, <1>3
<1>5. /\ heaps.min.items \in Seq(Txs) /\ DOMAIN heaps.min.index = Held
      /\ Len(heaps.min.items) = n /\ WellFormed(heaps.min)
  BY <1>2, <1>3
<1> HIDE DEF n
<1>6. n = Cardinality(DOMAIN heaps.max.index)
  BY <1>4 DEF n
<1> QED
  BY <1>1, <1>4, <1>5, <1>6 DEF HeapsInSync

LEMMA HeldNext ==
  ASSUME NEW R \in SUBSET Txs, IsFiniteSet(R), Cardinality(R) <= MaxSize,
         heaps' \in HeapsOf(R), newTxs' \in Seq(Txs)
  PROVE  Held' = R /\ MempoolInv'
<1>1. Held' = R
  BY HeldIs DEF Held
<1> QED
  BY <1>1 DEF MempoolInv

\* Whatever is taken out of the heaps, what is left is what should be.
LEMMA WithoutNext ==
  ASSUME MempoolInv, NEW CONSTANT tx, heaps' = Without(tx, heaps), UNCHANGED newTxs
  PROVE  Held' = Held \ {tx} /\ MempoolInv'
<1> DEFINE R == Held \ {tx}
<1>1. Held \in SUBSET Txs /\ IsFiniteSet(Held) /\ heaps \in HeapsOf(Held)
  BY DEF MempoolInv
<1>2. heaps' \in HeapsOf(R)
  BY <1>1, WithoutKeeps
<1>3. R \in SUBSET Txs /\ IsFiniteSet(R) /\ Cardinality(R) <= Cardinality(Held)
  BY <1>1, FS_Subset
<1>4. Cardinality(R) \in Nat /\ Cardinality(Held) \in Nat /\ Cardinality(Held) <= MaxSize
      /\ MaxSize \in Nat
  BY <1>1, <1>3, FS_CardinalityType, InterfaceAssumption DEF MempoolInv
<1>5. Cardinality(R) <= MaxSize
  BY <1>3, <1>4
<1> HIDE DEF R
<1>6. Held' = R /\ MempoolInv'
  BY <1>2, <1>3, <1>5, HeldNext DEF MempoolInv
<1> QED
  BY <1>6 DEF R

LEMMA SameCardinality == \A S : Promised!Cardinality(S) = Cardinality(S)
BY Zenon DEF Promised!Cardinality, Cardinality

\* A full pool drops one of the cheapest, and an announced transaction is held.
LEMMA AddStep ==
  ASSUME MempoolInv, NEW tx \in Txs, Add(tx)
  PROVE  Promised!Add(tx) /\ MempoolInv'
<1> DEFINE more == Held \cup {tx}
           both == [max |-> Push(heaps.max, tx), min |-> Push(heaps.min, tx)]
           cheapest == both.min.items[1]
           left == IF Cardinality(more) > MaxSize THEN more \ {cheapest} ELSE more
<1>1. /\ Held \in SUBSET Txs /\ IsFiniteSet(Held) /\ heaps \in HeapsOf(Held)
      /\ Cardinality(Held) \in Nat /\ Cardinality(Held) <= MaxSize /\ newTxs \in Seq(Txs)
      /\ MaxSize \in Nat
  BY FS_CardinalityType, InterfaceAssumption DEF MempoolInv
<1>2. tx \notin Held
  BY DEF Add, Has, Held
<1>3. both \in HeapsOf(more) /\ more \in SUBSET Txs
  BY <1>1, <1>2, PushesKeep
<1>4. IsFiniteSet(more) /\ Cardinality(more) = Cardinality(Held) + 1
  BY <1>1, <1>2, FS_AddElement
<1>5. heaps' = IF Overflows(both) THEN Without(cheapest, both) ELSE both
  BY DEF Add
<1>6. IF Overflows(both) /\ cheapest = tx
      THEN UNCHANGED <<newTxs, pending>>
      ELSE newTxs' = Append(newTxs, tx) /\ pending' = TRUE
  BY DEF Add
<1> HIDE DEF both, more
<1>7. both.min \in Ordered(TRUE, more) /\ both.max \in Ordered(FALSE, more)
  BY <1>3 DEF HeapsOf
<1>8. Overflows(both) <=> Cardinality(more) > MaxSize
  <2>1. Len(both.max.items) = Cardinality(more)
    BY <1>3, <1>4, <1>7, OrderedHolds
  <2> QED
    BY <2>1 DEF Overflows
<1>9. cheapest \in Promised!Cheapest(more)
  <2>1. more # {}
    BY DEF more
  <2>2. cheapest \in more /\ \A other \in more : Price[cheapest] <= Price[other]
    BY <1>3, <1>4, <1>7, <2>1, OrderedFirst
  <2> QED
    BY <2>2 DEF Promised!Cheapest
<1>10. heaps' \in HeapsOf(left)
  BY <1>3, <1>4, <1>5, <1>8, WithoutKeeps
<1>11. left \in SUBSET Txs /\ IsFiniteSet(left) /\ Cardinality(left) <= MaxSize
  <2>1. cheapest \in more
    BY <1>9 DEF Promised!Cheapest
  <2>2. CASE Cardinality(more) > MaxSize
    <3>1. IsFiniteSet(more \ {cheapest}) /\ Cardinality(more \ {cheapest}) = Cardinality(more) - 1
      BY <1>4, <2>1, FS_RemoveElement
    <3>2. Cardinality(more) - 1 <= MaxSize
      BY <1>1, <1>4
    <3> QED
      BY <1>3, <2>2, <3>1, <3>2
  <2>3. CASE ~(Cardinality(more) > MaxSize)
    <3>1. Cardinality(more) <= MaxSize
      BY <1>1, <1>4, <2>3
    <3> QED
      BY <1>3, <1>4, <2>3, <3>1
  <2> QED
    BY <2>2, <2>3
<1>12. newTxs' \in Seq(Txs)
  <2>1. Append(newTxs, tx) \in Seq(Txs)
    BY <1>1
  <2> QED
    BY <1>1, <1>6, <2>1
<1>13. Held' = left /\ MempoolInv'
  <2> HIDE DEF left
  <2> QED
    BY <1>10, <1>11, <1>12, HeldNext
<1>14. tx \in left <=> ~(Overflows(both) /\ cheapest = tx)
  BY <1>8 DEF more
<1>15. left \in IF Cardinality(more) > MaxSize
                THEN {more \ {cheap} : cheap \in Promised!Cheapest(more)} ELSE {more}
  <2> HIDE DEF cheapest
  <2> QED
    BY <1>9
<1>16. got' = <<>>
  BY DEF Add
<1> HIDE DEF left, cheapest
<1>17. Promised!Add(tx)
  <2>1. \E rest \in IF Cardinality(more) > MaxSize
                    THEN {more \ {cheap} : cheap \in Promised!Cheapest(more)} ELSE {more} :
          /\ Held' = rest
          /\ IF tx \in rest THEN newTxs' = Append(newTxs, tx) /\ pending' = TRUE
                            ELSE UNCHANGED <<newTxs, pending>>
    BY <1>6, <1>13, <1>14, <1>15
  <2> QED
    BY <1>2, <1>16, <2>1, SameCardinality DEF Promised!Add, more
<1> QED
  BY <1>13, <1>17

\* The dearest leaves first.
LEMMA PopMaxStep ==
  ASSUME MempoolInv, PopMax
  PROVE  Promised!PopMax /\ MempoolInv'
<1> DEFINE tx == heaps.max.items[1]
<1>1. /\ Held \in SUBSET Txs /\ IsFiniteSet(Held) /\ heaps.max \in Ordered(FALSE, Held)
  BY DEF MempoolInv, HeapsOf
<1>2. heaps' = Without(tx, heaps) /\ got' = <<tx>> /\ UNCHANGED <<newTxs, pending>>
  BY DEF PopMax
<1>3. Held # {}
  <2>1. heaps.max.items \in Seq(Held) /\ heaps.max.items # <<>>
    BY <1>1, OrderedHolds DEF PopMax
  <2> QED
    BY <2>1
<1>4. tx \in Held /\ \A other \in Held : Price[tx] >= Price[other]
  BY <1>1, <1>3, OrderedFirst
<1> HIDE DEF tx
<1>5. Held' = Held \ {tx} /\ MempoolInv'
  BY <1>2, WithoutNext
<1>6. tx \in Promised!Dearest(Held)
  BY <1>4 DEF Promised!Dearest
<1> QED
  BY <1>2, <1>5, <1>6 DEF Promised!PopMax

LEMMA RemoveStep ==
  ASSUME MempoolInv, NEW tx \in Txs, Remove(tx) \/ PruneRemove(tx)
  PROVE  Promised!Remove(tx) /\ MempoolInv'
<1>1. heaps' = Without(tx, heaps) /\ got' = <<>> /\ UNCHANGED <<newTxs, pending>>
  BY DEF Remove, PruneRemove
<1>2. Held' = Held \ {tx} /\ MempoolInv'
  BY <1>1, WithoutNext
<1> QED
  BY <1>1, <1>2 DEF Promised!Remove

\* What does not touch the heaps.
LEMMA SameHeld ==
  ASSUME MempoolInv, UNCHANGED heaps, newTxs' \in Seq(Txs)
  PROVE  Held' = Held /\ MempoolInv'
BY DEF MempoolInv, Held

\* The loop of NewTxs: what it does with the newcomer i.
Considered(before, i) ==
  LET tx == newTxs[i] IN
  IF before.next < i THEN before
  ELSE IF ~Has(heaps.max, tx) THEN [before EXCEPT !.next = i + 1]
  ELSE IF Load[tx] > GossipUnits - before.units THEN before
  ELSE [selected |-> Append(before.selected, tx),
        units |-> before.units + Load[tx], next |-> i + 1]

Selections == [selected : Seq(Txs), units : Int, next : Nat]

LEMMA ConsideredType ==
  ASSUME MempoolInv
  PROVE  \A i \in 1..Len(newTxs), before \in Selections : Considered(before, i) \in Selections
<1> TAKE i \in 1..Len(newTxs), before \in Selections
<1> DEFINE tx == newTxs[i]
<1>1. tx \in Txs /\ Load[tx] \in Nat
  BY InterfaceAssumption DEF MempoolInv
<1>2. /\ before.selected \in Seq(Txs) /\ before.units \in Int /\ before.next \in Nat
      /\ i + 1 \in Nat
  BY DEF Selections
<1> HIDE DEF tx
<1>3. Append(before.selected, tx) \in Seq(Txs) /\ before.units + Load[tx] \in Int
  BY <1>1, <1>2
<1>4. [before EXCEPT !.next = i + 1] \in Selections
  BY <1>2 DEF Selections
<1>5. [selected |-> Append(before.selected, tx),
       units |-> before.units + Load[tx], next |-> i + 1] \in Selections
  BY <1>2, <1>3 DEF Selections
<1> QED
  BY <1>4, <1>5 DEF Considered, tx

\* What the loop has selected up to i: the first newcomers that are still held, up to
\* one that does not fit or to i.
Fits(run, present, of, i) ==
  LET m == run[i].next - 1 IN
  /\ m \in 0..i
  /\ run[i].selected = present[m]
  /\ run[i].units = of[m] /\ of[m] <= GossipUnits
  /\ m < i => newTxs[m + 1] \in Held /\ of[m + 1] > GossipUnits

LEMMA SelectStep ==
  ASSUME MempoolInv, NEW i \in 0..(Len(newTxs) - 1), NEW run, NEW present, NEW of,
         Fits(run, present, of, i), of \in [0..Len(newTxs) -> Int],
         run[i] \in Selections,
         run[i + 1] = Considered(run[i], i + 1),
         present[i + 1] = IF newTxs[i + 1] \in Held THEN Append(present[i], newTxs[i + 1])
                          ELSE present[i],
         of[i + 1] = of[i] + IF newTxs[i + 1] \in Held THEN Load[newTxs[i + 1]] ELSE 0
  PROVE  Fits(run, present, of, i + 1)
<1> DEFINE N == Len(newTxs)
           tx == newTxs[i + 1]
           before == run[i]
           after == run[i + 1]
           m == before.next - 1
<1>1. /\ N \in Nat /\ i \in Nat /\ i < N /\ i + 1 \in 1..N
      /\ tx \in Txs /\ Load[tx] \in Nat /\ GossipUnits \in Nat
  BY InterfaceAssumption DEF MempoolInv
<1>2. /\ m \in 0..i /\ before.selected = present[m]
      /\ before.units = of[m] /\ of[m] <= GossipUnits
      /\ m < i => newTxs[m + 1] \in Held /\ of[m + 1] > GossipUnits
      /\ before.next = m + 1
  BY DEF Fits, Selections
<1>3. of[m] \in Int /\ of[i] \in Int
  <2>1. m \in 0..N /\ i \in 0..N
    <3> HIDE DEF m, N
    <3> QED
      BY <1>1, <1>2
  <2> QED
    BY <2>1
<1>4. Has(heaps.max, tx) <=> tx \in Held
  BY DEF Has, Held
<1>5. after = IF before.next < i + 1 THEN before
              ELSE IF ~Has(heaps.max, tx) THEN [before EXCEPT !.next = (i + 1) + 1]
              ELSE IF Load[tx] > GossipUnits - before.units THEN before
              ELSE [selected |-> Append(before.selected, tx),
                    units |-> before.units + Load[tx], next |-> (i + 1) + 1]
  BY DEF Considered
<1> HIDE DEF N, tx
<1>6. CASE m < i
  <2>1. after = before /\ after.next - 1 = m
    BY <1>1, <1>2, <1>5, <1>6
  <2>2. m \in 0..(i + 1) /\ m < i + 1
    BY <1>1, <1>2
  <2> HIDE DEF before, after
  <2> QED
    BY <1>2, <1>6, <2>1, <2>2 DEF Fits, after, before
<1>7. CASE m = i
  <2>1. ~(before.next < i + 1)
    BY <1>1, <1>2, <1>7
  <2>2. CASE tx \notin Held
    <3>1. after = [before EXCEPT !.next = (i + 1) + 1]
      BY <1>4, <1>5, <2>1, <2>2
    <3>2. after.next = (i + 1) + 1 /\ after.selected = before.selected
          /\ after.units = before.units
      BY <3>1 DEF Selections
    <3>3. present[i + 1] = present[i] /\ of[i + 1] = of[i]
      BY <1>3, <2>2 DEF tx
    <3>4. after.next - 1 = i + 1 /\ i + 1 \in 0..(i + 1) /\ ~(i + 1 < i + 1)
      BY <1>1, <3>2
    <3> HIDE DEF before, after, m
    <3>5. /\ after.selected = present[i + 1]
          /\ after.units = of[i + 1] /\ of[i + 1] <= GossipUnits
      BY <1>2, <1>7, <3>2, <3>3
    <3> QED
      BY <3>4, <3>5 DEF Fits, after
  <2>3. CASE tx \in Held /\ Load[tx] > GossipUnits - before.units
    <3>1. after = before
      BY <1>4, <1>5, <2>1, <2>3
    <3>2. of[i + 1] > GossipUnits
      <4>1. of[i + 1] = of[i] + Load[tx] /\ Load[tx] > GossipUnits - of[i]
        BY <1>2, <1>7, <2>3 DEF tx
      <4> QED
        BY <1>1, <1>3, <4>1
    <3>3. after.next - 1 = i /\ i \in 0..(i + 1) /\ i < i + 1 /\ newTxs[i + 1] \in Held
      BY <1>1, <1>2, <1>7, <2>3, <3>1 DEF tx
    <3> HIDE DEF before, after, m
    <3>4. /\ after.selected = present[i]
          /\ after.units = of[i] /\ of[i] <= GossipUnits
      BY <1>2, <1>7, <3>1
    <3> QED
      BY <3>2, <3>3, <3>4 DEF Fits, after
  <2>4. CASE tx \in Held /\ ~(Load[tx] > GossipUnits - before.units)
    <3>1. after = [selected |-> Append(before.selected, tx),
                   units |-> before.units + Load[tx], next |-> (i + 1) + 1]
      BY <1>4, <1>5, <2>1, <2>4
    <3>2. after.next = (i + 1) + 1 /\ after.selected = Append(before.selected, tx)
          /\ after.units = before.units + Load[tx]
      BY <3>1
    <3>3. present[i + 1] = Append(present[i], tx) /\ of[i + 1] = of[i] + Load[tx]
      BY <2>4 DEF tx
    <3>4. after.next - 1 = i + 1 /\ i + 1 \in 0..(i + 1) /\ ~(i + 1 < i + 1)
      BY <1>1, <3>2
    <3>5. of[i] + Load[tx] <= GossipUnits
      <4>1. ~(Load[tx] > GossipUnits - of[i])
        BY <1>2, <1>7, <2>4
      <4> QED
        BY <1>1, <1>3, <4>1
    <3> HIDE DEF before, after, m
    <3>6. /\ after.selected = present[i + 1]
          /\ after.units = of[i + 1] /\ of[i + 1] <= GossipUnits
      BY <1>2, <1>7, <3>2, <3>3, <3>5
    <3> QED
      BY <3>4, <3>6 DEF Fits, after
  <2> QED
    BY <2>2, <2>3, <2>4
<1> QED
  BY <1>2, <1>6, <1>7

LEMMA SelectNewIs ==
  ASSUME MempoolInv
  PROVE  LET m == SelectNew.next - 1 IN
         /\ m \in 0..Len(newTxs)
         /\ SelectNew.next = m + 1
         /\ SelectNew.selected = Promised!Present[m]
         /\ Promised!Units[m] <= GossipUnits
         /\ m < Len(newTxs) => newTxs[m + 1] \in Held /\ Promised!Units[m + 1] > GossipUnits
<1> DEFINE N == Len(newTxs)
           start == [selected |-> <<>>, units |-> 0, next |-> 1]
           Runs(f) == f = [i \in 0..N |-> IF i = 0 THEN start ELSE Considered(f[i - 1], i)]
           Listed(p, i) == IF newTxs[i] \in Held THEN Append(p, newTxs[i]) ELSE p
           Listing(f) == f = [n \in 0..N |-> IF n = 0 THEN <<>> ELSE Listed(f[n - 1], n)]
           Sums(f) == f = [n \in 0..N |-> IF n = 0 THEN 0
                           ELSE f[n - 1] + IF newTxs[n] \in Held THEN Load[newTxs[n]] ELSE 0]
           run == CHOOSE f : Runs(f)
           present == Promised!Present
           of == Promised!Units
<1>1. N \in Nat /\ newTxs \in Seq(Txs) /\ GossipUnits \in Nat
      /\ \A i \in 1..N : newTxs[i] \in Txs /\ Load[newTxs[i]] \in Nat
  BY InterfaceAssumption DEF MempoolInv
<1>2. \E f \in [0..N -> Selections] : Runs(f)
  <2> DEFINE step == [i \in 1..N |-> [s \in Selections |-> Considered(s, i)]]
  <2>1. step \in [1..N -> [Selections -> Selections]]
    BY ConsideredType
  <2>2. start \in Selections
    BY DEF Selections
  <2> HIDE DEF step, start
  <2>3. PICK f \in [0..N -> Selections] : FollowsUpTo(N, f, start, step)
    <3> HIDE DEF N
    <3> QED
      BY <1>1, <2>1, <2>2, RecursionUpTo
  <2>4. f = [i \in 0..N |-> IF i = 0 THEN start ELSE step[i][f[i - 1]]]
    BY <2>3 DEF FollowsUpTo
  <2>5. \A i \in 0..N : i # 0 => step[i][f[i - 1]] = Considered(f[i - 1], i)
    <3> TAKE i \in 0..N
    <3>1. i # 0 => i \in 1..N /\ i - 1 \in 0..N
      BY <1>1
    <3> QED
      BY <2>3, <3>1 DEF step
  <2>6. f = [i \in 0..N |-> IF i = 0 THEN start ELSE Considered(f[i - 1], i)]
    BY <2>4, <2>5, Zenon
  <2> QED
    BY <2>6
<1>3. \E f \in [0..N -> Seq(Txs)] : Listing(f)
  <2> DEFINE step == [i \in 1..N |-> [p \in Seq(Txs) |-> Listed(p, i)]]
  <2>1. step \in [1..N -> [Seq(Txs) -> Seq(Txs)]]
    <3>1. \A i \in 1..N, p \in Seq(Txs) : Listed(p, i) \in Seq(Txs)
      BY <1>1
    <3> HIDE DEF Listed
    <3> QED
      BY <3>1
  <2>2. <<>> \in Seq(Txs)
    OBVIOUS
  <2> HIDE DEF step, Listed
  <2>3. PICK f \in [0..N -> Seq(Txs)] : FollowsUpTo(N, f, <<>>, step)
    <3> HIDE DEF N
    <3> QED
      BY <1>1, <2>1, <2>2, RecursionUpTo
  <2>4. f = [i \in 0..N |-> IF i = 0 THEN <<>> ELSE step[i][f[i - 1]]]
    BY <2>3 DEF FollowsUpTo
  <2>5. \A i \in 0..N : i # 0 => step[i][f[i - 1]] = Listed(f[i - 1], i)
    <3> TAKE i \in 0..N
    <3>1. i # 0 => i \in 1..N /\ i - 1 \in 0..N
      BY <1>1
    <3> QED
      BY <2>3, <3>1 DEF step
  <2>6. f = [i \in 0..N |-> IF i = 0 THEN <<>> ELSE Listed(f[i - 1], i)]
    BY <2>4, <2>5, Zenon
  <2> QED
    BY <2>6
<1>4. \E f \in [0..N -> Int] : Sums(f)
  <2> DEFINE more == [i \in 1..N |-> IF newTxs[i] \in Held THEN Load[newTxs[i]] ELSE 0]
             step == [i \in 1..N |-> [u \in Int |-> u + more[i]]]
  <2>1. step \in [1..N -> [Int -> Int]]
    BY <1>1
  <2> HIDE DEF step
  <2>2. 0 \in Int
    OBVIOUS
  <2>3. PICK f \in [0..N -> Int] : FollowsUpTo(N, f, 0, step)
    <3> HIDE DEF N
    <3> QED
      BY <1>1, <2>1, <2>2, RecursionUpTo, Zenon
  <2>4. f = [i \in 0..N |-> IF i = 0 THEN 0 ELSE step[i][f[i - 1]]]
    BY <2>3 DEF FollowsUpTo
  <2>5. \A i \in 0..N : i # 0 => step[i][f[i - 1]]
                  = f[i - 1] + IF newTxs[i] \in Held THEN Load[newTxs[i]] ELSE 0
    <3> TAKE i \in 0..N
    <3>1. i # 0 => i \in 1..N /\ i - 1 \in 0..N
      BY <1>1
    <3> QED
      BY <2>3, <3>1 DEF step
  <2>6. f = [n \in 0..N |-> IF n = 0 THEN 0
             ELSE f[n - 1] + IF newTxs[n] \in Held THEN Load[newTxs[n]] ELSE 0]
    BY <2>4, <2>5, Zenon
  <2> QED
    BY <2>6
<1>5. present = CHOOSE f : Listing(f)
  BY DEF Promised!Present
<1>6. of = CHOOSE f : Sums(f)
  BY DEF Promised!Units
<1>7. SelectNew = run[N]
  BY DEF SelectNew, Considered
<1> HIDE DEF present, of
<1>8. Runs(run) /\ Listing(present) /\ Sums(of)
  <2> HIDE DEF Runs, Listing, Sums
  <2> QED
    BY <1>2, <1>3, <1>4, <1>5, <1>6
<1> HIDE DEF run
<1>9. /\ of[0] = 0 /\ of = [n \in 0..N |-> of[n]]
      /\ \A i \in 0..(N - 1) : of[i + 1]
           = of[i] + IF newTxs[i + 1] \in Held THEN Load[newTxs[i + 1]] ELSE 0
  <2>1. of[0] = 0 /\ of = [n \in 0..N |-> of[n]]
    BY <1>1, <1>8
  <2>2. ASSUME NEW i \in 0..(N - 1)
        PROVE  of[i + 1] = of[i] + IF newTxs[i + 1] \in Held THEN Load[newTxs[i + 1]] ELSE 0
    <3>1. i + 1 \in 0..N /\ i + 1 # 0 /\ (i + 1) - 1 = i
      BY <1>1
    <3> QED
      BY <1>8, <3>1
  <2> QED
    BY <2>1, <2>2
<1>10. of \in [0..N -> Int]
  <2> DEFINE T == {i \in 0..N : of[i] \in Int}
  <2>1. 0 \in T
    BY <1>1, <1>9
  <2>2. ASSUME NEW i \in 0..(N - 1), i \in T
        PROVE  i + 1 \in T
    <3>1. i + 1 \in 1..N /\ i + 1 \in 0..N
      BY <1>1
    <3>2. Load[newTxs[i + 1]] \in Nat /\ of[i] \in Int
      BY <1>1, <2>2, <3>1
    <3>3. of[i + 1] = of[i] + IF newTxs[i + 1] \in Held THEN Load[newTxs[i + 1]] ELSE 0
      BY <1>9
    <3>4. of[i + 1] \in Int
      BY <3>2, <3>3
    <3> QED
      BY <3>1, <3>4
  <2>3. 0..N \subseteq T
    <3> HIDE DEF T, N
    <3> QED
      BY <1>1, <2>1, <2>2, InductionUpTo
  <2> QED
    BY <1>9, <2>3
<1> DEFINE T == {i \in 0..N : run[i] \in Selections /\ Fits(run, present, of, i)}
<1>11. 0 \in T
  <2>1. run[0] = start /\ present[0] = <<>> /\ of[0] = 0
    BY <1>1, <1>8
  <2>2. start \in Selections /\ start.next - 1 = 0 /\ start.selected = <<>> /\ start.units = 0
    BY DEF Selections
  <2> HIDE DEF start
  <2> QED
    BY <1>1, <2>1, <2>2 DEF Fits
<1>12. ASSUME NEW i \in 0..(N - 1), i \in T
       PROVE  i + 1 \in T
  <2>1. i + 1 \in 0..N /\ i + 1 \in 1..N /\ i + 1 # 0 /\ (i + 1) - 1 = i
    BY <1>1
  <2>2. run[i + 1] = Considered(run[i], i + 1)
    BY <1>8, <2>1
  <2>3. present[i + 1] = IF newTxs[i + 1] \in Held THEN Append(present[i], newTxs[i + 1])
                         ELSE present[i]
    BY <1>8, <2>1
  <2>4. run[i + 1] \in Selections
    BY <1>12, <2>1, <2>2, ConsideredType
  <2>5. Fits(run, present, of, i + 1)
    BY <1>9, <1>10, <1>12, <2>2, <2>3, SelectStep
  <2> QED
    BY <2>1, <2>4, <2>5
<1>13. N \in T
  <2>1. 0..N \subseteq T
    <3> HIDE DEF T, N
    <3> QED
      BY <1>1, <1>11, <1>12, InductionUpTo
  <2> QED
    BY <1>1, <2>1
<1>14. run[N].next = (run[N].next - 1) + 1
  BY <1>13 DEF Selections
<1>15. Fits(run, present, of, N)
  BY <1>13
<1> HIDE DEF N, T
<1>16. LET m == run[N].next - 1 IN
       /\ m \in 0..N
       /\ run[N].selected = present[m]
       /\ of[m] <= GossipUnits
       /\ m < N => newTxs[m + 1] \in Held /\ of[m + 1] > GossipUnits
  BY <1>15 DEF Fits
<1> QED
  BY <1>7, <1>14, <1>16 DEF N, present, of

\* A gossip message takes the first newcomers, in the order of their arrival.
LEMMA NewTxsStep ==
  ASSUME MempoolInv, NewTxs
  PROVE  Promised!NewTxs /\ MempoolInv'
<1> DEFINE N == Len(newTxs)
           m == SelectNew.next - 1
<1>1. /\ got' = SelectNew.selected
      /\ newTxs' = SubSeq(newTxs, SelectNew.next, N)
      /\ UNCHANGED <<heaps, pending>>
  BY DEF NewTxs
<1>2. /\ m \in 0..N /\ SelectNew.next = m + 1
      /\ SelectNew.selected = Promised!Present[m]
      /\ Promised!Units[m] <= GossipUnits
      /\ m < N => newTxs[m + 1] \in Held /\ Promised!Units[m + 1] > GossipUnits
  BY SelectNewIs
<1>3. newTxs \in Seq(Txs) /\ N \in Nat
  BY DEF MempoolInv
<1> HIDE DEF m
<1>4. newTxs' = SubSeq(newTxs, m + 1, N)
  BY <1>1, <1>2
<1>5. newTxs' \in Seq(Txs)
  <2>1. m + 1 \in 1..(N + 1)
    BY <1>2, <1>3
  <2> QED
    BY <1>3, <1>4, <2>1, SubSeqProperties
<1>6. Held' = Held /\ MempoolInv'
  BY <1>1, <1>5, SameHeld
<1> QED
  BY <1>1, <1>2, <1>4, <1>6 DEF Promised!NewTxs

\* Each step of the mempool is a step of the pool or none, and keeps the heaps.
LEMMA MempoolStep ==
  ASSUME MempoolInv, [MempoolNext]_mempoolVars
  PROVE  [Promised!Next]_Promised!vars /\ MempoolInv'
<1>1. CASE \E tx \in Txs : Add(tx)
  BY <1>1, AddStep DEF Promised!Next
<1>2. CASE \E tx \in Txs : Remove(tx) \/ PruneRemove(tx)
  BY <1>2, RemoveStep DEF Promised!Next
<1>3. CASE \E valid \in SUBSET Range(BlockID) : PruneScan(valid)
  <2>1. UNCHANGED <<heaps, newTxs, pending, got>>
    BY <1>3 DEF PruneScan
  <2>2. Held' = Held /\ MempoolInv'
    BY <2>1, SameHeld DEF MempoolInv
  <2> QED
    BY <2>1, <2>2 DEF Promised!vars
<1>4. CASE PopMax
  BY <1>4, PopMaxStep DEF Promised!Next
<1>5. CASE NewTxs
  BY <1>5, NewTxsStep DEF Promised!Next
<1>6. CASE TakePending
  <2>1. pending /\ pending' = FALSE /\ got' = <<>> /\ UNCHANGED <<heaps, newTxs>>
    BY <1>6 DEF TakePending
  <2>2. Held' = Held /\ MempoolInv'
    BY <2>1, SameHeld DEF MempoolInv
  <2> QED
    BY <2>1, <2>2 DEF Promised!Next, Promised!TakePending
<1>7. CASE UNCHANGED mempoolVars
  <2>1. UNCHANGED <<heaps, newTxs, pending, got>>
    BY <1>7 DEF mempoolVars
  <2>2. Held' = Held /\ MempoolInv'
    BY <2>1, SameHeld DEF MempoolInv
  <2> QED
    BY <2>1, <2>2 DEF Promised!vars
<1> QED
  BY <1>1, <1>2, <1>3, <1>4, <1>5, <1>6, <1>7 DEF MempoolNext

LEMMA MempoolInvariance == MempoolSpec => []MempoolInv
<1>1. MempoolInv /\ [MempoolNext]_mempoolVars => MempoolInv'
  BY MempoolStep
<1> QED
  BY MempoolInitInv, <1>1, PTL DEF MempoolSpec

\* mempool.go and tx_heap.go: whatever is added, popped, removed and pruned in any
\* order, the two heaps hold the same transactions, at most MempoolSize of them, each in
\* heap order and with every entry at the position it remembers.
THEOREM HeapsAlwaysInSync == MempoolSpec => []HeapsInSync
BY MempoolInvariance, MempoolSync, PTL

\* mempool.go: two heaps with positions, a lookup and an announcement list are, to the
\* callers, a bounded priority pool: the dearest is handed out first, the cheapest is
\* dropped when the pool is full, what was dropped is not announced, and gossip takes
\* the longest prefix of the newcomers still held that fits its message.
THEOREM MempoolIsPool == MempoolSpec => ImplementsPool
<1>1. MempoolInit => Promised!Init
  <2> SUFFICES ASSUME MempoolInit PROVE Promised!Init
    OBVIOUS
  <2>1. Held = {}
    BY DEF MempoolInit, EmptyHeap, Held
  <2> QED
    BY <2>1 DEF MempoolInit, Promised!Init
<1>2. MempoolInv /\ [MempoolNext]_mempoolVars => [Promised!Next]_Promised!vars
  BY MempoolStep
<1> QED
  BY <1>1, <1>2, MempoolInvariance, PTL DEF MempoolSpec, ImplementsPool, Promised!Spec

=============================================================================
