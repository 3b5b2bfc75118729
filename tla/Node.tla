--------------------------------- MODULE Node ---------------------------------
(***************************************************************************)
(* The life of a node's process: Initialize with what it finds on disk,    *)
(* the four loops it starts, accepted blocks with the cache of recent      *)
(* activity, Shutdown, and crashes at any moment (vm/vm.go, vm/pruner.go,  *)
(* vm/compactor.go, vm/block_builder.go, vm/chain_vm.go).                  *)
(*                                                                         *)
(* A block is its height; the chain does not fork here.                    *)
(***************************************************************************)
EXTENDS Integers, Sequences, FiniteSetsExt, Functions

Lists == INSTANCE SequencesExt

CONSTANTS
  CacheSizes,    \* what ActivityCacheSize may be configured to
  Blocks,        \* for each transaction of a block, whether it wins the lottery
  MaxHeight,     \* bounds of the model: blocks, and starts of the process
  MaxBoots

ASSUME NodeAssumption ==
  /\ CacheSizes \subseteq Nat
  /\ \A b \in Blocks : b \in Seq(BOOLEAN)
  /\ MaxHeight \in Nat /\ MaxBoots \in Nat

VARIABLES
  disk,          \* the pointer to the last accepted block, the blocks that are
                 \* stored, and the block after which the balances are as stored
  phase,         \* where the process is
  todo,          \* what Initialize has still to write
  pc,            \* where each loop is
  ctxLock,       \* who holds ctx.Lock: "free", "engine" or a loop
  awaited,       \* the loops that Shutdown has still to wait for, in this order
  cache,         \* the ring of activities, its cursor
  history,       \* auxiliary: all activities since the process started
  boots,         \* how often it has started
  wasUp          \* auxiliary: Initialize has returned without an error once

loopVars == <<pc, ctxLock>>
cacheVars == <<cache, history>>
vars == <<disk, phase, todo, awaited, loopVars, cacheVars, boots, wasUp>>

None == -1
Nothing == <<>>      \* a place of the ring that was never written

Loops == {"build", "gossip", "prune", "compact"}
Locking == {"prune", "compact"}

\* A ring for n activities.
Ring(n) == [size |-> n, items |-> [i \in 0..(n - 1) |-> Nothing], cursor |-> 0]

-----------------------------------------------------------------------------
(* Initialize                                                              *)

FirstBootLoadingLast == <<"pointer", "block", "load">>

\* What Initialize writes when it finds no last accepted block: the allocation,
\* in one batch, and then, one by one, what SetLastAccepted puts.
FirstBoot == <<"load", "pointer", "block">>

Initialize ==
  /\ phase = "down" /\ boots < MaxBoots
  /\ boots' = boots + 1
  /\ \E n \in CacheSizes : cache' = Ring(n)
  /\ history' = <<>>
  /\ phase' = IF disk.pointer = None THEN "first"
              ELSE IF disk.pointer \in disk.stored THEN "start" ELSE "failed"
  /\ todo' = IF disk.pointer = None THEN FirstBoot ELSE <<>>
  /\ UNCHANGED <<disk, awaited, loopVars, wasUp>>

Write ==
  /\ phase = "first"
  /\ disk' = CASE Head(todo) = "load" -> [disk EXCEPT !.state = 0]
               [] Head(todo) = "pointer" -> [disk EXCEPT !.pointer = 0]
               [] Head(todo) = "block" -> [disk EXCEPT !.stored = @ \cup {0}]
  /\ todo' = Tail(todo)
  /\ phase' = IF Tail(todo) = <<>> THEN "start" ELSE "first"
  /\ UNCHANGED <<awaited, loopVars, cacheVars, boots, wasUp>>

StartLoops ==
  /\ phase = "start"
  /\ phase' = "up" /\ wasUp' = TRUE
  /\ pc' = [l \in Loops |-> "select"]
  /\ UNCHANGED <<disk, todo, ctxLock, awaited, cacheVars, boots>>

-----------------------------------------------------------------------------
(* Accepted blocks                                                         *)

AppendActivity(c, item) ==
  [c EXCEPT !.items[c.cursor % c.size] = item, !.cursor = @ + 1]

Remembering(c, new) ==
  LET after[n \in 0..Len(new)] ==
        IF n = 0 THEN c ELSE AppendActivity(after[n - 1], new[n])
  IN  after[Len(new)]

\* The activities of a block: one of each transaction, followed by its reward.
Activities(b, height) ==
  Lists!FlattenSeq([i \in DOMAIN b |->
    IF b[i] THEN <<<<height, i, "tx">>, <<height, i, "reward">>>>
            ELSE <<<<height, i, "tx">>>>])

\* The overlay of a block has SetLastAccepted's puts and the new balances: they
\* reach the disk as one batch.
Committed(height) ==
  [pointer |-> height, stored |-> disk.stored \cup {height}, state |-> height]

\* Accept, with VM.Accepted, in a call of the engine, which holds the lock.
Accept ==
  LET height == disk.pointer + 1 IN
  /\ phase = "up" /\ ctxLock = "free" /\ height <= MaxHeight
  /\ disk' = Committed(height)
  /\ \E b \in Blocks :
       LET new == Activities(b, height) IN
       /\ cache' = IF cache.size = 0 THEN cache
                   ELSE Remembering(cache, new)
       /\ history' = history \o new
  /\ UNCHANGED <<phase, todo, awaited, loopVars, boots, wasUp>>

Recent(c, max) ==
  LET n == CHOOSE n \in 0..max :
             /\ \A j \in 1..n : c.items[(c.cursor - j) % c.size] # Nothing
             /\ n < max => c.items[(c.cursor - (n + 1)) % c.size] = Nothing
  IN [j \in 1..n |-> c.items[(c.cursor - j) % c.size]]

\* From the cursor back, at most once around the ring, to the first empty place.
RecentActivityFromStart(c) == IF c.size = 0 THEN <<>> ELSE Recent(c, c.cursor)
RecentActivity(c) ==
  IF c.size = 0 THEN <<>> ELSE Recent(c, Min({c.cursor, c.size}))

-----------------------------------------------------------------------------
(* Loops                                                                   *)

\* A timer fires, or a transaction is pending, and the loop takes this case of
\* its select, although the channel stop may be closed as well.
Tick(l) ==
  /\ pc[l] = "select"
  /\ pc' = [pc EXCEPT ![l] = IF l \in Locking THEN "lock" ELSE "work"]
  /\ UNCHANGED <<disk, phase, todo, awaited, ctxLock, cacheVars, boots, wasUp>>

\* pruneCall and compactCall work on the database and hold the lock meanwhile.
Acquire(l) ==
  /\ pc[l] = "lock" /\ ctxLock = "free"
  /\ pc' = [pc EXCEPT ![l] = "work"]
  /\ ctxLock' = l
  /\ UNCHANGED <<disk, phase, todo, awaited, cacheVars, boots, wasUp>>

FinishHolding(l) ==
  /\ pc[l] = "work"
  /\ pc' = [pc EXCEPT ![l] = "select"]
  /\ UNCHANGED <<disk, phase, todo, awaited, ctxLock, cacheVars, boots, wasUp>>

Finish(l) ==
  /\ pc[l] = "work"
  /\ pc' = [pc EXCEPT ![l] = "select"]
  /\ ctxLock' = IF l \in Locking THEN "free" ELSE ctxLock
  /\ UNCHANGED <<disk, phase, todo, awaited, cacheVars, boots, wasUp>>

\* The case of the closed channel stop.
Leave(l) ==
  /\ pc[l] = "select" /\ phase = "closing"
  /\ pc' = [pc EXCEPT ![l] = "done"]
  /\ UNCHANGED <<disk, phase, todo, awaited, ctxLock, cacheVars, boots, wasUp>>

-----------------------------------------------------------------------------
(* Shutdown                                                                *)

AwaitedBuilders == <<"build", "gossip">>

\* Shutdown waits for one loop after the other.
AwaitedLoops == <<"build", "gossip", "prune", "compact">>

\* stop is closed.  The caller is outside this repository: it may hold the lock,
\* as it does for other calls, or not, as the tests here.
Shutdown ==
  /\ phase = "up"
  /\ phase' = "closing"
  /\ awaited' = AwaitedLoops
  /\ \/ UNCHANGED ctxLock
     \/ ctxLock = "free" /\ ctxLock' = "engine"
  /\ UNCHANGED <<disk, todo, pc, cacheVars, boots, wasUp>>

Await ==
  /\ phase = "closing" /\ awaited # <<>>
  /\ pc[Head(awaited)] = "done"
  /\ awaited' = Tail(awaited)
  /\ UNCHANGED <<disk, phase, todo, loopVars, cacheVars, boots, wasUp>>

\* The database is closed, and Shutdown returns.
Close ==
  /\ phase = "closing" /\ awaited = <<>>
  /\ phase' = "closed"
  /\ UNCHANGED <<disk, todo, awaited, loopVars, cacheVars, boots, wasUp>>

\* The process ends, by itself or not: what is on disk remains.
Exit ==
  /\ phase # "down"
  /\ phase' = "down"
  /\ todo' = <<>> /\ awaited' = <<>>
  /\ pc' = [l \in Loops |-> "none"] /\ ctxLock' = "free"
  /\ cache' = Ring(0) /\ history' = <<>>
  /\ UNCHANGED <<disk, boots, wasUp>>

-----------------------------------------------------------------------------

Init ==
  /\ disk = [pointer |-> None, stored |-> {}, state |-> None]
  /\ phase = "down" /\ boots = 0 /\ wasUp = FALSE
  /\ todo = <<>> /\ awaited = <<>>
  /\ pc = [l \in Loops |-> "none"] /\ ctxLock = "free"
  /\ cache = Ring(0) /\ history = <<>>

Next ==
  \/ Initialize \/ Write \/ StartLoops \/ Accept
  \/ \E l \in Loops : Tick(l) \/ Acquire(l) \/ Finish(l) \/ Leave(l)
  \/ Shutdown \/ Await \/ Close \/ Exit

\* Goroutines run, a call of a loop ends, a free mutex is given to one that waits,
\* and a select that keeps finding a case ready takes it some time (Go's select
\* chooses at random).
Fairness ==
  /\ \A l \in Loops : WF_vars(Acquire(l)) /\ WF_vars(Finish(l)) /\ SF_vars(Leave(l))
  /\ WF_vars(Await) /\ WF_vars(Close)

Spec == Init /\ [][Next]_vars /\ Fairness

-----------------------------------------------------------------------------
(* Properties                                                              *)

\* Variables hold what they should; the ring is filled below its cursor and has
\* nothing elsewhere; a loop that works on the database is the one with
\* the lock, and none does when the database is closed.
TypeOK ==
  /\ disk \in [pointer : None..MaxHeight, stored : SUBSET (0..MaxHeight),
               state : None..MaxHeight]
  /\ phase \in {"down", "first", "start", "up", "failed", "closing", "closed"}
  /\ pc \in [Loops -> {"none", "select", "lock", "work", "done"}]
  /\ ctxLock \in {"free", "engine"} \cup Locking
  /\ \A l \in Locking : pc[l] = "work" <=> ctxLock = l
  /\ Range(awaited) \subseteq Loops
  /\ phase = "closed" => \A l \in Loops : pc[l] = "done"
  /\ DOMAIN cache.items = 0..(cache.size - 1)
  /\ \A i \in DOMAIN cache.items : cache.items[i] # Nothing <=> i < cache.cursor
  /\ boots \in 0..MaxBoots /\ wasUp \in BOOLEAN

\* A node that is up has on disk the balances of just the block it takes for the
\* last accepted: the allocation is written before the pointer that keeps the
\* next start from writing it, and a start that writes it again changes nothing.
\* A node that has been up once starts again after every crash.  Only one that
\* died between two puts of its first start does not, ever.
RestartSound ==
  /\ phase \in {"up", "closing", "closed"} => disk.state = disk.pointer
  /\ wasUp => phase # "failed"

\* RecentActivity answers with the latest activities since the start, newest
\* first, as many as the cache has room for, however often the ring went round.
RecentIsNewest ==
  LET n == Min({Len(history), cache.size}) IN
  RecentActivity(cache) = [j \in 1..n |-> history[Len(history) + 1 - j]]

\* Shutdown returns, unless its caller holds the lock that the pruner or the
\* compactor is waiting for: then neither ever gets on.
ShutdownReturns ==
  phase = "closing" ~>
    \/ phase \in {"closed", "down"}
    \/ ctxLock = "engine" /\ \E l \in Locking : pc[l] = "lock"

=============================================================================
