------------------------------- MODULE Building -------------------------------
(***************************************************************************)
(* How a waiting transaction becomes a block: the threads around the       *)
(* mempool and the status of the TimeBuilder (vm/block_builder.go,         *)
(* vm/network.go, chain/builder.go, vm/vm.go).                             *)
(*                                                                         *)
(*   - the engine, which holds its lock in BuildBlock and in verdicts;     *)
(*   - the goroutine Build, which turns the Pending token into a message   *)
(*     to the engine;                                                      *)
(*   - the goroutine Gossip, which does not take the engine's lock;        *)
(*   - whoever submits transactions (RPC, gossip of peers), at any time.   *)
(*                                                                         *)
(* The mempool is the Pool that Mempool implements.  What a transaction    *)
(* does, its price against the block's, and what a block needs to pass     *)
(* verify are the business of Ledger and Chain: every outcome may occur.   *)
(***************************************************************************)
EXTENDS Integers, Sequences, FiniteSets, MempoolInterface

CONSTANTS
  ChannelSize,  \* capacity of toEngine
  Dispatched    \* whether some thread runs the timer's Dispatch: in src none does

ASSUME BuildingAssumption ==
  /\ ChannelSize \in Nat \ {0}
  /\ Dispatched \in BOOLEAN

VARIABLES
  pool,       \* the transactions the mempool holds
  status,     \* TimeBuilder.status
  armed,      \* buildBlockTimer has a timeout to wait for
  toEngine,   \* messages in the channel
  asked,      \* messages the engine has taken and not yet acted upon
  engine,     \* where the engine is in BuildBlock
  next,       \* the transaction in its hands: <<>> or <<tx>>
  txs,        \* b.Txs, the transactions of the block being built
  unusable,   \* unusableTxs, to be put back
  need,       \* what HandleGenerateBlock has read of the mempool
  builder,    \* where the goroutine Build is
  gossip,     \* where the goroutine Gossip is
  units,      \* units RegossipTxs has taken
  crashed     \* PopMax has run on an empty mempool: index out of range

poolVars == <<pool, newTxs, pending, got>>
statusVars == <<status, armed, toEngine>>
blockVars == <<next, txs, unusable, need>>
gossipVars == <<gossip, units>>
buildingVars == <<poolVars, statusVars, asked, engine, blockVars, builder, gossipVars, crashed>>

Mempool == INSTANCE Pool

BuildingInit ==
  /\ Mempool!Init
  /\ status = "dontBuild" /\ armed = FALSE /\ toEngine = 0 /\ asked = 0
  /\ engine = "idle" /\ next = <<>> /\ txs = {} /\ unusable = {} /\ need = FALSE
  /\ builder = "wait" /\ gossip = "wait" /\ units = 0
  /\ crashed = FALSE

-----------------------------------------------------------------------------
(* Transactions come                                                       *)

\* mempool.Add, which ignores what it holds already.
AddToMempool(tx) ==
  IF tx \in pool THEN UNCHANGED poolVars
  ELSE Len(newTxs) < MaxNew /\ Mempool!Add(tx)

\* Submit of a valid transaction; Rejected gives back those of a block alike.
Submit(tx) ==
  /\ ~crashed
  /\ AddToMempool(tx)
  /\ UNCHANGED <<statusVars, asked, engine, blockVars, builder, gossipVars, crashed>>

\* Verified: a transaction of a block of this node or of another one.
Verified(tx) ==
  /\ ~crashed /\ engine = "idle"
  /\ tx \in pool
  /\ Mempool!Remove(tx)
  /\ UNCHANGED <<statusVars, asked, engine, blockVars, builder, gossipVars, crashed>>

\* PopMax by whoever has found the mempool non-empty, a moment before.
PopOrPanic ==
  IF pool = {} THEN crashed' = TRUE /\ UNCHANGED poolVars
  ELSE Mempool!PopMax /\ UNCHANGED crashed

-----------------------------------------------------------------------------
(* The goroutine Build and the timer, both under the mutex b.l, which      *)
(* HandleGenerateBlock holds from its reading to its writing.              *)

StatusLocked == engine = "status"

\* A message that does not fit is dropped.  The engine cannot act on it before
\* the status is set, for HandleGenerateBlock waits for the mutex.
MarkBuilding ==
  IF toEngine < ChannelSize
  THEN toEngine' = toEngine + 1 /\ status' = "building"
  ELSE UNCHANGED <<toEngine, status>>

Notice ==
  /\ ~crashed /\ builder = "wait"
  /\ Mempool!TakePending
  /\ builder' = "signal"
  /\ UNCHANGED <<statusVars, asked, engine, blockVars, gossipVars, crashed>>

SignalAnyStatus == MarkBuilding
SignalOnce == IF status = "dontBuild" THEN MarkBuilding ELSE UNCHANGED <<toEngine, status>>

SignalTxsReady ==
  /\ ~crashed /\ builder = "signal" /\ ~StatusLocked
  /\ SignalOnce
  /\ builder' = "wait"
  /\ UNCHANGED <<poolVars, armed, asked, engine, blockVars, gossipVars, crashed>>

\* buildBlockTwoStageTimer, called from the timer's Dispatch loop.
Timeout ==
  /\ ~crashed /\ Dispatched /\ armed /\ ~StatusLocked
  /\ armed' = FALSE
  /\ IF status = "mayBuild" THEN MarkBuilding ELSE UNCHANGED <<toEngine, status>>
  /\ UNCHANGED <<poolVars, asked, engine, blockVars, builder, gossipVars, crashed>>

-----------------------------------------------------------------------------
(* The engine                                                              *)

\* The engine takes a message, now or later it asks for a block.
Receive ==
  /\ ~crashed /\ engine = "idle" /\ toEngine > 0
  /\ toEngine' = toEngine - 1
  /\ asked' = asked + 1
  /\ UNCHANGED <<poolVars, status, armed, engine, blockVars, builder, gossipVars, crashed>>

\* BuildBlock up to the loop: Prune drops the transactions signed too long ago.
\* An error on the way there ends it.
BuildBlock(pruned) ==
  /\ ~crashed /\ engine = "idle" /\ asked > 0
  /\ asked' = asked - 1
  /\ pool' = pool \ pruned
  /\ engine' \in {"check", "need"}
  /\ txs' = {} /\ unusable' = {} /\ next' = <<>>
  /\ UNCHANGED <<newTxs, pending, got, statusVars, need, builder, gossipVars, crashed>>

\* for mempool.Len() > 0
BuildCheck ==
  /\ ~crashed /\ engine = "check"
  /\ engine' = IF pool = {} THEN "verify" ELSE "pop"
  /\ UNCHANGED <<poolVars, statusVars, asked, blockVars, builder, gossipVars, crashed>>

BuildPop ==
  /\ ~crashed /\ engine = "pop"
  /\ PopOrPanic
  /\ IF crashed' THEN UNCHANGED <<engine, next>> ELSE engine' = "execute" /\ next' = got'
  /\ UNCHANGED <<statusVars, asked, txs, unusable, need, builder, gossipVars>>

\* A transaction below the block's price goes back and ends the loop.
TooCheap ==
  /\ ~crashed /\ engine = "execute"
  /\ AddToMempool(next[1])
  /\ engine' = "verify" /\ next' = <<>>
  /\ UNCHANGED <<statusVars, asked, txs, unusable, need, builder, gossipVars, crashed>>

\* One that does not fit is kept for later, one that fails is gone, the others
\* are in the block.
Execute ==
  /\ ~crashed /\ engine = "execute"
  /\ \/ unusable' = unusable \cup {next[1]} /\ UNCHANGED txs
     \/ UNCHANGED <<unusable, txs>>
     \/ txs' = txs \cup {next[1]} /\ UNCHANGED unusable
  /\ engine' = "check" /\ next' = <<>>
  /\ UNCHANGED <<poolVars, statusVars, asked, need, builder, gossipVars, crashed>>

\* The deferred return of the unusable ones.
PutBack(tx) ==
  /\ ~crashed /\ engine = "verify"
  /\ tx \in unusable
  /\ AddToMempool(tx)
  /\ unusable' = unusable \ {tx}
  /\ UNCHANGED <<statusVars, asked, engine, next, txs, need, builder, gossipVars, crashed>>

\* Return, with a block or with the error of its verification: in either case
\* the transactions it took have left the mempool.
Return ==
  /\ ~crashed /\ engine = "verify" /\ unusable = {}
  /\ engine' = "need" /\ txs' = {}
  /\ UNCHANGED <<poolVars, statusVars, asked, next, unusable, need, builder, gossipVars, crashed>>

NeedToBuildNever == FALSE
NeedToBuild == pool # {}

\* HandleGenerateBlock reads the mempool,
ReadNeed ==
  /\ ~crashed /\ engine = "need"
  /\ need' = NeedToBuild
  /\ engine' = "status"
  /\ UNCHANGED <<poolVars, statusVars, asked, next, txs, unusable, builder, gossipVars, crashed>>

\* and sets the status by what it has read.
SetStatus ==
  /\ ~crashed /\ engine = "status"
  /\ status' = IF need THEN "mayBuild" ELSE "dontBuild"
  /\ armed' = (armed \/ need)
  /\ engine' = "idle" /\ need' = FALSE
  /\ UNCHANGED <<poolVars, toEngine, asked, next, txs, unusable, builder, gossipVars, crashed>>

-----------------------------------------------------------------------------
(* The goroutine Gossip                                                    *)

\* The gossip ticker: newcomers are announced and stay in the mempool.
GossipNewTxs ==
  /\ ~crashed /\ gossip = "wait"
  /\ Mempool!NewTxs
  /\ UNCHANGED <<statusVars, asked, engine, blockVars, builder, gossipVars, crashed>>

\* The regossip ticker.
Regossip ==
  /\ ~crashed /\ gossip = "wait"
  /\ gossip' = "check" /\ units' = 0
  /\ UNCHANGED <<poolVars, statusVars, asked, engine, blockVars, builder, crashed>>

\* for mempool.Len() > 0 && units < TargetBlockSize; then what was popped is sent.
RegossipCheck ==
  /\ ~crashed /\ gossip = "check"
  /\ IF pool # {} /\ units < GossipUnits THEN gossip' = "pop" /\ UNCHANGED units
     ELSE gossip' = "wait" /\ units' = 0
  /\ UNCHANGED <<poolVars, statusVars, asked, engine, blockVars, builder, crashed>>

RegossipPop ==
  /\ ~crashed /\ gossip = "pop"
  /\ PopOrPanic
  /\ IF crashed' THEN UNCHANGED gossipVars
     ELSE gossip' = "check" /\ units' = units + Load[got'[1]]
  /\ UNCHANGED <<statusVars, asked, engine, blockVars, builder>>

Engine ==
  \/ BuildCheck \/ BuildPop \/ TooCheap \/ Execute
  \/ (\E tx \in Txs : PutBack(tx)) \/ Return
  \/ ReadNeed \/ SetStatus

BuildingNext ==
  \/ \E tx \in Txs : Submit(tx) \/ Verified(tx)
  \/ Notice \/ SignalTxsReady \/ Timeout
  \/ Receive
  \/ \E pruned \in SUBSET pool : BuildBlock(pruned)
  \/ Engine
  \/ GossipNewTxs \/ Regossip \/ RegossipCheck \/ RegossipPop

\* The goroutine Build goes on when it can, and a timer that is dispatched fires.
\* Nothing is assumed of the engine, of tickers and of those who submit.
BuildingFairness ==
  WF_buildingVars(Notice) /\ WF_buildingVars(SignalTxsReady) /\ WF_buildingVars(Timeout)

BuildingSpec == BuildingInit /\ [][BuildingNext]_buildingVars /\ BuildingFairness

-----------------------------------------------------------------------------
(* Properties                                                              *)

\* The status is `building` exactly while one message is on its way to the
\* engine or being answered.  So the channel always has room when markBuilding
\* sends, the message it might drop never is, and no block is asked for twice.
OneRequest ==
  toEngine + asked + (IF engine = "idle" THEN 0 ELSE 1) = IF status = "building" THEN 1 ELSE 0

\* No transaction waits unheard of: when the builder is at rest and the mempool
\* is not empty, the token is there or the goroutine has just taken it.
NoneForgotten ==
  status = "dontBuild" /\ pool # {} => pending \/ builder = "signal"

\* A mempool found waiting by a builder at rest leads to a request to the engine,
\* unless the transactions leave by other ways.
Signalled ==
  (status = "dontBuild" /\ pool # {}) ~> (status = "building" \/ pool = {} \/ crashed)

\* HandleGenerateBlock announces that the engine is told in [buildInterval] when
\* there is still need to build.
ToldAfterInterval == (status = "mayBuild") ~> (status = "building" \/ crashed)

\* PopMax assumes that there are items in the mempool.  Its callers have looked a
\* moment before, but whatever takes transactions away may come in between.
NonZeroItems == engine = "pop" \/ gossip = "pop" => pool # {}

===============================================================================
