# Formal model of the message chain

TLA+ modules, TLC configurations and TLAPS proofs for the program in `src/`: a
virtual machine for the Avalanche Snowman engine (`src/avax/msg-vm`, Go) that
keeps *spaces*, each a name owned by an account and a small key-value store
under it. Beside it the repository holds a file program for Solana
(`src/anchorapp`), a web app and a native Solana stub (`src/src`).

Run everything from this directory:

    tlc -workers 2 -config MCLedger_spaces.cfg MCLedger
    tlapm LedgerProofs.tla

`PROJECT.json` lists the runs, the mutation of a definition that breaks each
property, the source lines of each definition, the hazards and the theorems.

## 1. The system

Paths are relative to `src/avax/msg-vm` unless they start with `anchorapp` or
`src`.

| component | state | operations | talks to |
|---|---|---|---|
| state transition (`chain/storage.go`, `chain/*_tx.go`, `chain/tx.go`) | key spaces of one database: `info`, `owned`, `expiry`, `pruning`, `key` (values), `balance`, `block`, `txValue`, `tx` | seven transactions (claim, lifeline, set, delete, move, transfer) with fee and lottery, `ExpireNext` at each block, `PruneNext` | called by blocks, by `Submit`, by the pruner |
| blocks (`chain/block.go`, `vm/chain_vm.go`, `vm/helpers.go`) | tree of blocks, an overlay (`versiondb`) per verified block, last accepted | `verify`, `Verify`, `Accept`, `Reject`, `ExecutionContext`, `SuggestedFee` | engine, state transition, mempool, activity cache |
| block building (`chain/builder.go`) | none | `BuildBlock`: pops the mempool, executes, verifies | mempool, state transition, engine |
| mempool (`mempool/`) | max heap and min heap over one set of transactions, `newTxs`, a one-place `Pending` channel | `Add`, `PopMax`, `Remove`, `Prune`, `NewTxs` | builder, gossip, `Verified`, RPC |
| build and gossip loops (`vm/block_builder.go`, `vm/network.go`) | status (`dontBuild`, `mayBuild`, `building`), timers, channel to the engine, cache of gossiped ids | `Build`, `HandleGenerateBlock`, `Gossip`, `GossipNewTxs`, `RegossipTxs`, `AppGossip` | mempool, engine, peers |
| VM lifecycle (`vm/vm.go`) | `bootstrapped`, block caches, preferred block, last accepted | `Initialize`, `SetState`, `Submit`, `GetStatelessBlock`, `SetPreference`, `Shutdown` | everything |
| pruner, compactor (`vm/pruner.go`, `vm/compactor.go`) | two goroutines with a timer | `pruneCall`, `compactCall`; both re-parent the overlays of the children of the last accepted block | database, engine lock |
| RPC and client (`vm/public_service.go`, `client/`) | none | issue, resolve, poll | VM |
| file tree (`tree/tree.go`) | none of its own: chunks and roots are values of a space | `Upload`, `Download`, `Delete` | client |
| codec, signatures, typed data, parser | none | encoding, hashing, character checks | state transition |
| Solana file program (`anchorapp/programs`) | one account per block: a data block, or an inode block whose slot 0 points to the next one | `create_data_block`, `set_data`, `create_inode_block`, `set_direct_blocks`, `set_next_inode_block` | Solana runtime |
| Solana file client (`anchorapp/tests/utils.ts`, `fileclient.js`) | promises of the calls under way | `uploadFile`, `downloadFile` and the calls they make | file program |
| command line, scripts, test runner, web app, native stub | none of interest | wrappers | client |

How they interact: a transaction enters by `Submit` (RPC or gossip) and waits in
the mempool. The build loop tells the engine that a block may be built; the
engine calls `BuildBlock`, which takes the best transactions and produces a
block that passes `verify`. Every node verifies the block in an overlay above
its parent's; `Accept` commits the overlay to the database. At the start of each
block `ExpireNext` removes the spaces whose time is over; their values are
removed at once while the node bootstraps, later by the pruner.

What is hard here, and which property each component needs:

* *State transition.* Four key spaces describe one space and are updated by
  hand; values are addressed by a hash of name and claim time so that a name can
  be claimed again before the pruner has been there; a space's life is stretched
  and shrunk by integer divisions; fees are burnt and handed out. It is correct
  when the indexes agree, no live value is ever pruned and none is forgotten, the
  unit accounts balance and no step creates money.
* *Blocks.* Replay protection and prices look at a window of ancestors only. It
  is correct when a transaction cannot outlive the window that remembers it, and
  when cost and price follow what the blocks earned. On the tree: overlays form
  a path to the last accepted block, whatever order verdicts arrive in.
* *Mempool, loops.* Several goroutines pop; a token or a message may be dropped.
  Correct when the heaps agree and a pending transaction leads to a block.
* *Lifecycle.* Initialization and accept meet crashes; shutdown meets loops that
  wait for the engine's lock.
* *Typed data.* A wallet hashes what it was given, the node hashes what it makes
  anew from the transaction. Correct when both can only mean one transaction.
* *File tree, Solana program.* Sequences of calls that can stop half way, over
  chunks that files share, in a space that may change hands meanwhile.

`hazards` in `PROJECT.json` has each of these at its line, with the properties
that cover it or the reason why none does.

## 2. The modules

| module | what it is |
|---|---|
| `Genesis` | parameters of the chain, their assumptions, fee arithmetic |
| `KeyValue`, `Counting` | a key space as a finite map; the total of a map |
| `SpaceStore` | abstract specification: spaces as their users are promised them |
| `Ledger` | the state transition function with all its key spaces |
| `LedgerProofs` | totals of finite maps, the inductive invariant of `Ledger` and its theorems; `Ledger` implements `SpaceStore`; the supply of balance |
| `Chain`, `ChainProofs` | one branch of the block tree, which blocks are admitted on it; replay protection, windows, block cost and price |
| `BlockTree`, `BlockTreeProofs` | the tree of blocks, their overlays, verdicts and crashes; the disk is the accepted branch |
| `MempoolInterface` | what the mempool and its callers have in common: transactions, limits, newcomers, token |
| `TxHeap` | the heap of the mempool under `container/heap` |
| `Pool` | abstract specification: what the mempool promises its callers |
| `Mempool` | the two heaps, the gossip list and the token; implements `Pool` |
| `Building` | the threads around the mempool and the status of the `TimeBuilder`, composed with `Pool` |
| `BlockProgram` | the Solana program: a block and the instructions on it |
| `FileUpload`, `FileUploadProofs` | an upload, a download and strangers around `BlockProgram`; inode blocks settle, the settled chain is the file, no download out of order |
| `FileTree`, `FileTreeProofs` | uploads, downloads and deletes of files in a space, transaction by transaction, in a space that moves and expires and is written to by hand; no root before its chunks, no rest after a delete, no gap in a download |
| `TypedData` | unsigned transactions, the typed data a wallet signs for them, and the way back |
| `Journey`, `JourneyProofs` | the way of a transaction: wallet, `Submit`, gossip, block, storage with linked values, and back after a rejection; a digest binds to one transaction, and what the node keeps is what was shown |
| `Node` | the life of the process: `Initialize` write by write, the loops, the activity cache, `Shutdown`, crashes; what a restart finds |
| `VMProofs` | about `Node`, `Building` and `Mempool`: restarts, locks, the ring of activities; requests to the engine and waiting transactions; the heaps, and that they implement `Pool` |
| `Facts` | induction, recursion and finite images, as lemmas about sets and functions |
| `MCLedger`, `MCChain`, `MCBlockTree`, `MCMempool`, `MCBuilding`, `MCFileTree`, `MCJourney`, `MCNode` | values of the constants for TLC |

How they compose: `Chain` says which blocks may follow a branch, `Ledger` what their
transactions do to the database, `BlockTree` in which database, `Building` how a
transaction gets into a block, over the `Pool` that `Mempool` implements, `Journey`
which transaction it is by then, `Node` what a restart finds. `FileTree` uses the
space from outside, as a client does. Each
takes the answer of the others as a free choice, so what it shows holds
whichever answer they give.

### Ledger

| variable | code |
|---|---|
| `info`, `owned`, `expiryQ`, `pruning`, `values`, `balance` | the key spaces `infoPrefix`, `ownedPrefix`, `expiryPrefix`, `pruningPrefix`, `keyPrefix`, `balancePrefix` |
| `block` | timestamp and price of the block being executed, and whether it has a transaction yet |
| `bootstrapped` | `VM.bootstrapped` |

`NextBlock` is the head of `verify` with `ExpireNext`; `Claim`, `Lifeline`, `Set`,
`Delete`, `Move`, `Transfer` are each one successful `Transaction.Execute`: the
fee (`Pays`, `Debit`), the transaction, then the lottery (`Settle`). `Prune` is
`pruneCall` with `PruneNext`, `SetState` the engine's switch between bootstrapping
and normal operation.

Abstractions, and why they are sound for the properties:

* The granularity is one transaction of the accepted branch. A transaction that
  fails leaves nothing: `BuildBlock` drops its overlay, `verify` its block.
* The pruner may run between two transactions of a block and then also clears
  what this block scheduled, where the code's pruner sees the last accepted
  block only: the model has more behaviours than the code.
* A raw space is the pair of name and claim time: the hash is injective.
* The lottery draws from a hash of block and transaction: every stored space
  may win, or none.
* Arithmetic is that of the naturals; nothing is said of values near 2^64.
* `MaxExpiry` bounds lifelines. It is a constant: the theorems hold for every
  value of it.

`SpaceStore` has the same operations on one map from names to owner, dates and
store, without indexes, pruning queue or stored units. The refinement maps
`info` and the values under the space's raw name to it. The life that a Set or a Delete
spreads over the new weight is counted from the last update (`set_tx.go:80`), in both modules as in the code: the
time that has passed since is given back.

### Chain

`chain` is the sequence of blocks from genesis to the tip; a block's id is its
position. `Verify` is the consensus part of `StatelessBlock.verify` in the context
that `ExecutionContext` computes: `Window` is `lookback`, `RecentTxs` and
`RecentUnits` its callback, `NextCost` and `NextPrice` the fee mechanism. What
transactions do is `Ledger`'s business, so any may succeed. The check against the
wall clock (`futureBound`) is left out: a block it refuses now is admitted later.
A block is judged by its ancestors alone, so a statement about every branch is a
statement about every path of the tree.

### BlockTree

| variable | code |
|---|---|
| `disk` | `vm.db`, as the sequence of blocks whose writes it holds |
| `base`, `mem` | `onAcceptDB` of a block: the database under the overlay, the writes in it |
| `children` | the field of the block objects in memory |
| `verified`, `cache` | the keys of `vm.verifiedBlocks` and of the LRU cache `vm.blocks` |
| `lastAccepted`, `preferred` | the fields of `VM` |
| `polling` | the engine is between an `Accept` and `SetPreference`, with its lock held |

`Verify`, `Accept`, `Reject` and `SetPreference` are the handlers with all their
calls: `Accept` commits, re-parents the children (`SetChildrenDB`) and moves the block from
the verified ones to the cache. `Maintain` stands for pruner and compactor, which set the
database under the children of the last accepted block again. `Restart` is a crash
at any point, also in the middle of a poll, followed by `Initialize`. The writes of
a block are abstracted to the block itself, so that a view of a database is a
sequence of blocks and can be compared with a branch. `ViewIsBranch` is about readers that start from a
block: its verification, and `BuildBlock` on the preferred one. `Submit` is not among them, as it executes on
`vm.db` (`vm.go:413`); that is in `Journey`. The engine is external and
promises what Snowman promises: it issues a block once, accepts children of the last
accepted block, rejects what conflicts before it releases the lock.

The order of lookups matters: `GetStatelessBlock` finds the cached object, the
verified one or a fresh one read from disk, and only an object in memory knows
its children. The LRU cache may evict any block at any `Put`.

### TxHeap, Pool, Mempool

`heaps` are `maxHeap` and `minHeap`, each an array of items and the positions its
entries remember; `newTxs`, `pending` (an item on the channel) and `toRemove` (of
the running `Prune`) are the fields and locals of that name; `got` is what the last call returned.
An operation is a step, as it holds the mutex; `Prune` reads under the lock and then
removes one transaction at a time, so it is `PruneScan` followed by `PruneRemove`, with pops
of the gossip goroutine in between. `container/heap` is external code and modelled by its
`up`, `down` and `Remove`; `Rise` and `Sink` are one step of their loops, and the loops are
functions of the number of steps. `Pool` keeps the set of transactions
and says of gossip that it takes the longest prefix of the newcomers whose units, without
those that have left the pool, fit the message.

### Building

| variable | code |
|---|---|
| `pool`, `newTxs`, `pending`, `got` | the mempool, as `Pool` |
| `status`, `armed` | `TimeBuilder.status`; `buildBlockTimer` has a timeout to wait for |
| `toEngine`, `asked` | messages in the channel; those the engine has taken and not yet acted upon |
| `engine`, `next`, `txs`, `unusable`, `need` | where the engine is in `BuildBlock` and `HandleGenerateBlock`, and their locals |
| `builder`, `gossip`, `units` | where the goroutines `Build` and `Gossip` are |
| `crashed` | `PopMax` has indexed an empty slice |

The grain is that of the mutexes: each access to the mempool or to the status is a step
of its own, and whatever thread is free may come between. `Notice` is the goroutine `Build`
receiving from `Pending`, `PopOrPanic` a `PopMax` by someone who has seen a length above zero
a moment before. What a transaction does when executed, and whether the block passes, are free choices.
`Dispatched` says whether a thread runs the timer's `Dispatch` loop, which in `src`
none does; run `building` sets it, so that the timer's steps are explored too, run `stuck`
does not.

### BlockProgram and FileUpload

`accounts` are the blocks on chain; an instruction takes effect as a whole. `data[i]` and
`inode[j]` are the promises of the data and inode blocks of the file, each the list of calls
it still has to make; `direct[j]` is the call of `setInode` that nobody
awaits; `upload` and `download` are the two functions. Calls of different promises
land in any order and any of them may fail. `Meddle` is anybody else
calling the program with the accounts of the file. A chunk is abstracted to its
number, and the size of a data block goes with its data.

### FileTree

| variable | code |
|---|---|
| `store`, `owner`, `life` | the values of one space in the last accepted state, its owner, how often it has expired |
| `pending`, `accepted` | transactions the node has admitted; those of accepted blocks (`txPrefix`) |
| `pc`, `todo`, `sent`, `out` | of each call: where it is, its keys to come, its map `uploaded` or `deleted`, what it has written |
| `root` | the root that a call writes, or the one it has found under the key it was given |
| `born`, `touched` | auxiliary: the life in which a call began; the keys at which something else has got in its way since |

A call is one run of `tree.Upload`, `tree.Download` or `tree.Delete`; the calls of
the model run beside each other and share chunks. `Issue` is `SignIssueRawTx` as far as the node's answer, `Confirm` the
poll that finds the transaction (`PollTx`, `handleConfirmation`), `IssueFails`
any request that fails, also one whose transaction arrived all the same,
`GiveUp` a context that ends. `Accept` executes a pending transaction at any time or
never, whether or not its call is still there. The space is moved to another account and back (`Move`), expires
(`Expire`) and is claimed again (`Claim`), and whoever owns it sets and deletes keys of the tree without these
calls (`SetByHand`, `DeleteByHand`): the constant `ByHand` says which keys and values.
A value is named by the hash it belongs under, so that `Junk` is any value that is neither chunk nor root. The hash check of
`Resolve` and `SetTx.Execute` is modelled as it is: it compares keys of `HashLen`
characters only, and those of a tree are shorter, so a root may be put under the key of another one, and a download
or a delete goes by the root it finds. A file may be empty: `Upload` then leaves its loop with the buffer as it was
made, so the root holds as many zeros as a chunk is long (`Zeros`).

### TypedData and Journey

A transaction is a type, the magic number and its fields. A text in typed data is
the form it is written in and what it says: `ReadForms` is what the node's parser accepts,
`SignForms` what a wallet can hash. `DigestHash` has all that the hash covers, so equality of digests
is that of hashes without collisions.

| variable | code |
|---|---|
| `signed` | transactions sent by users: the requests of `IssueTx` and `IssueRawTx` |
| `space` | where the space of the instance is between absent, live, due and overdue |
| `pool`, `newTxs`, `admitted` | the pointers in the mempool, its list, all there ever were |
| `linked` | the pointers behind which `linkValues` has replaced the value by an id |
| `appSender` | whether the node was given something to send messages with |
| `selected`, `gossiped`, `sent`, `lost` | what `NewTxs` has returned, the cache of gossiped ids, what went out, what was in a message that failed |
| `blocks` | blocks with the objects they took, their bytes, what is stored of them |

`Submit` executes a batch in one overlay: `SubmitOne` says what a failed transaction leaves in it
and what `Abort` takes away with an admitted one. `Renderings` are the ways in which typed data may have been
rewritten between node, wallet and node. Whether a transaction executes in a block is
`Ledger`'s business; a block is verified if none of its transactions is accepted already.
`Reject` hands the transactions back to the mempool, as copies. `SendTxs` may fail in marshalling or in the
sender, of which the caller learns nothing; ids are in the cache by then. Without an `appSender`
`GossipNewTxs` drops what it was given and `RegossipTxs` does not start. So `Offered` speaks of what the
node has tried to send: after a message that failed, only `RegossipTxs` tries again.

### Node

| variable | code |
|---|---|
| `disk` | the pointer under `lastAccepted`, the stored blocks, the block the balances are of |
| `phase`, `todo` | where the process is; what `Initialize` has still to put |
| `pc`, `ctxLock`, `awaited` | the loops, `ctx.Lock`, the channels on which `Shutdown` has still to wait |
| `cache`, `history` | `activityCache` with `activityCacheCursor`; auxiliary: all activities since the start |

`Write` is one put of a first start: the allocation, then the pointer and the block of
`SetLastAccepted`. `Exit` is a crash or an end at any point. `Tick`, `Acquire`, `Finish` and
`Leave` are the cases of the loops' `select` and the lock that two of them take.
`Remembering` puts the activities of a block into the ring one by one;
`RecentActivity` reads the ring backwards from the cursor.

## 3. The runs

| run | question | bounds and why they are enough | states |
|---|---|---|---|
| `spaces` | Do indexes, expiry and pruner agree when names expire, change hands and are claimed again, while the node leaves and re-enters bootstrapping? Do readers see `SpaceStore`? Is what expired cleared in the end? | two accounts and two names, one value, three block times, one raw space per pruner call: a name can live, expire, be claimed again and both its raw spaces wait for the pruner, and raw spaces that expired at different times make a backlog from which the oldest is taken; without symmetry, for the liveness | 64 000 |
| `values` | Do the unit accounts stay exact, does no step create balance? | two accounts and one name, two values of different size, an ordinary key and one that must equal the hash of its value, two block times, prices 0 and 2, every outcome of the lottery: overwriting by a larger and by a smaller value, deleting, divisions with remainder, a sender who pays more than the block's price, rewards above zero to an owner other than the sender | 305 000 |
| `branch` | Can two blocks of a branch execute one transaction? Do windows move forward only? Do cost and price follow what the blocks earned? | five blocks of up to two transactions, window of one second, times with gaps and ties, transactions of two prices and sizes signed against each of the first four blocks: branches that run ahead of the rate, overfill the window and fall idle | 87 000 |
| `tree` | Is the disk the accepted branch and the view of every block its ancestors, whatever the order of verdicts, evictions, maintenance and crashes? | eight blocks with forks at two heights and branches of different length, a cache of two: accepting past a fork, rejecting a whole subtree, a parent found in the cache, among the verified and on disk | 2 800 |
| `mempool` | Do the two heaps stay in step, and do callers see `Pool`? | six transactions, two of one price, a pool of five: a removal from the middle whose replacement must rise (the least size where it happens is five), overflow, a newcomer that is the cheapest, one too large to share a gossip message | 342 000 |
| `building` | Is the engine asked once at a time, is no message dropped and no transaction forgotten? | three transactions of two prices and sizes, a pool of two, a channel of one: overflow, put back, gossip of one or two | 1 240 000 |
| `stuck` | Is the engine told of what a block left behind? | two transactions | violated |
| `empty` | Is the mempool non-empty whenever `PopMax` runs? | two transactions, of which one is enough | violated |
| `upload` | Do the calls of an upload settle to the file in every order, and is a racing download never out of order? | files of zero to four chunks, inode blocks of two: one full, one partly filled, two linked | 181 000 |
| `files` | Is every chunk there before its root, does a delete that returns leave nothing, does a download have no gap? | one file with a chunk that occurs twice is uploaded, downloaded and deleted at once; by hand the roots of a small and of an empty file are put in place of its root and another value in place of a chunk; the space is moved any number of times, expires once and is claimed by either account | 2 519 000 |
| `journey` | Is what the node keeps what was signed, and that what was shown? Has what waits been offered to the peers, or tried? Does a batch admit only what its transactions would be admitted for alone? | a claim and a value set after one block or another, two of them signed, one block, three admissions, messages that fail, nodes without a sender: a value linked while it is in `newTxs` or selected, a transaction that goes into a block and back, batches of two with one that fails | 632 000 |
| `node` | Does a node come back after every crash with the balances of its last block? Is `RecentActivity` the newest? Does `Shutdown` return? | three starts, three blocks of none, one and two transactions with and without a reward, rings of zero, two and three places: a crash after each write of the first start, a ring that goes round within a block | 128 000 |

`spaces`, `values`, `tree` and `mempool` are checked for deadlock: a block
can always be followed by another, a node can always restart, a mempool can
always be read. In `branch` the branch stops at `MaxBlocks`, or when no
transaction is admissible any more, as an idle chain does; in `building`, `stuck` and `empty`
the process may have died; in `upload`, `files` and `journey` the calls end, and in `node` the starts.
Deadlock is not checked there.

**Fairness.** `Ledger` assumes weak fairness of `Prune` and of nothing else. The
pruner's goroutine (`vm/pruner.go`) loops until shutdown, re-arms its timer after
every call and after every error, so a pruning queue that stays non-empty is
visited. No block, no transaction and no engine call is assumed to happen.
`Building` assumes weak fairness of `Notice` and `SignalTxsReady`, the two steps of a
goroutine that does nothing else and waits for a mutex that is never held for
long, and of `Timeout`, which is enabled only if the timer is dispatched. Nothing is
assumed of the engine, the tickers and those who submit.
`Node` assumes weak fairness of `Acquire`, `Finish`, `Await` and `Close`: a runnable goroutine runs, work
on the database ends, and a free mutex is given to one that waits. It assumes strong fairness of
`Leave`: a loop's timer may fire each time it comes to its `select`, but Go chooses at
random among the cases that are ready, and the closed channel is always one of them. The other modules assume
nothing and state no liveness.

### Findings

*Run `stuck`.* After building a block, `HandleGenerateBlock` finds the mempool
non-empty, sets `mayBuild` and starts a timeout, by which the engine is to be told
again (`vm/block_builder.go:125`). The timer's handler is called from
avalanchego's `Timer.Dispatch`, which nothing in `src` starts: the status stays
`mayBuild`, in which `signalTxsReady` does nothing. With `Dispatched = TRUE` TLC finds
the property to hold.

*Run `empty`.* `RegossipTxs`, which does not hold the engine's lock, tests `Len() > 0`
(`vm/network.go:86`) and then pops, taking the mempool's mutex each time. In the trace the engine
verifies a block with the last transaction in between, and `Verified` takes it from the mempool
(`vm/chain_vm.go:33`); `BuildBlock` popping it would do the same. `PopMax` "assumes there is non-zero
items" (`mempool/mempool.go:110`) and indexes an empty slice.

Some other disagreements between code and comments show in the models without a
run of their own:

* `verify` compares the transactions of a block with those of its *ancestors*, although
  `chain/tx.go:96` says that a recently executed transaction must not be executed again: a block that
  lists one transaction twice passes. `BuildBlock` does not produce such a
  block, since the mempool holds a transaction once. `NoReplay` is about two blocks.
* `setInode` does not await `setDirectBlocks`; the test at
  `anchorapp/tests/anchorapp.ts:52` reads the block right after it and expects the new
  pointers. Once the call has landed the block is right (`InodesSettle`, proved); if
  it is lost, the upload has returned all the same.
* `Resolve` and `SetTx.Execute` compare a value with its key only when the key has `HashLen` (66)
  characters, while the keys of a tree have 64 (`tree/tree.go` writes the hash without `0x`). A download can therefore
  contain what an owner of the name has set by other means, or follow another root, in spite of the comment at
  `client/client.go:267`; `DownloadInOrder` says that nothing else can get into it.
* `Upload` of an empty file does not return `ErrEmpty` (`tree/tree.go:81`) but stores a root that holds a buffer of zeros, since the
  loop ends before the buffer is cut to what was read.
* A Set or a Delete counts the life of a space from its last update (`set_tx.go:80`, `delete_tx.go:51`), so the time that has passed since is
  given back: with expiry 5, an update at time 4 of a space last updated at 3 that leaves its units as they are makes it 6. Nothing in the
  repository says otherwise; no property is about it.
* `GossipNewTxs` marshals objects behind which `linkValues` may just have replaced a value; peers then
  get a transaction that nobody signed, and the cache counts the right one as gossiped.
  `Offered` says exactly when.
* A first start that dies between the two puts of `SetLastAccepted` leaves a pointer without a block, and
  the node never starts again. `RestartSound` excludes nothing else.

## 4. The proofs

Assumptions, all named in the modules that declare the constants and evaluated
by TLC on the runs: `DomainsAssumption` (addresses and keys are finite sets, as
their lengths are bounded), `ParametersAssumption` (the divisors of the genesis
are positive, `LotteryRewardMultipler` is at most 100), `LimitsAssumption`,
`ChainAssumption`, `TreeAssumption` (a tree of blocks with their
heights), `InterfaceAssumption` (prices and units are naturals, the pool holds at least one
transaction, as `mempool.New` demands), `MempoolAssumption` (every transaction names a block), `BuildingAssumption`
(the channel has a place), `ProgramAssumption` (an inode block has at least
two slots), `UploadAssumption` (who uploads is not somebody else, and no block has the address that stands
for none), `FileTreeAssumption` (chunks, roots and junk
differ, as their hashes do), `JourneyAssumption` (finitely many accounts and inputs) and `NodeAssumption`. `Genesis.Verify` does not check the parameters: a genesis that
violates them is accepted by the code and outside the theorems. The default
genesis satisfies them.

**Induction.** The provers cannot be given a predicate as a parameter, so `Facts` has induction as a
statement about a set of numbers: were one missing, the missing numbers up to it would map one to one
into fewer (`Induction`). From it follows that a function defined by recursion exists and what its
values are (`Recursion`, and `RecursionUpTo` for loops of a known length). Every loop of the
models that a theorem is about is a recursive function `run[i]`, and its proof shows
that some invariant of the loop holds of `run[i]` for all i.

**Ledger.** `LedgerProofs!Inv` is inductive. Its parts need one another:

* that `ExpireNext` deletes the right records (it trusts the queue) needs
  `IndexesExact`, and `IndexesExact` after an expiry needs that no other space is
  queued under the same key, which needs that a stored raw space determines its
  name;
* `LiveNotExpired` needs the queue to be exact, since `ExpireNext` looks only at
  the window between two block times;
* `PrunedIsDead` needs that everything scheduled expired strictly before the open
  block: a name claimed again gets a claim time no earlier than that, hence another raw space;
* `NoOrphanValues` and `UnitsExact` need that values under a raw space appear only while the
  space is stored: a fresh claim finds no values under its raw space.

From `Invariance` follow `TypeCorrect`, `IndexesAreExact`, `StoredSpacesLive`,
`PrunerSparesTheLiving`, `NoValueOrphaned`, `UnitsStayExact`.

`ReadersSeeSpaceStore` is the refinement `Spec => ImplementsSpaceStore`: one lemma for each
action says which step of `SpaceStore` it shows as (`NextBlockShown` ... `MoveShown`), or that
it does not show at all (`PruneHidden`, `SameDbHidden`). It rests on the invariant where the two differ: `Weight` of the
visible store is the stored units by `UnitsExact`, the pruner is invisible by
`PrunedIsDead`, a claimed space starts empty by `NoOrphanValues`, and what `ExpireNext` deletes
are the expired spaces by `IndexesExact` and `LiveNotExpired`.

`FeesBurn` shows for each transaction that the reward is at most the fee burnt before it
(the price paid is at least the block's, the multiplier at most 100), with the
lemmas about totals of finite maps at the head of the module.

**Chain.** `ChainProofs!Inv` records of every block what `verify` checked: times do
not decrease, each transaction names a block of its window, is not among the
window's transactions, and cost is the successor of the parent's. *No replay*:
were a transaction in blocks i < j, its signed-against block r is in the window
of j; r is before i, and a window is an interval up to the parent, so block i is
in the window of j too, whose recent transactions would hold it. `WindowsOnlyAdvance` follows from the order of times,
`CostKeepsPace` by summing the cost of one step over a branch (the invariant
carries the sum, so no induction over data is needed), and `PriceIsEarned` in the same way with the number of congested
blocks: the context of a block in the middle stays what it was (`WindowStable`).

**BlockTree.** `Durable` is not inductive: that a commit goes to disk needs `OverlaysOnParent`,
and this after an `Accept` needs that the object of the accepted block
knows all its verified children (`Linked`). Which children a lookup can have missed is
settled by `Sorted` (a verified block is not on disk, the cache holds accepted
blocks only, nothing is left to reject between polls) and by `Heights` (heights
grow along the disk, so that no child of a buried block is offered). `IInv`
is the conjunction, for every tree and every cache size. `ViewIsBranch` speaks of a
reader that descends through the overlays. The descent ends because an overlay lies on the disk, on no
database (that of a block object which was never verified) or on the overlay of a lower
block (`Stacked`, inductive); what it finds is the branch of the block, by induction on the
height (`VerifiedViews`), and the preferred block can still be accepted
or just was, except during a poll (`PreferredLives`).

**Building.** `OneRequest` needs the status, the channel, the channel and the engine together.
`NoneForgotten` alone is not inductive: `HandleGenerateBlock` reads the mempool and
then sets the status, and a transaction may come in between. `NoneMissed` says why
this is harmless: such a transaction leaves the token, or the goroutine that took
it waits for the mutex and finds the new status. The proof is for any pool size,
prices, channel and number of transactions.

**FileUpload.** `InodeInv` says of every inode block that each of its two calls shows as soon
as it has landed, whether or not the other one has. This rests on two lemmas about the
program, each instruction storing what it is given and keeping what the other one stores
(`DirectStored`, `NextStored`), from which `CallsCommute` follows too. That others
cannot disturb it needs the owner check. `UploadsInv` adds what is known of the data blocks and of an
upload that has returned; in a settled state the walk along the chain then collects the chunks block by block,
by induction on the number of blocks walked (`SettledIsFileAlways`). `DownloadInv` says where a
download is: in the j-th block, after the c-th chunk, with n chunks of it to come, and nothing it has written is
after the c-th; a block whose pointers have not landed only shortens it (`DownloadInOrderAlways`).

**FileTree.** None of the three properties is inductive. That a root comes after its chunks
rests on how far a call is through its keys (`Progress`, `Polling`) and on a key being sent only when its
transaction is accepted (`Landed`). That what was set is still there, or what was deleted still gone, rests on everything that gets in the way being noted
against the call, whoever owns the space (`Kept`). Downloads need the place they
have reached in the file whose root they found (`Reading`), and that every stored value which is not its key's is noted against them
before they read it (`Noted`). The conjunction is
inductive for any files, empty ones included, any calls, any keys and values set by hand and any number of lives; one lemma per action.

**TypedData and Journey.** `RoundTrip`: parsing the typed data of a transaction gives the transaction.
`DigestBinds`: whatever typed data has the digest of a transaction's, however it is written and whatever its shape, says that transaction; the
proof compares the words that are hashed field by field. Hence `DigestInjective`.
`JourneyProofs!Inv` is the invariant of the node: whatever is in the mempool, its lists, messages and blocks was admitted
and signed (`Held`), the mempool has a transaction once (`Once`), objects are numbered so that the number of a
new one is free (`Counted`), what a block took stays out of the mempool until it is rejected and what is stored of it is
its transactions with their values linked (`BlockKept`), and `Offered`. The loops of `Submit`, `NewTxs`, gossip and
`BuildBlock` are runs over lists; each has a lemma that says what every step of it keeps. From
the invariant follow `TypeCorrect`, `AllGenuine`, `AllOffered`, `AllAsShown`; `SubmitIsConservative` is about
the batch alone.

**Node.** `DiskInv` says of every prefix of the writes of a first start what is on disk after it
(`FirstBootWrites`), so that a crash after any of them is covered; from then on a
block is one batch. `RestartsAreSound` follows, for any number of starts and blocks.
`RingInv`: the ring holds the latest activities at the places their numbers have modulo its size; a block
puts several of them into it, and the reader goes backwards from the cursor until it meets an empty place or comes round. Hence
`RecentIsNewestAlways`, for rings of every size, also of none. `LoopsInv` and `BoundsInv` are the rest of `NodeTypeCorrect`.

**Mempool.** `Arrays(isMin, n, R)` are the heaps that hold R in n places with every entry at the place
it remembers; they are closed under `Swap` (`SwapKeeps`), so that the loops of `container/heap` can only disturb the order. The order is
about the sequence of keys alone. `Rising(k, p, m)` says that the entry at p may come before its parent and
nothing else is wrong, also between its children and its parent; a step up
moves this to the parent's place, and as positions halve the loop ends before its steps do
(`RiseStep`, `UpOrders`). `Misplaced(k, p, m)` says that the entry at p may be wrong either
way; a step down moves this to the child that comes first. When the entry has sunk it is in place, and when
it has not it only has to rise, which is what `heap.Remove` goes by (`SinkStep`, `DownOrders`,
`RemoveKeeps`). `MempoolInv` puts two such heaps over one set of at most `MaxSize`
transactions; the operations keep it, and `HeapsAlwaysInSync` follows.
`MempoolIsPool` is the refinement `MempoolSpec => ImplementsPool`. It rests on the invariant where the two
differ: the first entry of a heap is the cheapest or dearest of all (`RootFirst`), what `remove` takes out by position is what
was meant, the length of the array is the number of transactions held. `Prune` shows as nothing and then as removals. The loop of
`NewTxs` is compared with `Pool`'s sums step by step (`SelectStep`).

Only model-checked: `EventuallyPruned`, `Signalled` and `ShutdownReturns`. They are liveness under
fairness, for which the provers would need `ENABLED`. Every other property of a passing run is stated by a theorem.

## 5. Not modelled

* *Codec, cryptography.* Hashes are injective and signatures genuine; the bytes are left out. So are typed data
  with nested or array types, of which no transaction has a field. `DeriveSender` takes two forms of one signature
  (`crypto.go:35`), and the id of a transaction hashes the signature: one signed request can have two ids. `Chain`
  and `Journey` represent a transaction by its id, so to them these are two transactions; `NoReplay` says nothing of such a pair.
* *Parser.* The characters of names and keys: a pure function without state; names are taken as well formed.
* *Arithmetic modulo 2^64* (`lifeline_tx.go:50`, `tx.go:104`): the theorems are about naturals, so about
  transactions whose units and price, which the sender chooses, have products below 2^64.
* *Branches that lose.* `WindowsNest` is about one branch; that `Prune` may drop a transaction for a block that is rejected later is
  outside it.
* *The crash between the two puts of `SetLastAccepted` of a first start* is in `Node`, and `RestartSound` makes no promise for it; nor
  does `ShutdownReturns` for a caller that holds the engine's lock while the pruner or the compactor waits for it.
* *The lottery's draw.* `ApplyReward` walks the keys from a hash on, under the id of the block, which
  is empty while a block is built; here any stored space may win, or none.
* *Percentiles of `SuggestedFee`.* A user may sign any price.
* *The airdrop file*, read once into the allocation, and the `ManualBuilder` of the tests.
* *Read-only calls* of the service (balance, owned spaces, range over values): one record read under the lock each.
* *Command line, scripts, test runner, web app, native Solana stub, logging, metrics*: wrappers without state of the system.
