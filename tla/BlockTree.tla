------------------------------ MODULE BlockTree ------------------------------
(***************************************************************************)
(* The blocks under decision and their databases: every verified block has *)
(* an overlay (versiondb) on the state of its parent, and acceptance       *)
(* commits the overlay to whatever lies under it (chain/block.go,          *)
(* vm/chain_vm.go, vm/vm.go, vm/pruner.go, vm/compactor.go).               *)
(*                                                                         *)
(* The writes of a block are the block itself, so the content of a         *)
(* database is the sequence of the blocks whose writes it holds.  One of   *)
(* these writes is the pointer to the last accepted block                  *)
(* (SetLastAccepted in the overlay), hence the pointer on disk is always   *)
(* the last element.  Which blocks pass verify is the business of Chain    *)
(* and Ledger; Blocks are those that do, with the heights NewBlock gives.  *)
(*                                                                         *)
(* Every operation runs under the engine's lock.  A poll of the engine     *)
(* keeps it from the first Accept until SetPreference: `polling`.          *)
(***************************************************************************)
EXTENDS Integers, Sequences, FiniteSets, Functions

CONSTANTS
  Blocks,      \* the blocks of the network, and among them
  Genesis,     \* the root
  Parent,      \* [Blocks -> Blocks], StatefulBlock.Prnt
  Height,      \* [Blocks -> Nat], StatefulBlock.Hght
  CacheSize,   \* blocksLRUSize
  Disk, NoDB   \* the database below all overlays; no database

ASSUME TreeAssumption ==
  /\ Genesis \in Blocks
  /\ Parent \in [Blocks -> Blocks]
  /\ Height \in [Blocks -> Nat]
  /\ Height[Genesis] = 0
  /\ \A b \in Blocks \ {Genesis} : Height[b] = Height[Parent[b]] + 1
  /\ CacheSize \in Nat \ {0}
  /\ Disk \notin Blocks /\ NoDB \notin Blocks /\ Disk # NoDB

VARIABLES
  disk,          \* vm.db: the blocks whose writes are on disk, oldest first
  base,          \* onAcceptDB: the database under the overlay of a block
  mem,           \* onAcceptDB: the writes in the overlay of a block
  children,      \* the children field of the block objects in memory
  verified,      \* keys of vm.verifiedBlocks
  cache,         \* keys of vm.blocks
  lastAccepted,  \* vm.lastAccepted
  preferred,     \* vm.preferred
  polling        \* the engine is between an Accept and SetPreference

overlayVars == <<base, mem, children>>
vars == <<disk, overlayVars, verified, cache, lastAccepted, preferred, polling>>

TypeOK ==
  /\ disk \in Seq(Blocks) /\ disk # <<>>
  /\ base \in [Blocks -> Blocks \cup {Disk, NoDB}]
  /\ mem \in [Blocks -> Seq(Blocks)]
  /\ children \in [Blocks -> SUBSET Blocks]
  /\ verified \subseteq Blocks
  /\ cache \subseteq Blocks /\ IsFiniteSet(cache) /\ Cardinality(cache) <= CacheSize
  /\ lastAccepted \in Blocks /\ preferred \in Blocks
  /\ polling \in BOOLEAN

\* What a process keeps in memory is empty when it starts from the block b.
Booted(b) ==
  /\ base' = [c \in Blocks |-> NoDB]
  /\ mem' = [c \in Blocks |-> <<>>]
  /\ children' = [c \in Blocks |-> {}]
  /\ verified' = {} /\ cache' = {}
  /\ lastAccepted' = b /\ preferred' = b
  /\ polling' = FALSE

\* Initialize on an empty database has stored the genesis block.
Init ==
  /\ disk = <<Genesis>>
  /\ base = [c \in Blocks |-> NoDB]
  /\ mem = [c \in Blocks |-> <<>>]
  /\ children = [c \in Blocks |-> {}]
  /\ verified = {} /\ cache = {}
  /\ lastAccepted = Genesis /\ preferred = Genesis
  /\ polling = FALSE

-----------------------------------------------------------------------------
(* Finding a block and the state after it                                  *)

\* GetStatelessBlock looks into the cache, among the verified blocks, on disk.
Known(b) == b \in cache \cup verified \cup Range(disk)

\* Whether the object it finds counts as accepted; what is read from disk does.
IsAccepted(b) == b \in cache \/ b \notin verified \/ b = Genesis

StateOnDisk(b) == Disk
StateInOverlay(b) == IF b = Genesis THEN Disk ELSE b

\* onAccept: the database that holds the state after block b.
StateAfter(b) == IF IsAccepted(b) THEN Disk ELSE b

\* Verified blocks that can no longer be accepted: the engine rejects them,
\* parents first, before it gives up the lock.
Doomed == {b \in verified : Parent[b] \notin verified \cup {lastAccepted}}

\* The engine hands over a block once, and none at or below the accepted height.
Undecided(b) ==
  b \notin verified \cup Range(disk) /\ Height[b] > Height[lastAccepted]

-----------------------------------------------------------------------------
(* Operations of the engine                                                *)

\* Verify: an overlay on the parent's state, linked to the parent's object.  A
\* parent read from disk is a fresh object that nobody keeps.
Verify(b) ==
  LET p == Parent[b]
      kept == IF p \in cache \cup verified THEN {p} ELSE {}
  IN
  /\ ~polling
  /\ Undecided(b)
  /\ Known(p)
  /\ base' = [base EXCEPT ![b] = StateAfter(p)]
  /\ mem' = [mem EXCEPT ![b] = <<b>>]
  /\ children' = [c \in Blocks |-> IF c = b THEN {}
                                   ELSE IF c \in kept THEN children[c] \cup {b}
                                   ELSE children[c]]
  /\ verified' = verified \cup {b}
  /\ UNCHANGED <<disk, cache, lastAccepted, preferred, polling>>

\* versiondb.Commit: the writes move to the database under the overlay.
Commit(b) ==
  IF base[b] = Disk
  THEN /\ disk' = disk \o mem[b]
       /\ mem' = [mem EXCEPT ![b] = <<>>]
  ELSE /\ mem' = [mem EXCEPT ![base[b]] = @ \o mem[b], ![b] = <<>>]
       /\ UNCHANGED disk

ReparentedNever(b) == base

\* SetDatabase(vm.State()) for every child of the object of b (also what
\* SetChildrenDB does).
Reparented(b) == [c \in Blocks |-> IF c \in children[b] THEN Disk ELSE base[c]]

CacheWithoutEviction(b, kept) == cache \cup {b}

\* vm.blocks.Put: the new block stays, others go to make room (here also before
\* there is need: which ones depends on every lookup in between).
CacheWith(b, kept) == {b} \cup kept

\* Accept and vm.Accepted; the engine accepts a child of the last accepted.
Accept(b) ==
  /\ b \in verified /\ Parent[b] = lastAccepted
  /\ Doomed = {}
  /\ Commit(b)
  /\ base' = Reparented(b)
  /\ \E kept \in SUBSET cache :
       /\ Cardinality(kept) < CacheSize
       /\ cache' = CacheWith(b, kept)
  /\ verified' = verified \ {b}
  /\ lastAccepted' = b
  /\ polling' = TRUE
  /\ UNCHANGED <<children, preferred>>

\* Reject and vm.Rejected; the parent keeps the block among its children.
Reject(b) ==
  /\ b \in Doomed
  /\ verified' = verified \ {b}
  /\ UNCHANGED <<disk, overlayVars, cache, lastAccepted, preferred, polling>>

\* SetPreference, with which the engine also ends a poll.
SetPreference(b) ==
  /\ Doomed = {}
  /\ b \in verified \cup {lastAccepted}
  /\ preferred' = b
  /\ polling' = FALSE
  /\ UNCHANGED <<disk, overlayVars, verified, cache, lastAccepted>>

-----------------------------------------------------------------------------
(* Background work and crashes                                             *)

\* pruneCall and compactCall rewrite the database (Ledger's Prune) and then set
\* it again under the children of the last accepted block.
Maintain ==
  /\ ~polling
  /\ base' = Reparented(lastAccepted)
  /\ UNCHANGED <<disk, mem, children, verified, cache, lastAccepted, preferred, polling>>

\* The process dies at any point, in the middle of a poll too, and Initialize
\* finds the last accepted block on disk.  A commit is one batch of the
\* database: it is on disk or it is not.
Restart == Booted(disk[Len(disk)]) /\ UNCHANGED disk

Next ==
  \/ \E b \in Blocks : Verify(b) \/ Accept(b) \/ Reject(b) \/ SetPreference(b)
  \/ Maintain
  \/ Restart

Spec == Init /\ [][Next]_vars

-----------------------------------------------------------------------------
(* Properties                                                              *)

\* A sequence of blocks is the branch that ends in b.
IsBranchTo(blocks, b) ==
  /\ blocks # <<>>
  /\ blocks[1] = Genesis
  /\ blocks[Len(blocks)] = b
  /\ \A i \in 1..(Len(blocks) - 1) : Parent[blocks[i + 1]] = blocks[i]

\* The disk holds the writes of exactly the accepted branch, and its pointer
\* agrees with the block the process believes to be the last: no commit went
\* into an overlay that nothing commits any more, and a crash forgets nothing.
Durable == IsBranchTo(disk, lastAccepted)

\* The overlay of a block that can still be accepted holds that block's writes
\* and lies on its parent's overlay, or on disk once the parent is accepted.
OverlaysOnParent ==
  \A b \in verified \ Doomed :
    /\ mem[b] = <<b>>
    /\ base[b] = IF Parent[b] = lastAccepted THEN Disk ELSE Parent[b]

\* What a reader of a database finds, down through the overlays.
View[db \in Blocks \cup {Disk, NoDB}] ==
  IF db = Disk THEN disk ELSE IF db = NoDB THEN <<>> ELSE View[base[db]] \o mem[db]

\* Whatever the order of verdicts, a block is executed on the writes of its
\* ancestors and of nothing else: so is every child of a verified block, and so
\* is what BuildBlock tries on the preferred one.  Submit is not among these
\* readers: it executes on vm.db, the last accepted state (see Journey).
ViewIsBranch ==
  /\ Doomed = {} => \A b \in verified : IsBranchTo(View[StateAfter(b)], b)
  /\ ~polling => Known(preferred) /\ IsBranchTo(View[StateAfter(preferred)], preferred)

=============================================================================
