---------------------------- MODULE BlockProgram ----------------------------
(***************************************************************************)
(* The Solana program of anchorapp: blocks in accounts of their own, each  *)
(* a data block or an inode block, and the instructions on them            *)
(* (anchorapp/programs/anchorapp/src/lib.rs).  The runtime executes an     *)
(* instruction as a whole or not at all.                                   *)
(*                                                                         *)
(* An inode block has NUM_INODES slots: slot 0 points to the next inode    *)
(* block, the others to data blocks, `size` of them in use.                *)
(***************************************************************************)
EXTENDS Integers, Sequences

CONSTANTS
  NUM_INODES,   \* slots of an inode block
  Zeros,        \* the data of a fresh data block
  None          \* the empty slot

ASSUME ProgramAssumption == NUM_INODES \in Nat \ {0, 1}

Slots == 0..(NUM_INODES - 1)

\* create_data_block and create_inode_block.  The size of an inode block counts its
\* slots in use; that of a data block goes with its data, and a fresh one reads as
\* nothing.
NewBlock(owner, isInode) ==
  [owner |-> owner, isInode |-> isInode, size |-> 0,
   content |-> IF isInode THEN [s \in Slots |-> None] ELSE Zeros]

\* What an instruction requires of a block and of the user who signs it.
MayAnyone(block, user, isInode) == block.isInode = isInode
May(block, user, isInode) == block.owner = user /\ block.isInode = isInode

SetData(block, data) == [block EXCEPT !.content = data]

FitsDirect(keys) == Len(keys) <= NUM_INODES - 1

SetDirectBlocksClearing(block, keys) ==
  [block EXCEPT !.size = Len(keys),
                !.content = [s \in Slots |-> IF s \in DOMAIN keys THEN keys[s] ELSE None]]

\* set_direct_blocks keeps the pointer to the next inode block.
SetDirectBlocks(block, keys) ==
  [block EXCEPT !.size = Len(keys),
                !.content = [s \in Slots |-> IF s = 0 THEN @[0]
                                             ELSE IF s <= Len(keys) THEN keys[s] ELSE None]]

\* set_next_inode_block keeps the direct blocks.
SetNextInodeBlock(block, key) == [block EXCEPT !.content[0] = key]

\* readInode and readData of the client.
Direct(block) == SubSeq([s \in 1..(NUM_INODES - 1) |-> block.content[s]], 1, block.size)
NextInode(block) == block.content[0]

=============================================================================
