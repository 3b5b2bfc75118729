----------------------------- MODULE FileUpload -----------------------------
(***************************************************************************)
(* A file in the blocks of BlockProgram: the client that uploads it and    *)
(* one that downloads it (anchorapp/tests/utils.ts, used by fileclient.js).*)
(*                                                                         *)
(* uploadFile reads the file chunk by chunk and starts, without waiting, a *)
(* promise per data block; at the end it starts one per inode block and    *)
(* waits for all.  The promise of an inode block makes three calls: create *)
(* and set_next_inode_block, which it awaits, and between them             *)
(* set_direct_blocks, which it does not.  A call may take any time and may *)
(* fail.  Chunks are numbered; the accounts of the file are                *)
(* <<"data", i>> and <<"inode", j>>, as the client draws fresh keys.       *)
(***************************************************************************)
EXTENDS Integers, Sequences, Functions, BlockProgram

CONSTANTS
  User, Other,   \* who uploads; somebody else
  MaxChunks      \* bound of the model: chunks of the file

ASSUME UploadAssumption ==
  /\ User # Other /\ MaxChunks \in Nat
  /\ None \notin {<<"inode", j>> : j \in 1..MaxChunks}

VARIABLES
  length,     \* chunks of the file
  accounts,   \* the blocks on chain
  upload,     \* uploadFile: reading, waiting, returned, thrown
  data,       \* the promise of each data block
  inode,      \* the promise of each inode block
  direct,     \* its call that nobody awaits
  download    \* downloadFile: [at, status, rest, next, out]

promises == <<data, inode, direct>>
vars == <<length, accounts, upload, promises, download>>

DataKey(i) == <<"data", i>>
InodeKey(j) == <<"inode", j>>

\* Chunks go PerInode to an inode block; the last one takes what is left.
PerInode == NUM_INODES - 1
InodeCount == (length + PerInode - 1) \div PerInode

\* What each inode block of the file is to hold.
DirectOfOverlapping(j) ==
  LET first == (j - 1) * (PerInode - 1)
      last == IF first + PerInode <= length THEN first + PerInode ELSE length
  IN  [s \in 1..(last - first) |-> DataKey(first + s)]

DirectOf(j) ==
  LET first == (j - 1) * PerInode
      last == IF j * PerInode <= length THEN j * PerInode ELSE length
  IN  [s \in 1..(last - first) |-> DataKey(first + s)]
NextOf(j) == IF j < InodeCount THEN InodeKey(j + 1) ELSE None

NoDownload == [status |-> "none", next |-> None, rest |-> <<>>, out |-> <<>>]

Init ==
  /\ length \in 0..MaxChunks
  /\ accounts = [k \in {} |-> None]
  /\ upload = "reading"
  /\ data = [i \in 1..length |-> "unread"]
  /\ inode = [j \in 1..InodeCount |-> "unborn"]
  /\ direct = [j \in 1..InodeCount |-> "unsent"]
  /\ download = NoDownload

-----------------------------------------------------------------------------
(* The program: an instruction takes effect if the program allows it.  The *)
(* client's own always are, on fresh keys and blocks of its user.          *)

Create(key, user, isInode) ==
  /\ key \notin DOMAIN accounts
  /\ accounts' = [k \in DOMAIN accounts \cup {key} |->
                    IF k = key THEN NewBlock(user, isInode) ELSE accounts[k]]

Change(key, user, isInode, changed) ==
  accounts' = IF key \in DOMAIN accounts /\ May(accounts[key], user, isInode)
              THEN [accounts EXCEPT ![key] = changed] ELSE accounts

-----------------------------------------------------------------------------
(* uploadFile                                                              *)

\* The next chunk is read and the promise of its block is under way.
ReadChunk ==
  \E i \in DOMAIN data :
    /\ upload = "reading"
    /\ data[i] = "unread" /\ \A before \in 1..(i - 1) : data[before] # "unread"
    /\ data' = [data EXCEPT ![i] = "creating"]
    /\ UNCHANGED <<length, accounts, upload, inode, direct, download>>

\* The end of the file: an empty one is refused, for another the inode promises
\* are started all at once.
EndOfFile ==
  /\ upload = "reading" /\ \A i \in DOMAIN data : data[i] # "unread"
  /\ IF length = 0 THEN upload' = "thrown" /\ UNCHANGED inode
     ELSE upload' = "waiting" /\ inode' = [j \in DOMAIN inode |-> "creating"]
  /\ UNCHANGED <<length, accounts, data, direct, download>>

\* The calls of createDataBlock, one after the other.
CreateDataBlock(i) ==
  /\ data[i] = "creating"
  /\ Create(DataKey(i), User, FALSE)
  /\ data' = [data EXCEPT ![i] = "setting"]
  /\ UNCHANGED <<length, upload, inode, direct, download>>

WriteData(i) ==
  /\ data[i] = "setting"
  /\ Change(DataKey(i), User, FALSE, SetData(accounts[DataKey(i)], i))
  /\ data' = [data EXCEPT ![i] = "done"]
  /\ UNCHANGED <<length, upload, inode, direct, download>>

\* createInodeBlock, then setInode: the first of its two calls is sent and left.
CreateInodeBlock(j) ==
  /\ inode[j] = "creating"
  /\ Create(InodeKey(j), User, TRUE)
  /\ inode' = [inode EXCEPT ![j] = "linking"]
  /\ direct' = [direct EXCEPT ![j] = "sent"]
  /\ UNCHANGED <<length, upload, data, download>>

LandDirect(j) ==
  /\ direct[j] = "sent"
  /\ FitsDirect(DirectOf(j))
  /\ Change(InodeKey(j), User, TRUE, SetDirectBlocks(accounts[InodeKey(j)], DirectOf(j)))
  /\ direct' = [direct EXCEPT ![j] = "landed"]
  /\ UNCHANGED <<length, upload, data, inode, download>>

\* A failure that nobody catches may end the process, depending on its version.
LoseDirect(j) ==
  /\ direct[j] = "sent"
  /\ direct' = [direct EXCEPT ![j] = "lost"]
  /\ upload' \in {upload} \cup (IF upload = "returned" THEN {} ELSE {"thrown"})
  /\ UNCHANGED <<length, accounts, data, inode, download>>

LinkNext(j) ==
  /\ inode[j] = "linking"
  /\ Change(InodeKey(j), User, TRUE, SetNextInodeBlock(accounts[InodeKey(j)], NextOf(j)))
  /\ inode' = [inode EXCEPT ![j] = "done"]
  /\ UNCHANGED <<length, upload, data, direct, download>>

\* An awaited call fails: its promise is rejected.
FailData(i) ==
  /\ data[i] \in {"creating", "setting"}
  /\ data' = [data EXCEPT ![i] = "failed"]
  /\ UNCHANGED <<length, accounts, upload, inode, direct, download>>

FailInode(j) ==
  /\ inode[j] \in {"creating", "linking"}
  /\ inode' = [inode EXCEPT ![j] = "failed"]
  /\ UNCHANGED <<length, accounts, upload, data, direct, download>>

AllDone == Range(data) \cup Range(inode) = {"done"}
DataDone == Range(data) = {"done"}

\* Promise.all: returned when all are fulfilled, thrown when one is rejected, also
\* when that happens, unhandled, before the end of the file.
Return ==
  /\ upload = "waiting" /\ AllDone
  /\ upload' = "returned"
  /\ UNCHANGED <<length, accounts, promises, download>>

Throw ==
  /\ upload \in {"reading", "waiting"} /\ "failed" \in Range(data) \cup Range(inode)
  /\ upload' = "thrown"
  /\ UNCHANGED <<length, accounts, promises, download>>

-----------------------------------------------------------------------------
(* downloadFile, with the key that uploadFile has returned                 *)

\* Each fetch is a call of its own; an account that is not there ends it.
ReadInode(key) ==
  IF key \in DOMAIN accounts
  THEN download' = [download EXCEPT !.status = "reading",
                                    !.rest = Direct(accounts[key]),
                                    !.next = NextInode(accounts[key])]
  ELSE download' = [download EXCEPT !.status = "thrown"]

StartDownload ==
  /\ upload = "returned" /\ download.status = "none"
  /\ ReadInode(InodeKey(1))
  /\ UNCHANGED <<length, accounts, upload, promises>>

ReadData ==
  /\ download.status = "reading" /\ download.rest # <<>>
  /\ LET key == Head(download.rest) IN
     download' = IF key \in DOMAIN accounts
                 THEN [download EXCEPT !.rest = Tail(@), !.out = Append(@, accounts[key].content)]
                 ELSE [download EXCEPT !.status = "thrown"]
  /\ UNCHANGED <<length, accounts, upload, promises>>

NextBlock ==
  /\ download.status = "reading" /\ download.rest = <<>>
  /\ IF download.next = None THEN download' = [download EXCEPT !.status = "done"]
     ELSE ReadInode(download.next)
  /\ UNCHANGED <<length, accounts, upload, promises>>

\* Somebody else calls the program with accounts of the file.
Meddle ==
  \E key \in DOMAIN accounts :
    /\ \/ Change(key, Other, FALSE, SetData(accounts[key], Zeros))
       \/ Change(key, Other, TRUE, SetDirectBlocks(accounts[key], <<>>))
       \/ Change(key, Other, TRUE, SetNextInodeBlock(accounts[key], None))
    /\ UNCHANGED <<length, upload, promises, download>>

Next ==
  \/ ReadChunk \/ EndOfFile \/ Return \/ Throw
  \/ \E i \in DOMAIN data : CreateDataBlock(i) \/ WriteData(i) \/ FailData(i)
  \/ \E j \in DOMAIN inode :
       CreateInodeBlock(j) \/ LandDirect(j) \/ LoseDirect(j) \/ LinkNext(j) \/ FailInode(j)
  \/ StartDownload \/ ReadData \/ NextBlock
  \/ Meddle

Spec == Init /\ [][Next]_vars

-----------------------------------------------------------------------------
(* Properties                                                              *)

File == [i \in 1..length |-> i]

\* What the first n inode blocks of the chain hold, and the block after them.
Found[n \in 0..InodeCount] ==
  IF n = 0 THEN [next |-> InodeKey(1), out |-> <<>>]
  ELSE LET before == Found[n - 1] IN
       IF before.next = None THEN before
       ELSE LET keys == Direct(accounts[before.next]) IN
            [next |-> NextInode(accounts[before.next]),
             out |-> before.out \o [s \in DOMAIN keys |-> accounts[keys[s]].content]]

\* The two calls of setInode touch each other's block and may take effect in
\* either order: once both have, the inode block is what was asked for.
InodesSettle ==
  \A j \in DOMAIN inode :
    inode[j] = "done" /\ direct[j] = "landed" =>
      /\ Direct(accounts[InodeKey(j)]) = DirectOf(j)
      /\ NextInode(accounts[InodeKey(j)]) = NextOf(j)

\* Whatever the order in which the calls take effect, once the upload has returned
\* and the calls nobody awaits have landed too, the chain of blocks is the file,
\* for good.
SettledIsFile ==
  upload = "returned" /\ Range(direct) = {"landed"} =>
    Found[InodeCount] = [next |-> None, out |-> File]

\* A download that races with late calls, or comes after lost ones, may miss
\* chunks, but it never fails, and what it writes are chunks of the file with
\* their data, each at most once and in their order.
DownloadInOrder ==
  /\ download.status # "thrown"
  /\ \A i \in DOMAIN download.out : download.out[i] \in 1..length
  /\ \A i, j \in DOMAIN download.out : i < j => download.out[i] < download.out[j]

=============================================================================
