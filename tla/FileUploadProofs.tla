-------------------------- MODULE FileUploadProofs --------------------------
(***************************************************************************)
(* For files of every length and inode blocks of every size: inode blocks  *)
(* settle as they were asked for, then their chain is the file, and what   *)
(* is downloaded before that is chunks of the file in their order.         *)
(***************************************************************************)
EXTENDS FileUpload, SequenceTheorems, Facts

Pointers == {DataKey(i) : i \in Int} \cup {InodeKey(j) : j \in Int} \cup {None}

InodeBlocks ==
  [owner : {User}, isInode : {TRUE}, size : 0..(NUM_INODES - 1), content : [Slots -> Pointers]]

InodeStates == {"unborn", "creating", "linking", "done", "failed"}
DirectStates == {"unsent", "sent", "landed", "lost"}

\* What is known of the j-th inode block and of its two calls: once there is a call
\* the block exists and is the user's, and each call that has taken effect shows,
\* whether or not the other one has.
InodeInv(j) ==
  /\ inode[j] \in {"linking", "done"} => direct[j] # "unsent"
  /\ direct[j] # "unsent" => /\ InodeKey(j) \in DOMAIN accounts
                             /\ accounts[InodeKey(j)] \in InodeBlocks
  /\ direct[j] \in {"sent", "lost"} => Direct(accounts[InodeKey(j)]) = <<>>
  /\ direct[j] = "landed" => Direct(accounts[InodeKey(j)]) = DirectOf(j)
  /\ inode[j] = "done" => NextInode(accounts[InodeKey(j)]) = NextOf(j)

Inv ==
  /\ length \in Nat
  /\ inode \in [1..InodeCount -> InodeStates] /\ direct \in [1..InodeCount -> DirectStates]
  /\ \A j \in 1..InodeCount : InodeInv(j)

-----------------------------------------------------------------------------
(* The instructions on an inode block                                      *)

\* set_direct_blocks stores the keys it is given and keeps the next pointer.
LEMMA DirectStored ==
  ASSUME NEW block \in InodeBlocks, NEW keys \in Seq(Pointers), FitsDirect(keys)
  PROVE  /\ SetDirectBlocks(block, keys) \in InodeBlocks
         /\ Direct(SetDirectBlocks(block, keys)) = keys
         /\ NextInode(SetDirectBlocks(block, keys)) = NextInode(block)
<1> DEFINE new == SetDirectBlocks(block, keys)
           slots == [s \in 1..(NUM_INODES - 1) |-> new.content[s]]
<1>0. /\ NUM_INODES \in Nat \ {0, 1} /\ Len(keys) \in 0..(NUM_INODES - 1)
      /\ keys \in [1..Len(keys) -> Pointers] /\ 0 \in Slots
      /\ \A s \in 1..(NUM_INODES - 1) : s \in Slots
  BY ProgramAssumption, LenProperties DEF FitsDirect, Slots
<1>1. /\ new \in InodeBlocks
      /\ new.size = Len(keys)
      /\ new.content = [s \in Slots |-> IF s = 0 THEN block.content[0]
                                        ELSE IF s <= Len(keys) THEN keys[s] ELSE None]
  <2> DEFINE stored == [s \in Slots |-> IF s = 0 THEN block.content[0]
                                        ELSE IF s <= Len(keys) THEN keys[s] ELSE None]
  <2>1. stored \in [Slots -> Pointers]
    <3>1. block.content \in [Slots -> Pointers] /\ None \in Pointers
      BY DEF InodeBlocks, Pointers
    <3>2. \A s \in Slots : s # 0 /\ s <= Len(keys) => keys[s] \in Pointers
      BY <1>0 DEF Slots
    <3> QED BY <1>0, <3>1, <3>2
  <2>2. new = [block EXCEPT !.size = Len(keys), !.content = stored]
    BY DEF SetDirectBlocks
  <2> HIDE DEF new, stored
  <2>3. new \in InodeBlocks
    BY <1>0, <2>1, <2>2 DEF InodeBlocks
  <2>4. new.size = Len(keys) /\ new.content = stored
    BY <2>2 DEF InodeBlocks
  <2> QED BY <2>3, <2>4 DEF stored
<1> HIDE DEF new
<1>4. \A s \in 1..Len(keys) : slots[s] = keys[s]
  BY <1>0, <1>1 DEF Slots
<1>5. SubSeq(slots, 1, Len(keys)) = [s \in 1..Len(keys) |-> slots[s]]
  BY <1>0
<1>6. SubSeq(slots, 1, Len(keys)) = keys
  BY <1>0, <1>4, <1>5
<1>7. Direct(new) = keys
  BY <1>1, <1>6 DEF Direct
<1>8. NextInode(new) = NextInode(block)
  BY <1>0, <1>1 DEF NextInode
<1> QED BY <1>1, <1>7, <1>8 DEF new

\* set_next_inode_block stores the pointer and keeps the direct blocks.
LEMMA NextStored ==
  ASSUME NEW block \in InodeBlocks, NEW key \in Pointers
  PROVE  /\ SetNextInodeBlock(block, key) \in InodeBlocks
         /\ Direct(SetNextInodeBlock(block, key)) = Direct(block)
         /\ NextInode(SetNextInodeBlock(block, key)) = key
<1> DEFINE new == SetNextInodeBlock(block, key)
<1>0. 0 \in Slots /\ \A s \in 1..(NUM_INODES - 1) : s \in Slots /\ s # 0
  BY ProgramAssumption DEF Slots
<1>1. new = [block EXCEPT !.content = [block.content EXCEPT ![0] = key]]
  BY DEF SetNextInodeBlock
<1>2. new \in InodeBlocks
  BY <1>0, <1>1 DEF InodeBlocks
<1>3. new.content = [block.content EXCEPT ![0] = key] /\ new.size = block.size
  BY <1>1 DEF InodeBlocks
<1>4. \A s \in 1..(NUM_INODES - 1) : new.content[s] = block.content[s]
  BY <1>0, <1>3 DEF InodeBlocks
<1>5. [s \in 1..(NUM_INODES - 1) |-> new.content[s]]
        = [s \in 1..(NUM_INODES - 1) |-> block.content[s]]
  BY <1>4
<1>6. Direct(new) = Direct(block)
  BY <1>3, <1>5 DEF Direct
<1>7. NextInode(new) = key
  BY <1>0, <1>3 DEF NextInode, InodeBlocks
<1> QED BY <1>2, <1>6, <1>7

\* What the client asks for are keys.
LEMMA AskedAreKeys ==
  ASSUME length \in Nat, NEW j \in 1..InodeCount
  PROVE  DirectOf(j) \in Seq(Pointers) /\ NextOf(j) \in Pointers
<1> DEFINE first == (j - 1) * PerInode
           last == IF j * PerInode <= length THEN j * PerInode ELSE length
<1>0. PerInode \in Int /\ j \in Int
  BY ProgramAssumption DEF PerInode
<1>1. first \in Int /\ last \in Int
  BY <1>0
<1>2. DirectOf(j) = [s \in 1..(last - first) |-> DataKey(first + s)]
  BY DEF DirectOf
<1>3. \A s \in 1..(last - first) : DataKey(first + s) \in Pointers
  BY <1>1 DEF Pointers
<1> HIDE DEF first, last
<1>4. DirectOf(j) \in Seq(Pointers)
  <2>1. CASE last - first \in Nat
    BY <1>2, <1>3, <2>1
  <2>2. CASE last - first \notin Nat
    <3>1. 1..(last - first) = 1..0
      BY <1>1, <2>2
    <3>2. DirectOf(j) = [s \in 1..0 |-> DataKey(first + s)]
      BY <1>2, <3>1
    <3>3. [s \in 1..0 |-> DataKey(first + s)] \in Seq(Pointers)
      OBVIOUS
    <3> QED BY <3>2, <3>3
  <2> QED BY <2>1, <2>2
<1>5. NextOf(j) \in Pointers
  BY <1>0 DEF NextOf, Pointers
<1> QED BY <1>4, <1>5

\* The two calls of setInode commute: which of them lands first leaves no trace.
THEOREM CallsCommute ==
  ASSUME NEW block \in InodeBlocks, NEW keys \in Seq(Pointers), FitsDirect(keys),
         NEW key \in Pointers
  PROVE  SetNextInodeBlock(SetDirectBlocks(block, keys), key)
           = SetDirectBlocks(SetNextInodeBlock(block, key), keys)
<1> DEFINE one == SetNextInodeBlock(SetDirectBlocks(block, keys), key)
           two == SetDirectBlocks(SetNextInodeBlock(block, key), keys)
<1>0. 0 \in Slots
  BY ProgramAssumption DEF Slots
<1>1. one \in InodeBlocks /\ two \in InodeBlocks
  BY DirectStored, NextStored
<1>2. one.size = two.size
  BY DEF SetNextInodeBlock, SetDirectBlocks, InodeBlocks
<1>3. \A s \in Slots : one.content[s] = two.content[s]
  BY <1>0 DEF SetNextInodeBlock, SetDirectBlocks, InodeBlocks
<1>4. one.content = two.content
  BY <1>1, <1>3 DEF InodeBlocks
<1> HIDE DEF one, two
<1>5. /\ one = [owner |-> User, isInode |-> TRUE, size |-> one.size, content |-> one.content]
      /\ two = [owner |-> User, isInode |-> TRUE, size |-> two.size, content |-> two.content]
  BY <1>1 DEF InodeBlocks
<1>6. one = two
  BY <1>2, <1>4, <1>5
<1> QED BY <1>6 DEF one, two

-----------------------------------------------------------------------------
(* The invariant                                                           *)

\* Nothing has been created yet.
LEMMA InitInv == Init => Inv
<1> SUFFICES ASSUME Init PROVE Inv
  OBVIOUS
<1>1. /\ length \in Nat /\ inode \in [1..InodeCount -> InodeStates]
      /\ direct \in [1..InodeCount -> DirectStates]
  <2>1. length \in Nat
    BY UploadAssumption DEF Init
  <2>2. inode = [j \in 1..InodeCount |-> "unborn"] /\ direct = [j \in 1..InodeCount |-> "unsent"]
    BY DEF Init
  <2> QED BY <2>1, <2>2 DEF InodeStates, DirectStates
<1>2. \A j \in 1..InodeCount : InodeInv(j)
  BY DEF Init, InodeInv
<1> QED BY <1>1, <1>2 DEF Inv

\* The keys of the accounts of a file differ.
LEMMA KeysDiffer ==
  ASSUME NEW i, NEW j
  PROVE  /\ DataKey(i) # InodeKey(j)
         /\ InodeKey(i) = InodeKey(j) => i = j
BY DEF DataKey, InodeKey

\* A step that leaves the calls of inode blocks alone, and every inode block they
\* have created, keeps the invariant.
LEMMA InodesUntouched ==
  ASSUME Inv, UNCHANGED <<length, inode, direct>>,
         \A j \in 1..InodeCount :
           InodeKey(j) \in DOMAIN accounts =>
             InodeKey(j) \in DOMAIN accounts' /\ accounts'[InodeKey(j)] = accounts[InodeKey(j)]
  PROVE  Inv'
<1>1. InodeCount' = InodeCount /\ \A j : NextOf(j)' = NextOf(j) /\ DirectOf(j)' = DirectOf(j)
  BY DEF InodeCount, NextOf, DirectOf
<1>2. \A j \in 1..InodeCount : InodeInv(j)'
  <2> SUFFICES ASSUME NEW j \in 1..InodeCount PROVE InodeInv(j)'
    OBVIOUS
  <2>1. InodeInv(j)
    BY DEF Inv
  <2>2. inode' = inode /\ direct' = direct
    OBVIOUS
  <2> QED BY <1>1, <2>1, <2>2 DEF InodeInv
<1> QED BY <1>1, <1>2 DEF Inv

\* Every step keeps the invariant.
LEMMA StepInv == Inv /\ [Next]_vars => Inv'
<1> SUFFICES ASSUME Inv, [Next]_vars PROVE Inv'
  OBVIOUS
<1> USE DEF promises, InodeStates, DirectStates
<1>0. /\ length \in Nat /\ InodeCount \in Int
      /\ inode \in [1..InodeCount -> InodeStates] /\ direct \in [1..InodeCount -> DirectStates]
      /\ \A j \in 1..InodeCount : InodeInv(j)
  BY ProgramAssumption DEF Inv, InodeCount, PerInode
<1>1. length' = length /\ InodeCount' = InodeCount
      /\ \A j : NextOf(j)' = NextOf(j) /\ DirectOf(j)' = DirectOf(j)
  <2>1. length' = length
    BY DEF Next, vars, ReadChunk, EndOfFile, Return, Throw, CreateDataBlock, WriteData, FailData,
      CreateInodeBlock, LandDirect, LoseDirect, LinkNext, FailInode, StartDownload, ReadData,
      NextBlock, Meddle
  <2> QED BY <2>1 DEF InodeCount, NextOf, DirectOf
<1>2. CASE UNCHANGED <<accounts, inode, direct>>
  BY <1>1, <1>2, InodesUntouched
<1>3. CASE EndOfFile
  <2>1. /\ accounts' = accounts /\ direct' = direct
        /\ inode' = inode \/ inode' = [j \in DOMAIN inode |-> "creating"]
    BY <1>3 DEF EndOfFile
  <2>2. inode' \in [1..InodeCount -> InodeStates]
    BY <1>0, <2>1
  <2>3. \A j \in 1..InodeCount : InodeInv(j)'
    BY <1>0, <1>1, <2>1 DEF InodeInv
  <2> QED BY <1>0, <1>1, <2>1, <2>2, <2>3 DEF Inv
<1>4. ASSUME NEW i, CreateDataBlock(i) PROVE Inv'
  <2>1. \A j : InodeKey(j) \in DOMAIN accounts =>
          InodeKey(j) \in DOMAIN accounts' /\ accounts'[InodeKey(j)] = accounts[InodeKey(j)]
    BY <1>4, KeysDiffer DEF CreateDataBlock, Create
  <2> QED BY <1>4, <1>1, <2>1, InodesUntouched DEF CreateDataBlock
<1>5. ASSUME NEW i, WriteData(i) PROVE Inv'
  <2>1. \A j : InodeKey(j) \in DOMAIN accounts =>
          InodeKey(j) \in DOMAIN accounts' /\ accounts'[InodeKey(j)] = accounts[InodeKey(j)]
    BY <1>5, KeysDiffer DEF WriteData, Change
  <2> QED BY <1>5, <1>1, <2>1, InodesUntouched DEF WriteData
<1>6. ASSUME NEW j \in 1..InodeCount, CreateInodeBlock(j) PROVE Inv'
  <2>1. /\ inode' = [inode EXCEPT ![j] = "linking"]
        /\ direct' = [direct EXCEPT ![j] = "sent"]
        /\ accounts'[InodeKey(j)] = NewBlock(User, TRUE) /\ InodeKey(j) \in DOMAIN accounts'
        /\ \A k : k # j /\ InodeKey(k) \in DOMAIN accounts =>
             InodeKey(k) \in DOMAIN accounts' /\ accounts'[InodeKey(k)] = accounts[InodeKey(k)]
    BY <1>6, KeysDiffer DEF CreateInodeBlock, Create
  <2>2. NewBlock(User, TRUE) \in InodeBlocks
    <3>1. [s \in Slots |-> None] \in [Slots -> Pointers]
      BY DEF Pointers
    <3> QED BY <3>1, ProgramAssumption DEF NewBlock, InodeBlocks
  <2>5. Direct(NewBlock(User, TRUE)) = <<>>
    BY ProgramAssumption DEF NewBlock, Direct
  <2>3. InodeInv(j)'
    BY <1>0, <2>1, <2>2, <2>5 DEF InodeInv
  <2>4. \A k \in 1..InodeCount \ {j} : InodeInv(k)'
    BY <1>0, <1>1, <2>1 DEF InodeInv
  <2> QED BY <1>0, <1>1, <2>1, <2>3, <2>4 DEF Inv
<1>7. ASSUME NEW j \in 1..InodeCount, LandDirect(j) PROVE Inv'
  <2> DEFINE old == accounts[InodeKey(j)]
             new == SetDirectBlocks(old, DirectOf(j))
  <2>1. InodeKey(j) \in DOMAIN accounts /\ old \in InodeBlocks /\ InodeInv(j)
    BY <1>0, <1>7 DEF LandDirect, InodeInv
  <2>2. May(old, User, TRUE)
    BY <2>1 DEF May, InodeBlocks
  <2>3. /\ accounts' = [accounts EXCEPT ![InodeKey(j)] = new]
        /\ direct' = [direct EXCEPT ![j] = "landed"] /\ inode' = inode
    BY <1>7, <2>1, <2>2 DEF LandDirect, Change
  <2>4. /\ new \in InodeBlocks
        /\ Direct(new) = DirectOf(j) /\ NextInode(new) = NextInode(old)
    BY <1>0, <1>7, <2>1, DirectStored, AskedAreKeys DEF LandDirect
  <2> HIDE DEF new
  <2>5. accounts'[InodeKey(j)] = new /\ DOMAIN accounts' = DOMAIN accounts
        /\ \A k : k # j => accounts'[InodeKey(k)] = accounts[InodeKey(k)]
    <3>1. \A k : k # j => InodeKey(k) # InodeKey(j)
      BY KeysDiffer
    <3> QED BY <2>1, <2>3, <3>1
  <2>6. InodeInv(j)'
    BY <1>0, <1>1, <2>1, <2>3, <2>4, <2>5 DEF InodeInv
  <2>7. \A k \in 1..InodeCount \ {j} : InodeInv(k)'
    BY <1>0, <1>1, <2>3, <2>5 DEF InodeInv
  <2> QED BY <1>0, <1>1, <2>3, <2>6, <2>7 DEF Inv
<1>8. ASSUME NEW j \in 1..InodeCount, LoseDirect(j) PROVE Inv'
  <2>1. accounts' = accounts /\ inode' = inode /\ direct' = [direct EXCEPT ![j] = "lost"]
        /\ direct[j] = "sent"
    BY <1>8 DEF LoseDirect
  <2>2. \A k \in 1..InodeCount : InodeInv(k)'
    BY <1>0, <1>1, <2>1 DEF InodeInv
  <2> QED BY <1>0, <1>1, <2>1, <2>2 DEF Inv
<1>9. ASSUME NEW j \in 1..InodeCount, LinkNext(j) PROVE Inv'
  <2> DEFINE old == accounts[InodeKey(j)]
             new == SetNextInodeBlock(old, NextOf(j))
  <2>1. InodeKey(j) \in DOMAIN accounts /\ old \in InodeBlocks /\ InodeInv(j)
    BY <1>0, <1>9 DEF LinkNext, InodeInv
  <2>2. May(old, User, TRUE)
    BY <2>1 DEF May, InodeBlocks
  <2>3. /\ accounts' = [accounts EXCEPT ![InodeKey(j)] = new]
        /\ inode' = [inode EXCEPT ![j] = "done"] /\ direct' = direct
        /\ inode[j] = "linking"
    BY <1>9, <2>1, <2>2 DEF LinkNext, Change
  <2>4. /\ new \in InodeBlocks
        /\ Direct(new) = Direct(old) /\ NextInode(new) = NextOf(j)
    BY <1>0, <2>1, NextStored, AskedAreKeys
  <2> HIDE DEF new
  <2>5. accounts'[InodeKey(j)] = new /\ DOMAIN accounts' = DOMAIN accounts
        /\ \A k : k # j => accounts'[InodeKey(k)] = accounts[InodeKey(k)]
    <3>1. \A k : k # j => InodeKey(k) # InodeKey(j)
      BY KeysDiffer
    <3> QED BY <2>1, <2>3, <3>1
  <2>6. InodeInv(j)'
    BY <1>0, <1>1, <2>1, <2>3, <2>4, <2>5 DEF InodeInv
  <2>7. \A k \in 1..InodeCount \ {j} : InodeInv(k)'
    BY <1>0, <1>1, <2>3, <2>5 DEF InodeInv
  <2> QED BY <1>0, <1>1, <2>3, <2>6, <2>7 DEF Inv
<1>10. ASSUME NEW j \in 1..InodeCount, FailInode(j) PROVE Inv'
  <2>1. accounts' = accounts /\ direct' = direct /\ inode' = [inode EXCEPT ![j] = "failed"]
    BY <1>10 DEF FailInode
  <2>2. \A k \in 1..InodeCount : InodeInv(k)'
    BY <1>0, <1>1, <2>1 DEF InodeInv
  <2> QED BY <1>0, <1>1, <2>1, <2>2 DEF Inv
<1>11. CASE Meddle
  \* Others may not change a block of the user.
  <2>1. PICK key \in DOMAIN accounts :
          accounts' = accounts \/ (accounts[key].owner = Other /\
            \A k \in DOMAIN accounts :
              k # key => k \in DOMAIN accounts' /\ accounts'[k] = accounts[k])
    BY <1>11 DEF Meddle, Change, May
  <2>2. inode' = inode /\ direct' = direct
    BY <1>11 DEF Meddle
  <2>3. \A j \in 1..InodeCount : direct[j] # "unsent" =>
          InodeKey(j) \in DOMAIN accounts' /\ accounts'[InodeKey(j)] = accounts[InodeKey(j)]
    BY <1>0, <2>1, UploadAssumption DEF InodeInv, InodeBlocks
  <2>4. \A j \in 1..InodeCount : InodeInv(j)'
    BY <1>0, <1>1, <2>2, <2>3 DEF InodeInv
  <2> QED BY <1>0, <1>1, <2>2, <2>4 DEF Inv
<1>12. CASE UNCHANGED vars
  BY <1>2, <1>12 DEF vars
<1>13. CASE ReadChunk \/ Return \/ Throw \/ StartDownload \/ ReadData \/ NextBlock
  BY <1>2, <1>13 DEF ReadChunk, Return, Throw, StartDownload, ReadData, NextBlock
<1>14. ASSUME NEW i, FailData(i) PROVE Inv'
  BY <1>2, <1>14 DEF FailData
<1> QED
  BY <1>0, <1>3, <1>4, <1>5, <1>6, <1>7, <1>8, <1>9, <1>10, <1>11, <1>12, <1>13, <1>14 DEF Next

\* The inductive invariant holds in every reachable state.
THEOREM Invariance == Spec => []Inv
<1>1. Init => Inv
  BY InitInv
<1>2. Inv /\ [Next]_vars => Inv'
  BY StepInv
<1> QED BY <1>1, <1>2, PTL DEF Spec

\* Whichever call lands first, an inode block that has had both is what the upload
\* asked for, in files of any length and whatever others try.
THEOREM InodesSettleAlways == Spec => []InodesSettle
<1>1. Inv => InodesSettle
  BY DEF Inv, InodeInv, InodesSettle
<1>2. Spec => []Inv
  BY Invariance
<1> QED BY <1>1, <1>2, PTL

-----------------------------------------------------------------------------
(* Data blocks and the upload                                              *)

DataBlocks == [owner : {User}, isInode : {FALSE}, size : {0}, content : Int \cup {Zeros}]
DataStates == {"unread", "creating", "setting", "done", "failed"}

\* A data block is the user's once it was created, and holds its chunk in the end.
DataInv(i) ==
  /\ data[i] \in {"setting", "done"} =>
       DataKey(i) \in DOMAIN accounts /\ accounts[DataKey(i)] \in DataBlocks
  /\ data[i] = "done" => accounts[DataKey(i)].content = i

\* An upload that has returned has done all it waits for.
UploadInv ==
  /\ upload \in {"waiting", "returned"} => length # 0
  /\ upload = "returned" => /\ \A i \in 1..length : data[i] = "done"
                            /\ \A j \in 1..InodeCount : inode[j] = "done"

UploadsInv ==
  /\ Inv /\ length <= MaxChunks
  /\ data \in [1..length -> DataStates] /\ \A i \in 1..length : DataInv(i)
  /\ UploadInv

LEMMA UploadsInit == Init => UploadsInv
<1> SUFFICES ASSUME Init PROVE UploadsInv
  OBVIOUS
<1>1. Inv
  BY InitInv
<1>2. data = [i \in 1..length |-> "unread"] /\ upload = "reading" /\ length <= MaxChunks
  BY UploadAssumption DEF Init
<1> QED BY <1>1, <1>2 DEF UploadsInv, DataStates, DataInv, UploadInv

\* A step that leaves the promises of data blocks alone, and the data blocks of
\* the user, keeps what is known of them.
LEMMA DataUntouched ==
  ASSUME UploadsInv, UNCHANGED <<length, data>>,
         \A i \in 1..length :
           DataKey(i) \in DOMAIN accounts /\ accounts[DataKey(i)].owner = User =>
             DataKey(i) \in DOMAIN accounts' /\ accounts'[DataKey(i)] = accounts[DataKey(i)]
  PROVE  data' \in [1..length' -> DataStates] /\ \A i \in 1..length' : DataInv(i)'
<1> SUFFICES ASSUME NEW i \in 1..length PROVE DataInv(i)'
  BY DEF UploadsInv
<1>1. DataInv(i) /\ (accounts[DataKey(i)] \in DataBlocks => accounts[DataKey(i)].owner = User)
  BY DEF UploadsInv, DataBlocks
<1> QED BY <1>1 DEF DataInv

\* Every step keeps what is known of data blocks.
LEMMA DataStep ==
  ASSUME UploadsInv, [Next]_vars
  PROVE  data' \in [1..length' -> DataStates] /\ \A i \in 1..length' : DataInv(i)'
<1> USE DEF promises
<1>1. /\ length \in Nat /\ data \in [1..length -> DataStates] /\ \A i \in 1..length : DataInv(i)
  BY DEF UploadsInv, Inv
<1>2. length' = length
  BY DEF Next, vars, ReadChunk, EndOfFile, Return, Throw, CreateDataBlock, WriteData, FailData,
    CreateInodeBlock, LandDirect, LoseDirect, LinkNext, FailInode, StartDownload, ReadData,
    NextBlock, Meddle
<1>3. CASE UNCHANGED <<accounts, data>>
  BY <1>2, <1>3, DataUntouched
<1>4. ASSUME NEW i \in 1..length, NEW status \in {"creating", "failed"}, accounts' = accounts,
             data' = [data EXCEPT ![i] = status]
      PROVE  data' \in [1..length' -> DataStates] /\ \A k \in 1..length' : DataInv(k)'
  BY <1>1, <1>2, <1>4 DEF DataInv, DataStates
<1>5. CASE ReadChunk
  BY <1>1, <1>4, <1>5 DEF ReadChunk
<1>6. ASSUME NEW i \in 1..length, FailData(i)
      PROVE  data' \in [1..length' -> DataStates] /\ \A k \in 1..length' : DataInv(k)'
  BY <1>4, <1>6 DEF FailData
<1>7. ASSUME NEW i \in 1..length, CreateDataBlock(i)
      PROVE  data' \in [1..length' -> DataStates] /\ \A k \in 1..length' : DataInv(k)'
  <2>1. /\ data' = [data EXCEPT ![i] = "setting"]
        /\ DataKey(i) \in DOMAIN accounts' /\ accounts'[DataKey(i)] = NewBlock(User, FALSE)
        /\ \A k : k # i /\ DataKey(k) \in DOMAIN accounts =>
             DataKey(k) \in DOMAIN accounts' /\ accounts'[DataKey(k)] = accounts[DataKey(k)]
    BY <1>7 DEF CreateDataBlock, Create, DataKey
  <2>2. NewBlock(User, FALSE) \in DataBlocks
    BY DEF NewBlock, DataBlocks
  <2>3. \A k \in 1..length : DataInv(k)'
    BY <1>1, <2>1, <2>2 DEF DataInv
  <2> QED BY <1>1, <1>2, <2>1, <2>3 DEF DataStates
<1>8. ASSUME NEW i \in 1..length, WriteData(i)
      PROVE  data' \in [1..length' -> DataStates] /\ \A k \in 1..length' : DataInv(k)'
  <2> DEFINE old == accounts[DataKey(i)]
             new == SetData(old, i)
  <2>1. DataKey(i) \in DOMAIN accounts /\ old \in DataBlocks
    BY <1>1, <1>8 DEF WriteData, DataInv
  <2>2. May(old, User, FALSE)
    BY <2>1 DEF May, DataBlocks
  <2>3. data' = [data EXCEPT ![i] = "done"] /\ accounts' = [accounts EXCEPT ![DataKey(i)] = new]
    BY <1>8, <2>1, <2>2 DEF WriteData, Change
  <2>4. new \in DataBlocks /\ new.content = i
    <3>1. new = [old EXCEPT !.content = i] /\ i \in Int
      BY <1>1 DEF SetData
    <3> HIDE DEF old, new
    <3>2. new.content = i /\ new \in DataBlocks
      BY <2>1, <3>1 DEF DataBlocks
    <3> QED BY <3>2
  <2> HIDE DEF new
  <2>5. /\ DataKey(i) \in DOMAIN accounts' /\ accounts'[DataKey(i)] = new
        /\ \A k : k # i /\ DataKey(k) \in DOMAIN accounts =>
             DataKey(k) \in DOMAIN accounts' /\ accounts'[DataKey(k)] = accounts[DataKey(k)]
    BY <2>1, <2>3 DEF DataKey
  <2>6. \A k \in 1..length : DataInv(k)'
    BY <1>1, <2>3, <2>4, <2>5 DEF DataInv
  <2> QED BY <1>1, <1>2, <2>3, <2>6 DEF DataStates
<1>9. ASSUME NEW j \in 1..InodeCount, CreateInodeBlock(j) \/ LandDirect(j) \/ LinkNext(j)
      PROVE  data' \in [1..length' -> DataStates] /\ \A k \in 1..length' : DataInv(k)'
  <2>1. data' = data
    BY <1>9 DEF CreateInodeBlock, LandDirect, LinkNext
  <2>2. \A i : DataKey(i) \in DOMAIN accounts =>
          DataKey(i) \in DOMAIN accounts' /\ accounts'[DataKey(i)] = accounts[DataKey(i)]
    BY <1>9, KeysDiffer DEF CreateInodeBlock, LandDirect, LinkNext, Create, Change
  <2> QED BY <1>2, <2>1, <2>2, DataUntouched
<1>10. CASE Meddle
  <2>1. PICK key \in DOMAIN accounts :
          accounts' = accounts \/ (accounts[key].owner = Other /\
            \A k \in DOMAIN accounts :
              k # key => k \in DOMAIN accounts' /\ accounts'[k] = accounts[k])
    BY <1>10 DEF Meddle, Change, May
  <2>2. data' = data
    BY <1>10 DEF Meddle
  <2>3. \A i : DataKey(i) \in DOMAIN accounts /\ accounts[DataKey(i)].owner = User =>
          DataKey(i) \in DOMAIN accounts' /\ accounts'[DataKey(i)] = accounts[DataKey(i)]
    BY <2>1, UploadAssumption
  <2> QED BY <1>2, <2>2, <2>3, DataUntouched
<1>11. CASE EndOfFile \/ Return \/ Throw \/ StartDownload \/ ReadData \/ NextBlock \/ UNCHANGED vars
  BY <1>3, <1>11 DEF EndOfFile, Return, Throw, StartDownload, ReadData, NextBlock, vars
<1>12. ASSUME NEW j \in 1..InodeCount, LoseDirect(j) \/ FailInode(j)
       PROVE  data' \in [1..length' -> DataStates] /\ \A k \in 1..length' : DataInv(k)'
  BY <1>3, <1>12 DEF LoseDirect, FailInode
<1>13. DOMAIN data = 1..length /\ DOMAIN inode = 1..InodeCount
  BY DEF UploadsInv, Inv
<1> QED
  BY <1>5, <1>6, <1>7, <1>8, <1>9, <1>10, <1>11, <1>12, <1>13 DEF Next

LEMMA UploadsStep == UploadsInv /\ [Next]_vars => UploadsInv'
<1> SUFFICES ASSUME UploadsInv, [Next]_vars PROVE UploadsInv'
  OBVIOUS
<1> USE DEF promises
<1>1. Inv'
  BY StepInv DEF UploadsInv
<1>2. DOMAIN data = 1..length /\ DOMAIN inode = 1..InodeCount /\ UploadInv
  BY DEF UploadsInv, Inv
<1>3. length' = length /\ InodeCount' = InodeCount
  <2>1. length' = length
    BY DEF Next, vars, ReadChunk, EndOfFile, Return, Throw, CreateDataBlock, WriteData, FailData,
      CreateInodeBlock, LandDirect, LoseDirect, LinkNext, FailInode, StartDownload, ReadData,
      NextBlock, Meddle
  <2> QED BY <2>1 DEF InodeCount
<1>4. UploadInv'
  <2>1. CASE UNCHANGED <<upload, data, inode>>
    BY <1>2, <1>3, <2>1 DEF UploadInv
  <2>2. CASE EndOfFile \/ Throw
    BY <1>2, <1>3, <2>2 DEF EndOfFile, Throw, UploadInv
  <2>3. CASE Return
    <3>1. upload = "waiting" /\ Range(data) \cup Range(inode) = {"done"}
          /\ UNCHANGED <<length, data, inode>>
      BY <2>3 DEF Return, AllDone
    <3>2. \A i \in 1..length : data[i] = "done"
      BY <1>2, <3>1 DEF Range
    <3>3. \A j \in 1..InodeCount : inode[j] = "done"
      BY <1>2, <3>1 DEF Range
    <3> QED BY <1>2, <1>3, <3>1, <3>2, <3>3 DEF UploadInv
  <2>4. CASE ReadChunk
    BY <1>2, <1>3, <2>4 DEF ReadChunk, UploadInv
  <2>5. ASSUME NEW i \in 1..length, CreateDataBlock(i) \/ WriteData(i) \/ FailData(i)
        PROVE  UploadInv'
    <3>1. data[i] \in {"creating", "setting"} /\ upload' = upload
      BY <2>5 DEF CreateDataBlock, WriteData, FailData
    <3>2. upload # "returned"
      BY <1>2, <3>1 DEF UploadInv
    <3> QED BY <1>2, <1>3, <3>1, <3>2 DEF UploadInv
  <2>6. ASSUME NEW j \in 1..InodeCount, CreateInodeBlock(j) \/ LinkNext(j) \/ FailInode(j)
        PROVE  UploadInv'
    <3>1. inode[j] \in {"creating", "linking"} /\ upload' = upload
      BY <2>6 DEF CreateInodeBlock, LinkNext, FailInode
    <3>2. upload # "returned"
      BY <1>2, <3>1 DEF UploadInv
    <3> QED BY <1>2, <1>3, <3>1, <3>2 DEF UploadInv
  <2>7. ASSUME NEW j \in 1..InodeCount, LandDirect(j)
        PROVE  UploadInv'
    BY <2>1, <2>7 DEF LandDirect
  <2>8. ASSUME NEW j \in 1..InodeCount, LoseDirect(j)
        PROVE  UploadInv'
    BY <1>2, <1>3, <2>8 DEF LoseDirect, UploadInv
  <2>9. CASE StartDownload \/ ReadData \/ NextBlock \/ Meddle \/ UNCHANGED vars
    BY <2>1, <2>9 DEF StartDownload, ReadData, NextBlock, Meddle, vars
  <2> QED
    BY <1>2, <2>2, <2>3, <2>4, <2>5, <2>6, <2>7, <2>8, <2>9 DEF Next
<1> QED BY <1>1, <1>3, <1>4, DataStep DEF UploadsInv

-----------------------------------------------------------------------------
(* The chain of inode blocks                                               *)

\* The chunks before the j-th inode block, and up to its end.
First(j) == (j - 1) * PerInode
Last(j) == IF j * PerInode <= length THEN j * PerInode ELSE length

LEMMA Multiple ==
  ASSUME NEW a \in Nat, NEW p \in Nat \ {0}
  PROVE  a <= a * p
<1>1. a * 1 <= a * p
  OBVIOUS
<1> QED BY <1>1

\* The blocks divide the file: the last one is the first to reach its end.
LEMMA BlockCount ==
  ASSUME length \in Nat \ {0}
  PROVE  /\ PerInode \in Nat \ {0} /\ InodeCount \in Nat \ {0} /\ InodeCount <= length
         /\ (InodeCount - 1) * PerInode < length /\ length <= InodeCount * PerInode
<1> DEFINE p == PerInode
           n == InodeCount
<1>1. p \in Nat \ {0} /\ n = (length + p - 1) \div p
  BY ProgramAssumption DEF PerInode, InodeCount
<1> HIDE DEF p, n
<1>2. n \in Int /\ p * n <= length + p - 1 /\ length + p - 1 < p * n + p
  BY <1>1
<1>3. length <= n * p /\ (n - 1) * p < length
  BY <1>1, <1>2
<1>4. n >= 1
  BY <1>1, <1>2, <1>3
<1>5. n <= length
  <2>1. n - 1 \in Nat
    BY <1>2, <1>4
  <2>2. n - 1 <= (n - 1) * p /\ (n - 1) * p \in Int
    BY <1>1, <2>1, Multiple
  <2> QED BY <1>2, <1>3, <2>1, <2>2
<1> QED BY <1>1, <1>2, <1>3, <1>4, <1>5 DEF p, n

\* What each block of the file is to hold, and where that is in the file.
LEMMA BlockHolds ==
  ASSUME length \in Nat \ {0}, NEW j \in 1..InodeCount
  PROVE  /\ First(j) \in Nat /\ Last(j) \in Nat /\ First(j) < Last(j)
         /\ Last(j) <= length /\ Last(j) <= j * PerInode
         /\ j < InodeCount => Last(j) = First(j + 1)
         /\ j = InodeCount => Last(j) = length
         /\ DirectOf(j) = [s \in 1..(Last(j) - First(j)) |-> DataKey(First(j) + s)]
<1> DEFINE p == PerInode
           n == InodeCount
<1>1. /\ p \in Nat \ {0} /\ n \in Nat \ {0} /\ j \in Int /\ 1 <= j /\ j <= n
      /\ (n - 1) * p < length /\ length <= n * p
  BY BlockCount
<1>2. First(j) = (j - 1) * p /\ Last(j) = (IF j * p <= length THEN j * p ELSE length)
      /\ First(j + 1) = ((j + 1) - 1) * p
  BY DEF First, Last
<1>3. DirectOf(j) = [s \in 1..(Last(j) - First(j)) |-> DataKey(First(j) + s)]
  BY DEF DirectOf, First, Last
<1> HIDE DEF p, n
<1>4. (j - 1) * p \in Nat /\ j * p \in Nat /\ (j - 1) * p < j * p
  BY <1>1
<1>5. (j - 1) * p <= (n - 1) * p /\ (n - 1) * p \in Nat
  BY <1>1
<1>6. j < n => j * p <= (n - 1) * p
  BY <1>1
<1>7. (j + 1) - 1 = j
  BY <1>1
<1>8. /\ First(j) \in Nat /\ Last(j) \in Nat /\ First(j) < Last(j)
      /\ Last(j) <= length /\ Last(j) <= j * p
  BY <1>1, <1>2, <1>4, <1>5
<1>9. j < n => Last(j) = First(j + 1)
  BY <1>1, <1>2, <1>4, <1>5, <1>6, <1>7
<1>10. j = n => Last(j) = length
  BY <1>1, <1>2, <1>4
<1> QED BY <1>3, <1>8, <1>9, <1>10 DEF p, n

\* Reading on from chunk a to chunk b.
LEMMA ReadOn ==
  ASSUME NEW a \in Nat, NEW b \in Nat, a <= b
  PROVE  [i \in 1..a |-> i] \o [s \in 1..(b - a) |-> a + s] = [i \in 1..b |-> i]
<1> DEFINE u == [i \in 1..a |-> i]
           v == [s \in 1..(b - a) |-> a + s]
<1>1. b - a \in Nat /\ u \in [1..a -> Int] /\ v \in [1..(b - a) -> Int]
  OBVIOUS
<1>2. u \in Seq(Int) /\ Len(u) = a /\ v \in Seq(Int) /\ Len(v) = b - a
  <2> HIDE DEF u, v
  <2> QED BY <1>1, ListIsSeq
<1>3. \A i \in 1..a : u[i] = i
  OBVIOUS
<1>4. \A s \in 1..(b - a) : v[s] = a + s
  OBVIOUS
<1> HIDE DEF u, v
<1>5. u \o v \in Seq(Int) /\ Len(u \o v) = b
  BY <1>2
<1>6. \A i \in 1..b : (u \o v)[i] = IF i <= a THEN u[i] ELSE v[i - a]
  BY <1>2
<1>7. \A i \in 1..b : (IF i <= a THEN u[i] ELSE v[i - a]) = i
  BY <1>3, <1>4
<1>8. u \o v \in [1..b -> Int]
  <2> DEFINE w == u \o v
  <2> HIDE DEF w
  <2>1. w \in [1..Len(w) -> Int]
    BY <1>5, LenProperties DEF w
  <2> QED BY <1>5, <2>1 DEF w
<1>9. u \o v = [i \in 1..b |-> i]
  BY <1>6, <1>7, <1>8
<1> QED BY <1>9 DEF u, v

\* The chunk that the s-th pointer of a block leads to, once the upload is done.
LEMMA ChunkAt ==
  ASSUME UploadsInv, upload = "returned", NEW i \in 1..length
  PROVE  DataKey(i) \in DOMAIN accounts /\ accounts[DataKey(i)].content = i
BY DEF UploadsInv, UploadInv, DataInv

\* When all calls have landed, the chain leads through all blocks to the end, and
\* each adds its part of the file.
LEMMA Settled ==
  ASSUME UploadsInv
  PROVE  SettledIsFile
<1> SUFFICES ASSUME upload = "returned", Range(direct) = {"landed"}
             PROVE  Found[InodeCount] = [next |-> None, out |-> File]
  BY DEF SettledIsFile
<1> DEFINE N == InodeCount
           start == [next |-> InodeKey(1), out |-> <<>>]
           After(before) ==
             IF before.next = None THEN before
             ELSE LET keys == Direct(accounts[before.next]) IN
                  [next |-> NextInode(accounts[before.next]),
                   out |-> before.out \o [s \in DOMAIN keys |-> accounts[keys[s]].content]]
           Runs(f) == f = [n \in 0..N |-> IF n = 0 THEN start ELSE After(f[n - 1])]
           Covered(n) == IF n = 0 THEN 0 ELSE Last(n)
           at == [n \in 0..N |-> [next |-> IF n < N THEN InodeKey(n + 1) ELSE None,
                                  out |-> [i \in 1..Covered(n) |-> i]]]
<1>1. /\ length \in Nat \ {0} /\ length <= MaxChunks /\ N \in Nat \ {0} /\ N <= length
  BY BlockCount DEF UploadsInv, Inv, UploadInv
<1>2. ASSUME NEW j \in 1..N
      PROVE  /\ Direct(accounts[InodeKey(j)]) = DirectOf(j)
             /\ NextInode(accounts[InodeKey(j)]) = NextOf(j)
             /\ InodeKey(j) # None
  <2>1. direct[j] = "landed"
    BY DEF UploadsInv, Inv, Range
  <2>2. inode[j] = "done"
    BY DEF UploadsInv, UploadInv
  <2>3. InodeKey(j) # None
    <3>1. j \in 1..MaxChunks
      BY <1>1, UploadAssumption
    <3> QED BY <3>1, UploadAssumption DEF InodeKey
  <2> QED BY <2>1, <2>2, <2>3 DEF UploadsInv, Inv, InodeInv
<1>3. ASSUME NEW n \in 1..N
      PROVE  at[n] = After(at[n - 1])
  <2>1. n - 1 \in 0..N /\ n - 1 < N /\ (n - 1) + 1 = n /\ n \in 0..N
    BY <1>1
  <2>2. at[n - 1] = [next |-> InodeKey(n), out |-> [i \in 1..Covered(n - 1) |-> i]]
    <3> HIDE DEF Covered, N
    <3> QED BY <2>1
  <2>3. Covered(n - 1) = First(n) /\ Covered(n) = Last(n)
    <3>1. n # 0
      BY <1>1
    <3>2. CASE n = 1
      BY <3>1, <3>2, <1>1, BlockCount DEF First
    <3>3. CASE n # 1
      <4>1. n - 1 \in 1..InodeCount /\ n - 1 < InodeCount /\ n - 1 # 0
        BY <1>1, <2>1, <3>3
      <4> QED BY <1>1, <2>1, <3>1, <4>1, BlockHolds
    <3> QED BY <3>2, <3>3
  <2>4. DirectOf(n) = [s \in 1..(Last(n) - First(n)) |-> DataKey(First(n) + s)]
        /\ First(n) \in Nat /\ Last(n) \in Nat /\ First(n) < Last(n) /\ Last(n) <= length
    BY <1>1, BlockHolds
  <2> DEFINE keys == Direct(accounts[InodeKey(n)])
             chunks == [s \in DOMAIN keys |-> accounts[keys[s]].content]
  <2>5. keys = [s \in 1..(Last(n) - First(n)) |-> DataKey(First(n) + s)]
    BY <1>2, <2>4
  <2>6. \A s \in 1..(Last(n) - First(n)) :
          accounts[DataKey(First(n) + s)].content = First(n) + s
    <3> TAKE s \in 1..(Last(n) - First(n))
    <3>1. First(n) + s \in 1..length
      BY <2>4, <1>1
    <3> QED BY <3>1, ChunkAt
  <2>7. chunks = [s \in 1..(Last(n) - First(n)) |-> First(n) + s]
    <3> HIDE DEF keys
    <3> QED BY <2>5, <2>6
  <2>8. [i \in 1..First(n) |-> i] \o chunks = [i \in 1..Last(n) |-> i]
    <3> DEFINE a == First(n)
               b == Last(n)
    <3>1. a \in Nat /\ b \in Nat /\ a <= b
      BY <2>4
    <3>2. chunks = [s \in 1..(b - a) |-> a + s]
      BY <2>7
    <3> HIDE DEF a, b, chunks
    <3>3. [i \in 1..a |-> i] \o chunks = [i \in 1..b |-> i]
      BY <3>1, <3>2, ReadOn
    <3> QED BY <3>3 DEF a, b
  <2>9. After(at[n - 1]) = [next |-> NextOf(n), out |-> [i \in 1..First(n) |-> i] \o chunks]
    <3> DEFINE before == at[n - 1]
    <3>1. before.next = InodeKey(n) /\ before.next # None /\ before.out = [i \in 1..First(n) |-> i]
      <4> HIDE DEF at
      <4> QED BY <1>2, <2>2, <2>3
    <3> HIDE DEF before
    <3>2. After(before) = [next |-> NextInode(accounts[InodeKey(n)]),
                           out |-> before.out \o chunks]
      BY <3>1
    <3> QED BY <1>2, <3>1, <3>2 DEF before
  <2>10. at[n] = [next |-> NextOf(n), out |-> [i \in 1..Last(n) |-> i]]
    <3>1. NextOf(n) = IF n < N THEN InodeKey(n + 1) ELSE None
      BY DEF NextOf
    <3> HIDE DEF Covered, N
    <3> QED BY <2>1, <2>3, <3>1
  <2> QED BY <2>8, <2>9, <2>10
<1>4. at[0] = start
  <2>1. at[0] = [next |-> InodeKey(1), out |-> [i \in 1..0 |-> i]]
    BY <1>1
  <2>2. [i \in 1..0 |-> i] = <<>>
    OBVIOUS
  <2> QED BY <2>1, <2>2
<1> HIDE DEF After, start
<1>5. Runs(at)
  <2>1. at = [n \in 0..N |-> at[n]]
    OBVIOUS
  <2> HIDE DEF at
  <2>2. \A n \in 0..N : at[n] = IF n = 0 THEN start ELSE After(at[n - 1])
    BY <1>1, <1>3, <1>4
  <2> QED BY <2>1, <2>2
<1>6. Runs(Found)
  <2>1. Found = CHOOSE f : Runs(f)
    BY DEF Found, After, start
  <2> HIDE DEF Runs
  <2> QED BY <1>5, <2>1
<1> HIDE DEF at, N
<1> DEFINE T == {n \in 0..N : Found[n] = at[n]}
<1>7. 0 \in T
  BY <1>1, <1>4, <1>6
<1>8. \A n \in 0..(N - 1) : n \in T => n + 1 \in T
  <2> TAKE n \in 0..(N - 1)
  <2>1. n + 1 \in 1..N /\ n + 1 \in 0..N /\ n + 1 # 0 /\ (n + 1) - 1 = n
    BY <1>1
  <2>2. Found[n + 1] = After(Found[n]) /\ at[n + 1] = After(at[n])
    <3>1. Found[n + 1] = IF n + 1 = 0 THEN start ELSE After(Found[(n + 1) - 1])
      BY <1>6, <2>1
    <3>2. at[n + 1] = After(at[(n + 1) - 1])
      BY <1>3, <2>1
    <3> QED BY <2>1, <3>1, <3>2
  <2> QED BY <2>1, <2>2
<1>9. Found[N] = at[N]
  <2>1. 0..N \subseteq T
    <3> HIDE DEF T
    <3> QED BY <1>1, <1>7, <1>8, InductionUpTo
  <2> QED BY <1>1, <2>1
<1>10. at[N] = [next |-> None, out |-> File]
  <2>1. N \in 1..InodeCount /\ N \in 0..N /\ ~(N < N) /\ N # 0
    BY <1>1 DEF N
  <2>2. Last(N) = length
    BY <1>1, <2>1, BlockHolds DEF N
  <2>3. at[N] = [next |-> None, out |-> [i \in 1..Last(N) |-> i]]
    BY <2>1 DEF at
  <2> QED BY <2>2, <2>3 DEF File
<1> QED BY <1>9, <1>10 DEF N

THEOREM UploadsInvariance == Spec => []UploadsInv
BY UploadsInit, UploadsStep, PTL DEF Spec

\* In whatever order the calls of an upload take effect, and whatever others try,
\* once they all have, the chain of inode blocks is the file.
THEOREM SettledIsFileAlways == Spec => []SettledIsFile
BY Settled, UploadsInvariance, PTL

-----------------------------------------------------------------------------
(* Downloads                                                               *)

\* The keys of n data blocks after the c-th.
Keys(c, n) == [s \in 1..n |-> DataKey(c + s)]

Downloads == [status : {"none", "reading", "done"}, next : Pointers,
              rest : Seq(Pointers), out : Seq(Int)]

\* The block being read is the j-th of the chain; after the c-th chunk there are n
\* to read of it, and none that was written is after the c-th.
Reading(j, c, n) ==
  /\ c + n <= length /\ c + n <= j * PerInode
  /\ download.rest = Keys(c, n) /\ download.next = NextOf(j)
  /\ \A i \in DOMAIN download.out : download.out[i] <= c

DownloadInv ==
  /\ download \in Downloads
  /\ download.status # "none" => upload = "returned"
  /\ download.status = "none" => download.out = <<>>
  /\ \A i \in DOMAIN download.out : download.out[i] \in 1..length
  /\ \A i, j \in DOMAIN download.out : i < j => download.out[i] < download.out[j]
  /\ download.status = "reading" =>
       \E j \in 1..InodeCount, c, n \in Nat : Reading(j, c, n)

LEMMA KeysAreSeq ==
  ASSUME NEW c \in Nat, NEW n \in Nat
  PROVE  /\ Keys(c, n) \in Seq(Pointers) /\ Len(Keys(c, n)) = n
         /\ n = 0 <=> Keys(c, n) = <<>>
         /\ n # 0 => Head(Keys(c, n)) = DataKey(c + 1) /\ Tail(Keys(c, n)) = Keys(c + 1, n - 1)
<1> DEFINE keys == Keys(c, n)
<1>1. keys \in [1..n -> Pointers]
  BY DEF Keys, Pointers
<1>2. \A s \in 1..n : keys[s] = DataKey(c + s)
  BY DEF Keys
<1> HIDE DEF keys
<1>3. keys \in Seq(Pointers) /\ Len(keys) = n
  BY <1>1, ListIsSeq
<1>4. n = 0 <=> keys = <<>>
  BY <1>3, EmptySeq
<1>5. ASSUME n # 0
      PROVE  Head(keys) = DataKey(c + 1) /\ Tail(keys) = Keys(c + 1, n - 1)
  <2>1. keys # <<>> /\ 1 \in 1..n
    BY <1>4, <1>5
  <2>2. Head(keys) = keys[1]
    BY <1>3, <2>1
  <2>3. Tail(keys) \in Seq(Pointers) /\ Len(Tail(keys)) = n - 1
        /\ \A s \in 1..(n - 1) : Tail(keys)[s] = keys[s + 1]
    BY <1>3, <2>1, HeadTailProperties
  <2>4. Tail(keys) = [s \in 1..(n - 1) |-> Tail(keys)[s]]
    <3> DEFINE t == Tail(keys)
    <3> HIDE DEF t
    <3>1. t \in [1..(n - 1) -> Pointers]
      BY <2>3, LenProperties DEF t
    <3>2. t = [s \in 1..(n - 1) |-> t[s]]
      BY <3>1
    <3> QED BY <3>2 DEF t
  <2>5. \A s \in 1..(n - 1) : Tail(keys)[s] = DataKey((c + 1) + s)
    <3> TAKE s \in 1..(n - 1)
    <3>1. s + 1 \in 1..n /\ c + (s + 1) = (c + 1) + s
      OBVIOUS
    <3> QED BY <1>2, <2>3, <3>1
  <2>6. Tail(keys) = Keys(c + 1, n - 1)
    <3> HIDE DEF keys
    <3> QED BY <2>4, <2>5 DEF Keys
  <2> QED BY <1>2, <2>1, <2>2, <2>6
<1> QED BY <1>3, <1>4, <1>5 DEF keys

LEMMA DownloadInit == Init => DownloadInv
BY DEF Init, NoDownload, DownloadInv, Downloads, Pointers

\* After the upload, reading the next block of the chain finds its part of the file
\* or, while its call has not landed, nothing.
LEMMA BlockRead ==
  ASSUME UploadsInv, DownloadInv, upload = "returned", NEW j \in 1..InodeCount,
         \A i \in DOMAIN download.out : download.out[i] <= First(j),
         ReadInode(InodeKey(j)), upload' = upload, length' = length
  PROVE  DownloadInv'
<1> DEFINE block == accounts[InodeKey(j)]
           a == First(j)
           b == Last(j)
<1>1. length \in Nat \ {0} /\ inode[j] = "done" /\ direct[j] \in DirectStates /\ InodeInv(j)
      /\ DirectOf(j) \in Seq(Pointers) /\ NextOf(j) \in Pointers
  BY AskedAreKeys DEF UploadsInv, UploadInv, Inv
<1>2. /\ a \in Nat /\ b \in Nat /\ a < b /\ b <= length /\ b <= j * PerInode
      /\ DirectOf(j) = Keys(a, b - a)
      /\ PerInode \in Nat
  BY <1>1, BlockHolds, BlockCount DEF Keys
<1>3. /\ InodeKey(j) \in DOMAIN accounts /\ NextInode(block) = NextOf(j)
      /\ Direct(block) = <<>> \/ Direct(block) = Keys(a, b - a)
  BY <1>1, <1>2 DEF InodeInv, DirectStates
<1>4. download' = [download EXCEPT !.status = "reading", !.rest = Direct(block),
                                   !.next = NextOf(j)]
  BY <1>3 DEF ReadInode
<1>5. PICK n \in {0, b - a} : Direct(block) = Keys(a, n)
  BY <1>2, <1>3, KeysAreSeq
<1> HIDE DEF block, a, b
<1>6. n \in Nat /\ a + n <= length /\ a + n <= j * PerInode
  BY <1>1, <1>2
<1>7. /\ download' \in Downloads /\ download'.status = "reading" /\ download'.out = download.out
      /\ download'.rest = Keys(a, n) /\ download'.next = NextOf(j)
  <2>1. Keys(a, n) \in Seq(Pointers) /\ NextOf(j) \in Pointers /\ download \in Downloads
    BY <1>1, <1>2, <1>6, KeysAreSeq DEF DownloadInv
  <2>2. download' = [download EXCEPT !.status = "reading", !.rest = Keys(a, n), !.next = NextOf(j)]
    BY <1>4, <1>5
  <2> QED BY <2>1, <2>2 DEF Downloads
<1>8. InodeCount' = InodeCount /\ NextOf(j)' = NextOf(j)
  BY DEF InodeCount, NextOf
<1>9. Reading(j, a, n)'
  BY <1>6, <1>7, <1>8 DEF Reading, a
<1> QED BY <1>2, <1>6, <1>7, <1>8, <1>9 DEF DownloadInv

\* Reading the next data block of the file writes a chunk after all those before.
LEMMA ChunkRead ==
  ASSUME UploadsInv, DownloadInv, ReadData
  PROVE  DownloadInv'
<1>1. /\ download.status = "reading" /\ download.rest # <<>> /\ download \in Downloads
      /\ upload = "returned" /\ upload' = upload /\ length' = length
  BY DEF ReadData, DownloadInv
<1>2. PICK j \in 1..InodeCount, c \in Nat, n \in Nat : Reading(j, c, n)
  BY <1>1 DEF DownloadInv
<1>3. /\ n # 0 /\ Head(download.rest) = DataKey(c + 1) /\ Tail(download.rest) = Keys(c + 1, n - 1)
  BY <1>1, <1>2, KeysAreSeq DEF Reading
<1>4. /\ length \in Nat /\ c + n <= length /\ c + n <= j * PerInode /\ c + 1 \in 1..length
      /\ j * PerInode \in Int
  BY <1>1, <1>2, <1>3, BlockCount DEF Reading, UploadsInv, UploadInv, Inv
<1>5. DataKey(c + 1) \in DOMAIN accounts /\ accounts[DataKey(c + 1)].content = c + 1
  BY <1>1, <1>4, ChunkAt
<1>6. download' = [download EXCEPT !.rest = Keys(c + 1, n - 1), !.out = Append(download.out, c + 1)]
  BY <1>3, <1>5 DEF ReadData
<1> DEFINE old == download.out
           new == Append(old, c + 1)
<1>7. /\ old \in Seq(Int) /\ new \in Seq(Int) /\ Len(new) = Len(old) + 1
      /\ \A i \in 1..Len(old) : new[i] = old[i]
      /\ new[Len(old) + 1] = c + 1
      /\ DOMAIN old = 1..Len(old) /\ DOMAIN new = 1..Len(new) /\ Len(old) \in Nat
      /\ \A i \in 1..Len(old) : old[i] \in Int
  <2>1. old \in Seq(Int) /\ c + 1 \in Int
    BY <1>1 DEF Downloads
  <2> HIDE DEF old
  <2> QED BY <2>1, AppendProperties, LenProperties
<1>8. /\ download' \in Downloads /\ download'.status = "reading" /\ download'.out = new
      /\ download'.rest = Keys(c + 1, n - 1) /\ download'.next = download.next
  <2>1. Keys(c + 1, n - 1) \in Seq(Pointers)
    BY <1>3, KeysAreSeq
  <2> HIDE DEF new
  <2> QED BY <1>1, <1>6, <1>7, <2>1 DEF Downloads, new
<1>9. \A i \in 1..Len(old) : old[i] <= c /\ old[i] \in 1..length
  BY <1>2, <1>7 DEF Reading, DownloadInv
<1>10. \A i, k \in 1..Len(old) : i < k => old[i] < old[k]
  BY <1>7 DEF DownloadInv
<1> HIDE DEF old, new
<1>11. /\ \A i \in DOMAIN new : new[i] \in 1..length /\ new[i] <= c + 1
       /\ \A i, k \in DOMAIN new : i < k => new[i] < new[k]
  <2>1. \A i \in DOMAIN new : i \in 1..Len(old) \/ i = Len(old) + 1
    BY <1>7
  <2>2. ASSUME NEW i \in DOMAIN new
        PROVE  new[i] \in 1..length /\ new[i] <= c + 1
    <3>1. CASE i \in 1..Len(old)
      BY <1>4, <1>7, <1>9, <3>1
    <3>2. CASE i = Len(old) + 1
      BY <1>4, <1>7, <3>2
    <3> QED BY <2>1, <3>1, <3>2
  <2>3. ASSUME NEW i \in DOMAIN new, NEW k \in DOMAIN new, i < k
        PROVE  new[i] < new[k]
    <3>1. i \in 1..Len(old)
      BY <1>7, <2>1, <2>3
    <3>2. CASE k \in 1..Len(old)
      BY <1>7, <1>10, <2>3, <3>1, <3>2
    <3>3. CASE k = Len(old) + 1
      BY <1>7, <1>9, <3>1, <3>3
    <3> QED BY <2>1, <3>2, <3>3
  <2> QED BY <2>2, <2>3
<1>12. InodeCount' = InodeCount /\ NextOf(j)' = NextOf(j)
  BY <1>1 DEF InodeCount, NextOf
<1>13. Reading(j, c + 1, n - 1)'
  <2>1. (c + 1) + (n - 1) = c + n
    OBVIOUS
  <2> QED BY <1>1, <1>2, <1>4, <1>8, <1>11, <1>12, <2>1 DEF Reading
<1>14. c + 1 \in Nat /\ n - 1 \in Nat
  BY <1>3
<1> QED BY <1>1, <1>8, <1>11, <1>12, <1>13, <1>14 DEF DownloadInv

LEMMA DownloadStep ==
  ASSUME UploadsInv, DownloadInv, [Next]_vars
  PROVE  DownloadInv'
<1> USE DEF promises
<1>1. length' = length /\ InodeCount' = InodeCount
  <2>1. length' = length
    BY DEF Next, vars, ReadChunk, EndOfFile, Return, Throw, CreateDataBlock, WriteData, FailData,
      CreateInodeBlock, LandDirect, LoseDirect, LinkNext, FailInode, StartDownload, ReadData,
      NextBlock, Meddle
  <2> QED BY <2>1 DEF InodeCount
<1>2. ASSUME download' = download, upload = "returned" => upload' = upload
      PROVE  DownloadInv'
  <2>1. \A j, c, n : Reading(j, c, n) => Reading(j, c, n)'
    BY <1>1, <1>2 DEF Reading, NextOf
  <2> QED BY <1>1, <1>2, <2>1 DEF DownloadInv
<1>3. CASE StartDownload
  <2>1. /\ upload = "returned" /\ ReadInode(InodeKey(1)) /\ upload' = upload
        /\ download.out = <<>>
    BY <1>3 DEF StartDownload, DownloadInv
  <2>2. 1 \in 1..InodeCount
    BY <2>1, BlockCount DEF UploadsInv, UploadInv, Inv
  <2> QED BY <1>1, <2>1, <2>2, BlockRead
<1>4. CASE NextBlock
  <2>1. /\ download.status = "reading" /\ download.rest = <<>> /\ upload = "returned"
        /\ upload' = upload /\ download \in Downloads
    BY <1>4 DEF NextBlock, DownloadInv
  <2>2. CASE download.next = None
    <3>1. download' = [download EXCEPT !.status = "done"]
      BY <1>4, <2>2 DEF NextBlock
    <3>2. /\ download' \in Downloads /\ download'.status = "done"
          /\ download'.out = download.out
      BY <2>1, <3>1 DEF Downloads
    <3> QED BY <1>1, <2>1, <3>2 DEF DownloadInv
  <2>3. CASE download.next # None
    <3>1. PICK j \in 1..InodeCount, c \in Nat, n \in Nat : Reading(j, c, n)
      BY <2>1 DEF DownloadInv
    <3>2. n = 0
      <4>1. Keys(c, n) = <<>>
        BY <2>1, <3>1 DEF Reading
      <4> QED BY <4>1, KeysAreSeq
    <3>3. j < InodeCount /\ download.next = InodeKey(j + 1)
      BY <2>3, <3>1 DEF Reading, NextOf
    <3>4. length \in Nat \ {0} /\ InodeCount \in Nat
      BY <2>1, BlockCount DEF UploadsInv, UploadInv, Inv
    <3>5. j + 1 \in 1..InodeCount /\ c <= First(j + 1)
      <4>1. Last(j) = First(j + 1)
        BY <3>3, <3>4, BlockHolds
      <4>2. c <= Last(j)
        BY <3>1, <3>2, <3>4 DEF Reading, Last
      <4> QED BY <3>3, <3>4, <4>1, <4>2
    <3>6. First(j + 1) \in Nat /\ \A i \in DOMAIN download.out : download.out[i] \in Int
      BY <2>1, <3>4, <3>5, BlockHolds DEF DownloadInv
    <3>7. \A i \in DOMAIN download.out : download.out[i] <= First(j + 1)
      BY <3>1, <3>5, <3>6 DEF Reading
    <3>8. ReadInode(InodeKey(j + 1))
      BY <1>4, <2>3, <3>3 DEF NextBlock
    <3> QED BY <1>1, <2>1, <3>5, <3>7, <3>8, BlockRead
  <2> QED BY <2>2, <2>3
<1>5. CASE ReadData
  BY <1>5, ChunkRead
<1>6. CASE ReadChunk \/ EndOfFile \/ Return \/ Throw \/ Meddle \/ UNCHANGED vars
  BY <1>2, <1>6 DEF ReadChunk, EndOfFile, Return, Throw, Meddle, vars
<1>7. ASSUME NEW i, CreateDataBlock(i) \/ WriteData(i) \/ FailData(i)
      PROVE  DownloadInv'
  BY <1>2, <1>7 DEF CreateDataBlock, WriteData, FailData
<1>8. ASSUME NEW j, CreateInodeBlock(j) \/ LandDirect(j) \/ LoseDirect(j) \/ LinkNext(j)
                    \/ FailInode(j)
      PROVE  DownloadInv'
  BY <1>2, <1>8 DEF CreateInodeBlock, LandDirect, LoseDirect, LinkNext, FailInode
<1> QED BY <1>3, <1>4, <1>5, <1>6, <1>7, <1>8 DEF Next

\* A download that runs while the calls nobody awaits are still on their way, or
\* after some were lost, never fails, and writes chunks of the file in their order.
THEOREM DownloadInOrderAlways == Spec => []DownloadInOrder
<1>1. Init => DownloadInv
  BY DownloadInit
<1>2. UploadsInv /\ DownloadInv /\ [Next]_vars => DownloadInv'
  BY DownloadStep
<1>3. DownloadInv => DownloadInOrder
  BY DEF DownloadInv, DownloadInOrder, Downloads
<1> QED BY <1>1, <1>2, <1>3, UploadsInvariance, PTL DEF Spec

=============================================================================
