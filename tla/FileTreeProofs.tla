---------------------------- MODULE FileTreeProofs ----------------------------
(***************************************************************************)
(* The safety invariants of FileTree, for any files, calls and lives of    *)
(* the space.                                                              *)
(*                                                                         *)
(* None of them is inductive.  That a root comes after its chunks rests on *)
(* how far a call is through its keys (Progress) and on a key counting as  *)
(* sent only when its transaction is accepted (Landed); that what was set  *)
(* is still there, or what was deleted still gone, on everything that gets *)
(* in the way being noted against the call (Kept); and that a download has *)
(* written what belongs there on the same, for values that it has yet to   *)
(* read (Noted).                                                           *)
(***************************************************************************)
EXTENDS FileTree, SequenceTheorems, TLAPS

Issued(c, k) == TxOf(c, k) \in pending \cup accepted

\* Nothing is known to a call that has not begun, and none begins in the future.
Begun(c) ==
  /\ born[c] <= life
  /\ pc[c] = "idle" => sent[c] = {} /\ \A k \in Keys : ~Issued(c, k)
  /\ pc[c] = "idle" /\ c \in Downloads => out[c] = <<>>

\* Call c has sent the keys before the i-th and has the others still to do.
Through(c, keys, i) ==
  /\ Len(todo[c]) = Len(keys) + 1 - i
  /\ \A j \in 1..Len(todo[c]) : todo[c][j] = keys[i - 1 + j]
  /\ sent[c] = {keys[j] : j \in 1..(i - 1)}
  /\ pc[c] = "done" <=> i = Len(keys) + 1

\* So is an upload or delete that has not failed, with the keys of its root.
Progress(c) ==
  LET keys == KeysInOrder(root[c], FileOf[c]) IN
  c \notin Downloads /\ pc[c] \in {"work", "poll", "done"} =>
    \E i \in 1..(Len(keys) + 1) : Through(c, keys, i)

\* What a call has issued was sent before, or is what it polls for.
Polling(c) ==
  pc[c] \in {"work", "poll"} =>
    \A k \in Keys : Issued(c, k) => k \in sent[c] \/ (pc[c] = "poll" /\ k = Head(todo[c]))

\* What counts as sent is accepted, and a root is issued after its chunks are.
Landed(c) ==
  /\ \A k \in sent[c] : TxOf(c, k) \in accepted
  /\ c \in Uploads => root[c] = FileOf[c]
  /\ c \in Uploads /\ Issued(c, FileOf[c]) =>
       \A k \in ChildKeys(root[c]) : TxOf(c, k) \in accepted

\* If the space has not expired since, what a call has set is there and what it has
\* deleted is not, unless something has got in the way.
Kept(c) ==
  born[c] = life =>
    \A k \in Keys \ touched[c] : TxOf(c, k) \in accepted =>
      IF c \in Uploads THEN k \in DOMAIN store /\ store[k] = k ELSE k \notin DOMAIN store

\* Of any value that is not the one its key belongs to, a download has note.
Noted(c) ==
  c \in Downloads /\ pc[c] # "idle" =>
    \A k \in DOMAIN store : store[k] # k => k \in touched[c]

\* A download has written the first chunks and has the others still to read.
Reading(c) ==
  LET content == Written(root[c]) IN
  c \in Downloads =>
    /\ root[c] # FileOf[c] => FileOf[c] \in touched[c]
    /\ Len(out[c]) <= Len(content)
    /\ \A i \in 1..Len(out[c]) : out[c][i] # content[i] => content[i] \in touched[c]
    /\ pc[c] = "done" => Len(out[c]) = Len(content)
    /\ pc[c] = "work" =>
         /\ todo[c] # <<>> /\ Len(out[c]) + Len(todo[c]) = Len(content)
         /\ \A j \in 1..Len(todo[c]) : todo[c][j] = content[Len(out[c]) + j]

CallInv(c) ==
  /\ Begun(c) /\ Progress(c) /\ Polling(c) /\ Landed(c)
  /\ Kept(c) /\ Noted(c) /\ Reading(c)

Inv == TypeOK /\ \A c \in Calls : CallInv(c)

-----------------------------------------------------------------------------
(* Keys and transactions                                                   *)

LEMMA TxOfInjective ==
  ASSUME NEW c, NEW d, NEW k, NEW l, TxOf(c, k) = TxOf(d, l)
  PROVE  c = d /\ k = l
BY DEF TxOf

\* The keys of a call are those that its root lists, then its own, which is none of
\* them.
LEMMA KeysOfRoot ==
  ASSUME NEW f \in Files, NEW r \in Files
  PROVE  LET n == Len(ChildrenOf(f)) IN
         /\ ChildrenOf(f) \in Seq(Chunks) /\ n \in Nat
         /\ KeysInOrder(f, r) \in Seq(Keys) /\ Len(KeysInOrder(f, r)) = n + 1
         /\ \A j \in 1..n : KeysInOrder(f, r)[j] = ChildrenOf(f)[j]
         /\ KeysInOrder(f, r)[n + 1] = r
         /\ ChildKeys(f) = {ChildrenOf(f)[j] : j \in 1..n}
         /\ r \notin ChildKeys(f) /\ ChildKeys(f) \subseteq Keys /\ r \in Keys
<1> DEFINE children == ChildrenOf(f)
<1>1. children \in Seq(Chunks)
  BY FileTreeAssumption, EmptySeq DEF ChildrenOf
<1>2. /\ Len(children) \in Nat /\ DOMAIN children = 1..Len(children)
      /\ \A j \in 1..Len(children) : children[j] \in Chunks
  BY <1>1, LenProperties, ElementOfSeq
<1>3. children \in Seq(Keys) /\ r \in Keys /\ r \notin Chunks /\ Chunks \subseteq Keys
  BY <1>1, FileTreeAssumption DEF Keys
<1>4. /\ Append(children, r) \in Seq(Keys) /\ Len(Append(children, r)) = Len(children) + 1
      /\ \A j \in 1..Len(children) : Append(children, r)[j] = children[j]
      /\ Append(children, r)[Len(children) + 1] = r
  BY <1>3, AppendProperties
<1>5. ChildKeys(f) = {children[j] : j \in 1..Len(children)}
  BY <1>2 DEF ChildKeys
<1>6. ChildKeys(f) \subseteq Chunks
  BY <1>2, <1>5
<1> QED
  BY <1>1, <1>2, <1>3, <1>4, <1>5, <1>6 DEF KeysInOrder

\* What a download writes are chunks: those its root lists, if it lists any.
LEMMA WrittenIsChunks ==
  ASSUME NEW f \in Files
  PROVE  /\ Written(f) \in Seq(Chunks) /\ Written(f) \in Seq(Values)
         /\ Len(Written(f)) \in Nat
         /\ \A j \in 1..Len(Written(f)) : Written(f)[j] \in Chunks
         /\ ~InRoot(f) => /\ ChildrenOf(f) = Written(f) /\ Written(f) # <<>>
                          /\ Written(f) \in Seq(Keys)
<1>1. <<Zeros>> \in Seq(Chunks)
  BY FileTreeAssumption
<1>2. Written(f) \in Seq(Chunks)
  BY <1>1, FileTreeAssumption DEF Written
<1>3. Chunks \subseteq Keys /\ Chunks \subseteq Values
  BY DEF Keys, Values
<1>4. /\ Len(Written(f)) \in Nat
      /\ \A j \in 1..Len(Written(f)) : Written(f)[j] \in Chunks
  BY <1>2, LenProperties, ElementOfSeq
<1>5. Written(f) \in Seq(Values) /\ Written(f) \in Seq(Keys)
  BY <1>2, <1>3
<1>6. ~InRoot(f) => ChildrenOf(f) = Written(f) /\ Written(f) # <<>>
  BY DEF InRoot, ChildrenOf, Written
<1> QED BY <1>2, <1>4, <1>5, <1>6

\* The i-th of the keys of a file is the next of a call, and rest are those after it.
NextIs(c, i, keys, rest) ==
  /\ Head(todo[c]) = keys[i]
  /\ sent[c] = {keys[j] : j \in 1..(i - 1)}
  /\ Len(rest) = Len(keys) - i
  /\ \A j \in 1..Len(rest) : rest[j] = keys[i + j]
  /\ rest = <<>> <=> i = Len(keys)
  /\ keys[i] = FileOf[c] <=> i = Len(keys)

\* How far a call is that works on its keys.
LEMMA Working ==
  ASSUME Inv, NEW d \in Calls, d \notin Downloads, pc[d] \in {"work", "poll"}
  PROVE  /\ todo[d] # <<>> /\ todo[d] \in Seq(Keys)
         /\ Head(todo[d]) \in Keys /\ Tail(todo[d]) \in Seq(Keys)
         /\ FileOf[d] \in Files /\ root[d] \in Files
         /\ Len(KeysInOrder(root[d], FileOf[d])) \in Nat
         /\ FileOf[d] \notin sent[d]
         /\ Head(todo[d]) = FileOf[d] => ChildKeys(root[d]) \subseteq sent[d]
         /\ \E i \in 1..Len(KeysInOrder(root[d], FileOf[d])) :
              NextIs(d, i, KeysInOrder(root[d], FileOf[d]), Tail(todo[d]))
<1>0. PICK f, r : f = root[d] /\ r = FileOf[d]
  OBVIOUS
<1>1. f \in Files /\ r \in Files
  BY <1>0, FileTreeAssumption DEF Inv, TypeOK
<1>2. PICK keys, n : keys = KeysInOrder(f, r) /\ n = Len(ChildrenOf(f))
  OBVIOUS
<1>3. PICK rest : rest = Tail(todo[d])
  OBVIOUS
<1>4. /\ n \in Nat /\ Len(keys) = n + 1
      /\ keys[n + 1] = r /\ r \notin ChildKeys(f)
      /\ \A j \in 1..n : ChildrenOf(f)[j] = keys[j]
      /\ ChildKeys(f) = {ChildrenOf(f)[j] : j \in 1..n}
  BY <1>1, <1>2, KeysOfRoot
<1>5. ChildKeys(f) = {keys[j] : j \in 1..n}
  BY <1>4
<1>6. todo[d] \in Seq(Keys)
  BY DEF Inv, TypeOK
<1>7. PICK i \in 1..(n + 2) :
        /\ Len(todo[d]) = n + 2 - i
        /\ \A j \in 1..Len(todo[d]) : todo[d][j] = keys[i - 1 + j]
        /\ sent[d] = {keys[j] : j \in 1..(i - 1)}
        /\ pc[d] = "done" <=> i = n + 2
  <2>1. PICK i \in 1..(Len(keys) + 1) : Through(d, keys, i)
    <3>1. Progress(d)
      BY DEF Inv, CallInv
    <3>2. keys = KeysInOrder(root[d], FileOf[d]) /\ pc[d] \in {"work", "poll", "done"}
      BY <1>0, <1>2
    <3> QED
      BY <3>1, <3>2 DEF Progress
  <2> QED
    BY <2>1, <1>4 DEF Through
<1>8. i \in 1..(n + 1) /\ i \in Nat
  BY <1>4, <1>7
<1>9. todo[d] # <<>>
  BY <1>4, <1>7, <1>8, EmptySeq
<1>10. /\ Head(todo[d]) \in Keys /\ Head(todo[d]) = todo[d][1]
       /\ rest \in Seq(Keys) /\ Len(rest) = Len(todo[d]) - 1
       /\ \A j \in 1..Len(rest) : rest[j] = todo[d][j + 1]
  BY <1>3, <1>6, <1>9, HeadTailProperties
<1>11. /\ Head(todo[d]) = keys[i] /\ Len(rest) = n + 1 - i
       /\ \A j \in 1..Len(rest) : rest[j] = keys[i + j]
  <2>1. Head(todo[d]) = keys[i] /\ Len(rest) = n + 1 - i
    BY <1>4, <1>7, <1>8, <1>10
  <2>2. ASSUME NEW j \in 1..Len(rest) PROVE rest[j] = keys[i + j]
    <3>1. j + 1 \in 1..Len(todo[d]) /\ i - 1 + (j + 1) = i + j
      BY <1>4, <1>7, <1>8, <1>10
    <3>2. todo[d][j + 1] = keys[i - 1 + (j + 1)] /\ rest[j] = todo[d][j + 1]
      BY <3>1, <1>7, <1>10
    <3> QED BY <3>1, <3>2
  <2> QED BY <2>1, <2>2
<1>12. rest = <<>> <=> i = n + 1
  <2>1. rest = <<>> <=> Len(rest) = 0
    BY <1>10, EmptySeq
  <2> QED BY <2>1, <1>4, <1>8, <1>11
<1>13. keys[i] = r <=> i = n + 1
  BY <1>4, <1>5, <1>8
<1>14. r \notin sent[d] /\ (keys[i] = r => ChildKeys(f) \subseteq sent[d])
  BY <1>4, <1>5, <1>7, <1>8, <1>13
<1>15. NextIs(d, i, keys, rest)
  BY <1>0, <1>4, <1>7, <1>11, <1>12, <1>13 DEF NextIs
<1> QED
  BY <1>0, <1>1, <1>2, <1>3, <1>4, <1>6, <1>8, <1>9, <1>10, <1>11, <1>14, <1>15

\* A step of one call leaves what is known of the others.
LEMMA OthersKeep ==
  ASSUME Inv, NEW c \in Calls,
         pc'[c] = pc[c], todo'[c] = todo[c], sent'[c] = sent[c], born'[c] = born[c],
         root'[c] = root[c], touched'[c] = touched[c], c \in Downloads => out'[c] = out[c],
         store' = store, owner' = owner, life' = life, accepted' = accepted,
         \A k \in Keys : TxOf(c, k) \in pending' <=> TxOf(c, k) \in pending
  PROVE  CallInv(c)'
<1>1. CallInv(c) /\ FileOf[c] \in Keys
  BY FileTreeAssumption DEF Inv, Keys
<1>2. \A k \in Keys : Issued(c, k)' <=> Issued(c, k)
  BY DEF Issued
<1>3. Begun(c)'
  BY <1>1, <1>2 DEF CallInv, Begun
<1>4. Progress(c)'
  BY <1>1 DEF CallInv, Progress, Through
<1>5. Polling(c)'
  BY <1>1, <1>2 DEF CallInv, Polling
<1>6. Landed(c)'
  BY <1>1, <1>2 DEF CallInv, Landed
<1>7. Kept(c)' /\ Noted(c)'
  BY <1>1, <1>2 DEF CallInv, Kept, Noted
<1>8. Reading(c)'
  BY <1>1 DEF CallInv, Reading
<1> QED
  BY <1>3, <1>4, <1>5, <1>6, <1>7, <1>8 DEF CallInv

\* What a call that starts as an upload or a delete knows of its keys.
LEMMA Started ==
  ASSUME Inv, NEW d \in Calls, d \notin Downloads, NEW f \in Files,
         d \in Uploads => f = FileOf[d],
         Start(d, f), Begin(d, KeysInOrder(f, FileOf[d]))
  PROVE  CallInv(d)'
<1>1. /\ FileOf[d] \in Files /\ FileOf[d] \in Keys
      /\ KeysInOrder(f, FileOf[d]) \in Seq(Keys) /\ Len(KeysInOrder(f, FileOf[d])) \in Nat \ {0}
      /\ ChildKeys(f) \subseteq Keys
  BY FileTreeAssumption, KeysOfRoot
<1>2. TypeOK /\ pc[d] = "idle" /\ sent[d] = {} /\ \A k \in Keys : ~Issued(d, k)
  BY DEF Inv, CallInv, Begun, Start
<1>3. /\ pc'[d] = "work" /\ todo'[d] = KeysInOrder(f, FileOf[d])
      /\ root'[d] = f /\ born'[d] = life /\ sent'[d] = {} /\ life' = life /\ life \in Nat
      /\ \A k \in Keys : ~Issued(d, k)' /\ TxOf(d, k) \notin accepted'
  BY <1>1, <1>2 DEF Start, Begin, TypeOK, Issued, nodeVars
<1>4. Progress(d)'
  <2>1. PICK keys, n : keys = KeysInOrder(f, FileOf[d]) /\ n = Len(keys)
    OBVIOUS
  <2>2. todo'[d] = keys /\ sent'[d] = {} /\ pc'[d] = "work" /\ n \in Nat \ {0} /\ Len(keys) = n
    BY <1>1, <1>3, <2>1
  <2>3. \A j \in 1..n : 1 - 1 + j = j
    BY <2>2
  <2>4. {keys[j] : j \in 1..(1 - 1)} = {} /\ n + 1 - 1 = n /\ 1 # n + 1 /\ 1 \in 1..(n + 1)
    BY <2>2
  <2>5. Through(d, keys, 1)'
    BY <2>2, <2>3, <2>4 DEF Through
  <2> QED
    BY <1>3, <2>1, <2>4, <2>5 DEF Progress
<1>5. Begun(d)' /\ Polling(d)' /\ Landed(d)'
  BY <1>1, <1>3 DEF Begun, Polling, Landed
<1>6. Kept(d)' /\ Noted(d)'
  BY <1>1, <1>3 DEF Kept, Noted
<1>7. Reading(d)'
  BY DEF Reading
<1> QED
  BY <1>4, <1>5, <1>6, <1>7 DEF CallInv

\* Steps of one call that leave the accepted state alone.
LEMMA CallStep ==
  ASSUME Inv, NEW d \in Calls, TypeOK', CallInv(d)',
         UNCHANGED <<store, owner, life, accepted>>,
         \A c \in Calls \ {d} :
           /\ pc'[c] = pc[c] /\ todo'[c] = todo[c] /\ sent'[c] = sent[c]
           /\ root'[c] = root[c] /\ born'[c] = born[c] /\ touched'[c] = touched[c]
           /\ c \in Downloads => out'[c] = out[c],
         \A tx \in pending' \ pending : tx.call = d,
         pending \subseteq pending'
  PROVE  Inv'
<1>1. ASSUME NEW c \in Calls \ {d} PROVE CallInv(c)'
  <2>1. \A k \in Keys : TxOf(c, k) \in pending' <=> TxOf(c, k) \in pending
    BY DEF TxOf
  <2> QED
    BY <2>1, OthersKeep
<1> QED
  BY <1>1 DEF Inv

LEMMA StartUploadInv ==
  ASSUME Inv, NEW d \in Calls, StartUpload(d)
  PROVE  Inv'
<1>1. /\ FileOf[d] \in Files /\ KeysInOrder(FileOf[d], FileOf[d]) \in Seq(Keys)
      /\ d \in Uploads /\ d \notin Downloads
      /\ Start(d, FileOf[d]) /\ Begin(d, KeysInOrder(FileOf[d], FileOf[d])) /\ UNCHANGED out
  BY FileTreeAssumption, KeysOfRoot DEF StartUpload
<1>2. TypeOK'
  BY <1>1 DEF Inv, TypeOK, Start, Begin, nodeVars
<1>3. CallInv(d)'
  BY <1>1, Started
<1> QED
  BY <1>1, <1>2, <1>3, CallStep DEF Start, Begin, nodeVars, Inv, TypeOK

\* A call that has not found a root knows nothing.
LEMMA StartFails ==
  ASSUME Inv, NEW d \in Calls, d \notin Uploads,
         Start(d, FileOf[d]), Fail(d), UNCHANGED <<todo, out>>
  PROVE  Inv'
<1>1. /\ TypeOK /\ pc[d] = "idle" /\ sent[d] = {} /\ \A k \in Keys : ~Issued(d, k)
      /\ d \in Downloads => out[d] = <<>>
      /\ FileOf[d] \in Files /\ FileOf[d] \in Keys
  BY FileTreeAssumption DEF Inv, CallInv, Begun, Start, Keys
<1>2. TypeOK'
  BY <1>1 DEF TypeOK, Start, Fail, nodeVars, IsMap
<1>3. /\ pc'[d] = "failed" /\ sent'[d] = {} /\ root'[d] = FileOf[d]
      /\ born'[d] = life /\ life' = life /\ life \in Nat /\ store' = store
      /\ d \in Downloads => touched'[d] = {k \in DOMAIN store : store[k] # k} /\ out'[d] = <<>>
      /\ \A k \in Keys : ~Issued(d, k)' /\ TxOf(d, k) \notin accepted'
  BY <1>1 DEF Start, Fail, TypeOK, Issued, nodeVars
<1>4. Reading(d)'
  BY <1>1, <1>3, WrittenIsChunks, EmptySeq DEF Reading
<1>5. Begun(d)' /\ Progress(d)' /\ Polling(d)' /\ Landed(d)' /\ Kept(d)' /\ Noted(d)'
  BY <1>1, <1>3 DEF Begun, Progress, Polling, Landed, Kept, Noted
<1> QED
  BY <1>1, <1>2, <1>4, <1>5, CallStep DEF CallInv, Start, Fail, nodeVars, TypeOK

LEMMA StartDeleteInv ==
  ASSUME Inv, NEW d \in Calls, StartDelete(d)
  PROVE  Inv'
<1> DEFINE f == store[FileOf[d]]
<1>1. d \in Deletes /\ d \notin Downloads /\ d \notin Uploads /\ FileOf[d] \in Files
  BY FileTreeAssumption DEF StartDelete
<1>2. CASE ReadsRoot(FileOf[d])
  <2>1. Start(d, f) /\ Begin(d, KeysInOrder(f, FileOf[d])) /\ f \in Files /\ UNCHANGED out
    BY <1>2 DEF StartDelete, ReadsRoot
  <2>2. KeysInOrder(f, FileOf[d]) \in Seq(Keys)
    BY <1>1, <2>1, KeysOfRoot
  <2>3. TypeOK'
    BY <1>1, <2>1, <2>2 DEF Inv, TypeOK, Start, Begin, nodeVars
  <2>4. CallInv(d)'
    BY <1>1, <2>1, Started
  <2> QED
    BY <2>1, <2>3, <2>4, CallStep DEF Start, Begin, nodeVars, Inv, TypeOK
<1>3. CASE ~ReadsRoot(FileOf[d])
  BY <1>1, <1>3, StartFails DEF StartDelete
<1> QED
  BY <1>2, <1>3

\* A root in place of that of the file is noted, and so is any other value that is
\* not the one its key belongs to.
LEMMA StartDownloadInv ==
  ASSUME Inv, NEW d \in Calls, StartDownload(d)
  PROVE  Inv'
<1>0. PICK f, k : f = store[k] /\ k = FileOf[d]
  OBVIOUS
<1>1. k \in Files /\ k \in Keys /\ d \in Downloads /\ d \notin Uploads
  BY <1>0, FileTreeAssumption DEF StartDownload, Keys
<1>2. CASE ~ReadsRoot(k)
  BY <1>0, <1>1, <1>2, StartFails DEF StartDownload
<1>3. CASE ReadsRoot(k)
  <2>1. /\ f \in Files /\ k \in DOMAIN store /\ Start(d, f)
        /\ \/ /\ InRoot(f) /\ pc' = [pc EXCEPT ![d] = "done"]
              /\ out' = [out EXCEPT ![d] = Written(f)] /\ UNCHANGED todo
           \/ ~InRoot(f) /\ Begin(d, ChildrenOf(f)) /\ UNCHANGED out
    BY <1>0, <1>3 DEF StartDownload, ReadsRoot, Resolved
  <2>2. /\ TypeOK /\ pc[d] = "idle" /\ sent[d] = {} /\ out[d] = <<>>
        /\ \A l \in Keys : ~Issued(d, l)
    BY <1>1, <2>1 DEF Inv, CallInv, Begun, Start
  <2>3. /\ Written(f) \in Seq(Values) /\ Len(Written(f)) \in Nat
        /\ ~InRoot(f) => /\ ChildrenOf(f) = Written(f) /\ Written(f) # <<>>
                         /\ ChildrenOf(f) \in Seq(Keys)
    BY <2>1, WrittenIsChunks
  <2>4. TypeOK'
    <3>1. touched' \in [Calls -> SUBSET Keys] /\ root' \in [Calls -> Files]
          /\ born' \in [Calls -> 1..MaxLives] /\ UNCHANGED <<nodeVars, sent>>
      BY <1>1, <2>1, <2>2 DEF TypeOK, Start, IsMap
    <3>2. /\ pc' \in [Calls -> {"idle", "work", "poll", "done", "failed"}]
          /\ todo' \in [Calls -> Seq(Keys)] /\ out' \in [Downloads -> Seq(Values)]
          /\ \A c \in Calls : pc'[c] = "poll" => c \notin Downloads /\ todo'[c] # <<>>
      BY <1>1, <2>1, <2>2, <2>3 DEF TypeOK, Begin
    <3> QED BY <2>2, <3>1, <3>2 DEF TypeOK, nodeVars
  <2>5. /\ sent'[d] = {} /\ root'[d] = f /\ born'[d] = life /\ life' = life /\ life \in Nat
        /\ touched'[d] = {l \in DOMAIN store : store[l] # l} /\ store' = store
        /\ \A l \in Keys : ~Issued(d, l)' /\ TxOf(d, l) \notin accepted'
    BY <1>1, <2>1, <2>2 DEF Start, TypeOK, Issued, nodeVars
  <2>6. f # k => k \in touched'[d]
    BY <1>0, <2>1, <2>5
  <2>7. /\ pc'[d] # "idle"
        /\ \/ pc'[d] = "done" /\ out'[d] = Written(f)
           \/ /\ pc'[d] = "work" /\ out'[d] = <<>>
              /\ todo'[d] = Written(f) /\ todo'[d] # <<>>
    BY <1>1, <2>1, <2>2, <2>3 DEF Begin, TypeOK
  <2>8. Reading(d)'
    <3>1. CASE pc'[d] = "done" /\ out'[d] = Written(f)
      BY <1>0, <2>3, <2>5, <2>6, <3>1 DEF Reading
    <3>2. CASE pc'[d] = "work" /\ out'[d] = <<>> /\ todo'[d] = Written(f) /\ todo'[d] # <<>>
      BY <1>0, <2>3, <2>5, <2>6, <3>2, EmptySeq DEF Reading
    <3> QED BY <2>7, <3>1, <3>2
  <2>9. Begun(d)' /\ Progress(d)' /\ Polling(d)' /\ Landed(d)' /\ Kept(d)' /\ Noted(d)'
    BY <1>0, <1>1, <2>5, <2>7 DEF Begun, Progress, Polling, Landed, Kept, Noted
  <2> QED
    BY <2>1, <2>2, <2>4, <2>8, <2>9, CallStep DEF CallInv, Start, Begin, nodeVars, TypeOK
<1> QED
  BY <1>2, <1>3

-----------------------------------------------------------------------------
(* Uploads and deletes at work                                             *)

\* A call that has sent the first of its remaining keys is one key further.
LEMMA Advanced ==
  ASSUME Inv, NEW d \in Calls, d \notin Downloads, pc[d] \in {"work", "poll"},
         root'[d] = root[d], todo'[d] = Tail(todo[d]), sent'[d] = sent[d] \cup {Head(todo[d])},
         pc'[d] \in {"work", "done"}, pc'[d] = "done" <=> Tail(todo[d]) = <<>>
  PROVE  Progress(d)'
<1>1. PICK keys : keys = KeysInOrder(root[d], FileOf[d])
  OBVIOUS
<1>2. PICK i \in 1..Len(keys) : NextIs(d, i, keys, Tail(todo[d]))
  BY <1>1, Working
<1>3. Len(keys) \in Nat /\ i \in Nat
  BY <1>1, <1>2, Working
<1>4. PICK m : m = i + 1
  OBVIOUS
<1>5. /\ m \in 1..(Len(keys) + 1)
      /\ Len(todo'[d]) = Len(keys) + 1 - m
      /\ pc'[d] = "done" <=> m = Len(keys) + 1
  <2>1. PICK rest, n : rest = Tail(todo[d]) /\ n = Len(keys)
    OBVIOUS
  <2>2. n \in Nat /\ i \in 1..n /\ Len(rest) = n - i /\ (rest = <<>> <=> i = n)
    BY <1>2, <1>3, <2>1 DEF NextIs
  <2>3. m \in 1..(n + 1) /\ Len(rest) = n + 1 - m /\ (m = n + 1 <=> i = n)
    BY <1>4, <2>2
  <2> QED BY <2>1, <2>2, <2>3
<1>6. ASSUME NEW j \in 1..Len(todo'[d]) PROVE todo'[d][j] = keys[m - 1 + j]
  BY <1>2, <1>3, <1>4 DEF NextIs
<1>7. sent'[d] = {keys[j] : j \in 1..(m - 1)}
  <2>1. sent'[d] = {keys[j] : j \in 1..(i - 1)} \cup {keys[i]}
    BY <1>2 DEF NextIs
  <2>2. 1..(m - 1) = 1..(i - 1) \cup {i}
    BY <1>2, <1>3, <1>4
  <2> QED BY <2>1, <2>2
<1>8. Through(d, keys, m)'
  BY <1>5, <1>6, <1>7 DEF Through
<1> QED
  BY <1>1, <1>5, <1>8 DEF Progress

\* A key that comes again is not the last.
LEMMA SkipInv ==
  ASSUME Inv, NEW d \in Calls, Skip(d)
  PROVE  Inv'
<1>1. /\ TypeOK /\ CallInv(d) /\ d \notin Downloads /\ pc[d] = "work"
      /\ pc'[d] = "work" /\ Head(todo[d]) \in sent[d]
      /\ todo' = [todo EXCEPT ![d] = Tail(todo[d])]
      /\ UNCHANGED <<nodeVars, pc, sent, out, root, born, touched>>
  BY DEF Skip, Inv
<1>2. Tail(todo[d]) # <<>>
  BY <1>1, Working DEF NextIs
<1>3. TypeOK'
  BY <1>1, Working DEF TypeOK, nodeVars
<1>4. todo'[d] = Tail(todo[d]) /\ sent'[d] = sent[d] /\ sent[d] = sent[d] \cup {Head(todo[d])}
  BY <1>1 DEF TypeOK
<1>5. Progress(d)'
  BY <1>1, <1>2, <1>4, Advanced
<1>6. \A k \in Keys : Issued(d, k)' <=> Issued(d, k)
  BY <1>1 DEF Issued, nodeVars
<1>7. FileOf[d] \in Keys
  BY FileTreeAssumption DEF Keys
<1>8. Begun(d)' /\ Polling(d)' /\ Landed(d)' /\ Kept(d)' /\ Noted(d)' /\ Reading(d)'
  <2>1. Begun(d)' /\ Polling(d)' /\ Landed(d)'
    BY <1>1, <1>6, <1>7 DEF CallInv, Begun, Polling, Landed, nodeVars
  <2>2. Kept(d)' /\ Noted(d)' /\ Reading(d)'
    BY <1>1, <1>6 DEF CallInv, Kept, Noted, Reading, nodeVars
  <2> QED BY <2>1, <2>2
<1> QED
  BY <1>1, <1>3, <1>5, <1>8, CallStep DEF CallInv, TypeOK, nodeVars

\* The transaction that a call at work is about to issue is a new one, and only
\* the owner of the space can issue it; a root comes when its chunks are accepted.
LEMMA NextTx ==
  ASSUME Inv, NEW d \in Calls, d \notin Downloads, pc[d] = "work",
         Head(todo[d]) \notin sent[d]
  PROVE  /\ Head(todo[d]) \in Keys /\ todo[d] # <<>> /\ FileOf[d] \in Keys
         /\ TxOf(d, Head(todo[d])) \in Tx
         /\ ~Issued(d, Head(todo[d]))
         /\ Head(todo[d]) = FileOf[d] =>
              \A k \in ChildKeys(root[d]) : TxOf(d, k) \in accepted
<1>1. CallInv(d) /\ Head(todo[d]) \in Keys /\ todo[d] # <<>>
  BY Working DEF Inv
<1>2. FileOf[d] \in Keys /\ d \in Uploads \cup Deletes
  BY FileTreeAssumption DEF Keys, Calls
<1>3. ~Issued(d, Head(todo[d]))
  BY <1>1 DEF CallInv, Polling
<1>4. Head(todo[d]) = FileOf[d] => ChildKeys(root[d]) \subseteq sent[d]
  BY Working
<1> QED
  BY <1>1, <1>2, <1>3, <1>4 DEF CallInv, Landed, Tx, TxOf

\* What is known of a call once it has issued its next transaction, whether it hears
\* of it or not.
LEMMA Issuing ==
  ASSUME Inv, NEW d \in Calls, d \notin Downloads, pc[d] = "work",
         Head(todo[d]) \notin sent[d], owner = "me",
         pending' = pending \cup {TxOf(d, Head(todo[d]))},
         UNCHANGED <<store, owner, life, accepted, todo, sent, out, root, born, touched>>,
         \/ pc'[d] = "poll"
         \/ pc'[d] = "failed"
  PROVE  CallInv(d)'
<1>1. /\ CallInv(d) /\ Head(todo[d]) \in Keys /\ FileOf[d] \in Keys
      /\ Head(todo[d]) = FileOf[d] => \A k \in ChildKeys(root[d]) : TxOf(d, k) \in accepted
  BY NextTx DEF Inv
<1>2. \A k \in Keys : Issued(d, k)' <=> Issued(d, k) \/ k = Head(todo[d])
  BY <1>1, TxOfInjective DEF Issued
<1>3. Begun(d)' /\ Polling(d)' /\ Landed(d)'
  BY <1>1, <1>2 DEF CallInv, Begun, Polling, Landed
<1>4. Progress(d)'
  <2>1. CASE pc'[d] = "failed"
    BY <2>1 DEF Progress
  <2>2. CASE pc'[d] = "poll"
    BY <1>1, <2>2 DEF CallInv, Progress, Through
  <2> QED BY <2>1, <2>2
<1>5. Kept(d)' /\ Noted(d)' /\ Reading(d)'
  BY <1>1 DEF CallInv, Kept, Noted, Reading
<1> QED
  BY <1>3, <1>4, <1>5 DEF CallInv

LEMMA IssueInv ==
  ASSUME Inv, NEW d \in Calls, Issue(d)
  PROVE  Inv'
<1>1. /\ TypeOK /\ d \notin Downloads /\ pc[d] = "work" /\ Head(todo[d]) \notin sent[d]
      /\ owner = "me"
      /\ pending' = pending \cup {TxOf(d, Head(todo[d]))}
      /\ pc' = [pc EXCEPT ![d] = "poll"]
      /\ UNCHANGED <<store, owner, life, accepted, todo, sent, out, root, born, touched>>
  BY DEF Issue, Executable, Inv
<1>2. /\ TxOf(d, Head(todo[d])) \in Tx /\ ~Issued(d, Head(todo[d])) /\ todo[d] # <<>>
  BY <1>1, NextTx
<1>3. TypeOK'
  BY <1>1, <1>2 DEF TypeOK, Issued
<1>4. CallInv(d)'
  BY <1>1, Issuing DEF TypeOK
<1>5. TxOf(d, Head(todo[d])).call = d
  BY DEF TxOf
<1> QED
  BY <1>1, <1>3, <1>4, <1>5, CallStep DEF TypeOK

\* A call that fails, or whose context ends, keeps what is known of it.
LEMMA Failing ==
  ASSUME Inv, NEW d \in Calls, Fail(d), pc[d] # "idle",
         UNCHANGED <<nodeVars, todo, sent, out, root, born, touched>>
  PROVE  Inv'
<1>1. TypeOK /\ CallInv(d) /\ pc' = [pc EXCEPT ![d] = "failed"] /\ pc'[d] = "failed"
  BY DEF Inv, Fail, TypeOK
<1>2. TypeOK'
  BY <1>1 DEF TypeOK, nodeVars
<1>3. FileOf[d] \in Keys
  BY FileTreeAssumption DEF Keys
<1>4. \A k \in Keys : Issued(d, k)' <=> Issued(d, k)
  BY DEF Issued, nodeVars
<1>5. Begun(d)' /\ Progress(d)' /\ Polling(d)' /\ Landed(d)'
  BY <1>1, <1>3, <1>4 DEF CallInv, Begun, Progress, Polling, Landed, nodeVars
<1>6. Kept(d)' /\ Noted(d)' /\ Reading(d)'
  BY <1>1, <1>4 DEF CallInv, Kept, Noted, Reading, nodeVars
<1>7. CallInv(d)'
  BY <1>5, <1>6 DEF CallInv
<1> QED
  BY <1>1, <1>2, <1>7, CallStep DEF TypeOK, nodeVars

LEMMA IssueFailsInv ==
  ASSUME Inv, NEW d \in Calls, IssueFails(d)
  PROVE  Inv'
<1>1. /\ TypeOK /\ d \notin Downloads /\ pc[d] = "work" /\ Head(todo[d]) \notin sent[d]
      /\ Fail(d) /\ pc' = [pc EXCEPT ![d] = "failed"]
      /\ UNCHANGED <<store, owner, life, accepted, todo, sent, out, root, born, touched>>
      /\ \/ UNCHANGED pending
         \/ owner = "me" /\ pending' = pending \cup {TxOf(d, Head(todo[d]))}
  BY DEF IssueFails, Executable, Inv, Fail
<1>2. CASE UNCHANGED pending
  BY <1>1, <1>2, Failing DEF nodeVars
<1>3. CASE owner = "me" /\ pending' = pending \cup {TxOf(d, Head(todo[d]))}
  <2>1. TxOf(d, Head(todo[d])) \in Tx /\ ~Issued(d, Head(todo[d])) /\ todo[d] # <<>>
    BY <1>1, NextTx
  <2>2. TypeOK'
    BY <1>1, <1>3, <2>1 DEF TypeOK, Issued
  <2>3. CallInv(d)'
    BY <1>1, <1>3, Issuing DEF TypeOK
  <2>4. TxOf(d, Head(todo[d])).call = d
    BY DEF TxOf
  <2> QED
    BY <1>1, <1>3, <2>2, <2>3, <2>4, CallStep DEF TypeOK
<1> QED
  BY <1>1, <1>2, <1>3

LEMMA GiveUpInv ==
  ASSUME Inv, NEW d \in Calls, GiveUp(d) \/ ReadFails(d)
  PROVE  Inv'
BY Failing DEF GiveUp, ReadFails

\* What was issued last is accepted now.
LEMMA ConfirmInv ==
  ASSUME Inv, NEW d \in Calls, Confirm(d)
  PROVE  Inv'
<1>1. /\ TypeOK /\ CallInv(d) /\ pc[d] = "poll" /\ d \notin Downloads
      /\ TxOf(d, Head(todo[d])) \in accepted
      /\ sent' = [sent EXCEPT ![d] = sent[d] \cup {Head(todo[d])}]
      /\ todo' = [todo EXCEPT ![d] = Tail(todo[d])]
      /\ pc' = [pc EXCEPT ![d] = IF Tail(todo[d]) = <<>> THEN "done" ELSE "work"]
      /\ UNCHANGED <<nodeVars, out, root, born, touched>>
  BY DEF Inv, Confirm, Confirmed, Advance, TypeOK
<1>2. Head(todo[d]) \in Keys /\ Tail(todo[d]) \in Seq(Keys) /\ FileOf[d] \in Keys
  BY <1>1, Working, FileTreeAssumption DEF Keys
<1>3. /\ sent'[d] = sent[d] \cup {Head(todo[d])} /\ todo'[d] = Tail(todo[d])
      /\ pc'[d] \in {"work", "done"}
      /\ pc'[d] = "done" <=> Tail(todo[d]) = <<>>
  BY <1>1 DEF TypeOK
<1>4. TypeOK'
  <2>1. pc' \in [Calls -> {"idle", "work", "poll", "done", "failed"}]
    BY <1>1 DEF TypeOK
  <2>2. \A c \in Calls : pc'[c] = "poll" => c \notin Downloads /\ todo'[c] # <<>>
    BY <1>1, <1>3 DEF TypeOK
  <2>3. todo' \in [Calls -> Seq(Keys)] /\ sent' \in [Calls -> SUBSET Keys]
    BY <1>1, <1>2 DEF TypeOK
  <2> QED BY <1>1, <2>1, <2>2, <2>3 DEF TypeOK, nodeVars
<1>5. Progress(d)'
  BY <1>1, <1>3, Advanced
<1>6. \A k \in Keys : Issued(d, k)' <=> Issued(d, k)
  BY <1>1 DEF Issued, nodeVars
<1>7. Begun(d)' /\ Polling(d)'
  BY <1>1, <1>3, <1>6 DEF CallInv, Begun, Polling, nodeVars
<1>8. Landed(d)'
  BY <1>1, <1>2, <1>3, <1>6 DEF CallInv, Landed, nodeVars
<1>9. Kept(d)' /\ Noted(d)' /\ Reading(d)'
  BY <1>1, <1>6 DEF CallInv, Kept, Noted, Reading, nodeVars
<1>10. CallInv(d)'
  BY <1>5, <1>7, <1>8, <1>9 DEF CallInv
<1> QED
  BY <1>1, <1>4, <1>10, CallStep DEF TypeOK, nodeVars

\* A chunk is the next of the file, or noted as something else in its place.
LEMMA ReadChunkInv ==
  ASSUME Inv, NEW d \in Calls, ReadChunk(d)
  PROVE  Inv'
<1>0. PICK k, content, n, t :
        k = Head(todo[d]) /\ content = Written(root[d]) /\ n = Len(out[d]) /\ t = Len(todo[d])
  OBVIOUS
<1>1. /\ TypeOK /\ CallInv(d) /\ pc[d] = "work" /\ d \in Downloads
      /\ d \notin Uploads /\ d \notin Deletes
      /\ k \in DOMAIN store
      /\ out' = [out EXCEPT ![d] = Append(out[d], store[k])]
      /\ todo' = [todo EXCEPT ![d] = Tail(todo[d])]
      /\ pc' = [pc EXCEPT ![d] = IF Tail(todo[d]) = <<>> THEN "done" ELSE "work"]
      /\ UNCHANGED <<nodeVars, sent, root, born, touched>>
  BY <1>0, FileTreeAssumption DEF Inv, ReadChunk, Write, Resolved, Advance, TypeOK
<1>2. /\ content \in Seq(Chunks) /\ Len(content) \in Nat
      /\ \A j \in 1..Len(content) : content[j] \in Chunks
  BY <1>0, <1>1, WrittenIsChunks DEF TypeOK
<1>3. /\ todo[d] # <<>> /\ n + t = Len(content)
      /\ \A j \in 1..t : todo[d][j] = content[n + j]
      /\ \A j \in 1..n : out[d][j] # content[j] => content[j] \in touched[d]
      /\ root[d] # FileOf[d] => FileOf[d] \in touched[d]
  BY <1>0, <1>1 DEF CallInv, Reading
<1>4. /\ todo[d] \in Seq(Keys) /\ out[d] \in Seq(Values) /\ n \in Nat
  BY <1>0, <1>1, LenProperties DEF TypeOK
<1>5. /\ t \in Nat /\ t > 0
      /\ k = todo[d][1] /\ Tail(todo[d]) \in Seq(Keys) /\ Len(Tail(todo[d])) = t - 1
      /\ \A j \in 1..(t - 1) : Tail(todo[d])[j] = todo[d][j + 1]
  BY <1>0, <1>3, <1>4, HeadTailProperties, LenProperties, EmptySeq
<1>6. k = content[n + 1] /\ n + 1 \in 1..Len(content)
  BY <1>2, <1>3, <1>4, <1>5
<1>7. store[k] \in Values /\ (store[k] # k => k \in touched[d])
  BY <1>1 DEF CallInv, Noted, TypeOK, IsMap
<1>8. /\ Append(out[d], store[k]) \in Seq(Values)
      /\ Len(Append(out[d], store[k])) = n + 1
      /\ \A j \in 1..n : Append(out[d], store[k])[j] = out[d][j]
      /\ Append(out[d], store[k])[n + 1] = store[k]
  BY <1>0, <1>4, <1>7, AppendProperties
<1>9. TypeOK'
  BY <1>1, <1>5, <1>8 DEF TypeOK, nodeVars
<1>10. /\ out'[d] = Append(out[d], store[k]) /\ todo'[d] = Tail(todo[d])
       /\ pc'[d] = IF Tail(todo[d]) = <<>> THEN "done" ELSE "work"
  BY <1>1 DEF TypeOK
<1>11. /\ Len(out'[d]) = n + 1 /\ Len(todo'[d]) = t - 1 /\ n + 1 + (t - 1) = Len(content)
       /\ pc'[d] = "done" => t = 1
       /\ pc'[d] = "work" => todo'[d] # <<>>
  <2>1. Tail(todo[d]) = <<>> => Len(Tail(todo[d])) = 0
    BY EmptySeq
  <2>2. Len(out'[d]) = n + 1
    BY <1>8, <1>10
  <2>3. Len(todo'[d]) = t - 1
    BY <1>5, <1>10
  <2>7. n + 1 + (t - 1) = Len(content)
    <3>1. n + t = Len(content) /\ n \in Nat /\ t \in Nat
      BY <1>3, <1>4, <1>5
    <3> QED BY <3>1
  <2>4. pc'[d] = "done" => Tail(todo[d]) = <<>>
    BY <1>10
  <2>5. pc'[d] = "done" => t = 1
    BY <2>1, <2>4, <1>5
  <2>6. pc'[d] = "work" => todo'[d] # <<>>
    BY <1>10
  <2> QED
    BY <2>2, <2>3, <2>5, <2>6, <2>7
<1>12. Reading(d)'
  <2>1. ASSUME NEW j \in 1..(n + 1), out'[d][j] # content[j] PROVE content[j] \in touched'[d]
    <3>1. CASE j = n + 1
      BY <1>1, <1>6, <1>7, <1>8, <1>10, <2>1, <3>1
    <3>2. CASE j \in 1..n
      BY <1>1, <1>3, <1>8, <1>10, <2>1, <3>2
    <3> QED BY <1>4, <3>1, <3>2
  <2>2. ASSUME NEW j \in 1..(t - 1) PROVE todo'[d][j] = content[n + 1 + j]
    <3>1. j + 1 \in 1..t /\ n + (j + 1) = n + 1 + j
      BY <1>4, <1>5
    <3> QED BY <3>1, <1>3, <1>5, <1>10
  <2>3. n + 1 <= Len(content) /\ (t = 1 => n + 1 = Len(content))
    BY <1>2, <1>3, <1>4, <1>5, <1>6
  <2> QED BY <1>0, <1>1, <1>3, <1>11, <2>1, <2>2, <2>3 DEF Reading
<1>13. \A l \in Keys : Issued(d, l)' <=> Issued(d, l)
  BY <1>1 DEF Issued, nodeVars
<1>14. \A l \in Keys : ~Issued(d, l)
  BY <1>1 DEF TypeOK, Issued, Tx, TxOf
<1>15. Begun(d)' /\ Progress(d)' /\ Polling(d)' /\ Landed(d)'
  BY <1>1, <1>10, <1>13, <1>14 DEF CallInv, Begun, Progress, Polling, Landed, nodeVars
<1>16. Kept(d)' /\ Noted(d)'
  BY <1>1, <1>10, <1>13 DEF CallInv, Kept, Noted, nodeVars
<1>17. CallInv(d)'
  BY <1>12, <1>15, <1>16 DEF CallInv
<1> QED
  BY <1>1, <1>9, <1>17, CallStep DEF TypeOK, nodeVars

-----------------------------------------------------------------------------
(* The node                                                                *)

\* A key that something else gets in the way of is noted, and all other keys are left
\* as they are.
Spared(c) ==
  /\ touched[c] \subseteq touched'[c]
  /\ Noted(c)'
  /\ pc[c] # "idle" => \A k \in Keys \ touched'[c] :
       /\ c \in Uploads /\ k \in DOMAIN store /\ store[k] = k => k \in DOMAIN store' /\ store'[k] = k
       /\ c \in Deletes /\ k \notin DOMAIN store => k \notin DOMAIN store'

LEMMA SetKeySpares ==
  ASSUME Inv, NEW l \in Keys, NEW v \in Values, SetKey(l, v), UNCHANGED callVars
  PROVE  /\ IsMap(store', Keys, Values) /\ touched' \in [Calls -> SUBSET Keys]
         /\ l \in DOMAIN store' /\ store'[l] = v
         /\ \A c \in Calls : Spared(c)
<1>1. /\ TypeOK /\ store' = Put(store, l, v) /\ pc' = pc
      /\ touched' = [c \in Calls |->
           IF pc[c] # "idle" /\ (c \in Deletes \/ v # l) THEN touched[c] \cup {l} ELSE touched[c]]
  BY DEF Inv, SetKey, callVars
<1>2. /\ DOMAIN store' = DOMAIN store \cup {l} /\ store'[l] = v
      /\ \A k \in DOMAIN store : k # l => store'[k] = store[k]
  BY <1>1 DEF Put
<1>3. IsMap(store', Keys, Values)
  BY <1>1, <1>2 DEF TypeOK, IsMap
<1>4. touched' \in [Calls -> SUBSET Keys]
  BY <1>1 DEF TypeOK
<1>5. ASSUME NEW c \in Calls PROVE Spared(c)
  <2>1. /\ touched[c] \subseteq touched'[c]
        /\ pc[c] # "idle" /\ (c \in Deletes \/ v # l) => l \in touched'[c]
    BY <1>1
  <2>2. Noted(c)
    BY DEF Inv, CallInv
  <2>3. Noted(c)'
    BY <1>1, <1>2, <2>1, <2>2 DEF Noted
  <2>4. ASSUME pc[c] # "idle", NEW k \in Keys \ touched'[c]
        PROVE  /\ c \in Uploads /\ k \in DOMAIN store /\ store[k] = k
                    => k \in DOMAIN store' /\ store'[k] = k
               /\ c \in Deletes /\ k \notin DOMAIN store => k \notin DOMAIN store'
    BY <1>2, <2>1, <2>4
  <2> QED BY <2>1, <2>3, <2>4 DEF Spared
<1> QED BY <1>2, <1>3, <1>4, <1>5

LEMMA DeleteKeySpares ==
  ASSUME Inv, NEW l \in Keys, DeleteKey(l), UNCHANGED callVars
  PROVE  /\ IsMap(store', Keys, Values) /\ touched' \in [Calls -> SUBSET Keys]
         /\ l \notin DOMAIN store'
         /\ \A c \in Calls : Spared(c)
<1>1. /\ TypeOK /\ store' = Remove(store, {l}) /\ pc' = pc
      /\ touched' = [c \in Calls |->
           IF pc[c] # "idle" /\ c \in Uploads THEN touched[c] \cup {l} ELSE touched[c]]
  BY DEF Inv, DeleteKey, callVars
<1>2. /\ DOMAIN store' = DOMAIN store \ {l}
      /\ \A k \in DOMAIN store' : store'[k] = store[k]
  BY <1>1 DEF Remove
<1>3. IsMap(store', Keys, Values)
  BY <1>1, <1>2 DEF TypeOK, IsMap
<1>4. touched' \in [Calls -> SUBSET Keys]
  BY <1>1 DEF TypeOK
<1>5. ASSUME NEW c \in Calls PROVE Spared(c)
  <2>1. /\ touched[c] \subseteq touched'[c]
        /\ pc[c] # "idle" /\ c \in Uploads => l \in touched'[c]
    BY <1>1
  <2>2. Noted(c)
    BY DEF Inv, CallInv
  <2>3. Noted(c)'
    BY <1>1, <1>2, <2>1, <2>2 DEF Noted
  <2>4. ASSUME pc[c] # "idle", NEW k \in Keys \ touched'[c]
        PROVE  /\ c \in Uploads /\ k \in DOMAIN store /\ store[k] = k
                    => k \in DOMAIN store' /\ store'[k] = k
               /\ c \in Deletes /\ k \notin DOMAIN store => k \notin DOMAIN store'
    BY <1>2, <2>1, <2>4
  <2> QED BY <2>1, <2>3, <2>4 DEF Spared
<1> QED BY <1>2, <1>3, <1>4, <1>5

\* Where nothing has got in the way, what a call has done stays done, and what has
\* just been accepted for it is done.
LEMMA KeptSpared ==
  ASSUME Inv, NEW c \in Calls, Spared(c), UNCHANGED <<life, callVars>>,
         \A k \in Keys : TxOf(c, k) \in accepted' /\ TxOf(c, k) \notin accepted =>
           /\ TxOf(c, k) \in pending
           /\ IF c \in Uploads THEN k \in DOMAIN store' /\ store'[k] = k ELSE k \notin DOMAIN store'
  PROVE  Kept(c)'
<1>1. TypeOK /\ Begun(c) /\ Kept(c) /\ born' = born
  BY DEF Inv, CallInv, callVars
<1> SUFFICES ASSUME born[c] = life, NEW k \in Keys \ touched'[c], TxOf(c, k) \in accepted'
             PROVE  IF c \in Uploads THEN k \in DOMAIN store' /\ store'[k] = k
                                     ELSE k \notin DOMAIN store'
  BY <1>1 DEF Kept
<1>2. CASE TxOf(c, k) \notin accepted
  BY <1>2
<1>3. CASE TxOf(c, k) \in accepted
  <2>1. c \in Uploads \/ c \in Deletes
    BY <1>1, <1>3 DEF TypeOK, Tx, TxOf
  <2>2. pc[c] # "idle"
    BY <1>1, <1>3 DEF Begun, Issued
  <2>3. k \notin touched[c]
    BY DEF Spared
  <2>4. IF c \in Uploads THEN k \in DOMAIN store /\ store[k] = k ELSE k \notin DOMAIN store
    BY <1>1, <1>3, <2>3 DEF Kept
  <2> QED BY <2>1, <2>2, <2>4 DEF Spared
<1> QED BY <1>2, <1>3

\* The node's steps leave where a call is and what it has issued, and so all that
\* does not speak of the space and of what is accepted.
LEMMA NodeStep ==
  ASSUME Inv, TypeOK',
         UNCHANGED callVars, life' = life \/ life' = life + 1,
         pending' \cup accepted' = pending \cup accepted, accepted \subseteq accepted',
         \A c \in Calls : touched[c] \subseteq touched'[c] /\ Kept(c)' /\ Noted(c)'
  PROVE  Inv'
<1> SUFFICES ASSUME NEW c \in Calls PROVE CallInv(c)'
  BY DEF Inv
<1>1. CallInv(c) /\ FileOf[c] \in Keys
  BY FileTreeAssumption DEF Inv, Keys
<1>2. \A k \in Keys : Issued(c, k)' <=> Issued(c, k)
  BY DEF Issued
<1>3. /\ pc' = pc /\ todo' = todo /\ sent' = sent /\ out' = out /\ root' = root /\ born' = born
      /\ born[c] \in Nat /\ life \in Nat
  BY DEF callVars, Inv, TypeOK
<1>4. Begun(c)'
  BY <1>1, <1>2, <1>3 DEF CallInv, Begun
<1>5. Progress(c)'
  BY <1>1, <1>3 DEF CallInv, Progress, Through
<1>6. Polling(c)'
  BY <1>1, <1>2, <1>3 DEF CallInv, Polling
<1>7. Landed(c)'
  BY <1>1, <1>2, <1>3 DEF CallInv, Landed
<1>8. Reading(c)'
  BY <1>1, <1>3 DEF CallInv, Reading
<1> QED
  BY <1>4, <1>5, <1>6, <1>7, <1>8 DEF CallInv

\* The transaction of a call does what the call wants of the key.
LEMMA AcceptInv ==
  ASSUME Inv, NEW tx \in pending, Accept(tx)
  PROVE  Inv'
<1>0. PICK d, l : d = tx.call /\ l = tx.key
  OBVIOUS
<1>1. /\ TypeOK /\ d \in Uploads \cup Deletes /\ l \in Keys
      /\ \A c, k : TxOf(c, k) = tx <=> c = d /\ k = l
      /\ pending' = pending \ {tx} /\ accepted' = accepted \cup {tx}
      /\ IF d \in Deletes THEN DeleteKey(l) ELSE SetKey(l, l)
      /\ UNCHANGED <<owner, life, callVars>>
  BY <1>0 DEF Inv, TypeOK, Accept, Settle, Tx, TxOf
<1>2. /\ IsMap(store', Keys, Values) /\ touched' \in [Calls -> SUBSET Keys]
      /\ IF d \in Uploads THEN l \in DOMAIN store' /\ store'[l] = l ELSE l \notin DOMAIN store'
      /\ \A c \in Calls : Spared(c)
  <2>1. CASE d \in Deletes
    <3>1. d \notin Uploads
      BY <2>1, FileTreeAssumption
    <3> QED BY <1>1, <2>1, <3>1, DeleteKeySpares
  <2>2. CASE d \notin Deletes
    <3>1. d \in Uploads /\ l \in Values
      BY <1>1, <2>2 DEF Values
    <3> QED BY <1>1, <2>2, <3>1, SetKeySpares
  <2> QED BY <2>1, <2>2
<1>3. TypeOK'
  <2>1. pending' \subseteq Tx /\ accepted' \subseteq Tx /\ pending' \cap accepted' = {}
    BY <1>1 DEF TypeOK
  <2> QED BY <1>1, <1>2, <2>1 DEF TypeOK, callVars
<1>4. ASSUME NEW c \in Calls PROVE touched[c] \subseteq touched'[c] /\ Kept(c)' /\ Noted(c)'
  <2>1. ASSUME NEW k \in Keys, TxOf(c, k) \in accepted', TxOf(c, k) \notin accepted
        PROVE  TxOf(c, k) \in pending /\ c = d /\ k = l
    BY <1>1, <2>1
  <2>2. Kept(c)'
    BY <1>1, <1>2, <2>1, KeptSpared
  <2> QED BY <1>2, <2>2 DEF Spared
<1> QED
  BY <1>1, <1>3, <1>4, NodeStep

\* No call has begun in the life that begins when the space has expired.
LEMMA ExpireInv ==
  ASSUME Inv, Expire
  PROVE  Inv'
<1>1. /\ TypeOK /\ life' = life + 1 /\ life < MaxLives /\ owner' = "nobody"
      /\ store' = [k \in {} |-> Junk]
      /\ UNCHANGED <<pending, accepted, callVars, touched>>
  BY DEF Inv, Expire
<1>2. TypeOK'
  BY <1>1, FileTreeAssumption DEF TypeOK, IsMap, callVars
<1>3. ASSUME NEW c \in Calls PROVE born'[c] # life'
  BY <1>1 DEF Inv, TypeOK, CallInv, Begun, callVars
<1>4. \A c \in Calls : Kept(c)' /\ Noted(c)'
  BY <1>1, <1>3 DEF Kept, Noted
<1> QED
  BY <1>1, <1>2, <1>4, NodeStep

\* It makes no difference to a call whose the space is.
LEMMA OwnerInv ==
  ASSUME Inv, NEW who \in {"me", "other"}, Claim(who) \/ Move(who)
  PROVE  Inv'
<1>1. /\ TypeOK /\ owner' = who
      /\ UNCHANGED <<store, life, pending, accepted, callVars, touched>>
  BY DEF Inv, Claim, Move
<1>2. TypeOK'
  BY <1>1 DEF TypeOK, callVars
<1>3. ASSUME NEW c \in Calls PROVE Kept(c)' /\ Noted(c)'
  <2>1. Kept(c) /\ Noted(c)
    BY DEF Inv, CallInv
  <2> QED
    BY <1>1, <2>1 DEF Kept, Noted, callVars
<1> QED
  BY <1>1, <1>2, <1>3, NodeStep

\* What an owner does by hand gets in the way of a call, and is noted.
LEMMA ByHandInv ==
  ASSUME Inv, NEW kv \in ByHand, SetByHand(kv[1], kv[2]) \/ DeleteByHand(kv[1])
  PROVE  Inv'
<1>1. kv[1] \in Keys /\ kv[2] \in Values
  BY FileTreeAssumption
<1>2. /\ TypeOK /\ UNCHANGED <<owner, life, pending, accepted, callVars>>
      /\ SetKey(kv[1], kv[2]) \/ DeleteKey(kv[1])
  BY DEF Inv, SetByHand, DeleteByHand
<1>3. /\ IsMap(store', Keys, Values) /\ touched' \in [Calls -> SUBSET Keys]
      /\ \A c \in Calls : Spared(c)
  BY <1>1, <1>2, SetKeySpares, DeleteKeySpares
<1>4. TypeOK'
  BY <1>2, <1>3 DEF TypeOK, callVars
<1>5. ASSUME NEW c \in Calls PROVE touched[c] \subseteq touched'[c] /\ Kept(c)' /\ Noted(c)'
  <2>1. Kept(c)'
    BY <1>2, <1>3, KeptSpared
  <2> QED BY <1>3, <2>1 DEF Spared
<1> QED
  BY <1>2, <1>4, <1>5, NodeStep

-----------------------------------------------------------------------------
(* The invariant                                                           *)

LEMMA InitInv == Init => Inv
<1> SUFFICES ASSUME Init PROVE Inv
  OBVIOUS
<1>1. /\ store = [k \in {} |-> Junk] /\ owner = "me" /\ life = 1
      /\ pending = {} /\ accepted = {}
      /\ pc = [c \in Calls |-> "idle"] /\ todo = [c \in Calls |-> <<>>]
      /\ sent = [c \in Calls |-> {}] /\ out = [c \in Downloads |-> <<>>]
      /\ root = FileOf /\ born = [c \in Calls |-> 1] /\ touched = [c \in Calls |-> {}]
  BY DEF Init
<1>2. TypeOK
  BY <1>1, FileTreeAssumption, EmptySeq DEF TypeOK, IsMap
<1>3. ASSUME NEW c \in Calls PROVE CallInv(c)
  <2>1. root[c] = FileOf[c] /\ FileOf[c] \in Files
    BY <1>1, FileTreeAssumption
  <2>2. Len(Written(root[c])) \in Nat /\ Len(<<>>) = 0
    BY <2>1, WrittenIsChunks, EmptySeq
  <2>3. Begun(c) /\ Polling(c) /\ Landed(c)
    BY <1>1, <2>1 DEF Begun, Polling, Landed, Issued
  <2>4. Kept(c) /\ Noted(c) /\ Progress(c)
    BY <1>1 DEF Kept, Noted, Progress
  <2>5. Reading(c)
    BY <1>1, <2>1, <2>2 DEF Reading
  <2> QED BY <2>3, <2>4, <2>5 DEF CallInv
<1> QED BY <1>2, <1>3 DEF Inv

LEMMA NextInv == Inv /\ [Next]_vars => Inv'
<1> SUFFICES ASSUME Inv, [Next]_vars PROVE Inv'
  OBVIOUS
<1>1. ASSUME NEW c \in Calls,
             \/ StartUpload(c) \/ StartDownload(c) \/ StartDelete(c)
             \/ Skip(c) \/ Issue(c) \/ IssueFails(c) \/ Confirm(c) \/ GiveUp(c)
             \/ ReadChunk(c) \/ ReadFails(c)
      PROVE  Inv'
  BY <1>1, StartUploadInv, StartDownloadInv, StartDeleteInv, SkipInv, IssueInv,
     IssueFailsInv, ConfirmInv, GiveUpInv, ReadChunkInv
<1>2. ASSUME NEW tx \in pending, Accept(tx) PROVE Inv'
  BY <1>2, AcceptInv
<1>3. CASE Expire
  BY <1>3, ExpireInv
<1>4. ASSUME NEW who \in {"me", "other"}, Claim(who) \/ Move(who) PROVE Inv'
  BY <1>4, OwnerInv
<1>5. ASSUME NEW kv \in ByHand, SetByHand(kv[1], kv[2]) \/ DeleteByHand(kv[1]) PROVE Inv'
  BY <1>5, ByHandInv
<1>6. CASE UNCHANGED vars
  <2>1. TypeOK'
    BY <1>6 DEF vars, nodeVars, callVars, Inv, TypeOK
  <2>2. \A c \in Calls : CallInv(c)'
    BY <1>6, OthersKeep DEF vars, nodeVars, callVars
  <2> QED BY <2>1, <2>2 DEF Inv
<1> QED
  BY <1>1, <1>2, <1>3, <1>4, <1>5, <1>6 DEF Next

\* The strengthened invariant holds in every behaviour.
THEOREM Invariance == Spec => []Inv
BY InitInv, NextInv, PTL DEF Spec

\* Every call and every transaction is as its type says.
THEOREM TypeCorrect == Spec => []TypeOK
<1>1. Inv => TypeOK
  BY DEF Inv
<1> QED BY <1>1, Invariance, PTL

\* Once the root's transaction exists, nothing of an uploaded file is missing or
\* other than it was, but keys deleted since or set to something else, unless the
\* space has expired: its chunks are accepted (Landed), and what was accepted in
\* this life of the space is there (Kept), whoever owns it by now.
THEOREM RootsAlwaysComplete == Spec => []RootsComplete
<1>1. Inv => RootsComplete
  <2> SUFFICES ASSUME Inv, NEW c \in Uploads,
                      TxOf(c, FileOf[c]) \in pending \cup accepted, born[c] = life,
                      NEW k \in ChildKeys(FileOf[c]) \ touched[c]
               PROVE  k \in DOMAIN store /\ store[k] = k
    BY DEF RootsComplete
  <2>1. c \in Calls /\ FileOf[c] \in Files /\ ChildKeys(FileOf[c]) \subseteq Keys
    BY FileTreeAssumption, KeysOfRoot DEF Calls
  <2>2. TxOf(c, k) \in accepted
    BY <2>1 DEF Inv, CallInv, Landed, Issued
  <2> QED BY <2>1, <2>2 DEF Inv, CallInv, Kept
<1> QED BY <1>1, Invariance, PTL

\* A delete that returns without an error has left nothing under its key and the
\* keys that the root it found lists, but what was set again: it has sent every
\* key (Progress), and what it sent is gone (Kept).
THEOREM DeletesAlwaysComplete == Spec => []DeletesComplete
<1>1. Inv => DeletesComplete
  <2> SUFFICES ASSUME Inv, NEW c \in Deletes, pc[c] = "done", born[c] = life,
                      NEW k \in ChildKeys(root[c]) \cup {FileOf[c]}, k \notin touched[c]
               PROVE  k \notin DOMAIN store
    BY DEF DeletesComplete
  <2>1. PICK f, r, keys, n :
          f = root[c] /\ r = FileOf[c] /\ keys = KeysInOrder(f, r) /\ n = Len(ChildrenOf(f))
    OBVIOUS
  <2>2. /\ c \in Calls /\ c \notin Downloads /\ c \notin Uploads
        /\ f \in Files /\ r \in Files /\ CallInv(c)
    BY <2>1, FileTreeAssumption DEF Calls, Inv, TypeOK
  <2>3. /\ n \in Nat /\ Len(keys) = n + 1 /\ keys[n + 1] = r /\ k \in Keys
        /\ \A j \in 1..n : keys[j] = ChildrenOf(f)[j]
        /\ ChildKeys(f) = {ChildrenOf(f)[j] : j \in 1..n}
    <3>1. /\ n \in Nat /\ Len(keys) = n + 1 /\ keys[n + 1] = r
          /\ \A j \in 1..n : keys[j] = ChildrenOf(f)[j]
          /\ ChildKeys(f) = {ChildrenOf(f)[j] : j \in 1..n}
          /\ ChildKeys(f) \subseteq Keys /\ r \in Keys
      <4>1. /\ Len(ChildrenOf(f)) \in Nat
            /\ Len(KeysInOrder(f, r)) = Len(ChildrenOf(f)) + 1
            /\ KeysInOrder(f, r)[Len(ChildrenOf(f)) + 1] = r
            /\ \A j \in 1..Len(ChildrenOf(f)) : KeysInOrder(f, r)[j] = ChildrenOf(f)[j]
            /\ ChildKeys(f) = {ChildrenOf(f)[j] : j \in 1..Len(ChildrenOf(f))}
            /\ ChildKeys(f) \subseteq Keys /\ r \in Keys
        BY <2>2, KeysOfRoot
      <4> QED BY <4>1, <2>1
    <3>2. k \in ChildKeys(f) \cup {r}
      BY <2>1
    <3> QED BY <3>1, <3>2
  <2>4. PICK i \in 1..(Len(keys) + 1) : Through(c, keys, i)
    BY <2>1, <2>2 DEF CallInv, Progress
  <2>5. sent[c] = {keys[j] : j \in 1..(n + 1)}
    BY <2>3, <2>4 DEF Through
  <2>6. k \in sent[c]
    <3>1. CASE k = r
      BY <2>3, <2>5, <3>1
    <3>2. CASE k \in ChildKeys(f)
      BY <2>3, <2>5, <3>2
    <3> QED BY <2>1, <3>1, <3>2
  <2>7. TxOf(c, k) \in accepted
    BY <2>2, <2>6 DEF CallInv, Landed
  <2> QED BY <2>2, <2>3, <2>7 DEF CallInv, Kept
<1> QED BY <1>1, Invariance, PTL

\* A download writes the chunks of the root it found in order, all of them when it
\* succeeds; the root and the chunks are those of the file, except where a key was
\* set to something else, which nothing checks.
THEOREM DownloadsAlwaysInOrder == Spec => []DownloadInOrder
<1>1. Inv => DownloadInOrder
  BY DEF Inv, CallInv, Reading, DownloadInOrder, Calls
<1> QED BY <1>1, Invariance, PTL

===============================================================================
