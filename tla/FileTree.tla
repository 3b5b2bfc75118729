------------------------------- MODULE FileTree -------------------------------
(***************************************************************************)
(* Files kept as a tree of values of one space: tree.Upload, tree.Download *)
(* and tree.Delete over the polling client (tree/tree.go, client/helper.go,*)
(* client/client.go) and the calls of the service they rest on.            *)
(*                                                                         *)
(* A chunk is stored under the hash of its bytes and a root under the hash *)
(* of its own, so a value is named here by its hash: the value that belongs*)
(* under key k is k itself, and the root of file f is called f.  Every     *)
(* value is written by a transaction of its own, which the client issues   *)
(* and then polls for.  Between two of them anything may happen: a request *)
(* fails, the caller's context ends, the node drops the transaction or     *)
(* executes it much later, another call touches the same chunks, the space *)
(* moves to another account or expires and is claimed again, or its owner, *)
(* whoever that is, sets and deletes keys of the tree without these calls. *)
(***************************************************************************)
EXTENDS Naturals, Sequences, FiniteSets, KeyValue

CONSTANTS
  Chunks,        \* contents of chunks, named by their hashes
  Files,         \* roots as Upload writes them, named by their hashes
  Content,       \* [Files -> Seq(Chunks)]: what f.Read returns, chunk by chunk
  Small,         \* the files whose only chunk is shorter than the buffer
  Zeros,         \* the contents of a buffer into which nothing has been read
  Junk,          \* any other value
  Uploads, Downloads, Deletes,  \* the calls that are made
  FileOf,        \* [calls -> Files]
  ByHand,        \* keys and values that owners set without these calls
  MaxLives       \* bound of the model: how often the space may expire, plus one

Calls == Uploads \cup Downloads \cup Deletes
Keys == Chunks \cup Files
Values == Keys \cup {Junk}

ASSUME FileTreeAssumption ==
  /\ Chunks \cap Files = {} /\ Zeros \in Chunks /\ Junk \notin Keys
  /\ Content \in [Files -> Seq(Chunks)]
  /\ Small \subseteq {f \in Files : Len(Content[f]) = 1}
  /\ Uploads \cap Downloads = {} /\ Downloads \cap Deletes = {}
  /\ Uploads \cap Deletes = {}
  /\ FileOf \in [Calls -> Files] /\ ByHand \subseteq Keys \X Values
  /\ MaxLives \in Nat \ {0}

VARIABLES
  store,         \* the values of the space in the last accepted state
  owner,         \* who owns the space: "me", "other", or "nobody"
  life,          \* auxiliary: how many times the space has expired, plus one
  pending,       \* transactions the node has admitted and not decided
  accepted,      \* transactions of accepted blocks (txPrefix)
  pc,            \* where a call is
  todo,          \* the keys it has still to write, delete or read, in order
  sent,          \* its map `uploaded` or `deleted`
  out,           \* what a download has written to its file
  root,          \* the root a call writes, or the one it has found
  born,          \* auxiliary: the life of the space in which a call began
  touched        \* auxiliary: keys on which something else has got in the way of
                 \* a call since it began

nodeVars == <<store, owner, life, pending, accepted>>
callVars == <<pc, todo, sent, out, root, born>>
vars == <<nodeVars, callVars, touched>>

-----------------------------------------------------------------------------
(* Roots and keys                                                          *)

\* Such files are not split: the root holds their contents, which of an empty
\* file are the zeros that the buffer was made with.
InRoot(f) == f \in Small \/ Content[f] = <<>>

\* Any other root lists the keys of the chunks.
ChildrenOf(f) == IF InRoot(f) THEN <<>> ELSE Content[f]
ChildKeys(f) == {ChildrenOf(f)[i] : i \in DOMAIN ChildrenOf(f)}

\* What a download of the file writes, from its root or from the chunks.
Written(f) == IF Content[f] = <<>> THEN <<Zeros>> ELSE Content[f]

KeysRootFirst(f, k) == <<k>> \o ChildrenOf(f)

\* What an upload writes and a delete removes, in this order: the chunks that
\* the root f lists, and last the key k of the root.
KeysInOrder(f, k) == Append(ChildrenOf(f), k)

HashLen == 66       \* a key of this length must be the hash of its value
TreeKeyLen == 64    \* the keys of a tree: a hash in hex, without a leading 0x

\* SetTx.Execute and client.Resolve compare value and key of such a key only.
HashChecked(k, v) == TreeKeyLen = HashLen => v = k

\* The transaction by which a call sets or deletes a key.
Tx == [call : Uploads \cup Deletes, key : Keys]
TxOf(c, k) == [call |-> c, key |-> k]

TypeOK ==
  /\ IsMap(store, Keys, Values)
  /\ owner \in {"me", "other", "nobody"}
  /\ life \in 1..MaxLives
  /\ pending \subseteq Tx /\ accepted \subseteq Tx /\ pending \cap accepted = {}
  /\ pc \in [Calls -> {"idle", "work", "poll", "done", "failed"}]
  /\ \A c \in Calls : pc[c] = "poll" => c \notin Downloads /\ todo[c] # <<>>
  /\ todo \in [Calls -> Seq(Keys)]
  /\ sent \in [Calls -> SUBSET Keys]
  /\ out \in [Downloads -> Seq(Values)]
  /\ root \in [Calls -> Files]
  /\ born \in [Calls -> 1..MaxLives]
  /\ touched \in [Calls -> SUBSET Keys]

Init ==
  /\ store = [k \in {} |-> Junk] /\ owner = "me" /\ life = 1
  /\ pending = {} /\ accepted = {}
  /\ pc = [c \in Calls |-> "idle"]
  /\ todo = [c \in Calls |-> <<>>]
  /\ sent = [c \in Calls |-> {}]
  /\ out = [c \in Downloads |-> <<>>]
  /\ root = FileOf
  /\ born = [c \in Calls |-> 1]
  /\ touched = [c \in Calls |-> {}]

-----------------------------------------------------------------------------
(* Calls                                                                   *)

Fail(c) == pc' = [pc EXCEPT ![c] = "failed"]

\* Call c sets out to go through keys, of which there is at least one.
Begin(c, keys) ==
  /\ pc' = [pc EXCEPT ![c] = "work"]
  /\ todo' = [todo EXCEPT ![c] = keys]

\* Call c is through with the first of its keys and returns after the last.
Advance(c) ==
  /\ todo' = [todo EXCEPT ![c] = Tail(@)]
  /\ pc' = [pc EXCEPT ![c] = IF Tail(todo[c]) = <<>> THEN "done" ELSE "work"]

\* A call starts, in a process of its own, with the root it writes or finds.  In
\* the way of a download are the values that are there already.
Start(c, f) ==
  /\ pc[c] = "idle"
  /\ root' = [root EXCEPT ![c] = f]
  /\ born' = [born EXCEPT ![c] = life]
  /\ touched' = [touched EXCEPT ![c] =
       IF c \in Downloads THEN {k \in DOMAIN store : store[k] # k} ELSE {}]
  /\ UNCHANGED <<nodeVars, sent>>

\* The space may be anybody's, or nobody's: that is for the node to find.
StartUpload(c) ==
  /\ c \in Uploads
  /\ Start(c, FileOf[c])
  /\ Begin(c, KeysInOrder(FileOf[c], FileOf[c]))
  /\ UNCHANGED out

\* client.Resolve of key k, when the service answers: the value, unless there
\* is none or it fails the check.
Resolved(k) == k \in DOMAIN store /\ HashChecked(k, store[k])

\* What is under the root's key is resolved and parsed; a value that is no root
\* ends the call, but any root will do.
ReadsRoot(k) == Resolved(k) /\ store[k] \in Files

\* Contents in the root are written at once; otherwise the chunks follow.
StartDownload(c) ==
  LET k == FileOf[c] IN
  /\ c \in Downloads
  /\ IF ~ReadsRoot(k)
     THEN Start(c, k) /\ Fail(c) /\ UNCHANGED <<todo, out>>
     ELSE LET f == store[k] IN
          /\ Start(c, f)
          /\ IF InRoot(f)
             THEN /\ pc' = [pc EXCEPT ![c] = "done"]
                  /\ out' = [out EXCEPT ![c] = Written(f)]
                  /\ UNCHANGED todo
             ELSE Begin(c, ChildrenOf(f)) /\ UNCHANGED out

StartDelete(c) ==
  LET k == FileOf[c] IN
  /\ c \in Deletes
  /\ IF ReadsRoot(k)
     THEN Start(c, store[k]) /\ Begin(c, KeysInOrder(store[k], k))
     ELSE Start(c, k) /\ Fail(c) /\ UNCHANGED todo
  /\ UNCHANGED out

\* Upload and Delete skip a chunk they have seen to before; a root comes once.
Skip(c) ==
  /\ c \notin Downloads
  /\ pc[c] = "work"
  /\ Head(todo[c]) \in sent[c]
  /\ todo' = [todo EXCEPT ![c] = Tail(@)]
  /\ UNCHANGED <<nodeVars, pc, sent, out, root, born, touched>>

\* What Submit and, later, the block check of a transaction on the space: the
\* sender owns it and, for a DeleteTx, the key is there.
Executable(tx) ==
  /\ owner = "me"
  /\ tx.call \in Deletes => tx.key \in DOMAIN store

\* SignIssueRawTx: three questions to the node, then IssueRawTx.  The node
\* admits the transaction and the client starts to poll.
Issue(c) ==
  LET tx == TxOf(c, Head(todo[c])) IN
  /\ c \notin Downloads
  /\ pc[c] = "work"
  /\ Head(todo[c]) \notin sent[c]
  /\ Executable(tx)
  /\ pending' = pending \cup {tx}
  /\ pc' = [pc EXCEPT ![c] = "poll"]
  /\ UNCHANGED <<store, owner, life, accepted, todo, sent, out, root, born, touched>>

\* One of these requests fails, or Submit refuses; an answer of IssueRawTx may
\* be lost, and then the transaction is in the mempool all the same.
IssueFails(c) ==
  LET tx == TxOf(c, Head(todo[c])) IN
  /\ c \notin Downloads
  /\ pc[c] = "work"
  /\ Head(todo[c]) \notin sent[c]
  /\ Fail(c)
  /\ \/ UNCHANGED pending
     \/ Executable(tx) /\ pending' = pending \cup {tx}
  /\ UNCHANGED <<store, owner, life, accepted, todo, sent, out, root, born, touched>>

ConfirmedUnpolled(c) == c \in Calls

\* PollTx: HasTx finds the transaction in the last accepted state.
Confirmed(c) == TxOf(c, Head(todo[c])) \in accepted

\* handleConfirmation lets the call go on to its next key.
Confirm(c) ==
  LET k == Head(todo[c]) IN
  /\ pc[c] = "poll"
  /\ Confirmed(c)
  /\ sent' = [sent EXCEPT ![c] = @ \cup {k}]
  /\ Advance(c)
  /\ UNCHANGED <<nodeVars, out, root, born, touched>>

\* The context ends: PollTx returns its error, and so does the call.
GiveUp(c) ==
  /\ pc[c] = "poll"
  /\ Fail(c)
  /\ UNCHANGED <<nodeVars, todo, sent, out, root, born, touched>>

WriteIgnoringMissing(c, k) ==
  IF Resolved(k) THEN out' = [out EXCEPT ![c] = Append(@, store[k])]
                 ELSE UNCHANGED out

\* A chunk is written to the file as it was resolved.
Write(c, k) == Resolved(k) /\ out' = [out EXCEPT ![c] = Append(@, store[k])]

ReadChunk(c) ==
  LET k == Head(todo[c]) IN
  /\ c \in Downloads
  /\ pc[c] = "work"
  /\ Write(c, k)
  /\ Advance(c)
  /\ UNCHANGED <<nodeVars, sent, root, born, touched>>

\* A missing chunk, an integrity failure or a failed request ends a download.
ReadFails(c) ==
  /\ c \in Downloads
  /\ pc[c] = "work"
  /\ Fail(c)
  /\ UNCHANGED <<nodeVars, todo, sent, out, root, born, touched>>

-----------------------------------------------------------------------------
(* The node                                                                *)

SettleInMempool(tx) ==
  /\ accepted' = accepted \cup {tx}
  /\ UNCHANGED pending

\* VM.Verified takes the transactions of a block from the mempool.
Settle(tx) ==
  /\ pending' = pending \ {tx}
  /\ accepted' = accepted \cup {tx}

\* Key k of the space is set to v, or deleted: that is in the way of a call which
\* has begun and wants something else of the key.
SetKey(k, v) ==
  /\ store' = Put(store, k, v)
  /\ touched' = [c \in Calls |->
       IF pc[c] # "idle" /\ (c \in Deletes \/ v # k) THEN touched[c] \cup {k} ELSE touched[c]]

DeleteKey(k) ==
  /\ store' = Remove(store, {k})
  /\ touched' = [c \in Calls |->
       IF pc[c] # "idle" /\ c \in Uploads THEN touched[c] \cup {k} ELSE touched[c]]

\* A block with the transaction is accepted.  This need never happen: it may be
\* evicted, sent away by RegossipTxs, found not executable or grow too old, and
\* nobody is told.
Accept(tx) ==
  /\ tx \in pending
  /\ Executable(tx)
  /\ Settle(tx)
  /\ IF tx.call \in Deletes THEN DeleteKey(tx.key) ELSE SetKey(tx.key, tx.key)
  /\ UNCHANGED <<owner, life, callVars>>

\* The space expires with everything in it.
Expire ==
  /\ owner # "nobody" /\ life < MaxLives
  /\ owner' = "nobody" /\ life' = life + 1
  /\ store' = [k \in {} |-> Junk]
  /\ UNCHANGED <<pending, accepted, callVars, touched>>

Claim(who) ==
  /\ owner = "nobody"
  /\ owner' = who
  /\ UNCHANGED <<store, life, pending, accepted, callVars, touched>>

\* MoveTx: the owner hands the space over as it is, to another account or back.
Move(who) ==
  /\ owner \notin {"nobody", who}
  /\ owner' = who
  /\ UNCHANGED <<store, life, pending, accepted, callVars, touched>>

\* The owner sets or deletes a key of the tree without these calls.  No check
\* keeps the value from being a chunk or a root that belongs under another key.
SetByHand(k, v) ==
  /\ owner # "nobody"
  /\ HashChecked(k, v)
  /\ SetKey(k, v)
  /\ UNCHANGED <<owner, life, pending, accepted, callVars>>

DeleteByHand(k) ==
  /\ owner # "nobody" /\ k \in DOMAIN store
  /\ DeleteKey(k)
  /\ UNCHANGED <<owner, life, pending, accepted, callVars>>

-----------------------------------------------------------------------------

Next ==
  \/ \E c \in Calls :
       \/ StartUpload(c) \/ StartDownload(c) \/ StartDelete(c)
       \/ Skip(c) \/ Issue(c) \/ IssueFails(c) \/ Confirm(c) \/ GiveUp(c)
       \/ ReadChunk(c) \/ ReadFails(c)
  \/ \E tx \in pending : Accept(tx)
  \/ Expire
  \/ \E who \in {"me", "other"} : Claim(who) \/ Move(who)
  \/ \E kv \in ByHand : SetByHand(kv[1], kv[2]) \/ DeleteByHand(kv[1])

Spec == Init /\ [][Next]_vars

-----------------------------------------------------------------------------
(* Properties                                                              *)

\* An upload writes its root when every chunk has been seen in the accepted
\* state: once the root's transaction exists, nothing of the file is missing or
\* other than it was, except keys that were deleted since or set to something
\* else, and unless the space has expired under the call.  That the space may
\* change hands meanwhile makes no difference.  (Upload's order, PollTx,
\* handleConfirmation.)
RootsComplete ==
  \A c \in Uploads :
    LET f == FileOf[c] IN
    /\ TxOf(c, f) \in pending \cup accepted
    /\ born[c] = life
    => \A k \in ChildKeys(f) \ touched[c] : k \in DOMAIN store /\ store[k] = k

\* A delete that returns without an error has left nothing under its key, nor
\* under the keys that the root it found there lists, except what was set again
\* while it ran or later.  The chunks of a file whose root somebody has replaced
\* stay.  (Delete's order and its errors.)
DeletesComplete ==
  \A c \in Deletes :
    /\ pc[c] = "done"
    /\ born[c] = life
    => (ChildKeys(root[c]) \cup {FileOf[c]}) \cap DOMAIN store \subseteq touched[c]

\* Whatever is uploaded, deleted, moved or expires meanwhile, a download writes
\* the chunks of the root it found in their order without a gap, and all of them
\* if it succeeds.  What is written is what belongs there, and the root is that
\* of the file, wherever nobody has set the key to something else: nothing else
\* protects the reader, for keys of this length are not checked.  (Download's
\* loop and its errors, SetTx.Execute and Resolve.)
DownloadInOrder ==
  \A c \in Downloads :
    LET content == Written(root[c]) IN
    /\ root[c] # FileOf[c] => FileOf[c] \in touched[c]
    /\ Len(out[c]) <= Len(content)
    /\ \A i \in 1..Len(out[c]) :
         out[c][i] # content[i] => content[i] \in touched[c]
    /\ pc[c] = "done" => Len(out[c]) = Len(content)

=============================================================================
