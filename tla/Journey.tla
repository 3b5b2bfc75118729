------------------------------- MODULE Journey -------------------------------
(***************************************************************************)
(* The way of transactions through a node: a wallet signs typed data, the  *)
(* node checks and admits what it is sent (Submit), gossips it, puts it    *)
(* into blocks, stores them with linked values (SetLastAccepted) and takes *)
(* transactions back when a block is rejected.  Users and peers are the    *)
(* environment: they send any transaction that somebody signed, in any     *)
(* company, any number of times, late or never.                            *)
(*                                                                         *)
(* The code hands transactions on by pointer, and linkValues rewrites the  *)
(* SetTx a pointer leads to.  So the mempool holds objects: the pair of    *)
(* a transaction and the number of times it was admitted before.  In bytes *)
(* there are items: the pair of a transaction and whether its value has    *)
(* been replaced by its id; that makes another transaction of it, signed   *)
(* by nobody.  Ids are injective: here a transaction is represented by its id. *)
(***************************************************************************)
EXTENDS TypedData, SequencesExt

CONSTANTS
  Accounts,      \* users with a wallet
  Funds,         \* [Accounts -> Nat]: the transactions an account can pay for
  Stranger,      \* the address a signature of something else leads to
  Inputs,        \* unsigned transactions, as SuggestedFee makes them of inputs
  MaxSigned,     \* bounds of the model: requests signed, blocks, and
  MaxBlocks,     \* admissions in all
  MaxAdmissions

ASSUME JourneyAssumption ==
  /\ IsFiniteSet(Accounts) /\ IsFiniteSet(Inputs)
  /\ Stranger \notin Accounts
  /\ Funds \in [Accounts -> Nat]
  /\ \A tx \in Inputs : IsUnsigned(tx)
  /\ MaxSigned \in Nat /\ MaxBlocks \in Nat /\ MaxAdmissions \in Nat

VARIABLES
  signed,        \* the transactions that users have sent off
  space,         \* the state of the space that inputs are about, see below
  pool,          \* the objects in the heaps of the mempool
  newTxs,        \* the sequence of objects of that name
  admitted,      \* the objects that ever were in the pool
  linked,        \* the objects the value of which has been replaced
  appSender,     \* whether the node was given something to send messages with
  selected,      \* the objects that Gossip has taken and is about to send
  gossiped,      \* the transactions in the cache of PushNetwork
  sent,          \* the items this node has sent to its peers
  lost,          \* the items it has tried to send, in messages that failed
  blocks         \* the sequence of blocks built here or received

poolVars == <<pool, newTxs, admitted>>
gossipVars == <<appSender, selected, gossiped, sent, lost>>
blockVars == <<blocks, linked>>
vars == <<signed, space, poolVars, gossipVars, blockVars>>

-----------------------------------------------------------------------------
(* Wallets                                                                 *)

\* What becomes of typed data on the way to a wallet or back: one text in
\* another form, the fields in another order, another name, one text too many.
Renderings(td) ==
  {td, [td EXCEPT !.types = Reverse(@)], [td EXCEPT !.name = "spaces"]}
  \cup (UNION {{[td EXCEPT !.message[k][1] = form] :
                form \in ReadForms[FieldType[k]] \cup SignForms[FieldType[k]]} :
              k \in DOMAIN td.message})
  \cup {[td EXCEPT !.message = [k \in DOMAIN @ \cup {"note"} |->
                                 IF k = "note" THEN <<"text", k>> ELSE @[k]]]}

Offers == UNION {Renderings(TypedDataOf(tx)) : tx \in Inputs}

\* SignIssueTx: a wallet signs typed data that it can hash, showing its user what
\* the message says, and IssueTx gets the signature with typed data, maybe other.
Requests ==
  {[tx |-> [utx |-> ParseTypedData(issued),
            sig |-> [signer |-> a, digest |-> DigestHash(td)]],
    shown |-> ParseTypedData(td)] :
   a \in Accounts, td \in {td \in Offers : Encodable(td)},
   issued \in {td \in Offers : Parsable(td)}}

\* The address that Init derives with DeriveSender.
Sender(tx) ==
  IF tx.sig.digest = DigestHash(TypedDataOf(tx.utx)) THEN tx.sig.signer
                                                     ELSE Stranger

\* The transactions that have an account as sender, and their ids.
SentTxs == SetToSeq({r.tx : r \in {r \in Requests : Sender(r.tx) \in Accounts}})
Ids == DOMAIN SentTxs
SenderOf == [tx \in Ids |-> Sender(SentTxs[tx])]
TypeOf == [tx \in Ids |-> SentTxs[tx].utx.typ]

IsSet(tx) == TypeOf[tx] = "set"

\* A request reaches a node, this one or a peer, and has a sender there.
Request(tx) ==
  /\ Cardinality(signed) < MaxSigned
  /\ signed' = signed \cup {tx}
  /\ UNCHANGED <<space, poolVars, gossipVars, blockVars>>

-----------------------------------------------------------------------------
(* Submit                                                                  *)

\* The space is absent; live; due: its time has come since the block the node
\* prefers; or overdue: it had come by then, but no accepted block knows yet.
SpaceMoves ==
  /\ \/ space = "absent" /\ space' = "live"
     \/ space = "live" /\ space' = "due"
     \/ space = "due" /\ space' \in {"overdue", "absent"}
     \/ space = "overdue" /\ space' = "absent"
  /\ UNCHANGED <<signed, poolVars, gossipVars, blockVars>>

\* What Submit keeps from one transaction of a batch to the next: whether
\* ExpireNext's deletions are in the overlay, and what failed ones have paid.
FreshView == [expired |-> TRUE, spent |-> [a \in Accounts |-> 0]]

\* vdb.Abort, after a transaction that was admitted.
AbortedView == [expired |-> FALSE, spent |-> [a \in Accounts |-> 0]]

Visible(view) ==
  space \in {"live", "overdue"} \/ (space = "due" /\ ~view.expired)

VerifyVisible(view) == Visible(view)

\* verifySpace, with the expiry check of which it says "should never happen".
VerifySpace(view) == Visible(view) /\ space = "live"

CanPay(tx, view) == view.spent[SenderOf[tx]] < Funds[SenderOf[tx]]

\* Transaction.Execute on the overlay, once the fee is paid.
Executes(tx, view) ==
  CASE TypeOf[tx] = "claim" -> ~Visible(view)
    [] TypeOf[tx] = "transfer" -> TRUE
    [] OTHER -> VerifySpace(view)

\* One transaction of a batch.  A linked one is another transaction, the sender
\* of which has never had a balance.  The fee of one that fails after it was
\* debited stays in the overlay.
SubmitOne(recent, acc, item) ==
  LET tx == item[1] IN
  IF item[2] \/ tx \in recent \/ ~CanPay(tx, acc.view) THEN acc
  ELSE IF Executes(tx, acc.view) THEN [view |-> AbortedView, ok |-> acc.ok \cup {tx}]
  ELSE [acc EXCEPT !.view.spent[SenderOf[tx]] = @ + 1]

\* Where Submit is after the first n transactions.
PassedFirst(recent, items) ==
  LET acc[n \in 0..Len(items)] ==
        IF n = 0 THEN [view |-> FreshView, ok |-> {}]
        ELSE SubmitOne(recent, acc[n - 1], items[n])
  IN acc

Passed(recent, items) == PassedFirst(recent, items)[Len(items)].ok

PoolHas(tx) == \E o \in pool : o[1] = tx

\* The transactions that the mempool does not hold.
NewIgnoringPool(txs) == txs
New(txs) == {tx \in txs : ~PoolHas(tx)}

Fresh(tx) == <<tx, Cardinality({o \in admitted : o[1] = tx})>>

\* Mempool.Add of a fresh object for each of them, in whatever order.
AddAll(txs) ==
  LET objects == {Fresh(tx) : tx \in New(txs)}
  IN /\ Cardinality(admitted) + Cardinality(New(txs)) <= MaxAdmissions
     /\ pool' = pool \cup objects
     /\ newTxs' = newTxs \o SetToSeq(objects)
     /\ admitted' = admitted \cup objects

TxsOf(b) == {blocks[b].bytes[i][1] : i \in DOMAIN blocks[b].bytes}
InState(status) == {b \in DOMAIN blocks : blocks[b].status = status}
AcceptedTxs == UNION {TxsOf(b) : b \in InState("accepted")}

\* The transactions of the window when the node prefers its last accepted block
\* or one of those it has verified since.
RecentTxs ==
  {AcceptedTxs} \cup {AcceptedTxs \cup TxsOf(b) : b \in InState("processing")}

\* Messages of up to two items: a peer that has built a block may send linked ones.
Messages ==
  LET items == signed \X BOOLEAN IN
  {<<i>> : i \in items} \cup {<<p[1], p[2]>> : p \in items \X items}

\* A user's request is a batch of one (IssueTx, IssueRawTx), a peer's message
\* may hold several (AppGossip).
Submit(items) ==
  \E recent \in RecentTxs :
    /\ Passed(recent, items) # {}
    /\ AddAll(Passed(recent, items))
    /\ UNCHANGED <<signed, space, gossipVars, blockVars>>

-----------------------------------------------------------------------------
(* Gossip                                                                  *)

Item(o) == <<o[1], o \in linked>>
Items(objects) == [i \in DOMAIN objects |-> Item(objects[i])]

\* Of the first n objects, those whose ids are in the pool, in their order.
KeptOfFirst(objects) ==
  LET kept[n \in 0..Len(objects)] ==
        IF n = 0 THEN <<>>
        ELSE IF PoolHas(objects[n][1]) THEN Append(kept[n - 1], objects[n]) ELSE kept[n - 1]
  IN kept

\* NewTxs: what is no longer in the pool, by its id, is dropped from the list.
\* What is left fits one message.
NewTxs ==
  /\ selected = <<>> /\ newTxs # <<>>
  /\ selected' = KeptOfFirst(newTxs)[Len(newTxs)]
  /\ newTxs' = <<>>
  /\ UNCHANGED <<signed, space, pool, admitted, appSender, gossiped, sent, lost, blockVars>>

FirstOfEach(objects) ==
  {objects[i] : i \in {i \in DOMAIN objects :
                         \A j \in 1..(i - 1) : objects[j][1] # objects[i][1]}}

\* sendTxs: the objects are marshalled as they are now.  This may fail, and so may
\* SendAppGossip; Gossip ignores either error.
SendTxs(objects) ==
  LET items == {Item(o) : o \in objects} IN
  \/ sent' = sent \cup items /\ UNCHANGED lost
  \/ lost' = lost \cup items /\ UNCHANGED sent

\* GossipNewTxs: each id once, unless it was gossiped before; ids are noted before
\* the message is made.  Without an appSender the list comes to nothing.
GossipNewTxs ==
  LET fresh == {o \in FirstOfEach(selected) : o[1] \notin gossiped} IN
  /\ selected # <<>>
  /\ selected' = <<>>
  /\ IF appSender THEN gossiped' = gossiped \cup {o[1] : o \in fresh} /\ SendTxs(fresh)
                  ELSE UNCHANGED <<gossiped, sent, lost>>
  /\ UNCHANGED <<signed, space, poolVars, appSender, blockVars>>

\* RegossipTxs pops transactions, notes their ids and then sends them, gossiped
\* before or not.
RegossipTxs ==
  /\ appSender
  /\ \E popped \in (SUBSET pool) \ {{}} :
       /\ pool' = pool \ popped
       /\ gossiped' = gossiped \cup {o[1] : o \in popped}
       /\ SendTxs(popped)
  /\ UNCHANGED <<signed, space, newTxs, admitted, appSender, selected, blockVars>>

\* The mempool loses a transaction: it is evicted, pruned, or was popped by
\* BuildBlock and did not execute.
Drop(o) ==
  /\ pool' = pool \ {o}
  /\ UNCHANGED <<signed, space, newTxs, admitted, gossipVars, blockVars>>

-----------------------------------------------------------------------------
(* Blocks                                                                  *)

\* A block that nobody has verified yet: its objects, if it was built here, its
\* bytes, the items in block.Txs, and those and the values that are written.
NewBlock(objects, bytes) ==
  [status |-> "new", objects |-> objects, bytes |-> bytes, txs |-> bytes,
   stored |-> <<>>, values |-> {}]

AddBlock(b) == Len(blocks) < MaxBlocks /\ blocks' = Append(blocks, b)

\* BuildBlock pops transactions, makes a block of those that execute, and
\* marshals it.
BuildBlock ==
  \E popped \in (SUBSET pool) \ {{}} :
    /\ AddBlock(NewBlock(popped, Items(SetToSeq(popped))))
    /\ pool' = pool \ popped
    /\ UNCHANGED <<signed, space, newTxs, admitted, gossipVars, linked>>

\* A block of a peer.
ParseBlock ==
  \E txs \in (SUBSET signed) \ {{}} :
    /\ AddBlock(NewBlock({}, [i \in 1..Cardinality(txs) |-> <<SetToSeq(txs)[i], FALSE>>]))
    /\ UNCHANGED <<signed, space, poolVars, gossipVars, linked>>

\* linkValues: each value is replaced by the id of its transaction.
LinkedTxs(items) == [i \in DOMAIN items |-> <<items[i][1], IsSet(items[i][1])>>]

\* What it returns for SetLastAccepted to leave in the block: copies of the
\* transactions as they were.
OriginalTxs(items) == items

\* Verify: the transactions execute, and none is accepted already.  The block
\* and, under their ids, the values are written, and this pulls the values from
\* under the objects of a block that was built here.
Verify(b) ==
  LET items == blocks[b].bytes IN
  /\ blocks[b].status = "new"
  /\ \A i \in DOMAIN items : ~items[i][2]
  /\ TxsOf(b) \cap AcceptedTxs = {}
  /\ blocks' = [blocks EXCEPT
       ![b].status = "processing",
       ![b].txs = OriginalTxs(items),
       ![b].stored = LinkedTxs(items),
       ![b].values = {tx \in TxsOf(b) : IsSet(tx)}]
  /\ linked' = linked \cup {o \in blocks[b].objects : IsSet(o[1])}
  /\ pool' = {o \in pool : o[1] \notin TxsOf(b)}
  /\ UNCHANGED <<signed, space, newTxs, admitted, gossipVars>>

\* Consensus accepts a block whose transactions are not in an accepted one.
Accept(b) ==
  /\ blocks[b].status = "processing"
  /\ TxsOf(b) \cap AcceptedTxs = {}
  /\ blocks' = [blocks EXCEPT ![b].status = "accepted"]
  /\ UNCHANGED <<signed, space, poolVars, gossipVars, linked>>

ReAddObjects(b) ==
  /\ pool' = pool \cup blocks[b].objects
  /\ newTxs' = newTxs \o SetToSeq(blocks[b].objects)
  /\ UNCHANGED admitted

ReAddQuietly(b) ==
  /\ pool' = pool \cup {Fresh(tx) : tx \in {tx \in TxsOf(b) : ~PoolHas(tx)}}
  /\ admitted' = admitted \cup pool'
  /\ UNCHANGED newTxs

\* What Rejected hands to the mempool: the transactions of block.Txs.
ReAdd(b) == AddAll({blocks[b].txs[i][1] : i \in DOMAIN blocks[b].txs})

Reject(b) ==
  /\ blocks[b].status = "processing"
  /\ ReAdd(b)
  /\ blocks' = [blocks EXCEPT ![b].status = "rejected"]
  /\ UNCHANGED <<signed, space, gossipVars, linked>>

\* restoreValues looks up each value under the id that stands for it.
StoredValues == UNION {blocks[b].values : b \in InState("accepted")}
RestoredTxs(items) ==
  [i \in DOMAIN items |->
     <<items[i][1], items[i][2] /\ items[i][1] \notin StoredValues>>]

-----------------------------------------------------------------------------

Init ==
  /\ signed = {} /\ space \in {"absent", "live"}
  /\ pool = {} /\ newTxs = <<>> /\ admitted = {}
  /\ linked = {} /\ selected = <<>>
  /\ appSender \in BOOLEAN /\ gossiped = {} /\ sent = {} /\ lost = {}
  /\ blocks = <<>>

Next ==
  \/ \E tx \in Ids : Request(tx)
  \/ SpaceMoves
  \/ \E msg \in Messages : Submit(msg)
  \/ NewTxs \/ GossipNewTxs \/ RegossipTxs
  \/ \E o \in pool : Drop(o)
  \/ BuildBlock \/ ParseBlock
  \/ \E b \in DOMAIN blocks : Verify(b) \/ Accept(b) \/ Reject(b)

Spec == Init /\ [][Next]_vars

-----------------------------------------------------------------------------
(* Properties                                                              *)

\* The sets and sequences hold what they should, the mempool one object for
\* each id (its heaps are indexed by ids), and objects are those it has admitted.
TypeOK ==
  /\ signed \subseteq Ids /\ gossiped \subseteq Ids
  /\ space \in {"absent", "live", "due", "overdue"}
  /\ \A o \in admitted : o[1] \in signed /\ o[2] \in 0..(MaxAdmissions - 1)
  /\ pool \cup linked \cup Range(newTxs) \cup Range(selected) \subseteq admitted
  /\ \A o \in pool : \A p \in pool \ {o} : o[1] # p[1]
  /\ appSender \in BOOLEAN /\ sent \cup lost \subseteq Ids \X BOOLEAN
  /\ \A b \in DOMAIN blocks :
       /\ blocks[b].status \in {"new", "processing", "accepted", "rejected"}
       /\ Range(blocks[b].bytes) \subseteq Ids \X BOOLEAN

\* Nothing the node keeps differs from what was signed.  No transaction waits in
\* the mempool with its value replaced: linkValues takes the values from objects
\* that a block took out of the mempool, and after a rejection others come back.
\* A block in memory has the transactions of its bytes, which hash to its id, and
\* what is stored of an accepted one, with its values restored, is the same.
Genuine ==
  /\ pool \cap linked = {}
  /\ \A b \in DOMAIN blocks :
       LET signedItems == [i \in DOMAIN blocks[b].bytes |-> <<blocks[b].bytes[i][1], FALSE>>] IN
       /\ blocks[b].txs = signedItems
       /\ blocks[b].status = "accepted" => RestoredTxs(blocks[b].stored) = signedItems

\* Every transaction in the mempool is in the list of those to be gossiped or was
\* gossiped already, however often it went into a block and back, if the node can
\* send messages at all.  What counts as gossiped the node has at least once tried
\* to send as it was signed; the message may have failed, and nothing but
\* RegossipTxs tries again.  Or else linkValues got at it first: then newTxs still
\* held an object that a block had taken, the message has a transaction nobody
\* signed, and the copy that came back after the rejection is passed over as
\* gossiped already.
Offered ==
  /\ appSender => \A o \in pool :
       o \in Range(newTxs) \cup Range(selected) \/ o[1] \in gossiped
  /\ \A tx \in gossiped :
       <<tx, FALSE>> \in sent \cup lost \/ \E o \in linked : o[1] = tx

\* However the typed data looked that a wallet was given and that a client sent
\* to the node, a transaction in the mempool is what the user was shown.
AsShown ==
  \A o \in pool : \A r \in Requests : r.tx = SentTxs[o[1]] => r.shown = r.tx.utx

\* In a batch, a transaction is admitted only if it were alone: what others of the
\* batch left in the overlay, or took from it, never opens the mempool to one that
\* is accepted already, that its sender cannot pay, or that meets a space which
\* is not there, or not any more, or a claim of one that is.
SubmitConservative ==
  [][UNCHANGED blockVars =>
       \A o \in pool' \ pool :
         /\ o[1] \notin AcceptedTxs
         /\ Funds[SenderOf[o[1]]] > 0
         /\ CASE TypeOf[o[1]] = "claim" -> space # "live"
              [] TypeOf[o[1]] = "transfer" -> TRUE
              [] OTHER -> space = "live"]_vars

=============================================================================
