-------------------------------- MODULE Ledger --------------------------------
(***************************************************************************)
(* The state transition function of the chain: what the transactions of    *)
(* the accepted blocks, the expiry at the start of each block and the      *)
(* background pruner do to the database (chain/storage.go, chain/*_tx.go,  *)
(* Transaction.Execute, vm/pruner.go).                                     *)
(*                                                                         *)
(* The granularity is one transaction: NextBlock runs ExpireNext and opens *)
(* a block, each transaction action is one successful Execute in it (a     *)
(* failed one leaves no trace: BuildBlock drops its overlay and verify     *)
(* drops the whole block), and the pruner may run at any point.  Which     *)
(* blocks are built, their price and their admission rules (recent block   *)
(* ids, duplicate transactions, cost) are not decided here: any price of   *)
(* Prices and any block id may occur.  The lottery draws from a hash, so   *)
(* every outcome a hash can produce is possible.                           *)
(***************************************************************************)
EXTENDS Genesis, KeyValue, Counting

CONSTANTS
  PruneLimit,    \* config.PruneLimit, raw spaces cleared by one pruner call
  MaxExpiry      \* bound of the model: lifelines stop at this expiry

ASSUME LimitsAssumption == PruneLimit \in Nat \ {0} /\ MaxExpiry \in Nat

VARIABLES
  info,          \* infoPrefix: space -> SpaceInfo
  owned,         \* ownedPrefix: set of <<owner, space>>
  expiryQ,       \* expiryPrefix: <<expiry, raw space>> -> <<owner, space>>
  pruning,       \* pruningPrefix: set of <<expired, raw space>>
  values,        \* keyPrefix: <<raw space, key>> -> value
  balance,       \* balancePrefix: address -> balance
  block,         \* the open block: timestamp, price, whether it has a tx
  bootstrapped   \* VM.bootstrapped

dbVars == <<info, owned, expiryQ, pruning, values>>
vars == <<dbVars, balance, block, bootstrapped>>

-----------------------------------------------------------------------------
(* Raw spaces                                                              *)

RawSpaceOfName(s, created) == <<s, 0>>

\* RawSpace hashes the name together with the claim time; distinct pairs are
\* taken to have distinct hashes.
RawSpace(s, created) == <<s, created>>

\* ids.ShortEmpty, the RawSpace of a SpaceInfo that was never stored.
NoRaw == <<>>

\* The keys of values under a raw space (the prefix SpaceValueKey(raw, nil)).
ValueKeysOf(raws) == {rk \in DOMAIN values : rk[1] \in raws}

\* GetAllValueMetas: what is stored under a raw space.
StoreOf(raw) ==
  [k \in {rk[2] : rk \in ValueKeysOf({raw})} |-> values[<<raw, k>>]]

SpaceInfoType ==
  [owner : Addresses, created : Nat, updated : Nat, expiry : Nat,
   units : Nat \ {0}, raw : Spaces \X Nat]

TypeOK ==
  /\ IsMap(info, Spaces, SpaceInfoType)
  /\ owned \subseteq Addresses \X Spaces
  /\ IsMap(expiryQ, Nat \X (Spaces \X Nat), Addresses \X Spaces)
  /\ pruning \subseteq Nat \X (Spaces \X Nat)
  /\ IsMap(values, (Spaces \X Nat) \X Keys, Values)
  /\ balance \in [Addresses -> Nat]
  /\ block \in [tmstmp : Nat, price : Nat, filled : BOOLEAN]
  /\ bootstrapped \in BOOLEAN

\* Genesis.Load on an empty database, and the genesis block.
Init ==
  /\ info = [s \in {} |-> 0]
  /\ owned = {}
  /\ expiryQ = [q \in {} |-> 0]
  /\ pruning = {}
  /\ values = [rk \in {} |-> 0]
  /\ balance = Allocation
  /\ block = [tmstmp |-> 0, price |-> GenesisPrice, filled |-> TRUE]
  /\ bootstrapped = FALSE

-----------------------------------------------------------------------------
(* Expiry at the start of a block                                          *)

DueInclusive(parent, current) ==
  {q \in DOMAIN expiryQ : parent <= q[1] /\ q[1] <= current}

DueAfterParent(parent, current) ==
  {q \in DOMAIN expiryQ : parent < q[1] /\ q[1] < current}

\* The keys ExpireNext visits: its end key is shorter than every key stored
\* for the time `current`, so those are left for a later block.
Due(parent, current) ==
  {q \in DOMAIN expiryQ : parent <= q[1] /\ q[1] < current}

ExpireWithoutClearing(due) ==
  LET gone == {expiryQ[q][2] : q \in due} IN
  /\ expiryQ' = Remove(expiryQ, due)
  /\ owned' = owned \ {expiryQ[q] : q \in due}
  /\ info' = Remove(info, gone)
  /\ pruning' = IF bootstrapped THEN pruning \cup due ELSE pruning
  /\ UNCHANGED values

\* ExpireNext trusts the queue: the owner and the name it deletes come from
\* the value of the queue's entry, the raw space from its key.
Expire(due) ==
  LET gone == {expiryQ[q][2] : q \in due}
      raws == {q[2] : q \in due}
  IN
  /\ expiryQ' = Remove(expiryQ, due)
  /\ owned' = owned \ {expiryQ[q] : q \in due}
  /\ info' = Remove(info, gone)
  /\ IF bootstrapped
     THEN pruning' = pruning \cup due /\ UNCHANGED values
     ELSE values' = Remove(values, ValueKeysOf(raws)) /\ UNCHANGED pruning

\* A block at time t with unit price p on top of a block with transactions.
NextBlock(t, p) ==
  /\ block.filled
  /\ block.tmstmp <= t
  /\ Expire(Due(block.tmstmp, t))
  /\ block' = [tmstmp |-> t, price |-> p, filled |-> FALSE]
  /\ UNCHANGED <<balance, bootstrapped>>

-----------------------------------------------------------------------------
(* Fees and the lottery                                                    *)

\* Execute, before the transaction proper: the fee is debited, then the price
\* is compared.  Both fail the transaction.
Pays(sender, units, price) ==
  /\ block.tmstmp > 0
  /\ units * price <= balance[sender]
  /\ block.price <= price

Debit(sender, amount) == [balance EXCEPT ![sender] = @ - amount]

RewardUndivided(units) == units * block.price * LotteryRewardMultipler
Reward(units) == (units * block.price * LotteryRewardMultipler) \div 100

\* ApplyReward after the transaction's own writes: the first space after the
\* hash wins, unless there is none or the sender owns it.
Settle(bal, sender, units) ==
  /\ block' = [block EXCEPT !.filled = TRUE]
  /\ \/ balance' = bal
     \/ \E winner \in {info'[s].owner : s \in DOMAIN info'} \ {sender} :
          balance' = [bal EXCEPT ![winner] = @ + Reward(units)]

-----------------------------------------------------------------------------
(* Writing a SpaceInfo                                                     *)

PutSpaceInfoLeavingQueue(s, i, lastExpiry) ==
  LET raw == IF i.raw = NoRaw THEN RawSpace(s, i.created) ELSE i.raw IN
  /\ owned' = IF i.raw = NoRaw THEN owned \cup {<<i.owner, s>>} ELSE owned
  /\ expiryQ' = Put(expiryQ, <<i.expiry, raw>>, <<i.owner, s>>)
  /\ info' = Put(info, s, [i EXCEPT !.raw = raw])

PutSpaceInfoWithoutRaw(s, i, lastExpiry) ==
  LET raw == RawSpace(s, i.created)
      stale == IF lastExpiry > 0 THEN {<<lastExpiry, raw>>} ELSE {}
  IN
  /\ owned' = IF i.raw = NoRaw THEN owned \cup {<<i.owner, s>>} ELSE owned
  /\ expiryQ' = Put(Remove(expiryQ, stale), <<i.expiry, raw>>, <<i.owner, s>>)
  /\ info' = Put(info, s, i)

\* A new space gets its raw space and its owned entry here; the queue entry
\* of an existing one is replaced.
PutSpaceInfo(s, i, lastExpiry) ==
  LET raw == IF i.raw = NoRaw THEN RawSpace(s, i.created) ELSE i.raw
      stale == IF lastExpiry > 0 THEN {<<lastExpiry, raw>>} ELSE {}
  IN
  /\ owned' = IF i.raw = NoRaw THEN owned \cup {<<i.owner, s>>} ELSE owned
  /\ expiryQ' = Put(Remove(expiryQ, stale), <<i.expiry, raw>>, <<i.owner, s>>)
  /\ info' = Put(info, s, [i EXCEPT !.raw = raw])

\* Only for a change of owner: the queue entry keeps its key.
MoveSpaceInfo(oldOwner, s, i) ==
  /\ info' = Put(info, s, i)
  /\ owned' = (owned \ {<<oldOwner, s>>}) \cup {<<i.owner, s>>}
  /\ expiryQ' = Put(expiryQ, <<i.expiry, i.raw>>, <<i.owner, s>>)

VerifySpace(sender, s) ==
  /\ s \in DOMAIN info
  /\ info[s].owner = sender
  /\ block.tmstmp <= info[s].expiry

\* updateSpace: timeRemaining, spread over the new units from now on.
UpdateSpace(s, timeRemaining, i) ==
  PutSpaceInfo(s,
    [i EXCEPT !.updated = block.tmstmp,
              !.expiry = block.tmstmp + timeRemaining \div i.units],
    i.expiry)

\* timeRemaining of SetTx and DeleteTx, in units times seconds.  It counts from
\* the last update: the time since then is not charged, so a space that is
\* rewritten often outlives its expiry without a lifeline.
Prepaid(i) == (i.expiry - i.updated) * i.units

-----------------------------------------------------------------------------
(* Transactions                                                            *)

Claim(sender, price, s) ==
  /\ Pays(sender, ClaimFeeUnits(s), price)
  /\ NamedAfter[s] \in {ZeroAddress, sender}
  /\ s \notin DOMAIN info
  /\ PutSpaceInfo(s,
       [owner |-> sender, created |-> block.tmstmp, updated |-> block.tmstmp,
        expiry |-> block.tmstmp + ClaimReward \div ClaimExpiryUnits,
        units |-> ClaimExpiryUnits, raw |-> NoRaw], 0)
  /\ Settle(Debit(sender, ClaimFeeUnits(s) * price), sender, ClaimFeeUnits(s))
  /\ UNCHANGED <<pruning, values, bootstrapped>>

\* Any account may extend the life of any space.
Lifeline(sender, price, s, units) ==
  LET i == info[s]
      expiry == i.expiry + (ClaimReward * units) \div i.units
      fee == LifelineFeeUnits(s, units)
  IN
  /\ Pays(sender, fee, price)
  /\ units # 0
  /\ s \in DOMAIN info
  /\ expiry <= MaxExpiry
  /\ PutSpaceInfo(s, [i EXCEPT !.expiry = expiry], i.expiry)
  /\ Settle(Debit(sender, fee * price), sender, fee)
  /\ UNCHANGED <<pruning, values, bootstrapped>>

UnitsStoredForgetting(raw, k) == 0

\* The share of the value stored under a key in the units of its space.
UnitsStored(raw, k) ==
  IF <<raw, k>> \in DOMAIN values THEN ExpiryUnits(values[<<raw, k>>]) ELSE 0

Set(sender, price, s, k, v) ==
  LET i == info[s]
      units == i.units - UnitsStored(i.raw, k) + ExpiryUnits(v)
  IN
  /\ Pays(sender, SetFeeUnits(v), price)
  /\ Size[v] \in 1..MaxValueSize
  /\ VerifySpace(sender, s)
  /\ k \in HashKeys => k = ValueHash[v]
  /\ values' = Put(values, <<i.raw, k>>, v)
  /\ UpdateSpace(s, Prepaid(i), [i EXCEPT !.units = units])
  /\ Settle(Debit(sender, SetFeeUnits(v) * price), sender, SetFeeUnits(v))
  /\ UNCHANGED <<pruning, bootstrapped>>

Delete(sender, price, s, k) ==
  LET i == info[s] IN
  /\ Pays(sender, BaseTxUnits, price)
  /\ VerifySpace(sender, s)
  /\ <<i.raw, k>> \in DOMAIN values
  /\ values' = Remove(values, {<<i.raw, k>>})
  /\ UpdateSpace(s, Prepaid(i), [i EXCEPT !.units = @ - UnitsStored(i.raw, k)])
  /\ Settle(Debit(sender, BaseTxUnits * price), sender, BaseTxUnits)
  /\ UNCHANGED <<pruning, bootstrapped>>

Move(sender, price, s, to) ==
  /\ Pays(sender, BaseTxUnits, price)
  /\ to \notin {ZeroAddress, sender}
  /\ VerifySpace(sender, s)
  /\ MoveSpaceInfo(sender, s, [info[s] EXCEPT !.owner = to])
  /\ Settle(Debit(sender, BaseTxUnits * price), sender, BaseTxUnits)
  /\ UNCHANGED <<pruning, values, bootstrapped>>

Transfer(sender, price, to, units) ==
  LET paid == Debit(sender, BaseTxUnits * price) IN
  /\ Pays(sender, BaseTxUnits, price)
  /\ to \notin {ZeroAddress, sender}
  /\ units # 0
  /\ units <= paid[sender]
  /\ UNCHANGED <<dbVars, bootstrapped>>
  /\ Settle([paid EXCEPT ![sender] = @ - units, ![to] = @ + units],
            sender, BaseTxUnits)

-----------------------------------------------------------------------------
(* The pruner and the engine                                               *)

PrunableUnlessBacklog(limit) ==
  {P \in {pruning} : P # {} /\ Cardinality(P) <= limit}

\* PruneNext takes the entries in the order of their keys: the earliest
\* expired first, in the order of the raw spaces' hashes among equals.
Prunable(limit) ==
  {P \in SUBSET pruning :
     /\ P # {}
     /\ Cardinality(P) <= limit
     /\ P # pruning => Cardinality(P) = limit
     /\ \A p \in P, q \in pruning \ P : p[1] <= q[1]}

\* pruneCall: one transaction of the pruner on the last accepted state.
Prune ==
  \E P \in Prunable(PruneLimit) :
    /\ pruning' = pruning \ P
    /\ values' = Remove(values, ValueKeysOf({p[2] : p \in P}))
    /\ UNCHANGED <<info, owned, expiryQ, balance, block, bootstrapped>>

\* SetState: the engine starts bootstrapping or normal operations.
SetState(normalOp) ==
  /\ bootstrapped' = normalOp
  /\ UNCHANGED <<dbVars, balance, block>>

-----------------------------------------------------------------------------

Next ==
  \/ \E t \in Times, p \in Prices : NextBlock(t, p)
  \/ \E a \in Addresses, price \in Prices :
       \/ \E s \in Spaces :
            \/ Claim(a, price, s)
            \/ \E units \in LifelineUnits : Lifeline(a, price, s, units)
            \/ \E k \in Keys, v \in Values : Set(a, price, s, k, v)
            \/ \E k \in Keys : Delete(a, price, s, k)
            \/ \E to \in Addresses \cup {ZeroAddress} : Move(a, price, s, to)
       \/ \E to \in Addresses \cup {ZeroAddress}, units \in TransferUnits :
            Transfer(a, price, to, units)
  \/ Prune
  \/ \E normalOp \in BOOLEAN : SetState(normalOp)

\* The pruner's goroutine runs until Shutdown, its timer is always re-armed.
Spec == Init /\ [][Next]_vars /\ WF_vars(Prune)

-----------------------------------------------------------------------------
(* Properties                                                              *)

\* The owned index and the expiry queue say exactly what the SpaceInfos say:
\* one entry of each per space, with its present owner, expiry and raw space.
\* PutSpaceInfo, MoveSpaceInfo and ExpireNext each maintain them by hand.
IndexesExact ==
  /\ owned = {<<info[s].owner, s>> : s \in DOMAIN info}
  /\ DOMAIN expiryQ = {<<info[s].expiry, info[s].raw>> : s \in DOMAIN info}
  /\ \A s \in DOMAIN info :
       expiryQ[<<info[s].expiry, info[s].raw>>] = <<info[s].owner, s>>

\* No stored space is older than the open block: verifySpace's ErrSpaceExpired
\* "should never happen".  It rests on ExpireNext looking only at the window
\* between the parent's time and the block's.
LiveNotExpired ==
  \A s \in DOMAIN info : block.tmstmp <= info[s].expiry

\* The pruner never has a live space in its queue, so however late it runs it
\* deletes no value that can still be read; a name claimed again has another
\* raw space than the one scheduled under the same name.
PrunedIsDead ==
  \A s \in DOMAIN info : \A p \in pruning : p[2] # info[s].raw

\* No value is orphaned: each belongs to a stored space or to a raw space that
\* the pruner will clear.
NoOrphanValues ==
  \A rk \in DOMAIN values :
    \/ \E s \in DOMAIN info : info[s].raw = rk[1]
    \/ \E p \in pruning : p[2] = rk[1]

\* The units of a space are those it was claimed with and those of the values
\* it holds, so SetTx and DeleteTx never underflow nor divide by zero.
UnitsExact ==
  \A s \in DOMAIN info :
    info[s].units =
      ClaimExpiryUnits + Total([k \in Keys |-> UnitsStored(info[s].raw, k)])

\* Fees burn: no step creates balance, whatever the lottery hands out.
Supply == Total(balance)
SupplyNeverGrows == [][Supply' <= Supply]_vars

\* Whatever is scheduled for pruning is cleared in the end.
EventuallyPruned ==
  \A s \in Spaces, t \in Times :
    (\E p \in pruning : p[2] = RawSpace(s, t)) ~> (ValueKeysOf({RawSpace(s, t)}) = {})

\* The spaces as a reader of the database sees them, through RawSpace.
Visible ==
  [s \in DOMAIN info |->
     [owner |-> info[s].owner, updated |-> info[s].updated,
      expiry |-> info[s].expiry, store |-> StoreOf(info[s].raw)]]

View == INSTANCE SpaceStore WITH now <- block.tmstmp, spaces <- Visible

\* The indexes, the stored units and the pruner are invisible: readers see the
\* spaces of SpaceStore.
ImplementsSpaceStore == View!Spec

===============================================================================
