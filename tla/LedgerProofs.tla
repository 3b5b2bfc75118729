---------------------------- MODULE LedgerProofs ----------------------------
(***************************************************************************)
(* The safety invariants of Ledger, that it implements SpaceStore, and     *)
(* that it creates no balance, for every value of its constants.           *)
(*                                                                         *)
(* No invariant is inductive alone.  That the pruner never holds a live    *)
(* space rests on the order of the times in the pruning queue; that the    *)
(* expiry window misses nothing rests on LiveNotExpired and on the queue   *)
(* being exact; that SetTx can divide by the units rests on the units      *)
(* being exact, which in turn needs a fresh raw space to hold no values,   *)
(* and that rests on NoOrphanValues.  Inv is their conjunction with the    *)
(* order of the times (TimesOrdered).                                      *)
(***************************************************************************)
EXTENDS Ledger, FiniteSetTheorems, TLAPS

\* The raw space of a space is that of its name and claim time, no time lies
\* ahead of the block's, and what waits for the pruner expired before the open
\* block and was claimed no later than it expired.
TimesOrdered ==
  /\ \A s \in DOMAIN info :
       /\ info[s].raw = RawSpace(s, info[s].created)
       /\ info[s].created <= block.tmstmp
       /\ info[s].updated <= block.tmstmp
  /\ \A p \in pruning : p[1] < block.tmstmp /\ p[2][2] <= p[1]

Inv ==
  /\ TypeOK
  /\ IndexesExact
  /\ TimesOrdered
  /\ LiveNotExpired
  /\ PrunedIsDead
  /\ NoOrphanValues
  /\ UnitsExact

-----------------------------------------------------------------------------
(* Totals: a total is a natural number, and changing one value changes the *)
(* total by the difference.                                                *)

\* One key contributes as many units as its value.
LEMMA UnitsAtCount ==
  ASSUME NEW f, NEW x, f[x] \in Nat
  PROVE  IsFiniteSet(UnitsAt(f, x)) /\ Cardinality(UnitsAt(f, x)) = f[x]
<1>1. IsFiniteSet({x}) /\ Cardinality({x}) = 1
  BY FS_Singleton
<1>2. IsFiniteSet(1..f[x]) /\ Cardinality(1..f[x]) = f[x]
  BY FS_Interval
<1>3. /\ IsFiniteSet({x} \X (1..f[x]))
      /\ Cardinality({x} \X (1..f[x])) = Cardinality({x}) * Cardinality(1..f[x])
  BY <1>1, <1>2, FS_Product
<1> QED
  BY <1>1, <1>2, <1>3 DEF UnitsAt

\* A map with finitely many keys has a finite total.
LEMMA UnitsFinite ==
  ASSUME NEW f, IsFiniteSet(DOMAIN f), \A x \in DOMAIN f : f[x] \in Nat
  PROVE  IsFiniteSet(Units(f)) /\ Total(f) \in Nat
<1> DEFINE S == {UnitsAt(f, x) : x \in DOMAIN f}
<1> DEFINE h == [x \in DOMAIN f |-> UnitsAt(f, x)]
<1>1. IsFiniteSet(S)
  <2>1. h \in Surjection(DOMAIN f, S)
    BY DEF Surjection
  <2> QED
    BY <2>1, FS_Surjection
<1>2. \A T \in S : IsFiniteSet(T)
  BY UnitsAtCount
<1>3. IsFiniteSet(UNION S)
  BY <1>1, <1>2, FS_UNION
<1> QED
  BY <1>3, FS_CardinalityType DEF Units, Total

\* The total of g, which agrees with f except at x.
LEMMA TotalUpdate ==
  ASSUME NEW f, NEW g, NEW x \in DOMAIN f,
         IsFiniteSet(DOMAIN f), DOMAIN g = DOMAIN f,
         \A y \in DOMAIN f : f[y] \in Nat,
         g[x] \in Nat,
         \A y \in DOMAIN f \ {x} : g[y] = f[y]
  PROVE  Total(g) = Total(f) - f[x] + g[x]
<1> DEFINE Rest == Units(f) \ UnitsAt(f, x)
<1>1. IsFiniteSet(Units(f)) /\ Total(f) \in Nat
  BY UnitsFinite
<1>2. IsFiniteSet(UnitsAt(f, x)) /\ Cardinality(UnitsAt(f, x)) = f[x]
  BY UnitsAtCount
<1>3. IsFiniteSet(UnitsAt(g, x)) /\ Cardinality(UnitsAt(g, x)) = g[x]
  BY UnitsAtCount
<1>4. Units(f) \cap UnitsAt(f, x) = UnitsAt(f, x)
  BY DEF Units
<1>5. IsFiniteSet(Rest) /\ Cardinality(Rest) = Total(f) - f[x]
  <2>1. /\ IsFiniteSet(Units(f) \ UnitsAt(f, x))
        /\ Cardinality(Units(f) \ UnitsAt(f, x))
             = Cardinality(Units(f)) - Cardinality(Units(f) \cap UnitsAt(f, x))
    BY <1>1, FS_Difference
  <2> QED
    BY <1>2, <1>4, <2>1 DEF Total
<1>6. Units(g) = Rest \cup UnitsAt(g, x)
  BY DEF Units, UnitsAt
<1>7. Rest \cap UnitsAt(g, x) = {}
  BY DEF Units, UnitsAt
<1>8. Cardinality(Rest \cup UnitsAt(g, x)) = Cardinality(Rest) + g[x] - 0
  BY <1>3, <1>5, <1>7, FS_Union, FS_EmptySet
<1> QED
  BY <1>1, <1>5, <1>6, <1>8 DEF Total

\* A map to zero has no units.
LEMMA TotalZero ==
  ASSUME NEW f, \A x \in DOMAIN f : f[x] = 0
  PROVE  Total(f) = 0
<1>1. Units(f) = {}
  BY DEF Units, UnitsAt
<1> QED
  BY <1>1, FS_EmptySet DEF Total

-----------------------------------------------------------------------------
(* Arithmetic and fees                                                     *)

\* Natural division stays natural: the shape of every quotient of the code.
LEMMA DivNat ==
  ASSUME NEW a \in Nat, NEW b \in Nat \ {0}
  PROVE  a \div b \in Nat
OBVIOUS

\* Products of naturals are naturals (stated once: the provers need it named).
LEMMA MulNat ==
  ASSUME NEW a \in Nat, NEW b \in Nat
  PROVE  a * b \in Nat
OBVIOUS

\* valueUnits and its discounted share are naturals.
LEMMA ValueUnitsType ==
  ASSUME NEW v \in Values
  PROVE  ValueUnits(v) \in Nat /\ ExpiryUnits(v) \in Nat
<1>1. Size[v] \in Nat
  BY DomainsAssumption
<1>2. ValueUnitSize \in Nat \ {0} /\ ValueExpiryDiscount \in Nat \ {0}
  BY ParametersAssumption
<1>3. ValueUnits(v) \in Nat
  BY <1>1, <1>2, DivNat DEF ValueUnits
<1> QED
  BY <1>2, <1>3, DivNat DEF ExpiryUnits

\* FeeUnits of every transaction type is a natural.
LEMMA FeeUnitsType ==
  /\ BaseTxUnits \in Nat
  /\ \A s \in Spaces : ClaimFeeUnits(s) \in Nat
  /\ \A s \in Spaces, u \in Nat : LifelineFeeUnits(s, u) \in Nat
  /\ \A v \in Values : SetFeeUnits(v) \in Nat
<1>1. /\ {BaseTxUnits, ClaimLoadMultiplier, MinClaimFee,
          SpaceDesirabilityMultiplier, MaxIdentifierSize} \subseteq Nat
      /\ SpaceRenewalDiscount \in Nat \ {0}
  BY ParametersAssumption
<1>2. BaseTxUnits * ClaimLoadMultiplier \in Nat
  BY <1>1, MulNat
<1>3. ASSUME NEW s \in Spaces
      PROVE  SpaceNameUnits(s) \in Nat
  <2>1. MaxIdentifierSize - NameLength[s] \in Nat
    BY <1>1, DomainsAssumption
  <2>2. (MaxIdentifierSize - NameLength[s]) * SpaceDesirabilityMultiplier \in Nat
    BY <1>1, <2>1, MulNat
  <2> QED
    BY <1>1, <2>2 DEF SpaceNameUnits
<1>4. ASSUME NEW s \in Spaces, NEW u \in Nat
      PROVE  LifelineFeeUnits(s, u) \in Nat
  <2>1. SpaceNameUnits(s) \div SpaceRenewalDiscount \in Nat
    BY <1>1, <1>3, DivNat
  <2>2. (SpaceNameUnits(s) \div SpaceRenewalDiscount) * u \in Nat
    BY <2>1, MulNat
  <2> QED
    BY <1>2, <2>2 DEF LifelineFeeUnits
<1> QED
  BY <1>1, <1>2, <1>3, <1>4, ValueUnitsType DEF ClaimFeeUnits, SetFeeUnits

\* The fee that Pays admits leaves a balance, and Settle keeps balances and
\* the block's time and price.
LEMMA DebitType ==
  ASSUME TypeOK, NEW a \in Addresses, NEW units \in Nat, NEW price \in Nat,
         Pays(a, units, price)
  PROVE  /\ Debit(a, units * price) \in [Addresses -> Nat]
         /\ block.tmstmp > 0
<1>1. units * price \in Nat
  BY MulNat
<1>2. balance[a] - units * price \in Nat
  BY <1>1 DEF TypeOK, Pays
<1> QED
  BY <1>2 DEF TypeOK, Debit, Pays

\* Settle pays the sender's new balances and at most one reward: balances stay
\* natural, and of the block only the mark that it has a transaction changes.
LEMMA SettleType ==
  ASSUME TypeOK, IsMap(info', Spaces, SpaceInfoType),
         NEW bal \in [Addresses -> Nat], NEW a \in Addresses, NEW units \in Nat,
         Settle(bal, a, units)
  PROVE  /\ balance' \in [Addresses -> Nat]
         /\ block' \in [tmstmp : Nat, price : Nat, filled : BOOLEAN]
         /\ block'.tmstmp = block.tmstmp
<1>1. Reward(units) \in Nat
  <2>1. units * block.price \in Nat
    BY MulNat DEF TypeOK
  <2>2. units * block.price * LotteryRewardMultipler \in Nat
    BY <2>1, MulNat, ParametersAssumption
  <2> QED
    BY <2>2, DivNat DEF Reward
<1>2. \A s \in DOMAIN info' : info'[s].owner \in Addresses
  BY DEF IsMap, SpaceInfoType
<1>3. block' = [block EXCEPT !.filled = TRUE]
  BY DEF Settle
<1>4. /\ block' \in [tmstmp : Nat, price : Nat, filled : BOOLEAN]
      /\ block'.tmstmp = block.tmstmp
  BY <1>3 DEF TypeOK
<1>5. ASSUME NEW w \in Addresses
      PROVE  [bal EXCEPT ![w] = @ + Reward(units)] \in [Addresses -> Nat]
  BY <1>1
<1>6. balance' \in [Addresses -> Nat]
  BY <1>2, <1>5 DEF Settle
<1> QED
  BY <1>4, <1>6

-----------------------------------------------------------------------------
(* Writing a SpaceInfo keeps the indexes exact                             *)

\* A stored SpaceInfo carries its raw space, so PutSpaceInfo keeps it.
LEMMA RawIsStored ==
  ASSUME NEW raw \in Spaces \X Nat
  PROVE  raw # NoRaw
BY DEF NoRaw

\* A new space: its raw space and both index entries appear.
LEMMA PutNewSpace ==
  ASSUME TypeOK, IndexesExact, TimesOrdered,
         NEW s \in Spaces \ DOMAIN info,
         NEW i, i.raw = NoRaw, i.owner \in Addresses,
         NEW j, j = [i EXCEPT !.raw = RawSpace(s, i.created)],
         j.raw = RawSpace(s, i.created), j.owner = i.owner, j.expiry = i.expiry,
         PutSpaceInfo(s, i, 0)
  PROVE  info' = Put(info, s, j) /\ IndexesExact'
<1> DEFINE entry == <<i.expiry, RawSpace(s, i.created)>>
<1>1. /\ info' = Put(info, s, j)
      /\ owned' = owned \cup {<<i.owner, s>>}
      /\ expiryQ' = Put(Remove(expiryQ, {}), entry, <<i.owner, s>>)
  BY DEF PutSpaceInfo
<1>2. /\ DOMAIN info' = DOMAIN info \cup {s}
      /\ info'[s] = j
      /\ \A x \in DOMAIN info : info'[x] = info[x]
  BY <1>1 DEF Put
<1>3. /\ DOMAIN expiryQ' = DOMAIN expiryQ \cup {entry}
      /\ expiryQ'[entry] = <<i.owner, s>>
      /\ \A q \in DOMAIN expiryQ \ {entry} : expiryQ'[q] = expiryQ[q]
  BY <1>1 DEF Put, Remove
<1>4. owned' = {<<info'[x].owner, x>> : x \in DOMAIN info'}
  <2>1. owned = {<<info'[x].owner, x>> : x \in DOMAIN info}
    BY <1>2 DEF IndexesExact
  <2>2. owned' = {<<info'[x].owner, x>> : x \in DOMAIN info} \cup {<<info'[s].owner, s>>}
    BY <1>1, <1>2, <2>1
  <2> QED
    BY <1>2, <2>2
<1>5. DOMAIN expiryQ' = {<<info'[x].expiry, info'[x].raw>> : x \in DOMAIN info'}
  <2>1. DOMAIN expiryQ' = {<<info'[x].expiry, info'[x].raw>> : x \in DOMAIN info}
                            \cup {<<info'[s].expiry, info'[s].raw>>}
    BY <1>2, <1>3 DEF IndexesExact
  <2> QED
    BY <1>2, <2>1
<1>6. \A x \in DOMAIN info : <<info[x].expiry, info[x].raw>> # entry
  BY DEF TimesOrdered, RawSpace
<1>7. ASSUME NEW x \in DOMAIN info'
      PROVE  expiryQ'[<<info'[x].expiry, info'[x].raw>>] = <<info'[x].owner, x>>
  <2>1. CASE x = s
    BY <1>2, <1>3, <2>1
  <2>2. CASE x \in DOMAIN info
    <3>1. <<info[x].expiry, info[x].raw>> \in DOMAIN expiryQ \ {entry}
      BY <1>6, <2>2 DEF IndexesExact
    <3> QED
      BY <1>2, <1>3, <2>2, <3>1 DEF IndexesExact
  <2> QED
    BY <1>2, <2>1, <2>2
<1> QED
  BY <1>1, <1>4, <1>5, <1>7 DEF IndexesExact

\* An existing space written back with another expiry: its queue entry moves.
LEMMA PutExistingSpace ==
  ASSUME TypeOK, IndexesExact, TimesOrdered,
         NEW s \in DOMAIN info, info[s].expiry > 0,
         NEW i \in SpaceInfoType, i.raw = info[s].raw, i.owner = info[s].owner,
         PutSpaceInfo(s, i, info[s].expiry)
  PROVE  info' = Put(info, s, i) /\ IndexesExact'
<1> DEFINE stale == <<info[s].expiry, i.raw>>
           entry == <<i.expiry, i.raw>>
<1>1. i.raw # NoRaw
  BY RawIsStored DEF SpaceInfoType
<1>2. [i EXCEPT !.raw = i.raw] = i
  BY DEF SpaceInfoType
<1>3. /\ info' = Put(info, s, i)
      /\ owned' = owned
      /\ expiryQ' = Put(Remove(expiryQ, {stale}), entry, <<i.owner, s>>)
  BY <1>1, <1>2 DEF PutSpaceInfo
<1>4. /\ DOMAIN info' = DOMAIN info
      /\ info'[s] = i
      /\ \A x \in DOMAIN info \ {s} : info'[x] = info[x]
  BY <1>3 DEF Put
<1>5. /\ DOMAIN expiryQ' = (DOMAIN expiryQ \ {stale}) \cup {entry}
      /\ expiryQ'[entry] = <<i.owner, s>>
      /\ \A q \in DOMAIN expiryQ \ {stale, entry} : expiryQ'[q] = expiryQ[q]
  BY <1>3 DEF Put, Remove
<1>6. \A x \in DOMAIN info \ {s} :
        /\ <<info[x].expiry, info[x].raw>> # entry
        /\ <<info[x].expiry, info[x].raw>> # stale
  BY DEF TimesOrdered, RawSpace
<1>7. owned' = {<<info'[x].owner, x>> : x \in DOMAIN info'}
  BY <1>3, <1>4 DEF IndexesExact
<1>8. DOMAIN expiryQ' = {<<info'[x].expiry, info'[x].raw>> : x \in DOMAIN info'}
  <2>1. DOMAIN expiryQ \ {stale}
          = {<<info[x].expiry, info[x].raw>> : x \in DOMAIN info \ {s}}
    BY <1>6 DEF IndexesExact
  <2> QED
    BY <1>4, <1>5, <2>1
<1>9. ASSUME NEW x \in DOMAIN info'
      PROVE  expiryQ'[<<info'[x].expiry, info'[x].raw>>] = <<info'[x].owner, x>>
  <2>1. CASE x = s
    BY <1>4, <1>5, <2>1
  <2>2. CASE x # s
    <3>1. <<info[x].expiry, info[x].raw>> \in DOMAIN expiryQ \ {stale, entry}
      BY <1>4, <1>6, <2>2 DEF IndexesExact
    <3> QED
      BY <1>4, <1>5, <2>2, <3>1 DEF IndexesExact
  <2> QED
    BY <2>1, <2>2
<1> QED
  BY <1>3, <1>7, <1>8, <1>9 DEF IndexesExact

\* A change of owner: the queue entry keeps its key and names the new owner.
LEMMA MoveExistingSpace ==
  ASSUME TypeOK, IndexesExact, TimesOrdered,
         NEW s \in DOMAIN info, NEW to \in Addresses,
         MoveSpaceInfo(info[s].owner, s, [info[s] EXCEPT !.owner = to])
  PROVE  info' = Put(info, s, [info[s] EXCEPT !.owner = to]) /\ IndexesExact'
<1> DEFINE i == [info[s] EXCEPT !.owner = to]
           entry == <<info[s].expiry, info[s].raw>>
<1>1. i.expiry = info[s].expiry /\ i.raw = info[s].raw /\ i.owner = to
  BY DEF TypeOK, IsMap, SpaceInfoType
<1>2. /\ info' = Put(info, s, i)
      /\ owned' = (owned \ {<<info[s].owner, s>>}) \cup {<<to, s>>}
      /\ expiryQ' = Put(expiryQ, entry, <<to, s>>)
  BY <1>1 DEF MoveSpaceInfo
<1>3. /\ DOMAIN info' = DOMAIN info
      /\ info'[s] = i
      /\ \A x \in DOMAIN info \ {s} : info'[x] = info[x]
  BY <1>2 DEF Put
<1>4. /\ DOMAIN expiryQ' = DOMAIN expiryQ \cup {entry}
      /\ expiryQ'[entry] = <<to, s>>
      /\ \A q \in DOMAIN expiryQ \ {entry} : expiryQ'[q] = expiryQ[q]
  BY <1>2 DEF Put
<1>5. owned' = {<<info'[x].owner, x>> : x \in DOMAIN info'}
  <2>1. owned \ {<<info[s].owner, s>>}
          = {<<info[x].owner, x>> : x \in DOMAIN info \ {s}}
    BY DEF IndexesExact
  <2>2. owned \ {<<info[s].owner, s>>}
          = {<<info'[x].owner, x>> : x \in DOMAIN info \ {s}}
    BY <1>3, <2>1
  <2>3. owned' = {<<info'[x].owner, x>> : x \in DOMAIN info \ {s}} \cup {<<info'[s].owner, s>>}
    BY <1>1, <1>2, <1>3, <2>2
  <2> QED
    BY <1>3, <2>3
<1>6. DOMAIN expiryQ' = {<<info'[x].expiry, info'[x].raw>> : x \in DOMAIN info'}
  <2>1. entry \in DOMAIN expiryQ
    BY DEF IndexesExact
  <2>2. \A x \in DOMAIN info :
          info'[x].expiry = info[x].expiry /\ info'[x].raw = info[x].raw
    BY <1>1, <1>3
  <2>3. DOMAIN expiryQ' = {<<info[x].expiry, info[x].raw>> : x \in DOMAIN info}
    BY <1>4, <2>1 DEF IndexesExact
  <2> QED
    BY <1>3, <2>2, <2>3
<1>7. \A x \in DOMAIN info \ {s} : <<info[x].expiry, info[x].raw>> # entry
  BY DEF TimesOrdered, RawSpace
<1>8. ASSUME NEW x \in DOMAIN info'
      PROVE  expiryQ'[<<info'[x].expiry, info'[x].raw>>] = <<info'[x].owner, x>>
  <2>1. CASE x = s
    BY <1>1, <1>3, <1>4, <2>1
  <2>2. CASE x # s
    <3>1. <<info[x].expiry, info[x].raw>> \in DOMAIN expiryQ \ {entry}
      BY <1>3, <1>7, <2>2 DEF IndexesExact
    <3> QED
      BY <1>3, <1>4, <2>2, <3>1 DEF IndexesExact
  <2> QED
    BY <2>1, <2>2
<1> QED
  BY <1>2, <1>5, <1>6, <1>8 DEF IndexesExact

-----------------------------------------------------------------------------
(* What a write to an existing space preserves                             *)

\* Exact indexes have entries of the right type.
LEMMA IndexTypes ==
  ASSUME IndexesExact', IsMap(info', Spaces, SpaceInfoType)
  PROVE  /\ owned' \subseteq Addresses \X Spaces
         /\ IsMap(expiryQ', Nat \X (Spaces \X Nat), Addresses \X Spaces)
<1>1. \A s \in DOMAIN info' :
        /\ s \in Spaces
        /\ info'[s].owner \in Addresses
        /\ info'[s].expiry \in Nat
        /\ info'[s].raw \in Spaces \X Nat
  BY DEF IsMap, SpaceInfoType
<1>2. owned' \subseteq Addresses \X Spaces
  BY <1>1 DEF IndexesExact
<1>3. DOMAIN expiryQ' \subseteq Nat \X (Spaces \X Nat)
  BY <1>1 DEF IndexesExact
<1>4. \A q \in DOMAIN expiryQ' : expiryQ'[q] \in Addresses \X Spaces
  BY <1>1 DEF IndexesExact
<1> QED
  BY <1>2, <1>3, <1>4 DEF IsMap

\* Writing a space back with its raw space and claim time, and times that do
\* not cross the block's, disturbs nothing that concerns times and pruning.
LEMMA RewriteKeepsTimes ==
  ASSUME Inv, NEW s \in DOMAIN info, NEW i \in SpaceInfoType,
         i.raw = info[s].raw, i.created = info[s].created,
         i.updated <= block.tmstmp, block.tmstmp <= i.expiry,
         info' = Put(info, s, i),
         block'.tmstmp = block.tmstmp, UNCHANGED pruning
  PROVE  /\ IsMap(info', Spaces, SpaceInfoType)
         /\ TimesOrdered'
         /\ LiveNotExpired'
         /\ PrunedIsDead'
         /\ DOMAIN info' = DOMAIN info
         /\ info'[s] = i
         /\ \A x \in DOMAIN info \ {s} : info'[x] = info[x]
         /\ \A x \in DOMAIN info : info'[x].raw = info[x].raw
<1>1. /\ DOMAIN info' = DOMAIN info
      /\ info'[s] = i
      /\ \A x \in DOMAIN info \ {s} : info'[x] = info[x]
  BY DEF Put
<1>2. \A x \in DOMAIN info : info'[x].raw = info[x].raw
  BY <1>1
<1>3. IsMap(info', Spaces, SpaceInfoType)
  BY <1>1 DEF Inv, TypeOK, IsMap
<1>4. TimesOrdered'
  BY <1>1 DEF Inv, TimesOrdered, RawSpace
<1>5. LiveNotExpired'
  BY <1>1 DEF Inv, LiveNotExpired
<1>6. PrunedIsDead'
  BY <1>1, <1>2 DEF Inv, PrunedIsDead
<1> QED
  BY <1>1, <1>2, <1>3, <1>4, <1>5, <1>6

\* With the raw spaces of the stored spaces and the pruning queue unchanged, a
\* value may be added under a stored space, and any may go.
LEMMA ValuesStayOwned ==
  ASSUME Inv, NEW s \in DOMAIN info, NEW k,
         DOMAIN info \subseteq DOMAIN info',
         \A x \in DOMAIN info : info'[x].raw = info[x].raw,
         UNCHANGED pruning,
         DOMAIN values' \subseteq DOMAIN values \cup {<<info[s].raw, k>>}
  PROVE  NoOrphanValues'
BY DEF Inv, NoOrphanValues

\* UnitsExact and its successor, with the values and the raw space explicit.
Shares(vals, raw) ==
  [k \in Keys |-> IF <<raw, k>> \in DOMAIN vals THEN ExpiryUnits(vals[<<raw, k>>]) ELSE 0]

\* UnitsExact depends on the values of a space only through their shares.
LEMMA UnitsByShares ==
  /\ UnitsExact <=>
       \A s \in DOMAIN info :
         info[s].units = ClaimExpiryUnits + Total(Shares(values, info[s].raw))
  /\ UnitsExact' <=>
       \A s \in DOMAIN info' :
         info'[s].units = ClaimExpiryUnits + Total(Shares(values', info'[s].raw))
BY DEF UnitsExact, UnitsStored, Shares

\* The units stay exact if no value changes and every space keeps its units.
LEMMA UnitsUntouched ==
  ASSUME Inv, DOMAIN info' \subseteq DOMAIN info, UNCHANGED values,
         \A x \in DOMAIN info' :
           info'[x].raw = info[x].raw /\ info'[x].units = info[x].units
  PROVE  UnitsExact'
<1>1. \A x \in DOMAIN info' : Shares(values', info'[x].raw) = Shares(values, info[x].raw)
  OBVIOUS
<1> QED
  BY <1>1, UnitsByShares DEF Inv

\* Replacing what is stored under one key moves the units by the difference of
\* the two shares, never below those of the claim.
LEMMA RestockUnits ==
  ASSUME Inv, NEW s \in DOMAIN info, NEW k \in Keys,
         NEW vals, IsMap(vals, (Spaces \X Nat) \X Keys, Values),
         DOMAIN vals \cup {<<info[s].raw, k>>} = DOMAIN values \cup {<<info[s].raw, k>>},
         \A rk \in DOMAIN vals \ {<<info[s].raw, k>>} : vals[rk] = values[rk]
  PROVE  LET old == Shares(values, info[s].raw)
             new == Shares(vals, info[s].raw)
         IN /\ info[s].units - old[k] + new[k] = ClaimExpiryUnits + Total(new)
            /\ info[s].units - old[k] + new[k] \in Nat \ {0}
            /\ \A raw : raw # info[s].raw => Shares(vals, raw) = Shares(values, raw)
<1> DEFINE old == Shares(values, info[s].raw)
           new == Shares(vals, info[s].raw)
<1>1. /\ IsFiniteSet(Keys)
      /\ ClaimExpiryUnits \in Nat \ {0}
  BY DomainsAssumption, ParametersAssumption
<1>2. DOMAIN old = Keys /\ DOMAIN new = Keys
  BY DEF Shares
<1>3. \A y \in Keys : old[y] \in Nat /\ new[y] \in Nat
  BY ValueUnitsType DEF Inv, TypeOK, IsMap, Shares
<1>4. \A y \in Keys \ {k} : new[y] = old[y]
  BY DEF Shares
<1>5. Total(new) = Total(old) - old[k] + new[k]
  BY <1>1, <1>2, <1>3, <1>4, TotalUpdate
<1>6. Total(new) \in Nat /\ Total(old) \in Nat
  BY <1>1, <1>2, <1>3, UnitsFinite
<1>7. info[s].units = ClaimExpiryUnits + Total(old)
  BY UnitsByShares DEF Inv
<1>8. \A raw : raw # info[s].raw => Shares(vals, raw) = Shares(values, raw)
  BY DEF Shares
<1> QED
  BY <1>1, <1>3, <1>5, <1>6, <1>7, <1>8

\* The write of SetTx and DeleteTx: new units, and the prepaid life spread over
\* them from the block's time on.
LEMMA UpdateSpaceKeeps ==
  ASSUME Inv, NEW s \in DOMAIN info, NEW k \in Keys,
         block.tmstmp > 0, block'.tmstmp = block.tmstmp, UNCHANGED pruning,
         IsMap(values', (Spaces \X Nat) \X Keys, Values),
         DOMAIN values' \cup {<<info[s].raw, k>>} = DOMAIN values \cup {<<info[s].raw, k>>},
         \A rk \in DOMAIN values' \ {<<info[s].raw, k>>} : values'[rk] = values[rk],
         NEW units,
         units = info[s].units - Shares(values, info[s].raw)[k]
                   + Shares(values', info[s].raw)[k],
         UpdateSpace(s, Prepaid(info[s]), [info[s] EXCEPT !.units = units])
  PROVE  /\ IsMap(info', Spaces, SpaceInfoType)
         /\ IndexesExact' /\ TimesOrdered' /\ LiveNotExpired'
         /\ PrunedIsDead' /\ NoOrphanValues' /\ UnitsExact'
<1> DEFINE i == info[s]
           left == Prepaid(i) \div units
           j == [i EXCEPT !.units = units, !.updated = block.tmstmp,
                          !.expiry = block.tmstmp + left]
<1>1. /\ s \in Spaces /\ i \in SpaceInfoType
      /\ block.tmstmp \in Nat
      /\ i.updated <= block.tmstmp /\ block.tmstmp <= i.expiry
  BY DEF Inv, TypeOK, IsMap, TimesOrdered, LiveNotExpired
<1>2. /\ units = ClaimExpiryUnits + Total(Shares(values', i.raw))
      /\ units \in Nat \ {0}
      /\ \A raw : raw # i.raw => Shares(values', raw) = Shares(values, raw)
  BY RestockUnits
<1>3. left \in Nat
  <2>1. i.expiry - i.updated \in Nat /\ i.units \in Nat
    BY <1>1 DEF SpaceInfoType
  <2>2. Prepaid(i) \in Nat
    BY <2>1, MulNat DEF Prepaid
  <2> QED
    BY <1>2, <2>2, DivNat
<1>4. /\ j \in SpaceInfoType
      /\ j.raw = i.raw /\ j.owner = i.owner /\ j.created = i.created
      /\ j.units = units /\ j.updated = block.tmstmp
      /\ j.expiry = block.tmstmp + left
  <2>1. block.tmstmp + left \in Nat
    BY <1>1, <1>3
  <2>2. i \in SpaceInfoType /\ units \in Nat \ {0} /\ block.tmstmp \in Nat
    BY <1>1, <1>2
  <2> HIDE DEF i, left
  <2> QED
    BY <2>1, <2>2 DEF SpaceInfoType
<1>5. PutSpaceInfo(s, j, i.expiry)
  BY <1>1 DEF UpdateSpace, SpaceInfoType
<1> HIDE DEF j, left
<1>6. info' = Put(info, s, j) /\ IndexesExact'
  <2>1. info[s].expiry > 0
    BY <1>1 DEF SpaceInfoType
  <2>2. TypeOK /\ IndexesExact /\ TimesOrdered
    BY DEF Inv
  <2> QED
    BY <1>4, <1>5, <2>1, <2>2, PutExistingSpace
<1>7. /\ IsMap(info', Spaces, SpaceInfoType)
      /\ TimesOrdered' /\ LiveNotExpired' /\ PrunedIsDead'
      /\ DOMAIN info' = DOMAIN info
      /\ info'[s] = j
      /\ \A x \in DOMAIN info \ {s} : info'[x] = info[x]
      /\ \A x \in DOMAIN info : info'[x].raw = info[x].raw
  BY <1>1, <1>3, <1>4, <1>6, RewriteKeepsTimes
<1>8. NoOrphanValues'
  BY <1>7, ValuesStayOwned
<1>9. UnitsExact'
  <2>1. \A x \in DOMAIN info \ {s} : info[x].raw # i.raw
    BY DEF Inv, TimesOrdered, RawSpace
  <2>2. ASSUME NEW x \in DOMAIN info \ {s}
        PROVE  info'[x].units = ClaimExpiryUnits + Total(Shares(values', info'[x].raw))
    <3>1. info[x].units = ClaimExpiryUnits + Total(Shares(values, info[x].raw))
      BY UnitsByShares DEF Inv
    <3>2. Shares(values', info[x].raw) = Shares(values, info[x].raw)
      BY <1>2, <2>1
    <3> QED
      BY <1>7, <3>1, <3>2
  <2>3. info'[s].units = ClaimExpiryUnits + Total(Shares(values', info'[s].raw))
    BY <1>2, <1>4, <1>7
  <2> QED
    BY <1>7, <2>2, <2>3, UnitsByShares
<1> QED
  BY <1>6, <1>7, <1>8, <1>9

-----------------------------------------------------------------------------
(* Each action preserves the invariant                                     *)

\* Genesis.Load on an empty database establishes the invariant.
LEMMA InitInv == Init => Inv
<1> SUFFICES ASSUME Init PROVE Inv
  OBVIOUS
<1>1. TypeOK
  BY DomainsAssumption, ParametersAssumption DEF Init, TypeOK, IsMap
<1>2. IndexesExact
  BY DEF Init, IndexesExact
<1>3. TimesOrdered /\ LiveNotExpired /\ PrunedIsDead /\ NoOrphanValues /\ UnitsExact
  BY DEF Init, TimesOrdered, LiveNotExpired, PrunedIsDead, NoOrphanValues, UnitsExact
<1> QED
  BY <1>1, <1>2, <1>3 DEF Inv

\* A claim: the raw space is fresh, because what waits under the same name was
\* claimed before the open block, so it holds no values.
LEMMA ClaimInv ==
  ASSUME Inv, NEW a \in Addresses, NEW price \in Prices, NEW s \in Spaces,
         Claim(a, price, s)
  PROVE  Inv'
<1> DEFINE life == ClaimReward \div ClaimExpiryUnits
           i == [owner |-> a, created |-> block.tmstmp, updated |-> block.tmstmp,
                 expiry |-> block.tmstmp + life, units |-> ClaimExpiryUnits,
                 raw |-> NoRaw]
           j == [i EXCEPT !.raw = RawSpace(s, i.created)]
           fresh == RawSpace(s, block.tmstmp)
<1>1. /\ price \in Nat /\ ClaimFeeUnits(s) \in Nat
      /\ ClaimExpiryUnits \in Nat \ {0}
      /\ life \in Nat
      /\ block.tmstmp \in Nat
  BY DomainsAssumption, ParametersAssumption, FeeUnitsType, DivNat DEF Inv, TypeOK
<1>2. s \notin DOMAIN info /\ PutSpaceInfo(s, i, 0)
      /\ UNCHANGED <<pruning, values, bootstrapped>>
  BY DEF Claim
<1>3. /\ j \in SpaceInfoType
      /\ j.raw = fresh /\ j.created = block.tmstmp /\ j.updated = block.tmstmp
      /\ j.expiry = block.tmstmp + life /\ j.units = ClaimExpiryUnits
      /\ j.owner = a
  BY <1>1 DEF SpaceInfoType, RawSpace
<1>4. info' = Put(info, s, j) /\ IndexesExact'
  BY <1>2, <1>3, PutNewSpace DEF Inv
<1> HIDE DEF j, life
<1>5. /\ DOMAIN info' = DOMAIN info \cup {s}
      /\ info'[s] = j
      /\ \A x \in DOMAIN info : info'[x] = info[x]
  BY <1>2, <1>4 DEF Put
<1>6. IsMap(info', Spaces, SpaceInfoType)
  BY <1>3, <1>5 DEF Inv, TypeOK, IsMap
<1>7. /\ balance' \in [Addresses -> Nat]
      /\ block' \in [tmstmp : Nat, price : Nat, filled : BOOLEAN]
      /\ block'.tmstmp = block.tmstmp
  BY <1>1, <1>6, DebitType, SettleType DEF Claim, Inv
<1>8. TypeOK'
  BY <1>2, <1>4, <1>6, <1>7, IndexTypes DEF Inv, TypeOK
<1>9. TimesOrdered'
  BY <1>1, <1>2, <1>3, <1>5, <1>7 DEF Inv, TimesOrdered
<1>10. LiveNotExpired'
  BY <1>1, <1>3, <1>5, <1>7 DEF Inv, LiveNotExpired
<1>11. /\ \A p \in pruning : p[2] # fresh
       /\ \A x \in DOMAIN info : info[x].raw # fresh
  BY <1>1, <1>2 DEF Inv, TimesOrdered, TypeOK, RawSpace
<1>12. PrunedIsDead'
  BY <1>2, <1>3, <1>5, <1>11 DEF Inv, PrunedIsDead
<1>13. NoOrphanValues'
  BY <1>2, <1>5 DEF Inv, NoOrphanValues
<1>14. UnitsExact'
  <2>1. \A k \in Keys : <<fresh, k>> \notin DOMAIN values
    BY <1>11 DEF Inv, NoOrphanValues
  <2>2. Total(Shares(values, fresh)) = 0
    BY <2>1, TotalZero DEF Shares
  <2>3. info'[s].units = ClaimExpiryUnits + Total(Shares(values', info'[s].raw))
    BY <1>1, <1>2, <1>3, <1>5, <2>2
  <2>4. \A x \in DOMAIN info :
          info'[x].units = ClaimExpiryUnits + Total(Shares(values', info'[x].raw))
    BY <1>2, <1>5, UnitsByShares DEF Inv
  <2> QED
    BY <1>5, <2>3, <2>4, UnitsByShares
<1> QED
  BY <1>4, <1>8, <1>9, <1>10, <1>12, <1>13, <1>14 DEF Inv

\* A lifeline only moves the expiry, and never back.
LEMMA LifelineInv ==
  ASSUME Inv, NEW a \in Addresses, NEW price \in Prices, NEW s \in Spaces,
         NEW units \in LifelineUnits, Lifeline(a, price, s, units)
  PROVE  Inv'
<1> DEFINE i == info[s]
           gain == (ClaimReward * units) \div i.units
           j == [i EXCEPT !.expiry = i.expiry + gain]
           fee == LifelineFeeUnits(s, units)
<1>1. /\ s \in DOMAIN info
      /\ PutSpaceInfo(s, j, i.expiry)
      /\ Pays(a, fee, price)
      /\ Settle(Debit(a, fee * price), a, fee)
      /\ UNCHANGED <<pruning, values, bootstrapped>>
  BY DEF Lifeline
<1>2. /\ price \in Nat /\ units \in Nat /\ fee \in Nat
      /\ i \in SpaceInfoType
      /\ block.tmstmp \in Nat /\ block.tmstmp > 0
      /\ i.updated <= block.tmstmp /\ block.tmstmp <= i.expiry
  BY <1>1, DomainsAssumption, FeeUnitsType
     DEF Inv, TypeOK, IsMap, TimesOrdered, LiveNotExpired, Pays
<1>3. gain \in Nat
  <2>1. ClaimReward * units \in Nat
    BY <1>2, MulNat, ParametersAssumption
  <2> QED
    BY <1>2, <2>1, DivNat DEF SpaceInfoType
<1> HIDE DEF gain, fee
<1>4. /\ j \in SpaceInfoType
      /\ j.raw = i.raw /\ j.owner = i.owner /\ j.created = i.created
      /\ j.units = i.units /\ j.updated = i.updated
      /\ block.tmstmp <= j.expiry
  BY <1>2, <1>3 DEF SpaceInfoType
<1> HIDE DEF j
<1>5. info' = Put(info, s, j) /\ IndexesExact'
  <2>1. info[s].expiry > 0
    BY <1>2 DEF SpaceInfoType
  <2> QED
    BY <1>1, <1>4, <2>1, PutExistingSpace DEF Inv
<1>6. IsMap(info', Spaces, SpaceInfoType)
  BY <1>4, <1>5 DEF Inv, TypeOK, IsMap, Put
<1>7. /\ balance' \in [Addresses -> Nat]
      /\ block' \in [tmstmp : Nat, price : Nat, filled : BOOLEAN]
      /\ block'.tmstmp = block.tmstmp
  BY <1>1, <1>2, <1>6, DebitType, SettleType DEF Inv
<1>8. TypeOK'
  BY <1>1, <1>5, <1>6, <1>7, IndexTypes DEF Inv, TypeOK
<1>9. /\ TimesOrdered' /\ LiveNotExpired' /\ PrunedIsDead'
      /\ DOMAIN info' = DOMAIN info
      /\ info'[s] = j
      /\ \A x \in DOMAIN info \ {s} : info'[x] = info[x]
      /\ \A x \in DOMAIN info : info'[x].raw = info[x].raw
  BY <1>1, <1>2, <1>4, <1>5, <1>7, RewriteKeepsTimes
<1>10. NoOrphanValues'
  BY <1>1, <1>9, ValuesStayOwned
<1>11. UnitsExact'
  BY <1>1, <1>4, <1>9, UnitsUntouched
<1> QED
  BY <1>5, <1>8, <1>9, <1>10, <1>11 DEF Inv

\* SetTx: one share is replaced by another under a space the sender owns.
LEMMA SetInv ==
  ASSUME Inv, NEW a \in Addresses, NEW price \in Prices, NEW s \in Spaces,
         NEW k \in Keys, NEW v \in Values, Set(a, price, s, k, v)
  PROVE  Inv'
<1> DEFINE i == info[s]
           units == i.units - UnitsStored(i.raw, k) + ExpiryUnits(v)
           fee == SetFeeUnits(v)
<1>1. /\ s \in DOMAIN info
      /\ values' = Put(values, <<i.raw, k>>, v)
      /\ UpdateSpace(s, Prepaid(i), [i EXCEPT !.units = units])
      /\ Pays(a, fee, price)
      /\ Settle(Debit(a, fee * price), a, fee)
      /\ UNCHANGED <<pruning, bootstrapped>>
  BY DEF Set, VerifySpace
<1>2. /\ price \in Nat /\ fee \in Nat
      /\ i \in SpaceInfoType /\ i.raw \in Spaces \X Nat
      /\ block.tmstmp > 0
  BY <1>1, DomainsAssumption, FeeUnitsType DEF Inv, TypeOK, IsMap, SpaceInfoType, Pays
<1>3. /\ DOMAIN values' = DOMAIN values \cup {<<i.raw, k>>}
      /\ values'[<<i.raw, k>>] = v
      /\ \A rk \in DOMAIN values' \ {<<i.raw, k>>} : values'[rk] = values[rk]
  BY <1>1 DEF Put
<1>4. IsMap(values', (Spaces \X Nat) \X Keys, Values)
  BY <1>2, <1>3 DEF Inv, TypeOK, IsMap
<1>5. units = i.units - Shares(values, i.raw)[k] + Shares(values', i.raw)[k]
  BY <1>3 DEF Shares, UnitsStored
<1>6. block' = [block EXCEPT !.filled = TRUE]
  BY <1>1 DEF Settle
<1>7. block'.tmstmp = block.tmstmp
  BY <1>6 DEF Inv, TypeOK
<1> HIDE DEF fee, units
<1>8. /\ IsMap(info', Spaces, SpaceInfoType)
      /\ IndexesExact' /\ TimesOrdered' /\ LiveNotExpired'
      /\ PrunedIsDead' /\ NoOrphanValues' /\ UnitsExact'
  BY <1>1, <1>2, <1>3, <1>4, <1>5, <1>7, UpdateSpaceKeeps
<1>9. /\ balance' \in [Addresses -> Nat]
      /\ block' \in [tmstmp : Nat, price : Nat, filled : BOOLEAN]
  BY <1>1, <1>2, <1>8, DebitType, SettleType DEF Inv
<1>10. TypeOK'
  BY <1>1, <1>4, <1>8, <1>9, IndexTypes DEF Inv, TypeOK
<1> QED
  BY <1>8, <1>10 DEF Inv

\* DeleteTx: the share of the deleted value leaves the units.
LEMMA DeleteInv ==
  ASSUME Inv, NEW a \in Addresses, NEW price \in Prices, NEW s \in Spaces,
         NEW k \in Keys, Delete(a, price, s, k)
  PROVE  Inv'
<1> DEFINE i == info[s]
           units == i.units - UnitsStored(i.raw, k)
<1>1. /\ s \in DOMAIN info
      /\ <<i.raw, k>> \in DOMAIN values
      /\ values' = Remove(values, {<<i.raw, k>>})
      /\ UpdateSpace(s, Prepaid(i), [i EXCEPT !.units = units])
      /\ Pays(a, BaseTxUnits, price)
      /\ Settle(Debit(a, BaseTxUnits * price), a, BaseTxUnits)
      /\ UNCHANGED <<pruning, bootstrapped>>
  BY DEF Delete, VerifySpace
<1>2. /\ price \in Nat /\ BaseTxUnits \in Nat
      /\ i \in SpaceInfoType /\ i.raw \in Spaces \X Nat
      /\ block.tmstmp > 0
  BY <1>1, DomainsAssumption, FeeUnitsType DEF Inv, TypeOK, IsMap, SpaceInfoType, Pays
<1>3. /\ DOMAIN values' = DOMAIN values \ {<<i.raw, k>>}
      /\ \A rk \in DOMAIN values' : values'[rk] = values[rk]
  BY <1>1 DEF Remove
<1>4. IsMap(values', (Spaces \X Nat) \X Keys, Values)
  BY <1>3 DEF Inv, TypeOK, IsMap
<1>5. units = i.units - Shares(values, i.raw)[k] + Shares(values', i.raw)[k]
  <2>1. Shares(values', i.raw)[k] = 0
    BY <1>3 DEF Shares
  <2>2. UnitsStored(i.raw, k) = Shares(values, i.raw)[k]
    BY DEF Shares, UnitsStored
  <2>3. UnitsStored(i.raw, k) \in Nat
    BY <1>1, ValueUnitsType DEF UnitsStored, Inv, TypeOK, IsMap
  <2> QED
    BY <1>2, <2>1, <2>2, <2>3 DEF SpaceInfoType
<1>6. block' = [block EXCEPT !.filled = TRUE]
  BY <1>1 DEF Settle
<1>7. block'.tmstmp = block.tmstmp
  BY <1>6 DEF Inv, TypeOK
<1> HIDE DEF units
<1>8. /\ IsMap(info', Spaces, SpaceInfoType)
      /\ IndexesExact' /\ TimesOrdered' /\ LiveNotExpired'
      /\ PrunedIsDead' /\ NoOrphanValues' /\ UnitsExact'
  BY <1>1, <1>2, <1>3, <1>4, <1>5, <1>7, UpdateSpaceKeeps
<1>9. /\ balance' \in [Addresses -> Nat]
      /\ block' \in [tmstmp : Nat, price : Nat, filled : BOOLEAN]
  BY <1>1, <1>2, <1>8, DebitType, SettleType DEF Inv
<1>10. TypeOK'
  BY <1>1, <1>4, <1>8, <1>9, IndexTypes DEF Inv, TypeOK
<1> QED
  BY <1>8, <1>10 DEF Inv

\* MoveTx: owner, owned entry and queue entry change together.
LEMMA MoveInv ==
  ASSUME Inv, NEW a \in Addresses, NEW price \in Prices, NEW s \in Spaces,
         NEW to \in Addresses \cup {ZeroAddress}, Move(a, price, s, to)
  PROVE  Inv'
<1> DEFINE j == [info[s] EXCEPT !.owner = to]
<1>1. /\ s \in DOMAIN info /\ to \in Addresses
      /\ MoveSpaceInfo(info[s].owner, s, j)
      /\ Pays(a, BaseTxUnits, price)
      /\ Settle(Debit(a, BaseTxUnits * price), a, BaseTxUnits)
      /\ UNCHANGED <<pruning, values, bootstrapped>>
  BY DEF Move, VerifySpace
<1>2. /\ price \in Nat /\ BaseTxUnits \in Nat
      /\ info[s] \in SpaceInfoType
      /\ info[s].updated <= block.tmstmp /\ block.tmstmp <= info[s].expiry
  BY <1>1, DomainsAssumption, FeeUnitsType
     DEF Inv, TypeOK, IsMap, TimesOrdered, LiveNotExpired
<1>3. info' = Put(info, s, j) /\ IndexesExact'
  BY <1>1, MoveExistingSpace DEF Inv
<1>4. /\ j \in SpaceInfoType
      /\ j.raw = info[s].raw /\ j.created = info[s].created
      /\ j.units = info[s].units /\ j.updated = info[s].updated
      /\ j.expiry = info[s].expiry
  BY <1>1, <1>2 DEF SpaceInfoType
<1> HIDE DEF j
<1>5. IsMap(info', Spaces, SpaceInfoType)
  BY <1>3, <1>4 DEF Inv, TypeOK, IsMap, Put
<1>6. /\ balance' \in [Addresses -> Nat]
      /\ block' \in [tmstmp : Nat, price : Nat, filled : BOOLEAN]
      /\ block'.tmstmp = block.tmstmp
  BY <1>1, <1>2, <1>5, DebitType, SettleType DEF Inv
<1>7. TypeOK'
  BY <1>1, <1>3, <1>5, <1>6, IndexTypes DEF Inv, TypeOK
<1>8. /\ TimesOrdered' /\ LiveNotExpired' /\ PrunedIsDead'
      /\ DOMAIN info' = DOMAIN info
      /\ info'[s] = j
      /\ \A x \in DOMAIN info \ {s} : info'[x] = info[x]
      /\ \A x \in DOMAIN info : info'[x].raw = info[x].raw
  BY <1>1, <1>2, <1>3, <1>4, <1>6, RewriteKeepsTimes
<1>9. NoOrphanValues'
  BY <1>1, <1>8, ValuesStayOwned
<1>10. UnitsExact'
  BY <1>1, <1>4, <1>8, UnitsUntouched
<1> QED
  BY <1>3, <1>7, <1>8, <1>9, <1>10 DEF Inv

\* Steps that leave the database and the block's time alone.
LEMMA SameDbInv ==
  ASSUME Inv, UNCHANGED dbVars, block'.tmstmp = block.tmstmp, TypeOK'
  PROVE  Inv'
<1>1. /\ IndexesExact' /\ TimesOrdered' /\ LiveNotExpired'
      /\ PrunedIsDead' /\ NoOrphanValues'
  BY DEF Inv, dbVars, IndexesExact, TimesOrdered, LiveNotExpired, PrunedIsDead,
         NoOrphanValues
<1>2. UnitsExact'
  BY UnitsUntouched DEF dbVars
<1> QED
  BY <1>1, <1>2 DEF Inv

\* TransferTx touches balances only.
LEMMA TransferInv ==
  ASSUME Inv, NEW a \in Addresses, NEW price \in Prices,
         NEW to \in Addresses \cup {ZeroAddress}, NEW units \in TransferUnits,
         Transfer(a, price, to, units)
  PROVE  Inv'
<1> DEFINE paid == Debit(a, BaseTxUnits * price)
           bal == [paid EXCEPT ![a] = @ - units, ![to] = @ + units]
<1>1. /\ Pays(a, BaseTxUnits, price)
      /\ to \in Addresses /\ units <= paid[a] /\ to # a
      /\ UNCHANGED <<dbVars, bootstrapped>>
      /\ Settle(bal, a, BaseTxUnits)
  BY DEF Transfer
<1>2. price \in Nat /\ BaseTxUnits \in Nat /\ units \in Nat
  BY DomainsAssumption, FeeUnitsType
<1>3. paid \in [Addresses -> Nat]
  BY <1>1, <1>2, DebitType DEF Inv
<1> HIDE DEF paid
<1>4. bal \in [Addresses -> Nat]
  BY <1>1, <1>2, <1>3
<1> HIDE DEF bal
<1>5. IsMap(info', Spaces, SpaceInfoType)
  BY <1>1 DEF Inv, TypeOK, dbVars
<1>6. /\ balance' \in [Addresses -> Nat]
      /\ block' \in [tmstmp : Nat, price : Nat, filled : BOOLEAN]
      /\ block'.tmstmp = block.tmstmp
  BY <1>1, <1>2, <1>4, <1>5, SettleType DEF Inv
<1>7. TypeOK'
  BY <1>1, <1>6 DEF Inv, TypeOK, dbVars
<1> QED
  BY <1>1, <1>6, <1>7, SameDbInv

\* The switch to normal operations touches no stored state.
LEMMA SetStateInv ==
  ASSUME Inv, NEW b \in BOOLEAN, SetState(b)
  PROVE  Inv'
<1>1. UNCHANGED dbVars /\ block'.tmstmp = block.tmstmp
  BY DEF SetState
<1>2. TypeOK'
  BY DEF SetState, Inv, TypeOK, dbVars
<1> QED
  BY <1>1, <1>2, SameDbInv

\* The pruner removes only values of raw spaces that no space has, and with
\* them the reason to keep their queue entries.
LEMMA PruneInv ==
  ASSUME Inv, Prune
  PROVE  Inv'
<1>1. PICK P \in SUBSET pruning :
        /\ pruning' = pruning \ P
        /\ values' = Remove(values, ValueKeysOf({p[2] : p \in P}))
        /\ UNCHANGED <<info, owned, expiryQ, balance, block, bootstrapped>>
  BY DEF Prune, Prunable
<1>2. /\ DOMAIN values' = {rk \in DOMAIN values : \A p \in P : rk[1] # p[2]}
      /\ \A rk \in DOMAIN values' : values'[rk] = values[rk]
  BY <1>1 DEF Remove, ValueKeysOf
<1>3. TypeOK'
  BY <1>1, <1>2 DEF Inv, TypeOK, IsMap
<1>4. IndexesExact' /\ TimesOrdered' /\ LiveNotExpired' /\ PrunedIsDead'
  BY <1>1 DEF Inv, IndexesExact, TimesOrdered, LiveNotExpired, PrunedIsDead
<1>5. NoOrphanValues'
  BY <1>1, <1>2 DEF Inv, NoOrphanValues
<1>6. UnitsExact'
  <2>1. ASSUME NEW s \in DOMAIN info
        PROVE  Shares(values', info[s].raw) = Shares(values, info[s].raw)
    <3>1. \A k \in Keys : /\ <<info[s].raw, k>> \in DOMAIN values' <=>
                               <<info[s].raw, k>> \in DOMAIN values
      BY <1>1, <1>2 DEF Inv, PrunedIsDead
    <3> QED
      BY <1>2, <3>1 DEF Shares
  <2> QED
    BY <1>1, <2>1, UnitsByShares DEF Inv
<1> QED
  BY <1>3, <1>4, <1>5, <1>6 DEF Inv

\* The spaces that have expired before time t.
Gone(t) == {s \in DOMAIN info : info[s].expiry < t}

\* A new block: the window of ExpireNext holds the entries of exactly the
\* spaces that expired before it, each with its own owner and raw space, so no
\* other space loses a value.
LEMMA ExpiryIsExact ==
  ASSUME Inv, NEW t \in Times, NEW p \in Prices, NextBlock(t, p)
  PROVE  /\ Due(block.tmstmp, t) = {<<info[s].expiry, info[s].raw>> : s \in Gone(t)}
         /\ expiryQ' = Remove(expiryQ, Due(block.tmstmp, t))
         /\ owned' = owned \ {<<info[s].owner, s>> : s \in Gone(t)}
         /\ info' = Remove(info, Gone(t))
         /\ \/ pruning' = pruning \cup Due(block.tmstmp, t) /\ values' = values
            \/ /\ pruning' = pruning
               /\ values' = Remove(values, ValueKeysOf({info[s].raw : s \in Gone(t)}))
         /\ DOMAIN values' \subseteq DOMAIN values
         /\ \A rk \in DOMAIN values' : values'[rk] = values[rk]
         /\ \A rk \in DOMAIN values \ DOMAIN values' :
              \E s \in Gone(t) : rk[1] = info[s].raw
<1> DEFINE due == Due(block.tmstmp, t)
           gone == Gone(t)
<1>1. /\ Expire(due)
      /\ block' = [tmstmp |-> t, price |-> p, filled |-> FALSE]
      /\ block.tmstmp <= t
      /\ UNCHANGED <<balance, bootstrapped>>
  BY DEF NextBlock
<1>2. /\ t \in Nat /\ p \in Nat /\ block.tmstmp \in Nat
      /\ \A s \in DOMAIN info : info[s] \in SpaceInfoType /\ s \in Spaces
  BY DomainsAssumption DEF Inv, TypeOK, IsMap
<1>3. due = {<<info[s].expiry, info[s].raw>> : s \in gone}
  <2>1. \A s \in DOMAIN info : block.tmstmp <= info[s].expiry
    BY DEF Inv, LiveNotExpired
  <2> QED
    BY <1>2, <2>1 DEF Due, Gone, Inv, IndexesExact
<1>4. \A s \in gone : expiryQ[<<info[s].expiry, info[s].raw>>] = <<info[s].owner, s>>
  BY DEF Gone, Inv, IndexesExact
<1>5. /\ {expiryQ[q][2] : q \in due} = gone
      /\ {expiryQ[q] : q \in due} = {<<info[s].owner, s>> : s \in gone}
      /\ {q[2] : q \in due} = {info[s].raw : s \in gone}
  <2> DEFINE entry(s) == <<info[s].expiry, info[s].raw>>
  <2>1. /\ \A s \in gone : /\ entry(s) \in due
                          /\ expiryQ[entry(s)] = <<info[s].owner, s>>
                          /\ expiryQ[entry(s)][2] = s
                          /\ entry(s)[2] = info[s].raw
        /\ \A q \in due : \E s \in gone : q = entry(s)
    BY <1>3, <1>4
  <2> HIDE DEF due, gone, entry
  <2>2. {expiryQ[q][2] : q \in due} = gone
    BY <2>1
  <2>3. {expiryQ[q] : q \in due} = {<<info[s].owner, s>> : s \in gone}
    BY <2>1
  <2>4. {q[2] : q \in due} = {info[s].raw : s \in gone}
    BY <2>1
  <2> QED
    BY <2>2, <2>3, <2>4
<1>6. /\ expiryQ' = Remove(expiryQ, due)
      /\ owned' = owned \ {<<info[s].owner, s>> : s \in gone}
      /\ info' = Remove(info, gone)
  BY <1>1, <1>5 DEF Expire
<1>7. \/ pruning' = pruning \cup due /\ values' = values
      \/ pruning' = pruning /\ values' = Remove(values, ValueKeysOf({info[s].raw : s \in gone}))
  BY <1>1, <1>5 DEF Expire
<1> HIDE DEF due, gone
<1>8. /\ DOMAIN values' \subseteq DOMAIN values
      /\ \A rk \in DOMAIN values' : values'[rk] = values[rk]
      /\ \A rk \in DOMAIN values \ DOMAIN values' : \E s \in gone : rk[1] = info[s].raw
  BY <1>7 DEF Remove, ValueKeysOf
<1> QED
  BY <1>3, <1>6, <1>7, <1>8 DEF due, gone

\* With every raw space distinct, the expired spaces leave all the indexes and
\* the remaining ones keep their entries and their values.
LEMMA NextBlockInv ==
  ASSUME Inv, NEW t \in Times, NEW p \in Prices, NextBlock(t, p)
  PROVE  Inv'
<1> DEFINE due == Due(block.tmstmp, t)
           gone == Gone(t)
<1>1. /\ block' = [tmstmp |-> t, price |-> p, filled |-> FALSE]
      /\ block.tmstmp <= t
      /\ UNCHANGED <<balance, bootstrapped>>
  BY DEF NextBlock
<1>2. /\ t \in Nat /\ p \in Nat /\ block.tmstmp \in Nat
      /\ \A s \in DOMAIN info : info[s] \in SpaceInfoType /\ s \in Spaces
  BY DomainsAssumption DEF Inv, TypeOK, IsMap
<1>3. due = {<<info[s].expiry, info[s].raw>> : s \in gone}
  BY ExpiryIsExact
<1>4. /\ expiryQ' = Remove(expiryQ, due)
      /\ owned' = owned \ {<<info[s].owner, s>> : s \in gone}
      /\ info' = Remove(info, gone)
  BY ExpiryIsExact
<1>5. \/ pruning' = pruning \cup due /\ values' = values
      \/ pruning' = pruning /\ values' = Remove(values, ValueKeysOf({info[s].raw : s \in gone}))
  BY ExpiryIsExact
<1>6. /\ DOMAIN info' = DOMAIN info \ gone
      /\ \A s \in DOMAIN info' : info'[s] = info[s]
      /\ \A s \in DOMAIN info' : t <= info[s].expiry
  BY <1>2, <1>4 DEF Remove, SpaceInfoType, Gone
<1>7. \A x, y \in DOMAIN info : x # y => info[x].raw # info[y].raw
  BY DEF Inv, TimesOrdered, RawSpace
<1>8. /\ DOMAIN values' \subseteq DOMAIN values
      /\ \A rk \in DOMAIN values' : values'[rk] = values[rk]
      /\ \A rk \in DOMAIN values \ DOMAIN values' : \E s \in gone : rk[1] = info[s].raw
  BY ExpiryIsExact
<1>9. gone \subseteq DOMAIN info /\ \A s \in gone : info[s].expiry < t
  BY DEF Gone
<1> HIDE DEF due, gone
<1>10. IndexesExact'
  <2>1. owned' = {<<info'[s].owner, s>> : s \in DOMAIN info'}
    <3>1. owned' = {<<info[s].owner, s>> : s \in DOMAIN info \ gone}
      BY <1>4, <1>9 DEF Inv, IndexesExact
    <3> QED
      BY <1>6, <3>1
  <2>2. DOMAIN expiryQ' = {<<info'[s].expiry, info'[s].raw>> : s \in DOMAIN info'}
    <3>1. DOMAIN expiryQ' = DOMAIN expiryQ \ due
      BY <1>4 DEF Remove
    <3>2. DOMAIN expiryQ \ due = {<<info[s].expiry, info[s].raw>> : s \in DOMAIN info \ gone}
      BY <1>3, <1>7, <1>9 DEF Inv, IndexesExact
    <3> QED
      BY <1>6, <3>1, <3>2
  <2>3. ASSUME NEW s \in DOMAIN info'
        PROVE  expiryQ'[<<info'[s].expiry, info'[s].raw>>] = <<info'[s].owner, s>>
    <3>1. <<info[s].expiry, info[s].raw>> \in DOMAIN expiryQ'
      BY <1>6, <2>2
    <3> QED
      BY <1>4, <1>6, <3>1 DEF Remove, Inv, IndexesExact
  <2> QED
    BY <2>1, <2>2, <2>3 DEF IndexesExact
<1>11. TypeOK'
  <2>1. IsMap(info', Spaces, SpaceInfoType)
    BY <1>2, <1>6 DEF IsMap
  <2>2. due \subseteq Nat \X (Spaces \X Nat)
    BY <1>2, <1>3, <1>9 DEF SpaceInfoType
  <2>3. pruning' \subseteq Nat \X (Spaces \X Nat)
    BY <1>5, <2>2 DEF Inv, TypeOK
  <2>4. IsMap(values', (Spaces \X Nat) \X Keys, Values)
    BY <1>8 DEF Inv, TypeOK, IsMap
  <2> QED
    BY <1>1, <1>2, <1>10, <2>1, <2>3, <2>4, IndexTypes DEF Inv, TypeOK
<1>12. TimesOrdered'
  <2>1. \A q \in due : q[1] < t /\ q[2][2] <= q[1]
    <3>1. ASSUME NEW s \in gone
          PROVE  info[s].expiry < t /\ info[s].raw[2] <= info[s].expiry
      <4>1. /\ info[s].expiry < t
            /\ info[s].raw[2] = info[s].created
            /\ info[s].created <= block.tmstmp /\ block.tmstmp <= info[s].expiry
        BY <1>9 DEF Inv, TimesOrdered, RawSpace, LiveNotExpired
      <4> QED
        BY <1>2, <1>9, <4>1 DEF SpaceInfoType
    <3> QED
      BY <1>3, <3>1
  <2>2. \A q \in pruning : q[1] < t /\ q[2][2] <= q[1]
    BY <1>1, <1>2 DEF Inv, TimesOrdered, TypeOK
  <2>3. \A s \in DOMAIN info' :
          /\ info'[s].raw = RawSpace(s, info'[s].created)
          /\ info'[s].created <= t
          /\ info'[s].updated <= t
    BY <1>1, <1>2, <1>6 DEF Inv, TimesOrdered, SpaceInfoType
  <2> QED
    BY <1>1, <1>5, <2>1, <2>2, <2>3 DEF TimesOrdered
<1>13. LiveNotExpired'
  BY <1>1, <1>6 DEF LiveNotExpired
<1>14. PrunedIsDead'
  <2>1. \A s \in DOMAIN info' : \A q \in due : q[2] # info[s].raw
    BY <1>3, <1>6, <1>7, <1>9
  <2> QED
    BY <1>5, <1>6, <2>1 DEF Inv, PrunedIsDead
<1>15. NoOrphanValues'
  <2>1. ASSUME NEW rk \in DOMAIN values',
               NEW s \in DOMAIN info, info[s].raw = rk[1]
        PROVE  \/ \E x \in DOMAIN info' : info'[x].raw = rk[1]
               \/ \E q \in pruning' : q[2] = rk[1]
    <3>1. CASE s \in gone
      <4>1. <<info[s].expiry, info[s].raw>> \in due
        BY <1>3, <3>1
      <4>2. pruning' = pruning \cup due
        BY <1>5, <1>8, <2>1, <3>1 DEF Remove, ValueKeysOf
      <4> QED
        BY <2>1, <4>1, <4>2
    <3>2. CASE s \notin gone
      BY <1>6, <2>1, <3>2
    <3> QED
      BY <3>1, <3>2
  <2> QED
    BY <1>5, <1>8, <2>1 DEF Inv, NoOrphanValues
<1>16. UnitsExact'
  <2>1. ASSUME NEW s \in DOMAIN info'
        PROVE  Shares(values', info[s].raw) = Shares(values, info[s].raw)
    <3>1. \A k \in Keys : <<info[s].raw, k>> \in DOMAIN values' <=>
                            <<info[s].raw, k>> \in DOMAIN values
      BY <1>6, <1>7, <1>8, <1>9
    <3> QED
      BY <1>8, <3>1 DEF Shares
  <2> QED
    BY <1>6, <2>1, UnitsByShares DEF Inv
<1> QED
  BY <1>10, <1>11, <1>12, <1>13, <1>14, <1>15, <1>16 DEF Inv

-----------------------------------------------------------------------------
(* Readers see SpaceStore                                                  *)

\* Visible, with the SpaceInfos and the values explicit.
StoreIn(vals, raw) ==
  [k \in {key \in Keys : <<raw, key>> \in DOMAIN vals} |-> vals[<<raw, k>>]]
Shown(i, vals) ==
  [owner |-> i.owner, updated |-> i.updated, expiry |-> i.expiry,
   store |-> StoreIn(vals, i.raw)]
ViewIn(inf, vals) == [s \in DOMAIN inf |-> Shown(inf[s], vals)]

\* The keys GetAllValueMetas finds under a raw space are keys of the chain, so
\* its result is the values map at that raw space.
LEMMA VisibleIsView ==
  /\ TypeOK => Visible = ViewIn(info, values)
  /\ TypeOK' => Visible' = ViewIn(info', values')
<1>1. ASSUME NEW vals, IsMap(vals, (Spaces \X Nat) \X Keys, Values), NEW raw
      PROVE  {rk[2] : rk \in {x \in DOMAIN vals : x[1] \in {raw}}}
               = {key \in Keys : <<raw, key>> \in DOMAIN vals}
  <2>1. \A x \in DOMAIN vals : x[2] \in Keys /\ x = <<x[1], x[2]>>
    BY <1>1 DEF IsMap
  <2>2. ASSUME NEW key \in {rk[2] : rk \in {x \in DOMAIN vals : x[1] \in {raw}}}
        PROVE  key \in Keys /\ <<raw, key>> \in DOMAIN vals
    BY <2>1
  <2>3. ASSUME NEW key \in Keys, <<raw, key>> \in DOMAIN vals
        PROVE  key \in {rk[2] : rk \in {x \in DOMAIN vals : x[1] \in {raw}}}
    BY <2>3
  <2> QED
    BY <2>2, <2>3
<1>2. ASSUME TypeOK PROVE Visible = ViewIn(info, values)
  <2>1. \A raw : StoreOf(raw) = StoreIn(values, raw)
    BY <1>1, <1>2 DEF TypeOK, StoreOf, StoreIn, ValueKeysOf
  <2> QED
    BY <2>1 DEF Visible, ViewIn, Shown
<1>3. ASSUME TypeOK' PROVE Visible' = ViewIn(info', values')
  <2>1. \A raw : StoreOf(raw)' = StoreIn(values', raw)
    BY <1>1, <1>3 DEF TypeOK, StoreOf, StoreIn, ValueKeysOf
  <2> QED
    BY <2>1 DEF Visible, ViewIn, Shown
<1> QED
  BY <1>2, <1>3

\* What SpaceStore weighs is what the chain counts: keys without a value add no
\* units.
LEMMA WeightOfStore ==
  ASSUME NEW vals, NEW raw
  PROVE  View!Weight(StoreIn(vals, raw)) = ClaimExpiryUnits + Total(Shares(vals, raw))
<1> DEFINE store == StoreIn(vals, raw)
           held == [k \in DOMAIN store |-> View!ExpiryUnits(store[k])]
           shares == Shares(vals, raw)
<1>1. /\ DOMAIN held = {k \in Keys : <<raw, k>> \in DOMAIN vals}
      /\ \A k \in DOMAIN held : held[k] = shares[k]
      /\ DOMAIN shares = Keys
      /\ \A k \in Keys \ DOMAIN held : shares[k] = 0
  BY DEF StoreIn, Shares, ExpiryUnits, ValueUnits, View!ExpiryUnits, View!ValueUnits
<1> HIDE DEF held, shares
<1>2. View!Units(held) = Units(shares)
  <2>1. \A k \in Keys \ DOMAIN held : UnitsAt(shares, k) = {}
    BY <1>1 DEF UnitsAt
  <2>2. \A k \in DOMAIN held : UnitsAt(shares, k) = View!UnitsAt(held, k)
    BY <1>1 DEF UnitsAt, View!UnitsAt
  <2> QED
    BY <1>1, <2>1, <2>2 DEF Units, View!Units
<1>3. View!Total(held) = Total(shares)
  BY <1>2 DEF View!Total, Total, View!Cardinality, Cardinality
<1>4. View!Weight(store) = ClaimExpiryUnits + View!Total(held)
  BY DEF View!Weight, held
<1> QED
  BY <1>3, <1>4 DEF shares

\* The weight of a stored space is its units.
LEMMA WeightIsUnits ==
  /\ Inv => \A s \in DOMAIN info :
              View!Weight(StoreIn(values, info[s].raw)) = info[s].units
  /\ Inv' => \A s \in DOMAIN info' :
               View!Weight(StoreIn(values', info'[s].raw)) = info'[s].units
BY WeightOfStore, UnitsByShares DEF Inv

\* A step that writes one SpaceInfo and touches the values of no other space
\* shows as one write.
LEMMA OneSpaceRewritten ==
  ASSUME Inv, Inv', NEW s, NEW j, info' = Put(info, s, j),
         \A x \in DOMAIN info \ {s} :
           StoreIn(values', info[x].raw) = StoreIn(values, info[x].raw)
  PROVE  Visible' = View!Put(Visible, s, Shown(j, values'))
<1>1. Visible = ViewIn(info, values) /\ Visible' = ViewIn(info', values')
  BY VisibleIsView DEF Inv
<1>2. \A x \in DOMAIN info \ {s} : Shown(info[x], values') = Shown(info[x], values)
  BY DEF Shown
<1>3. ViewIn(info', values') = View!Put(ViewIn(info, values), s, Shown(j, values'))
  BY <1>2 DEF ViewIn, Put, View!Put
<1> QED
  BY <1>1, <1>3

\* What a reader sees of a stored space.
LEMMA VisibleSpace ==
  ASSUME Inv
  PROVE  /\ DOMAIN Visible = DOMAIN info
         /\ \A s \in DOMAIN info : Visible[s] = Shown(info[s], values)
BY VisibleIsView DEF Inv, ViewIn

\* The genesis state shows no space.
LEMMA InitShown == Init => View!Init
BY DEF Init, View!Init, Visible

\* A new block shows as time passing: what ExpireNext deletes are the expired
\* spaces, and no other loses a value.
LEMMA NextBlockShown ==
  ASSUME Inv, Inv', NEW t \in Times, NEW p \in Prices, NextBlock(t, p)
  PROVE  View!Advance(t)
<1>1. /\ block.tmstmp <= t
      /\ block'.tmstmp = t
  BY DEF NextBlock
<1>2. /\ DOMAIN info' = DOMAIN info \ Gone(t)
      /\ \A s \in DOMAIN info' : info'[s] = info[s]
  BY ExpiryIsExact DEF Remove
<1>3. /\ DOMAIN values' \subseteq DOMAIN values
      /\ \A rk \in DOMAIN values' : values'[rk] = values[rk]
      /\ \A rk \in DOMAIN values \ DOMAIN values' :
           \E s \in Gone(t) : rk[1] = info[s].raw
  BY ExpiryIsExact
<1>4. \A x \in Gone(t), s \in DOMAIN info' : info[x].raw # info[s].raw
  BY <1>2 DEF Inv, TimesOrdered, RawSpace, Gone
<1>5. ASSUME NEW s \in DOMAIN info'
      PROVE  StoreIn(values', info[s].raw) = StoreIn(values, info[s].raw)
  <2>1. \A k \in Keys : <<info[s].raw, k>> \in DOMAIN values' <=>
                          <<info[s].raw, k>> \in DOMAIN values
    BY <1>3, <1>4
  <2> QED
    BY <1>3, <2>1 DEF StoreIn
<1>6. Gone(t) = {s \in DOMAIN Visible : Visible[s].expiry < t}
  BY VisibleSpace DEF Gone, Shown
<1>7. \A s \in DOMAIN info' : Shown(info'[s], values') = Shown(info[s], values)
  BY <1>2, <1>5 DEF Shown
<1>8. Visible' = View!Remove(Visible, Gone(t))
  <2>1. Visible' = ViewIn(info', values')
    BY VisibleIsView DEF Inv
  <2>2. ViewIn(info', values') = [s \in DOMAIN info \ Gone(t) |-> Visible[s]]
    BY <1>2, <1>7, VisibleSpace DEF ViewIn
  <2> QED
    BY <2>1, <2>2, VisibleSpace DEF View!Remove
<1> QED
  BY <1>1, <1>6, <1>8 DEF View!Advance

\* A claim shows as a claim: the new space is empty, because no value is stored
\* under its raw space, whatever the name held before.
LEMMA ClaimShown ==
  ASSUME Inv, Inv', NEW a \in Addresses, NEW price \in Prices, NEW s \in Spaces,
         Claim(a, price, s)
  PROVE  View!Claim(a, s)
<1> DEFINE i == [owner |-> a, created |-> block.tmstmp, updated |-> block.tmstmp,
                 expiry |-> block.tmstmp + ClaimReward \div ClaimExpiryUnits,
                 units |-> ClaimExpiryUnits, raw |-> NoRaw]
           fresh == RawSpace(s, block.tmstmp)
           j == [i EXCEPT !.raw = fresh]
<1>1. /\ s \notin DOMAIN info
      /\ PutSpaceInfo(s, i, 0)
      /\ values' = values
      /\ block' = [block EXCEPT !.filled = TRUE]
  BY DEF Claim, Settle
<1>2. block'.tmstmp = block.tmstmp
  BY <1>1 DEF Inv, TypeOK
<1>3. info' = Put(info, s, j)
  BY <1>1 DEF PutSpaceInfo
<1>4. /\ \A p \in pruning : p[2] # fresh
      /\ \A x \in DOMAIN info : info[x].raw # fresh
  BY <1>1 DEF Inv, TimesOrdered, TypeOK, RawSpace
<1>5. StoreIn(values', fresh) = View!EmptyStore
  <2>1. \A k \in Keys : <<fresh, k>> \notin DOMAIN values
    BY <1>4 DEF Inv, NoOrphanValues
  <2> QED
    BY <1>1, <2>1 DEF StoreIn, View!EmptyStore
<1>6. Shown(j, values') =
        [owner |-> a, updated |-> block.tmstmp, store |-> View!EmptyStore,
         expiry |-> block.tmstmp + ClaimReward \div ClaimExpiryUnits]
  BY <1>5 DEF Shown
<1> HIDE DEF j
<1>7. Visible' = View!Put(Visible, s, Shown(j, values'))
  BY <1>1, <1>3, OneSpaceRewritten
<1> QED
  BY <1>1, <1>2, <1>6, <1>7, VisibleSpace DEF View!Claim

\* A lifeline shows as a lifeline, over the weight of what the space stores.
LEMMA LifelineShown ==
  ASSUME Inv, Inv', NEW a \in Addresses, NEW price \in Prices, NEW s \in Spaces,
         NEW units \in LifelineUnits, Lifeline(a, price, s, units)
  PROVE  View!Lifeline(s, units)
<1> DEFINE i == info[s]
           j == [i EXCEPT !.expiry = i.expiry + (ClaimReward * units) \div i.units]
<1>1. /\ s \in DOMAIN info
      /\ PutSpaceInfo(s, j, i.expiry)
      /\ values' = values
      /\ block' = [block EXCEPT !.filled = TRUE]
  BY DEF Lifeline, Settle
<1>2. block'.tmstmp = block.tmstmp /\ i \in SpaceInfoType
  BY <1>1 DEF Inv, TypeOK, IsMap
<1>3. info' = Put(info, s, j)
  BY <1>1, <1>2, RawIsStored DEF PutSpaceInfo, SpaceInfoType
<1>4. /\ Visible[s] = Shown(i, values)
      /\ View!Weight(Visible[s].store) = i.units
  BY <1>1, VisibleSpace, WeightIsUnits DEF Shown
<1>5. Shown(j, values') =
        [Visible[s] EXCEPT !.expiry = @ + (ClaimReward * units) \div i.units]
  BY <1>1, <1>2, <1>4 DEF Shown, SpaceInfoType
<1> HIDE DEF j
<1>6. Visible' = View!Put(Visible, s, Shown(j, values'))
  BY <1>1, <1>3, OneSpaceRewritten
<1> QED
  BY <1>1, <1>2, <1>4, <1>5, <1>6, VisibleSpace DEF View!Lifeline

\* updateSpace shows as a restock: the units it stores and divides by are the
\* weight of what the space now holds.
LEMMA UpdateShown ==
  ASSUME Inv, Inv', NEW s \in DOMAIN info, NEW units,
         UpdateSpace(s, Prepaid(info[s]), [info[s] EXCEPT !.units = units]),
         block'.tmstmp = block.tmstmp,
         \A rk \in DOMAIN values \cup DOMAIN values' :
           rk[1] # info[s].raw => /\ rk \in DOMAIN values /\ rk \in DOMAIN values'
                                  /\ values'[rk] = values[rk]
  PROVE  View!Restock(s, StoreIn(values', info[s].raw))
<1> DEFINE i == info[s]
           expiry == block.tmstmp + Prepaid(i) \div units
           j == [i EXCEPT !.units = units, !.updated = block.tmstmp, !.expiry = expiry]
           kept == StoreIn(values', i.raw)
<1>1. i \in SpaceInfoType
  BY DEF Inv, TypeOK, IsMap
<1>2. /\ j.raw = i.raw /\ j.owner = i.owner /\ j.units = units
      /\ j.updated = block.tmstmp /\ j.expiry = expiry
  BY <1>1 DEF SpaceInfoType
<1>3. info' = Put(info, s, j)
  BY <1>1, RawIsStored DEF UpdateSpace, PutSpaceInfo, SpaceInfoType
<1> HIDE DEF j
<1>4. /\ s \in DOMAIN info' /\ info'[s] = j
  BY <1>3 DEF Put
<1>5. View!Weight(kept) = units
  BY <1>2, <1>4, WeightIsUnits
<1>6. /\ Visible[s] = Shown(i, values)
      /\ View!Weight(Visible[s].store) = i.units
  BY VisibleSpace, WeightIsUnits DEF Shown
<1>7. ASSUME NEW x \in DOMAIN info \ {s}
      PROVE  StoreIn(values', info[x].raw) = StoreIn(values, info[x].raw)
  <2>1. info[x].raw # i.raw
    BY DEF Inv, TimesOrdered, RawSpace
  <2> QED
    BY <2>1 DEF StoreIn
<1>8. Visible' = View!Put(Visible, s, Shown(j, values'))
  BY <1>3, <1>7, OneSpaceRewritten
<1>9. Shown(j, values') =
        [Visible[s] EXCEPT !.updated = block.tmstmp, !.store = kept, !.expiry = expiry]
  <2>1. StoreIn(values', j.raw) = kept
    BY <1>2
  <2> HIDE DEF kept, expiry
  <2>2. Shown(j, values') =
          [owner |-> i.owner, updated |-> block.tmstmp, expiry |-> expiry, store |-> kept]
    BY <1>2, <2>1 DEF Shown
  <2>3. Visible[s] \in [owner : {i.owner}, updated : {i.updated}, expiry : {i.expiry},
                        store : {StoreIn(values, i.raw)}]
    BY <1>6 DEF Shown
  <2> DEFINE new == [Visible[s] EXCEPT !.updated = block.tmstmp, !.store = kept,
                                       !.expiry = expiry]
             Only == [owner : {i.owner}, updated : {block.tmstmp}, expiry : {expiry},
                      store : {kept}]
  <2>4. new \in Only
    BY <2>3
  <2>5. Shown(j, values') \in Only
    BY <2>2
  <2>6. \A r, q \in Only : r = q
    OBVIOUS
  <2> HIDE DEF new, Only
  <2>7. Shown(j, values') = new
    BY <2>4, <2>5, <2>6
  <2> QED
    BY <2>7 DEF new
<1>10. Prepaid(i) = (Visible[s].expiry - Visible[s].updated) * View!Weight(Visible[s].store)
  BY <1>6 DEF Prepaid, Shown
<1> QED
  BY <1>5, <1>8, <1>9, <1>10 DEF View!Restock

\* SetTx shows as setting one key of the owner's store.
LEMMA SetShown ==
  ASSUME Inv, Inv', NEW a \in Addresses, NEW price \in Prices, NEW s \in Spaces,
         NEW k \in Keys, NEW v \in Values, Set(a, price, s, k, v)
  PROVE  View!Set(a, s, k, v)
<1> DEFINE i == info[s]
           units == i.units - UnitsStored(i.raw, k) + ExpiryUnits(v)
<1>1. /\ s \in DOMAIN info /\ i.owner = a
      /\ values' = Put(values, <<i.raw, k>>, v)
      /\ UpdateSpace(s, Prepaid(i), [i EXCEPT !.units = units])
      /\ block' = [block EXCEPT !.filled = TRUE]
  BY DEF Set, VerifySpace, Settle
<1>2. block'.tmstmp = block.tmstmp
  BY <1>1 DEF Inv, TypeOK
<1> HIDE DEF units
<1>3. \A rk \in DOMAIN values \cup DOMAIN values' :
        rk[1] # i.raw => /\ rk \in DOMAIN values /\ rk \in DOMAIN values'
                         /\ values'[rk] = values[rk]
  BY <1>1 DEF Put
<1>4. View!Restock(s, StoreIn(values', i.raw))
  BY <1>1, <1>2, <1>3, UpdateShown
<1>5. Visible[s] = Shown(i, values)
  BY <1>1, VisibleSpace
<1>6. StoreIn(values', i.raw) = View!Put(StoreIn(values, i.raw), k, v)
  <2>1. /\ DOMAIN values' = DOMAIN values \cup {<<i.raw, k>>}
        /\ values'[<<i.raw, k>>] = v
        /\ \A y \in Keys \ {k} : values'[<<i.raw, y>>] = values[<<i.raw, y>>]
                                   \/ <<i.raw, y>> \notin DOMAIN values
    BY <1>1 DEF Put
  <2> QED
    BY <2>1 DEF StoreIn, View!Put
<1> QED
  BY <1>1, <1>4, <1>5, <1>6, VisibleSpace DEF View!Set, Shown

\* DeleteTx shows as removing one key of the owner's store.
LEMMA DeleteShown ==
  ASSUME Inv, Inv', NEW a \in Addresses, NEW price \in Prices, NEW s \in Spaces,
         NEW k \in Keys, Delete(a, price, s, k)
  PROVE  View!Delete(a, s, k)
<1> DEFINE i == info[s]
           units == i.units - UnitsStored(i.raw, k)
<1>1. /\ s \in DOMAIN info /\ i.owner = a
      /\ <<i.raw, k>> \in DOMAIN values
      /\ values' = Remove(values, {<<i.raw, k>>})
      /\ UpdateSpace(s, Prepaid(i), [i EXCEPT !.units = units])
      /\ block' = [block EXCEPT !.filled = TRUE]
  BY DEF Delete, VerifySpace, Settle
<1>2. /\ block'.tmstmp = block.tmstmp
      /\ \A rk \in DOMAIN values : rk = <<rk[1], rk[2]>>
  BY <1>1 DEF Inv, TypeOK, IsMap
<1> HIDE DEF units
<1>3. \A rk \in DOMAIN values \cup DOMAIN values' :
        rk[1] # i.raw => /\ rk \in DOMAIN values /\ rk \in DOMAIN values'
                         /\ values'[rk] = values[rk]
  BY <1>1 DEF Remove
<1>4. View!Restock(s, StoreIn(values', i.raw))
  BY <1>1, <1>2, <1>3, UpdateShown
<1>5. Visible[s] = Shown(i, values) /\ k \in DOMAIN Visible[s].store
  BY <1>1, VisibleSpace DEF Shown, StoreIn
<1>6. StoreIn(values', i.raw) = View!Remove(StoreIn(values, i.raw), {k})
  BY <1>1 DEF StoreIn, Remove, View!Remove
<1> QED
  BY <1>1, <1>4, <1>5, <1>6, VisibleSpace DEF View!Delete, Shown

\* MoveTx shows as a change of owner: the store stays with the space.
LEMMA MoveShown ==
  ASSUME Inv, Inv', NEW a \in Addresses, NEW price \in Prices, NEW s \in Spaces,
         NEW to \in Addresses \cup {ZeroAddress}, Move(a, price, s, to)
  PROVE  to \in Addresses /\ View!Move(a, s, to)
<1> DEFINE i == info[s]
           j == [i EXCEPT !.owner = to]
<1>1. /\ s \in DOMAIN info /\ i.owner = a
      /\ to \in Addresses /\ to # a
      /\ info' = Put(info, s, j)
      /\ values' = values
      /\ block' = [block EXCEPT !.filled = TRUE]
  BY DEF Move, VerifySpace, MoveSpaceInfo, Settle
<1>2. block'.tmstmp = block.tmstmp /\ i \in SpaceInfoType
  BY <1>1 DEF Inv, TypeOK, IsMap
<1>3. Visible[s] = Shown(i, values)
  BY <1>1, VisibleSpace
<1>4. Shown(j, values') = [Visible[s] EXCEPT !.owner = to]
  BY <1>1, <1>2, <1>3 DEF Shown, SpaceInfoType
<1> HIDE DEF j
<1>5. Visible' = View!Put(Visible, s, Shown(j, values'))
  BY <1>1, OneSpaceRewritten
<1> QED
  BY <1>1, <1>2, <1>3, <1>4, <1>5, VisibleSpace DEF View!Move, Shown

\* The pruner is invisible: it clears raw spaces that no space has.
LEMMA PruneHidden ==
  ASSUME Inv, Inv', Prune
  PROVE  UNCHANGED View!vars
<1>1. PICK P \in SUBSET pruning :
        /\ values' = Remove(values, ValueKeysOf({p[2] : p \in P}))
        /\ UNCHANGED <<info, block>>
  BY DEF Prune, Prunable
<1>2. /\ DOMAIN values' = {rk \in DOMAIN values : \A p \in P : rk[1] # p[2]}
      /\ \A rk \in DOMAIN values' : values'[rk] = values[rk]
  BY <1>1 DEF Remove, ValueKeysOf
<1>3. ASSUME NEW s \in DOMAIN info
      PROVE  StoreIn(values', info[s].raw) = StoreIn(values, info[s].raw)
  <2>1. \A k \in Keys : <<info[s].raw, k>> \in DOMAIN values' <=>
                          <<info[s].raw, k>> \in DOMAIN values
    BY <1>2 DEF Inv, PrunedIsDead
  <2> QED
    BY <1>2, <2>1 DEF StoreIn
<1>4. Visible' = Visible
  <2>1. ViewIn(info', values') = ViewIn(info, values)
    BY <1>1, <1>3 DEF ViewIn, Shown
  <2> QED
    BY <2>1, VisibleIsView DEF Inv
<1> QED
  BY <1>1, <1>4 DEF View!vars

\* Steps that change neither the database nor the block's time are invisible.
LEMMA SameDbHidden ==
  ASSUME UNCHANGED dbVars, block'.tmstmp = block.tmstmp
  PROVE  UNCHANGED View!vars
BY DEF dbVars, View!vars, Visible, StoreOf, ValueKeysOf

\* Every step shows as a step of SpaceStore, or not at all.
LEMMA StepShown == Inv /\ Inv' /\ [Next]_vars => [View!Next]_(View!vars)
<1> SUFFICES ASSUME Inv, Inv', [Next]_vars PROVE [View!Next]_(View!vars)
  OBVIOUS
<1>1. CASE UNCHANGED vars
  BY <1>1, SameDbHidden DEF vars
<1>2. ASSUME NEW t \in Times, NEW p \in Prices, NextBlock(t, p)
      PROVE  View!Next
  BY <1>2, NextBlockShown DEF View!Next
<1>3. ASSUME NEW a \in Addresses, NEW price \in Prices, NEW s \in Spaces,
             \/ Claim(a, price, s)
             \/ \E units \in LifelineUnits : Lifeline(a, price, s, units)
             \/ \E k \in Keys, v \in Values : Set(a, price, s, k, v)
             \/ \E k \in Keys : Delete(a, price, s, k)
             \/ \E to \in Addresses \cup {ZeroAddress} : Move(a, price, s, to)
      PROVE  View!Next
  BY <1>3, ClaimShown, LifelineShown, SetShown, DeleteShown, MoveShown DEF View!Next
<1>4. ASSUME NEW a \in Addresses, NEW price \in Prices,
             NEW to \in Addresses \cup {ZeroAddress}, NEW units \in TransferUnits,
             Transfer(a, price, to, units)
      PROVE  UNCHANGED View!vars
  <2>1. UNCHANGED dbVars /\ block' = [block EXCEPT !.filled = TRUE]
    BY <1>4 DEF Transfer, Settle
  <2>2. block'.tmstmp = block.tmstmp
    BY <2>1 DEF Inv, TypeOK
  <2> QED
    BY <2>1, <2>2, SameDbHidden
<1>5. ASSUME Prune PROVE UNCHANGED View!vars
  BY <1>5, PruneHidden
<1>6. ASSUME NEW b \in BOOLEAN, SetState(b) PROVE UNCHANGED View!vars
  BY <1>6, SameDbHidden DEF SetState
<1> QED
  BY <1>1, <1>2, <1>3, <1>4, <1>5, <1>6 DEF Next

-----------------------------------------------------------------------------
(* Fees burn: a transaction takes its fee at the price its sender offers,  *)
(* which is at least the block's, and the lottery hands out a share of the *)
(* fee at the block's price.                                               *)

\* A share of at most a hundred percent is no more than the whole.
LEMMA ShareOfWhole ==
  ASSUME NEW x \in Nat, NEW l \in 0..100
  PROVE  (x * l) \div 100 \in Nat /\ (x * l) \div 100 <= x
<1>1. x * l \in Nat /\ x * l <= x * 100
  OBVIOUS
<1> QED
  BY <1>1

\* Products grow with their right factor.
LEMMA MulMonotone ==
  ASSUME NEW u \in Nat, NEW p \in Nat, NEW q \in Nat, p <= q
  PROVE  u * p <= u * q
OBVIOUS

\* What the lottery hands out is covered by the fee.
LEMMA RewardWithinFee ==
  ASSUME TypeOK, NEW units \in Nat, NEW price \in Nat, block.price <= price
  PROVE  Reward(units) \in Nat /\ Reward(units) <= units * price
<1>1. block.price \in Nat
  BY DEF TypeOK
<1>2. units * block.price \in Nat /\ units * price \in Nat
  BY <1>1, MulNat
<1>3. units * block.price <= units * price
  BY <1>1, MulMonotone
<1>4. Reward(units) \in Nat /\ Reward(units) <= units * block.price
  BY <1>2, ShareOfWhole, ParametersAssumption DEF Reward
<1> QED
  BY <1>2, <1>3, <1>4

\* Balances that differ for one account differ in total by as much.
LEMMA OneAccount ==
  ASSUME NEW bal \in [Addresses -> Nat], NEW g \in [Addresses -> Nat],
         NEW a \in Addresses, \A y \in Addresses \ {a} : g[y] = bal[y]
  PROVE  /\ Total(g) = Total(bal) - bal[a] + g[a]
         /\ Total(bal) \in Nat
<1>1. IsFiniteSet(Addresses) /\ DOMAIN bal = Addresses /\ DOMAIN g = Addresses
  BY DomainsAssumption
<1>2. \A y \in DOMAIN bal : bal[y] \in Nat
  OBVIOUS
<1>3. Total(g) = Total(bal) - bal[a] + g[a]
  BY <1>1, <1>2, TotalUpdate
<1> QED
  BY <1>1, <1>2, <1>3, UnitsFinite

\* A debit the account can pay lowers the total by as much.
LEMMA DebitedTotal ==
  ASSUME TypeOK, NEW a \in Addresses, NEW n \in Nat, n <= balance[a]
  PROVE  /\ Debit(a, n) \in [Addresses -> Nat]
         /\ Total(Debit(a, n)) = Total(balance) - n
<1>1. balance \in [Addresses -> Nat] /\ balance[a] \in Nat
  BY DEF TypeOK
<1>2. /\ Debit(a, n) \in [Addresses -> Nat]
      /\ Debit(a, n)[a] = balance[a] - n
      /\ \A y \in Addresses \ {a} : Debit(a, n)[y] = balance[y]
  BY <1>1 DEF Debit
<1>3. /\ Total(Debit(a, n)) = Total(balance) - balance[a] + Debit(a, n)[a]
      /\ Total(balance) \in Nat
  BY <1>1, <1>2, OneAccount
<1> QED
  BY <1>1, <1>2, <1>3

\* Once the fee is gone from the total, the lottery cannot bring it back above
\* what it was.
LEMMA SettleSupply ==
  ASSUME TypeOK, TypeOK', NEW a \in Addresses, NEW units \in Nat,
         NEW price \in Nat, block.price <= price,
         NEW bal \in [Addresses -> Nat],
         Total(bal) = Total(balance) - units * price,
         Settle(bal, a, units)
  PROVE  Supply' <= Supply
<1>1. units * price \in Nat
  BY MulNat
<1>2. Reward(units) \in Nat /\ Reward(units) <= units * price
  BY RewardWithinFee
<1>3. Total(balance) \in Nat
  BY UnitsFinite, DomainsAssumption DEF TypeOK
<1>4. CASE balance' = bal
  BY <1>1, <1>3, <1>4 DEF Supply
<1>5. CASE \E w \in {info'[s].owner : s \in DOMAIN info'} \ {a} :
             balance' = [bal EXCEPT ![w] = @ + Reward(units)]
  <2>1. PICK w \in {info'[s].owner : s \in DOMAIN info'} :
          balance' = [bal EXCEPT ![w] = @ + Reward(units)]
    BY <1>5
  <2>2. w \in Addresses
    BY DEF TypeOK, IsMap, SpaceInfoType
  <2>3. /\ balance'[w] = bal[w] + Reward(units)
        /\ \A y \in Addresses \ {w} : balance'[y] = bal[y]
    BY <2>1, <2>2
  <2>4. balance' \in [Addresses -> Nat]
    BY DEF TypeOK
  <2>5. Total(balance') = Total(bal) - bal[w] + balance'[w] /\ Total(bal) \in Nat
    BY <2>2, <2>3, <2>4, OneAccount
  <2>6. bal[w] \in Nat
    BY <2>2
  <2> QED
    BY <1>1, <1>2, <1>3, <2>3, <2>5, <2>6 DEF Supply
<1> QED
  BY <1>4, <1>5 DEF Settle

\* A transaction that only pays its fee.
LEMMA FeeSupply ==
  ASSUME TypeOK, TypeOK', NEW a \in Addresses, NEW units \in Nat,
         NEW price \in Nat, Pays(a, units, price),
         Settle(Debit(a, units * price), a, units)
  PROVE  Supply' <= Supply
<1>1. units * price \in Nat
  BY MulNat
<1>2. /\ Debit(a, units * price) \in [Addresses -> Nat]
      /\ Total(Debit(a, units * price)) = Total(balance) - units * price
  BY <1>1, DebitedTotal DEF Pays
<1> QED
  BY <1>2, SettleSupply DEF Pays

\* A transfer moves what is left after the fee between two accounts.
LEMMA TransferSupply ==
  ASSUME TypeOK, TypeOK', NEW a \in Addresses, NEW price \in Nat,
         NEW to, NEW units \in Nat, to \in Addresses \cup {ZeroAddress},
         Transfer(a, price, to, units)
  PROVE  Supply' <= Supply
<1> DEFINE fee == BaseTxUnits * price
           paid == Debit(a, fee)
<1>1. /\ Pays(a, BaseTxUnits, price) /\ units <= paid[a]
      /\ to \in Addresses /\ to # a
      /\ Settle([paid EXCEPT ![a] = @ - units, ![to] = @ + units], a, BaseTxUnits)
  BY DEF Transfer
<1>2. BaseTxUnits \in Nat /\ fee \in Nat
  BY FeeUnitsType, MulNat
<1>3. paid \in [Addresses -> Nat] /\ Total(paid) = Total(balance) - fee
  BY <1>1, <1>2, DebitedTotal DEF Pays
<1> DEFINE less == [paid EXCEPT ![a] = @ - units]
           moved == [paid EXCEPT ![a] = @ - units, ![to] = @ + units]
<1> HIDE DEF fee, paid
<1>4. /\ less \in [Addresses -> Nat]
      /\ less[a] = paid[a] - units
      /\ \A y \in Addresses \ {a} : less[y] = paid[y]
  BY <1>1, <1>3
<1>5. /\ moved \in [Addresses -> Nat]
      /\ moved[to] = less[to] + units
      /\ \A y \in Addresses \ {to} : moved[y] = less[y]
  BY <1>1, <1>3
<1>6. Settle(moved, a, BaseTxUnits)
  BY <1>1
<1> HIDE DEF less, moved
<1>7. Total(less) = Total(paid) - paid[a] + less[a] /\ Total(paid) \in Nat
  BY <1>3, <1>4, OneAccount
<1>8. Total(moved) = Total(less) - less[to] + moved[to] /\ Total(less) \in Nat
  BY <1>1, <1>4, <1>5, OneAccount
<1>9. paid[a] \in Nat /\ less[to] \in Nat
  BY <1>1, <1>3, <1>4
<1>10. Total(moved) = Total(balance) - BaseTxUnits * price
  BY <1>3, <1>4, <1>5, <1>7, <1>8, <1>9 DEF fee
<1> QED
  BY <1>1, <1>2, <1>5, <1>6, <1>10, SettleSupply DEF Pays

\* No step raises the supply.
LEMMA StepSupply ==
  ASSUME Inv, Inv', [Next]_vars
  PROVE  [Supply' <= Supply]_vars
<1>1. TypeOK /\ TypeOK'
  BY DEF Inv
<1>2. Supply \in Nat
  BY <1>1, UnitsFinite, DomainsAssumption DEF TypeOK, Supply
<1>3. Prices \subseteq Nat /\ LifelineUnits \subseteq Nat /\ TransferUnits \subseteq Nat
  BY DomainsAssumption
<1>4. CASE balance' = balance
  BY <1>2, <1>4 DEF Supply
<1>5. ASSUME NEW a \in Addresses, NEW price \in Prices, NEW s \in Spaces,
             Claim(a, price, s)
      PROVE  Supply' <= Supply
  BY <1>1, <1>3, <1>5, FeeUnitsType, FeeSupply DEF Claim
<1>6. ASSUME NEW a \in Addresses, NEW price \in Prices, NEW s \in Spaces,
             NEW units \in LifelineUnits, Lifeline(a, price, s, units)
      PROVE  Supply' <= Supply
  <2>1. LifelineFeeUnits(s, units) \in Nat
    BY <1>3, FeeUnitsType
  <2> QED
    BY <1>1, <1>3, <1>6, <2>1, FeeSupply DEF Lifeline
<1>7. ASSUME NEW a \in Addresses, NEW price \in Prices, NEW s \in Spaces,
             NEW k \in Keys, NEW v \in Values, Set(a, price, s, k, v)
      PROVE  Supply' <= Supply
  BY <1>1, <1>3, <1>7, FeeUnitsType, FeeSupply DEF Set
<1>8. ASSUME NEW a \in Addresses, NEW price \in Prices, NEW s \in Spaces,
             NEW k \in Keys, Delete(a, price, s, k)
      PROVE  Supply' <= Supply
  BY <1>1, <1>3, <1>8, FeeUnitsType, FeeSupply DEF Delete
<1>9. ASSUME NEW a \in Addresses, NEW price \in Prices, NEW s \in Spaces,
             NEW to, Move(a, price, s, to)
      PROVE  Supply' <= Supply
  BY <1>1, <1>3, <1>9, FeeUnitsType, FeeSupply DEF Move
<1>10. ASSUME NEW a \in Addresses, NEW price \in Prices,
              NEW to \in Addresses \cup {ZeroAddress}, NEW units \in TransferUnits,
              Transfer(a, price, to, units)
       PROVE  Supply' <= Supply
  BY <1>1, <1>3, <1>10, TransferSupply
<1>11. ASSUME \/ \E t \in Times, p \in Prices : NextBlock(t, p)
              \/ Prune
              \/ \E b \in BOOLEAN : SetState(b)
              \/ UNCHANGED vars
       PROVE  balance' = balance
  BY <1>11 DEF NextBlock, Prune, SetState, vars, dbVars
<1> QED
  BY <1>4, <1>5, <1>6, <1>7, <1>8, <1>9, <1>10, <1>11 DEF Next

-----------------------------------------------------------------------------
(* The theorems                                                            *)

\* Every step of the system preserves the invariant.
LEMMA StepInv == Inv /\ [Next]_vars => Inv'
<1> SUFFICES ASSUME Inv, [Next]_vars PROVE Inv'
  OBVIOUS
<1>1. CASE UNCHANGED vars
  <2>1. TypeOK'
    BY <1>1 DEF vars, dbVars, Inv, TypeOK
  <2> QED
    BY <1>1, <2>1, SameDbInv DEF vars
<1>2. ASSUME NEW t \in Times, NEW p \in Prices, NextBlock(t, p)
      PROVE  Inv'
  BY <1>2, NextBlockInv
<1>3. ASSUME NEW a \in Addresses, NEW price \in Prices, NEW s \in Spaces,
             \/ Claim(a, price, s)
             \/ \E units \in LifelineUnits : Lifeline(a, price, s, units)
             \/ \E k \in Keys, v \in Values : Set(a, price, s, k, v)
             \/ \E k \in Keys : Delete(a, price, s, k)
             \/ \E to \in Addresses \cup {ZeroAddress} : Move(a, price, s, to)
      PROVE  Inv'
  BY <1>3, ClaimInv, LifelineInv, SetInv, DeleteInv, MoveInv
<1>4. ASSUME NEW a \in Addresses, NEW price \in Prices,
             NEW to \in Addresses \cup {ZeroAddress}, NEW units \in TransferUnits,
             Transfer(a, price, to, units)
      PROVE  Inv'
  BY <1>4, TransferInv
<1>5. ASSUME Prune PROVE Inv'
  BY <1>5, PruneInv
<1>6. ASSUME NEW b \in BOOLEAN, SetState(b) PROVE Inv'
  BY <1>6, SetStateInv
<1> QED
  BY <1>1, <1>2, <1>3, <1>4, <1>5, <1>6 DEF Next

\* The inductive invariant holds in every reachable state.
THEOREM Invariance == Spec => []Inv
BY InitInv, StepInv, PTL DEF Spec

\* Type correctness: every stored record, index entry and balance has its type
\* whatever transactions, blocks and pruner calls occur.
THEOREM TypeCorrect == Spec => []TypeOK
<1>1. Inv => TypeOK
  BY DEF Inv
<1> QED
  BY <1>1, Invariance, PTL

\* PutSpaceInfo, MoveSpaceInfo and ExpireNext keep the owned index and the
\* expiry queue in step with the SpaceInfos.
THEOREM IndexesAreExact == Spec => []IndexesExact
<1>1. Inv => IndexesExact
  BY DEF Inv
<1> QED
  BY <1>1, Invariance, PTL

\* verifySpace never meets the expired space its comment rules out.
THEOREM StoredSpacesLive == Spec => []LiveNotExpired
<1>1. Inv => LiveNotExpired
  BY DEF Inv
<1> QED
  BY <1>1, Invariance, PTL

\* The pruner never clears a raw space in use.
THEOREM PrunerSparesTheLiving == Spec => []PrunedIsDead
<1>1. Inv => PrunedIsDead
  BY DEF Inv
<1> QED
  BY <1>1, Invariance, PTL

\* Every value is under a stored space or scheduled for pruning.
THEOREM NoValueOrphaned == Spec => []NoOrphanValues
<1>1. Inv => NoOrphanValues
  BY DEF Inv
<1> QED
  BY <1>1, Invariance, PTL

\* The units of a space are those of its claim and of its values, so no
\* SetTx or DeleteTx underflows or divides by zero.
THEOREM UnitsStayExact == Spec => []UnitsExact
<1>1. Inv => UnitsExact
  BY DEF Inv
<1> QED
  BY <1>1, Invariance, PTL

\* Ledger implements SpaceStore: whatever the indexes, the stored units and the
\* pruner do, readers see spaces that live until they expire, that only their
\* owners change, and that weigh what they hold.
THEOREM ReadersSeeSpaceStore == Spec => ImplementsSpaceStore
BY InitShown, Invariance, StepShown, PTL DEF Spec, ImplementsSpaceStore, View!Spec

\* SupplyNeverGrows, for every genesis: no sequence of transactions and no
\* lottery outcome creates balance.
THEOREM FeesBurn == Spec => SupplyNeverGrows
<1>1. Inv /\ Inv' /\ [Next]_vars => [Supply' <= Supply]_vars
  BY StepSupply
<1> QED
  BY <1>1, Invariance, PTL DEF Spec, SupplyNeverGrows

=============================================================================
