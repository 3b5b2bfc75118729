----------------------------- MODULE ChainProofs -----------------------------
(***************************************************************************)
(* What the admission rules of a branch guarantee, for every set of        *)
(* transactions and every fee mechanism.                                   *)
(*                                                                         *)
(* The invariant records what verify checked of every block when it was    *)
(* the tip (Admitted).  It can be stated of a block in the middle of the   *)
(* branch because its context looks only at blocks before it, which never  *)
(* change.                                                                 *)
(***************************************************************************)
EXTENDS Chain, FiniteSetTheorems, TLAPS

\* Timestamps never go back along the branch.
Ordered ==
  \A i, j \in DOMAIN chain : i <= j => chain[i].tmstmp <= chain[j].tmstmp

\* Every transaction named a block of the window of its own block, and no block
\* of that window had executed it.
Admitted ==
  \A j \in DOMAIN chain : \A tx \in Range(chain[j].txs) :
    /\ tx.ref \in Window(j - 1, chain[j].tmstmp)
    /\ tx \notin RecentTxs(j - 1, chain[j].tmstmp)

\* The blocks up to j that found their window above its target.
Congested(j) == {i \in 2..j : RecentUnits(i - 1, chain[i].tmstmp) > TargetRangeUnits}

Inv == TypeOK /\ Ordered /\ Admitted /\ CostPaces /\ PriceEarned

-----------------------------------------------------------------------------
(* Appending a block                                                       *)

\* The blocks of a branch, their indices and what their fields are.
LEMMA BlockTypes ==
  ASSUME TypeOK
  PROVE  /\ DOMAIN chain = 1..Len(chain)
         /\ Len(chain) \in Nat \ {0}
         /\ \A i \in DOMAIN chain :
              /\ chain[i].tmstmp \in Nat /\ chain[i].price \in Nat
              /\ chain[i].cost \in Nat /\ chain[i].txs \in Seq(Txs)
<1>1. chain \in Seq(Block) /\ Len(chain) > 0
  BY DEF TypeOK
<1>2. DOMAIN chain = 1..Len(chain) /\ Len(chain) \in Nat \ {0}
  BY <1>1
<1>3. \A i \in DOMAIN chain : chain[i] \in Block
  BY <1>1
<1> QED
  BY <1>2, <1>3 DEF Block

\* A block at the tip leaves the blocks below it as they were.
LEMMA AppendKeeps ==
  ASSUME TypeOK, NEW t, NEW txs, Verify(t, txs)
  PROVE  /\ chain' = Append(chain, [tmstmp |-> t, price |-> NextPrice(Len(chain), t),
                                    cost |-> NextCost(Len(chain), t), txs |-> txs])
         /\ DOMAIN chain' = 1..(Len(chain) + 1)
         /\ Len(chain') = Len(chain) + 1
         /\ \A i \in 1..Len(chain) : chain'[i] = chain[i]
         /\ chain'[Len(chain) + 1] =
              [tmstmp |-> t, price |-> NextPrice(Len(chain), t),
               cost |-> NextCost(Len(chain), t), txs |-> txs]
<1>1. chain' = Append(chain, [tmstmp |-> t, price |-> NextPrice(Len(chain), t),
                              cost |-> NextCost(Len(chain), t), txs |-> txs])
  BY DEF Verify
<1> QED
  BY <1>1, BlockTypes DEF TypeOK

\* The context of a block is the same after blocks were added above its parent.
LEMMA WindowStable ==
  ASSUME TypeOK, NEW t, NEW txs, Verify(t, txs), NEW n \in 0..Len(chain), NEW u
  PROVE  /\ Window(n, u)' = Window(n, u)
         /\ RecentTxs(n, u)' = RecentTxs(n, u)
         /\ RecentUnits(n, u)' = RecentUnits(n, u)
<1>1. \A i \in 1..n : chain'[i] = chain[i]
  <2>1. \A i \in 1..Len(chain) : chain'[i] = chain[i]
    BY AppendKeeps
  <2>2. Len(chain) \in Nat
    BY BlockTypes
  <2> QED
    BY <2>1, <2>2
<1>2. \A i \in 1..n : i..(n - 1) \subseteq 1..n
  BY BlockTypes
<1>3. Window(n, u)' = Window(n, u)
  BY <1>1, <1>2 DEF Window
<1>4. Window(n, u) \subseteq 1..n
  BY DEF Window
<1>5. \A i \in Window(n, u) : chain'[i] = chain[i]
  BY <1>1, <1>4
<1>6. RecentTxs(n, u)' = RecentTxs(n, u)
  BY <1>3, <1>5 DEF RecentTxs
<1>7. RecentUnits(n, u)' = RecentUnits(n, u)
  <2>1. [i \in Window(n, u) |-> Load(chain'[i].txs)] = [i \in Window(n, u) |-> Load(chain[i].txs)]
    BY <1>5
  <2> QED
    BY <1>3, <2>1 DEF RecentUnits
<1> QED
  BY <1>3, <1>6, <1>7

\* The next cost is a cost, at least what the pace of the blocks asks for.
LEMMA NextCostPaces ==
  ASSUME TypeOK, NEW t \in Nat, chain[Len(chain)].tmstmp <= t
  PROVE  /\ NextCost(Len(chain), t) \in Nat
         /\ BlockCostEnabled =>
              NextCost(Len(chain), t) >=
                chain[Len(chain)].cost + TargetBlockRate - (t - chain[Len(chain)].tmstmp)
<1>1. chain[Len(chain)].cost \in Nat /\ chain[Len(chain)].tmstmp \in Nat
  BY BlockTypes
<1>2. TargetBlockRate \in Nat /\ MinBlockCost \in Nat
  BY ChainAssumption
<1> DEFINE cost == chain[Len(chain)].cost
           late == t - chain[Len(chain)].tmstmp - TargetBlockRate
<1>3. cost \in Nat /\ late \in Int
  BY <1>1, <1>2
<1>4. NextCost(Len(chain), t) =
        IF ~BlockCostEnabled THEN cost
        ELSE IF late < 0 THEN cost - late
        ELSE IF cost >= MinBlockCost /\ late < cost - MinBlockCost THEN cost - late
        ELSE MinBlockCost
  BY DEF NextCost
<1> HIDE DEF cost, late
<1>5. CASE ~BlockCostEnabled
  BY <1>3, <1>4, <1>5
<1>6. CASE BlockCostEnabled
  <2>1. NextCost(Len(chain), t) \in Nat /\ NextCost(Len(chain), t) >= cost - late
    BY <1>2, <1>3, <1>4, <1>6
  <2> QED
    BY <1>1, <1>2, <2>1 DEF cost, late
<1> QED
  BY <1>5, <1>6

\* The next price is a price.
LEMMA NextPriceType ==
  ASSUME TypeOK, NEW t \in Nat, chain[Len(chain)].tmstmp <= t
  PROVE  NextPrice(Len(chain), t) \in Nat
<1>1. chain[Len(chain)].price \in Nat /\ chain[Len(chain)].tmstmp \in Nat
  BY BlockTypes
<1>2. MinPrice \in Nat /\ LookbackWindow \in Nat \ {0}
  BY ChainAssumption
<1>3. t - chain[Len(chain)].tmstmp \in Nat
  BY <1>1
<1>4. (t - chain[Len(chain)].tmstmp) \div LookbackWindow + 1 \in Nat
  BY <1>2, <1>3
<1> DEFINE price == chain[Len(chain)].price
           windows == (t - chain[Len(chain)].tmstmp) \div LookbackWindow + 1
           lowered == IF price >= MinPrice /\ windows < price - MinPrice
                      THEN price - windows ELSE MinPrice
<1>5. \/ NextPrice(Len(chain), t) = price + 1
      \/ NextPrice(Len(chain), t) = price
      \/ NextPrice(Len(chain), t) = lowered
  BY DEF NextPrice
<1>6. price \in Nat /\ windows \in Nat
  BY <1>1, <1>4
<1> HIDE DEF price, windows
<1>7. lowered \in Nat
  BY <1>2, <1>6
<1> QED
  BY <1>5, <1>6, <1>7

\* The price rises only over a congested window, by one; otherwise it is at most
\* what it was or the minimum.
LEMMA NextPriceBound ==
  ASSUME TypeOK, NEW t \in Nat, chain[Len(chain)].tmstmp <= t
  PROVE  LET price == chain[Len(chain)].price
             next == NextPrice(Len(chain), t)
         IN \/ next <= price
            \/ next = MinPrice
            \/ RecentUnits(Len(chain), t) > TargetRangeUnits /\ next = price + 1
<1> DEFINE n == Len(chain)
           price == chain[n].price
           windows == (t - chain[n].tmstmp) \div LookbackWindow + 1
           lowered == IF price >= MinPrice /\ windows < price - MinPrice
                      THEN price - windows ELSE MinPrice
<1>1. price \in Nat /\ chain[n].tmstmp \in Nat
  BY BlockTypes
<1>2. MinPrice \in Nat /\ LookbackWindow \in Nat \ {0}
  BY ChainAssumption
<1>3. t - chain[n].tmstmp \in Nat
  BY <1>1
<1>4. windows \in Nat
  BY <1>2, <1>3
<1>5. \/ RecentUnits(n, t) > TargetRangeUnits /\ NextPrice(n, t) = price + 1
      \/ NextPrice(n, t) = price
      \/ NextPrice(n, t) = lowered
  BY DEF NextPrice
<1> HIDE DEF price, windows, n
<1>6. lowered <= price \/ lowered = MinPrice
  BY <1>1, <1>2, <1>4
<1> QED
  BY <1>1, <1>5, <1>6 DEF price, n

-----------------------------------------------------------------------------
(* The invariant                                                           *)

\* The genesis block alone: nothing executed, nothing to pay.
LEMMA InitInv == Init => Inv
<1> SUFFICES ASSUME Init PROVE Inv
  OBVIOUS
<1>1. /\ Len(chain) = 1 /\ DOMAIN chain = {1}
      /\ chain[1] = [tmstmp |-> 0, price |-> MinPrice, cost |-> MinBlockCost, txs |-> <<>>]
  BY DEF Init
<1>2. MinPrice \in Nat /\ MinBlockCost \in Nat /\ TargetBlockRate \in Nat
  BY ChainAssumption
<1>3. TypeOK
  BY <1>2 DEF Init, TypeOK, Block
<1>4. Range(chain[1].txs) = {}
  BY <1>1 DEF Range
<1>5. PriceEarned
  <2>1. {i \in 2..1 : RecentUnits(i - 1, chain[i].tmstmp) > TargetRangeUnits} = {}
    OBVIOUS
  <2> QED
    BY <1>1, <1>2, <2>1, FS_EmptySet DEF PriceEarned
<1> QED
  BY <1>1, <1>2, <1>3, <1>4, <1>5 DEF Inv, Ordered, Admitted, CostPaces

\* A block that passes verify.
LEMMA VerifyInv ==
  ASSUME Inv, NEW t \in Times, NEW m \in 1..MaxBlockTxs, NEW txs \in [1..m -> Txs],
         Verify(t, txs)
  PROVE  Inv'
<1>0. PICK n \in Nat \ {0} : n = Len(chain)
  BY BlockTypes DEF Inv
<1>1. TypeOK /\ t \in Nat /\ chain[n].tmstmp <= t
  BY <1>0, ChainAssumption DEF Inv, Verify, NotBeforeParent
<1>2. /\ DOMAIN chain = 1..n /\ n \in Nat \ {0}
      /\ \A i \in 1..n : chain[i].tmstmp \in Nat /\ chain[i].cost \in Nat
  BY <1>0, <1>1, BlockTypes
<1>3. /\ DOMAIN chain' = 1..(n + 1) /\ Len(chain') = n + 1
      /\ \A i \in 1..n : chain'[i] = chain[i]
      /\ chain'[n + 1].tmstmp = t /\ chain'[n + 1].txs = txs
      /\ chain'[n + 1].cost = NextCost(n, t)
  <2>1. chain'[n + 1] = [tmstmp |-> t, price |-> NextPrice(n, t),
                         cost |-> NextCost(n, t), txs |-> txs]
    BY <1>0, <1>1, AppendKeeps
  <2> QED
    BY <1>1, <2>1, <1>0, AppendKeeps
<1>4. NextCost(n, t) \in Nat /\ NextPrice(n, t) \in Nat
  BY <1>0, <1>1, NextCostPaces, NextPriceType
<1>5. txs \in Seq(Txs)
  BY ChainAssumption
<1>6. TypeOK'
  <2>1. [tmstmp |-> t, price |-> NextPrice(n, t), cost |-> NextCost(n, t), txs |-> txs]
          \in Block
    BY <1>1, <1>4, <1>5 DEF Block
  <2>2. chain' = Append(chain, [tmstmp |-> t, price |-> NextPrice(n, t),
                                cost |-> NextCost(n, t), txs |-> txs])
    BY <1>0, <1>1, AppendKeeps
  <2>3. chain' \in Seq(Block)
    BY <1>1, <2>1, <2>2 DEF TypeOK
  <2> QED
    BY <1>2, <1>3, <2>3 DEF TypeOK
<1>7. Ordered'
  <2>1. \A i \in 1..n : chain[i].tmstmp <= t
    <3> SUFFICES ASSUME NEW i \in 1..n PROVE chain[i].tmstmp <= t
      OBVIOUS
    <3>1. n \in DOMAIN chain /\ i \in DOMAIN chain /\ i <= n
      BY <1>1, <1>2
    <3>2. chain[i].tmstmp <= chain[n].tmstmp
      BY <3>1 DEF Inv, Ordered
    <3>3. chain[i].tmstmp \in Nat /\ chain[n].tmstmp \in Nat /\ t \in Nat
      BY <3>1, <1>1, <1>2
    <3> QED
      BY <3>2, <3>3, <1>1, <1>2
  <2> QED
    BY <1>1, <1>2, <1>3, <2>1 DEF Inv, Ordered
<1>8. Admitted'
  <2> SUFFICES ASSUME NEW j \in 1..(n + 1), NEW tx \in Range(chain'[j].txs)
               PROVE  /\ tx.ref \in Window(j - 1, chain[j].tmstmp)'
                      /\ tx \notin RecentTxs(j - 1, chain[j].tmstmp)'
    BY <1>3 DEF Admitted
  <2>1. PICK u : u = chain'[j].tmstmp
    OBVIOUS
  <2>2. /\ Window(j - 1, u)' = Window(j - 1, u)
        /\ RecentTxs(j - 1, u)' = RecentTxs(j - 1, u)
    <3>1. j - 1 \in 0..Len(chain)
      BY <1>0
    <3> QED
      BY <1>1, <3>1, WindowStable
  <2>3. /\ tx.ref \in Window(j - 1, u)
        /\ tx \notin RecentTxs(j - 1, u)
    <3>1. CASE j \in 1..n
      <4>1. u = chain[j].tmstmp /\ tx \in Range(chain[j].txs)
        BY <1>3, <2>1, <3>1
      <4> QED
        BY <1>2, <3>1, <4>1 DEF Inv, Admitted
    <3>2. CASE j = n + 1
      <4>1. u = t /\ tx \in Range(txs) /\ j - 1 = n
        BY <1>3, <2>1, <3>2
      <4> QED
        BY <1>0, <4>1 DEF Verify, Admissible, Range
    <3> QED
      BY <3>1, <3>2
  <2> QED
    BY <2>1, <2>2, <2>3
<1>9. CostPaces'
  <2> SUFFICES ASSUME BlockCostEnabled, NEW i \in 1..(n + 1), NEW j \in 1..(n + 1), i <= j
               PROVE  chain'[j].cost >= chain'[i].cost + TargetBlockRate * (j - i)
                                          - (chain'[j].tmstmp - chain'[i].tmstmp)
    BY <1>3 DEF CostPaces
  <2>0. \A x, y \in 1..n : x <= y =>
          chain[y].cost >= chain[x].cost + TargetBlockRate * (y - x)
                             - (chain[y].tmstmp - chain[x].tmstmp)
    BY <1>2, Zenon DEF Inv, CostPaces
  <2>1. CASE j <= n
    <3>1. i \in 1..n /\ j \in 1..n
      BY <1>2, <2>1
    <3> QED
      BY <1>3, <2>0, <3>1
  <2>2. CASE i = n + 1 /\ j = n + 1
    <3>1. TargetBlockRate * (j - i) = 0
      BY <2>2, ChainAssumption
    <3>2. chain'[j].cost \in Nat /\ chain'[j].tmstmp \in Nat
      BY <1>1, <1>3, <1>4, <2>2
    <3>3. chain'[i].cost = chain'[j].cost /\ chain'[i].tmstmp = chain'[j].tmstmp
      BY <2>2
    <3> QED
      BY <3>1, <3>2, <3>3
  <2>3. CASE i <= n /\ j = n + 1
    <3>1. NextCost(n, t) >= chain[n].cost + TargetBlockRate - (t - chain[n].tmstmp)
      BY <1>0, <1>1, NextCostPaces
    <3>2. chain[n].cost >= chain[i].cost + TargetBlockRate * (n - i)
                             - (chain[n].tmstmp - chain[i].tmstmp)
      BY <1>2, <2>0, <2>3
    <3>3. /\ n - i \in Nat /\ i \in 1..n /\ j - i = (n - i) + 1
          /\ TargetBlockRate \in Nat
      BY <2>3, ChainAssumption
    <3>4. NextCost(n, t) >= chain[i].cost + TargetBlockRate * ((n - i) + 1)
                              - (t - chain[i].tmstmp)
      <4>1. /\ chain[i].cost \in Nat /\ chain[n].cost \in Nat /\ NextCost(n, t) \in Nat
            /\ chain[i].tmstmp \in Nat /\ chain[n].tmstmp \in Nat /\ t \in Nat
        BY <1>1, <1>2, <1>4, <3>3
      <4>2. PICK w \in Int : /\ w = TargetBlockRate * (n - i)
                             /\ w + TargetBlockRate = TargetBlockRate * ((n - i) + 1)
        BY <3>3
      <4>3. chain[n].cost >= chain[i].cost + w - (chain[n].tmstmp - chain[i].tmstmp)
        BY <3>2, <4>2
      <4>4. NextCost(n, t) >= chain[i].cost + (w + TargetBlockRate) - (t - chain[i].tmstmp)
        <5>1. ASSUME NEW c1 \in Nat, NEW c2 \in Nat, NEW c3 \in Nat, NEW r \in Nat,
                     NEW t1 \in Nat, NEW t2 \in Nat, NEW t3 \in Nat,
                     c2 >= c1 + w - (t2 - t1), c3 >= c2 + r - (t3 - t2)
              PROVE  c3 >= c1 + (w + r) - (t3 - t1)
          BY <5>1
        <5>2. TargetBlockRate \in Nat
          BY <3>3
        <5> QED
          BY <3>1, <4>1, <4>3, <5>1, <5>2
      <4> QED
        BY <4>2, <4>4
    <3>5. chain'[j].cost = NextCost(n, t) /\ chain'[j].tmstmp = t /\ chain'[i] = chain[i]
      BY <1>3, <2>3, <3>3
    <3> QED
      BY <3>3, <3>4, <3>5
  <2> QED
    BY <1>2, <2>1, <2>2, <2>3
<1>10. PriceEarned'
  <2> DEFINE hot == RecentUnits(n, t) > TargetRangeUnits
  <2>1. \A i \in 1..(n + 1) :
          RecentUnits(i - 1, chain[i].tmstmp)' = RecentUnits(i - 1, chain'[i].tmstmp)
    <3> SUFFICES ASSUME NEW i \in 1..(n + 1)
                 PROVE  RecentUnits(i - 1, chain[i].tmstmp)'
                          = RecentUnits(i - 1, chain'[i].tmstmp)
      OBVIOUS
    <3>1. PICK u : u = chain'[i].tmstmp
      OBVIOUS
    <3>2. i - 1 \in 0..Len(chain)
      BY <1>0
    <3>3. RecentUnits(i - 1, u)' = RecentUnits(i - 1, u)
      BY <1>1, <3>2, WindowStable
    <3> QED
      BY <3>1, <3>3
  <2>2. \A j \in 1..n : Congested(j)' = Congested(j)
    BY <1>3, <2>1 DEF Congested
  <2>3. Congested(n + 1)' = IF hot THEN Congested(n) \cup {n + 1} ELSE Congested(n)
    <3>1. Congested(n + 1)' =
            {i \in 2..(n + 1) : RecentUnits(i - 1, chain'[i].tmstmp) > TargetRangeUnits}
      BY <2>1 DEF Congested
    <3>2. \A i \in 2..n : chain'[i].tmstmp = chain[i].tmstmp
      BY <1>2, <1>3
    <3>3. (n + 1) - 1 = n /\ chain'[n + 1].tmstmp = t
      BY <1>2, <1>3
    <3>4. 2..(n + 1) = (2..n) \cup {n + 1} /\ n + 1 \notin 2..n
      BY <1>2
    <3>5. RecentUnits((n + 1) - 1, chain'[n + 1].tmstmp) > TargetRangeUnits <=> hot
      BY <3>3
    <3> HIDE DEF hot
    <3> QED
      BY <3>1, <3>2, <3>4, <3>5 DEF Congested
  <2>4. IsFiniteSet(Congested(n)) /\ Cardinality(Congested(n)) \in Nat /\ n + 1 \notin Congested(n)
    <3>1. Congested(n) \subseteq 2..n /\ IsFiniteSet(2..n)
      BY <1>2, FS_Interval DEF Congested
    <3> QED
      BY <1>2, <3>1, FS_Subset, FS_CardinalityType
  <2>5. Cardinality(Congested(n) \cup {n + 1}) = Cardinality(Congested(n)) + 1
    BY <2>4, FS_AddElement
  <2>6. \A j \in 1..n : chain[j].price <= MinPrice + Cardinality(Congested(j))
    BY <1>2 DEF Inv, PriceEarned, Congested
  <2>7. chain[n].price \in Nat /\ MinPrice \in Nat
    <3>1. n \in DOMAIN chain
      BY <1>2
    <3> QED
      BY <1>1, <3>1, BlockTypes, ChainAssumption
  <2>8. chain'[n + 1].price <= MinPrice + Cardinality(Congested(n + 1)')
    <3>1. chain'[n + 1].price = NextPrice(n, t)
      <4>1. chain'[n + 1] = [tmstmp |-> t, price |-> NextPrice(n, t),
                             cost |-> NextCost(n, t), txs |-> txs]
        BY <1>0, <1>1, AppendKeeps
      <4> QED
        BY <4>1
    <3>2. \/ NextPrice(n, t) <= chain[n].price
          \/ NextPrice(n, t) = MinPrice
          \/ hot /\ NextPrice(n, t) = chain[n].price + 1
      BY <1>0, <1>1, NextPriceBound
    <3>3. chain[n].price <= MinPrice + Cardinality(Congested(n))
      BY <1>2, <2>6
    <3> HIDE DEF hot
    <3>4. CASE hot
      <4>1. Cardinality(Congested(n + 1)') = Cardinality(Congested(n)) + 1
        BY <2>3, <2>5, <3>4
      <4> QED
        BY <1>4, <2>4, <2>7, <3>1, <3>2, <3>3, <4>1
    <3>5. CASE ~hot
      BY <1>4, <2>3, <2>4, <2>7, <3>1, <3>2, <3>3, <3>5
    <3> QED
      BY <3>4, <3>5
  <2>9. \A j \in 1..(n + 1) : chain'[j].price <= MinPrice + Cardinality(Congested(j)')
    BY <1>2, <1>3, <2>2, <2>6, <2>8
  <2> QED
    BY <1>3, <2>9 DEF PriceEarned, Congested
<1> QED
  BY <1>6, <1>7, <1>8, <1>9, <1>10 DEF Inv

\* Inv holds of every branch.
THEOREM Invariance == Spec => []Inv
<1>1. Inv /\ [Next]_chain => Inv'
  <2> SUFFICES ASSUME Inv, [Next]_chain PROVE Inv'
    OBVIOUS
  <2>1. CASE chain' = chain
    <3>1. TypeOK' /\ Ordered' /\ CostPaces'
      BY <2>1 DEF Inv, TypeOK, Ordered, CostPaces
    <3>2. Admitted'
      BY <2>1 DEF Inv, Admitted, Window, RecentTxs
    <3>3. PriceEarned'
      BY <2>1 DEF Inv, PriceEarned, RecentUnits, Window
    <3> QED
      BY <3>1, <3>2, <3>3 DEF Inv
  <2>2. CASE Next
    BY <2>2, VerifyInv DEF Next
  <2> QED
    BY <2>1, <2>2
<1> QED
  BY <1>1, InitInv, PTL DEF Spec

-----------------------------------------------------------------------------
(* What it implies                                                         *)

\* If two blocks i < j executed the same transaction, the block it names is
\* before i and in the window of j; the window has no gaps, so i is in it too,
\* and j would have found the transaction among the recent ones.
LEMMA InvNoReplay == Inv => NoReplay
<1> SUFFICES ASSUME Inv, NEW i \in DOMAIN chain, NEW j \in DOMAIN chain, i < j,
                    NEW tx \in Range(chain[i].txs), tx \in Range(chain[j].txs)
             PROVE  FALSE
  BY DEF NoReplay
<1>1. DOMAIN chain = 1..Len(chain) /\ Len(chain) \in Nat
  BY BlockTypes DEF Inv
<1>2. /\ tx.ref \in Window(i - 1, chain[i].tmstmp)
      /\ tx.ref \in Window(j - 1, chain[j].tmstmp)
      /\ tx \notin RecentTxs(j - 1, chain[j].tmstmp)
  BY DEF Inv, Admitted
<1>3. tx.ref \in 1..(i - 1)
  BY <1>2 DEF Window
<1>4. \A k \in tx.ref..(j - 1 - 1) : chain[j].tmstmp - chain[k].tmstmp <= LookbackWindow
  BY <1>2 DEF Window
<1>5. i \in Window(j - 1, chain[j].tmstmp)
  BY <1>1, <1>3, <1>4 DEF Window
<1> QED
  BY <1>2, <1>5 DEF RecentTxs

\* A later block has no earlier timestamp, so what its window reaches, the
\* window of an earlier block reached.
LEMMA InvWindowsNest == Inv => WindowsNest
<1> SUFFICES ASSUME Inv, NEW i \in DOMAIN chain, NEW j \in DOMAIN chain, 1 < i, i < j,
                    NEW r \in Window(j - 1, chain[j].tmstmp), r \in 1..(i - 1)
             PROVE  r \in Window(i - 1, chain[i].tmstmp)
  BY DEF WindowsNest
<1>1. /\ DOMAIN chain = 1..Len(chain) /\ Len(chain) \in Nat
      /\ \A k \in 1..Len(chain) : chain[k].tmstmp \in Nat
  BY BlockTypes DEF Inv
<1>2. chain[i].tmstmp <= chain[j].tmstmp
  BY <1>1 DEF Inv, Ordered
<1>3. \A k \in r..(i - 1 - 1) : chain[j].tmstmp - chain[k].tmstmp <= LookbackWindow
  BY <1>1 DEF Window
<1>4. \A k \in r..(i - 1 - 1) : k \in 1..Len(chain)
  BY <1>1
<1>5. LookbackWindow \in Nat
  BY ChainAssumption
<1>6. \A k \in r..(i - 1 - 1) : chain[i].tmstmp - chain[k].tmstmp <= LookbackWindow
  BY <1>1, <1>2, <1>3, <1>4, <1>5
<1> QED
  BY <1>6 DEF Window

\* No transaction is executed by two blocks of a branch.
THEOREM NoTransactionReplayed == Spec => []NoReplay
BY Invariance, InvNoReplay, PTL

\* What is too old for a block is too old for every block above it.
THEOREM WindowsOnlyAdvance == Spec => []WindowsNest
BY Invariance, InvWindowsNest, PTL

\* Over any stretch of a branch the cost rises by what the blocks are ahead of
\* the target rate.
THEOREM CostKeepsPace == Spec => []CostPaces
<1>1. Inv => CostPaces
  BY DEF Inv
<1> QED
  BY <1>1, Invariance, PTL

\* Every block is a block: no price or cost drops below zero.
THEOREM TypeCorrect == Spec => []TypeOK
<1>1. Inv => TypeOK
  BY DEF Inv
<1> QED
  BY <1>1, Invariance, PTL

\* A price above the minimum was earned by as many congested windows.
THEOREM PriceIsEarned == Spec => []PriceEarned
<1>1. Inv => PriceEarned
  BY DEF Inv
<1> QED
  BY <1>1, Invariance, PTL

=============================================================================
