--------------------------- MODULE BlockTreeProofs ---------------------------
(***************************************************************************)
(* The overlays of the block tree, for every tree and every cache size.    *)
(*                                                                         *)
(* That a commit reaches the disk rests on the overlay lying on the disk   *)
(* by then, which Accept of the parent sees to through its children field; *)
(* so the invariant says which children an object knows (Linked), that no  *)
(* verified block is on disk already and that heights grow along the disk, *)
(* which keeps the engine from offering a child of a buried block.         *)
(***************************************************************************)
EXTENDS BlockTree, SequenceTheorems, Facts

\* A verified block is among the children of its verified parent, and nothing
\* but children are.
Linked ==
  /\ \A b \in Blocks : \A c \in children[b] : Parent[c] = b
  /\ \A b \in verified : Parent[b] \in verified => b \in children[Parent[b]]

\* Verified blocks are undecided; the cache holds accepted blocks only; outside
\* a poll nothing is left to reject.
Sorted ==
  /\ verified \cap Range(disk) = {}
  /\ cache \subseteq Range(disk)
  /\ ~polling => Doomed = {}

\* The heights of the blocks on disk count from 0.
Heights == \A i \in 1..Len(disk) : Height[disk[i]] = i - 1

IInv == TypeOK /\ Durable /\ OverlaysOnParent /\ Linked /\ Sorted /\ Heights

-----------------------------------------------------------------------------

\* The disk as a function: its indices, its last element and its range.
LEMMA DiskFacts ==
  ASSUME IInv
  PROVE  /\ Len(disk) \in Nat \ {0}
         /\ DOMAIN disk = 1..Len(disk)
         /\ \A i \in 1..Len(disk) : disk[i] \in Blocks
         /\ disk[1] = Genesis /\ disk[Len(disk)] = lastAccepted
         /\ \A b : b \in Range(disk) <=> \E i \in 1..Len(disk) : disk[i] = b
         /\ lastAccepted \in Range(disk) /\ Genesis \in Range(disk)
<1>1. disk \in Seq(Blocks) /\ disk # <<>>
  BY DEF IInv, TypeOK
<1>2. Len(disk) \in Nat \ {0} /\ DOMAIN disk = 1..Len(disk)
  BY <1>1
<1>3. \A b : b \in Range(disk) <=> \E i \in 1..Len(disk) : disk[i] = b
  BY <1>2 DEF Range
<1>4. disk[1] = Genesis /\ disk[Len(disk)] = lastAccepted
  BY DEF IInv, Durable, IsBranchTo
<1>5. 1 \in 1..Len(disk) /\ Len(disk) \in 1..Len(disk)
  BY <1>2
<1> QED
  BY <1>1, <1>2, <1>3, <1>4, <1>5

\* A block on disk below the last accepted one has a smaller height.
LEMMA BuriedIsLow ==
  ASSUME IInv, NEW b \in Range(disk), Height[b] >= Height[lastAccepted]
  PROVE  b = lastAccepted
<1>1. PICK i \in 1..Len(disk) : disk[i] = b
  BY DiskFacts
<1>2. Height[disk[i]] = i - 1 /\ Height[disk[Len(disk)]] = Len(disk) - 1
  BY DiskFacts DEF IInv, Heights
<1> QED
  <2>1. i - 1 >= Len(disk) - 1
    BY <1>1, <1>2, DiskFacts
  <2>2. PICK n \in Nat \ {0} : n = Len(disk)
    BY DiskFacts
  <2>3. i \in 1..n /\ i - 1 >= n - 1
    BY <2>1, <2>2
  <2>4. i = n
    BY <2>3
  <2> QED
    BY <1>1, <2>2, <2>4, DiskFacts

\* The genesis block starts the branch and nothing is in memory.
LEMMA InitIInv == Init => IInv
<1> SUFFICES ASSUME Init PROVE IInv
  OBVIOUS
<1>1. Cardinality({}) = 0 /\ IsFiniteSet({})
  BY FS_EmptySet
<1>2. Len(disk) = 1 /\ disk[1] = Genesis /\ disk \in Seq(Blocks) /\ disk # <<>>
  BY TreeAssumption DEF Init
<1>3. TypeOK
  <2>1. <<>> \in Seq(Blocks) /\ 0 <= CacheSize
    BY TreeAssumption
  <2>2. base \in [Blocks -> Blocks \cup {Disk, NoDB}] /\ mem \in [Blocks -> Seq(Blocks)]
    BY <2>1 DEF Init
  <2> QED
    BY <1>1, <1>2, <2>1, <2>2, TreeAssumption DEF Init, TypeOK
<1>4. Durable /\ Heights
  BY <1>2, TreeAssumption DEF Init, Durable, IsBranchTo, Heights
<1>5. OverlaysOnParent /\ Linked /\ Sorted
  BY DEF Init, OverlaysOnParent, Linked, Sorted, Doomed
<1> QED
  BY <1>3, <1>4, <1>5 DEF IInv

\* A verified block gets its overlay on the parent's state: a known parent of
\* an undecided block is verified or the last accepted one.
LEMMA VerifyIInv ==
  ASSUME IInv, NEW b \in Blocks, Verify(b)
  PROVE  IInv'
<1> DEFINE p == Parent[b]
<1>1. /\ b \notin verified /\ b \notin Range(disk) /\ Height[b] > Height[lastAccepted]
      /\ p \in cache \cup verified \cup Range(disk)
      /\ ~polling /\ Doomed = {}
      /\ p \in Blocks
  BY TreeAssumption DEF Verify, Undecided, Known, IInv, Sorted
<1>2. b # Genesis /\ Height[b] = Height[p] + 1 /\ p # b
  BY <1>1, DiskFacts, TreeAssumption
<1>3. p \in verified \/ p = lastAccepted
  <2>1. p \in verified \/ p \in Range(disk)
    BY <1>1 DEF IInv, Sorted
  <2>2. CASE p \in Range(disk)
    <3>1. Height[p] >= Height[lastAccepted]
      BY <1>1, <1>2, TreeAssumption DEF IInv, TypeOK
    <3> QED
      BY <2>2, <3>1, BuriedIsLow
  <2> QED
    BY <2>1, <2>2
<1>4. StateAfter(p) = IF p = lastAccepted THEN Disk ELSE p
  <2>1. CASE p = lastAccepted
    BY <2>1, DiskFacts DEF IInv, Sorted, StateAfter, IsAccepted
  <2>2. CASE p \in verified
    BY <2>2, DiskFacts DEF IInv, Sorted, StateAfter, IsAccepted
  <2> QED
    BY <1>3, <2>1, <2>2
<1>5. TypeOK'
  BY <1>1, <1>4 DEF Verify, IInv, TypeOK
<1>6. Durable' /\ Heights'
  BY DEF Verify, IInv, Durable, Heights
<1>7. Doomed' = {}
  BY <1>1, <1>3 DEF Verify, Doomed
<1>8. OverlaysOnParent'
  <2> SUFFICES ASSUME NEW c \in verified'
               PROVE  /\ mem'[c] = <<c>>
                      /\ base'[c] = IF Parent[c] = lastAccepted' THEN Disk ELSE Parent[c]
    BY DEF OverlaysOnParent
  <2>1. CASE c = b
    BY <2>1, <1>4 DEF Verify, IInv, TypeOK
  <2>2. CASE c # b
    BY <2>2, <1>1 DEF Verify, IInv, TypeOK, OverlaysOnParent
  <2> QED
    BY <2>1, <2>2
<1>9. Linked'
  <2>1. /\ children'[b] = {}
        /\ p \in verified => children'[p] = children[p] \cup {b}
        /\ p \notin verified => children'[p] \subseteq children[p] \cup {b}
        /\ \A c \in Blocks \ {b, p} : children'[c] = children[c]
    BY <1>1, <1>2 DEF Verify
  <2>2. \A c \in Blocks : \A d \in children'[c] : Parent[d] = c
    BY <2>1 DEF IInv, Linked
  <2>3. ASSUME NEW c \in verified', Parent[c] \in verified'
        PROVE  c \in children'[Parent[c]]
    <3>1. CASE c = b
      BY <3>1, <2>1, <2>3, <1>2 DEF Verify
    <3>2. CASE c # b
      <4>1. c \in verified /\ Parent[c] # b
        <5>1. c \in verified
          BY <3>2, <2>3 DEF Verify
        <5>2. Parent[c] \in verified \cup {lastAccepted}
          BY <5>1, <1>1 DEF Doomed
        <5> QED
          BY <5>1, <5>2, <1>1, DiskFacts
      <4>2. c \in children[Parent[c]] /\ Parent[c] \in Blocks
        BY <4>1, <2>3 DEF Verify, IInv, Linked, TypeOK
      <4> QED
        BY <4>1, <4>2, <2>1, <2>3, <1>1 DEF Verify
    <3> QED
      BY <3>1, <3>2
  <2> QED
    BY <2>2, <2>3 DEF Linked
<1>10. Sorted'
  BY <1>1, <1>7 DEF Verify, IInv, Sorted
<1> QED
  BY <1>5, <1>6, <1>8, <1>9, <1>10 DEF IInv

\* An accepted block's overlay lies on disk, so its commit extends the accepted
\* branch by one; its children move to the disk with it.
LEMMA AcceptIInv ==
  ASSUME IInv, NEW b \in Blocks, Accept(b)
  PROVE  IInv'
<1>1. /\ b \in verified /\ Parent[b] = lastAccepted /\ Doomed = {}
      /\ b \notin Range(disk) /\ lastAccepted \notin verified
  BY DiskFacts DEF Accept, IInv, Sorted
<1>2. base[b] = Disk /\ mem[b] = <<b>>
  BY <1>1 DEF IInv, OverlaysOnParent
<1>3. disk' = Append(disk, b) /\ mem' = [mem EXCEPT ![b] = <<>>]
  <2>1. disk' = disk \o <<b>> /\ mem' = [mem EXCEPT ![b] = <<>>]
    BY <1>2 DEF Accept, Commit
  <2> QED
    BY <2>1 DEF IInv, TypeOK
<1>4. /\ Len(disk') = Len(disk) + 1 /\ disk'[Len(disk) + 1] = b
      /\ \A i \in 1..Len(disk) : disk'[i] = disk[i]
      /\ disk' \in Seq(Blocks) /\ disk' # <<>>
      /\ DOMAIN disk' = 1..(Len(disk) + 1)
  <2>1. disk \in Seq(Blocks) /\ b \in Blocks
    BY DEF IInv, TypeOK
  <2>2. Append(disk, b) \in Seq(Blocks)
    BY <2>1
  <2>3. /\ Len(Append(disk, b)) = Len(disk) + 1 /\ Append(disk, b)[Len(disk) + 1] = b
        /\ \A i \in 1..Len(disk) : Append(disk, b)[i] = disk[i]
        /\ Len(disk) + 1 > 0
    BY <2>1
  <2>4. Append(disk, b) # <<>> /\ DOMAIN Append(disk, b) = 1..(Len(disk) + 1)
    BY <2>1, <2>2, <2>3
  <2> QED
    BY <1>3, <2>2, <2>3, <2>4
<1>5. Range(disk') = Range(disk) \cup {b}
  BY <1>4, DiskFacts DEF Range
<1>6. /\ cache' \subseteq cache \cup {b} /\ IsFiniteSet(cache') /\ Cardinality(cache') <= CacheSize
  <2>1. PICK kept \in SUBSET cache : Cardinality(kept) < CacheSize /\ cache' = {b} \cup kept
    BY DEF Accept, CacheWith
  <2>2. IsFiniteSet(kept) /\ Cardinality(kept) \in Nat
    BY <2>1, FS_Subset, FS_CardinalityType DEF IInv, TypeOK
  <2>3. /\ IsFiniteSet(kept \cup {b})
        /\ Cardinality(kept \cup {b})
             = IF b \in kept THEN Cardinality(kept) ELSE Cardinality(kept) + 1
    BY <2>2, FS_AddElement, Zenon
  <2>4. Cardinality(kept \cup {b}) <= CacheSize
    BY <2>1, <2>2, <2>3, TreeAssumption
  <2>5. cache' = kept \cup {b}
    BY <2>1
  <2> QED
    BY <2>1, <2>3, <2>4, <2>5
<1>7. TypeOK'
  <2>1. base' \in [Blocks -> Blocks \cup {Disk, NoDB}]
    BY DEF Accept, Reparented, IInv, TypeOK
  <2>3. mem' \in [Blocks -> Seq(Blocks)]
    <3>1. <<>> \in Seq(Blocks)
      OBVIOUS
    <3> QED
      BY <1>3, <3>1 DEF IInv, TypeOK
  <2>2. cache' \subseteq Blocks
    BY <1>6 DEF IInv, TypeOK
  <2> QED
    BY <1>4, <1>6, <2>1, <2>2, <2>3 DEF Accept, IInv, TypeOK
<1>8. Durable'
  <2>1. \A i \in 1..(Len(disk) - 1) : Parent[disk[i + 1]] = disk[i]
    BY DEF IInv, Durable, IsBranchTo
  <2>2. ASSUME NEW i \in 1..Len(disk)
        PROVE  Parent[disk'[i + 1]] = disk'[i]
    <3>1. CASE i = Len(disk)
      BY <3>1, <1>1, <1>4, DiskFacts
    <3>2. CASE i # Len(disk)
      <4>1. PICK n \in Nat \ {0} : n = Len(disk)
        BY DiskFacts
      <4>2. i \in 1..n /\ i # n
        BY <3>2, <4>1
      <4>3. i \in 1..(n - 1) /\ i + 1 \in 1..n
        BY <4>2
      <4> QED
        BY <4>1, <4>3, <1>4, <2>1
    <3> QED
      BY <3>1, <3>2
  <2> QED
    BY <1>4, <2>2, DiskFacts DEF Accept, Durable, IsBranchTo
<1>9. Heights'
  <2>1. Height[b] = Height[lastAccepted] + 1
    BY <1>1, DiskFacts, TreeAssumption
  <2>2. Len(disk) \in 1..Len(disk) /\ Height[disk[Len(disk)]] = Len(disk) - 1
    BY DiskFacts DEF IInv, Heights
  <2>3. Height[disk'[Len(disk) + 1]] = Len(disk)
    BY <1>4, <2>1, <2>2, DiskFacts
  <2>4. \A i \in 1..Len(disk) : Height[disk'[i]] = i - 1
    BY <1>4 DEF IInv, Heights
  <2>5. ASSUME NEW i \in 1..(Len(disk) + 1)
        PROVE  Height[disk'[i]] = i - 1
    <3>1. i = Len(disk) + 1 \/ i \in 1..Len(disk)
      BY DiskFacts
    <3> QED
      BY <3>1, <2>3, <2>4, DiskFacts
  <2> QED
    BY <1>4, <2>5 DEF Heights
<1>10. ASSUME NEW c \in verified', c \notin Doomed'
       PROVE  /\ mem'[c] = <<c>>
              /\ base'[c] = IF Parent[c] = lastAccepted' THEN Disk ELSE Parent[c]
  <2>1. /\ c \in verified /\ c # b /\ c \in Blocks /\ lastAccepted' = b
        /\ Parent[c] \in verified' \cup {b}
        /\ verified' = verified \ {b}
    BY <1>10 DEF Accept, Doomed, IInv, TypeOK
  <2>2. mem'[c] = <<c>>
    BY <1>1, <1>3, <2>1 DEF IInv, TypeOK, OverlaysOnParent
  <2>3. CASE Parent[c] = b
    <3>1. c \in children[b]
      BY <2>1, <2>3, <1>1 DEF IInv, Linked
    <3> QED
      BY <2>1, <2>2, <2>3, <3>1 DEF Accept, Reparented
  <2>4. CASE Parent[c] # b
    <3>1. c \notin children[b] /\ Parent[c] # lastAccepted
      BY <2>1, <2>4, <1>1 DEF IInv, Linked
    <3>2. base'[c] = base[c] /\ base[c] = Parent[c]
      BY <2>1, <3>1, <1>1 DEF Accept, Reparented, IInv, OverlaysOnParent
    <3> QED
      BY <2>1, <2>2, <2>4, <3>2
  <2> QED
    BY <2>3, <2>4
<1>11. OverlaysOnParent'
  BY <1>10 DEF OverlaysOnParent
<1>12. Linked' /\ Sorted'
  BY <1>1, <1>5, <1>6 DEF Accept, IInv, Linked, Sorted
<1> QED
  BY <1>7, <1>8, <1>9, <1>11, <1>12 DEF IInv

\* A rejected block was on no path to the disk, and leaves the others alone.
LEMMA RejectIInv ==
  ASSUME IInv, NEW b \in Blocks, Reject(b)
  PROVE  IInv'
<1>1. /\ b \in Doomed /\ verified' = verified \ {b}
      /\ UNCHANGED <<disk, base, mem, children, cache, lastAccepted, preferred, polling>>
  BY DEF Reject, overlayVars
<1>2. TypeOK' /\ Durable' /\ Heights'
  BY <1>1 DEF IInv, TypeOK, Durable, Heights
<1>3. \A c \in verified' \ Doomed' : c \in verified \ Doomed
  BY <1>1 DEF Doomed
<1>4. OverlaysOnParent'
  BY <1>1, <1>3 DEF IInv, OverlaysOnParent
<1>5. Linked'
  BY <1>1 DEF IInv, Linked
<1>6. Sorted'
  BY <1>1 DEF IInv, Sorted
<1> QED
  BY <1>2, <1>4, <1>5, <1>6 DEF IInv

\* The preference touches no database, and ends a poll only when nothing is
\* left to reject.
LEMMA SetPreferenceIInv ==
  ASSUME IInv, NEW b \in Blocks, SetPreference(b)
  PROVE  IInv'
<1>1. /\ Doomed = {} /\ preferred' = b
      /\ polling' = FALSE
      /\ UNCHANGED <<disk, base, mem, children, verified, cache, lastAccepted>>
  BY DEF SetPreference, overlayVars
<1> QED
  BY <1>1 DEF IInv, TypeOK, Durable, Heights, OverlaysOnParent, Linked, Sorted, Doomed

\* What the pruner and the compactor set again was set already.
LEMMA MaintainIInv ==
  ASSUME IInv, Maintain
  PROVE  IInv'
<1>1. /\ Doomed = {}
      /\ base' = [c \in Blocks |-> IF c \in children[lastAccepted] THEN Disk ELSE base[c]]
      /\ UNCHANGED <<disk, mem, children, verified, cache, lastAccepted, preferred, polling>>
  BY DEF Maintain, Reparented, IInv, Sorted
<1>2. \A c \in verified : base'[c] = base[c]
  BY <1>1 DEF IInv, TypeOK, OverlaysOnParent, Linked
<1>3. TypeOK'
  BY <1>1 DEF IInv, TypeOK
<1>4. Durable' /\ Heights' /\ Linked' /\ Sorted'
  BY <1>1 DEF IInv, Durable, Heights, Linked, Sorted, Doomed
<1>5. OverlaysOnParent'
  BY <1>1, <1>2 DEF IInv, OverlaysOnParent, Doomed
<1> QED
  BY <1>3, <1>4, <1>5 DEF IInv

\* A crash leaves the disk, whose pointer names the last block on it.
LEMMA RestartIInv ==
  ASSUME IInv, Restart
  PROVE  IInv'
<1>1. /\ base' = [c \in Blocks |-> NoDB] /\ mem' = [c \in Blocks |-> <<>>]
      /\ children' = [c \in Blocks |-> {}] /\ verified' = {} /\ cache' = {}
      /\ lastAccepted' = lastAccepted /\ preferred' = lastAccepted
      /\ polling' = FALSE /\ disk' = disk
  BY DiskFacts DEF Restart, Booted
<1>2. Cardinality({}) = 0 /\ IsFiniteSet({})
  BY FS_EmptySet
<1>3. TypeOK'
  <2>1. <<>> \in Seq(Blocks) /\ 0 <= CacheSize
    BY TreeAssumption
  <2>2. /\ base' \in [Blocks -> Blocks \cup {Disk, NoDB}] /\ mem' \in [Blocks -> Seq(Blocks)]
        /\ children' \in [Blocks -> SUBSET Blocks]
    BY <1>1, <2>1
  <2> QED
    BY <1>1, <1>2, <2>1, <2>2 DEF IInv, TypeOK
<1>4. Durable' /\ Heights'
  BY <1>1 DEF IInv, Durable, Heights
<1>5. OverlaysOnParent' /\ Linked' /\ Sorted'
  BY <1>1 DEF OverlaysOnParent, Linked, Sorted, Doomed
<1> QED
  BY <1>3, <1>4, <1>5 DEF IInv

\* The invariant the theorems are drawn from holds of every reachable state.
THEOREM Invariance == Spec => []IInv
<1>1. ASSUME IInv, [Next]_vars PROVE IInv'
  <2>1. CASE UNCHANGED vars
    BY <2>1, <1>1 DEF vars, overlayVars, IInv, TypeOK, Durable, Heights,
                      OverlaysOnParent, Linked, Sorted, Doomed
  <2>2. ASSUME NEW b \in Blocks, Verify(b) \/ Accept(b) \/ Reject(b) \/ SetPreference(b)
        PROVE  IInv'
    BY <1>1, <2>2, VerifyIInv, AcceptIInv, RejectIInv, SetPreferenceIInv
  <2>3. CASE Maintain
    BY <1>1, <2>3, MaintainIInv
  <2>4. CASE Restart
    BY <1>1, <2>4, RestartIInv
  <2> QED
    BY <1>1, <2>1, <2>2, <2>3, <2>4 DEF Next
<1> QED
  BY <1>1, InitIInv, PTL DEF Spec

\* The disk holds exactly the accepted branch, whatever the engine decides and
\* wherever the process crashes.
THEOREM DiskIsAcceptedBranch == Spec => []Durable
<1>1. IInv => Durable
  BY DEF IInv
<1> QED
  BY <1>1, Invariance, PTL

\* The overlay of every block that can still be accepted lies on its parent.
THEOREM OverlaysStack == Spec => []OverlaysOnParent
<1>1. IInv => OverlaysOnParent
  BY DEF IInv
<1> QED
  BY <1>1, Invariance, PTL

\* Disk, overlays, cache and verdicts keep their types; the cache its size.
THEOREM TypeCorrect == Spec => []TypeOK
<1>1. IInv => TypeOK
  BY DEF IInv
<1> QED
  BY <1>1, Invariance, PTL

-----------------------------------------------------------------------------
(* What a block is executed on: reading down through the overlays ends, as *)
(* each lies on the disk, on none, or on that of a lower block, and what   *)
(* the reader finds is the branch of the block.                            *)

\* An overlay that was ever made lies on the disk or on the parent's.
Stacked ==
  \A b \in Blocks : base[b] \in {Disk, NoDB} \/ (b # Genesis /\ base[b] = Parent[b])

\* Outside a poll the preferred block can still be accepted, or just was.
PreferredLives == ~polling => preferred \in verified \cup {lastAccepted}

LEMMA ViewStep ==
  ASSUME IInv, Stacked, PreferredLives, [Next]_vars
  PROVE  Stacked' /\ PreferredLives'
<1>0. base \in [Blocks -> Blocks \cup {Disk, NoDB}] /\ (~polling => Doomed = {})
  BY DEF IInv, TypeOK, Sorted
<1>1. ASSUME NEW b \in Blocks, Verify(b)
      PROVE  Stacked' /\ PreferredLives'
  <2>1. /\ base' = [base EXCEPT ![b] = StateAfter(Parent[b])] /\ verified' = verified \cup {b}
        /\ UNCHANGED <<lastAccepted, preferred, polling>>
    BY <1>1 DEF Verify
  <2>2. b # Genesis
    BY <1>1, DiskFacts DEF Verify, Undecided
  <2>3. StateAfter(Parent[b]) \in {Disk, Parent[b]}
    BY DEF StateAfter
  <2> QED BY <1>0, <2>1, <2>2, <2>3 DEF Stacked, PreferredLives
<1>2. ASSUME NEW b \in Blocks, Accept(b)
      PROVE  Stacked' /\ PreferredLives'
  BY <1>0, <1>2 DEF Accept, Reparented, Stacked, PreferredLives
<1>3. ASSUME NEW b \in Blocks, Reject(b)
      PROVE  Stacked' /\ PreferredLives'
  BY <1>0, <1>3 DEF Reject, overlayVars, Stacked, PreferredLives
<1>4. ASSUME NEW b \in Blocks, SetPreference(b)
      PROVE  Stacked' /\ PreferredLives'
  BY <1>4 DEF SetPreference, overlayVars, Stacked, PreferredLives
<1>5. CASE Maintain
  BY <1>0, <1>5 DEF Maintain, Reparented, Stacked, PreferredLives
<1>6. CASE Restart
  BY <1>6 DEF Restart, Booted, Stacked, PreferredLives
<1>7. CASE UNCHANGED vars
  BY <1>7 DEF vars, overlayVars, Stacked, PreferredLives
<1> QED BY <1>1, <1>2, <1>3, <1>4, <1>5, <1>6, <1>7 DEF Next

\* Reading is defined: the view of a block is made of that of the database below,
\* which is that of a lower block or of no block.
LEMMA ViewIsDefined ==
  ASSUME IInv, Stacked
  PROVE  /\ View[Disk] = disk
         /\ \A b \in Blocks : View[b] = View[base[b]] \o mem[b]
<1> DEFINE DBs == Blocks \cup {Disk, NoDB}
           S == [DBs -> Seq(Blocks)]
           Content(F, db) == IF db = Disk THEN disk ELSE IF db = NoDB THEN <<>>
                             ELSE F[base[db]] \o mem[db]
           first == [db \in DBs |-> IF db = Disk THEN disk ELSE <<>>]
           step == [n \in Nat |-> [F \in S |-> [db \in DBs |-> Content(F, db)]]]
           Fits(f) == f = [db \in DBs |-> IF db = Disk THEN disk ELSE IF db = NoDB THEN <<>>
                                          ELSE f[base[db]] \o mem[db]]
<1>1. /\ disk \in Seq(Blocks) /\ <<>> \in Seq(Blocks)
      /\ base \in [Blocks -> DBs] /\ mem \in [Blocks -> Seq(Blocks)]
      /\ Disk \notin Blocks /\ NoDB \notin Blocks /\ Disk # NoDB
  BY TreeAssumption DEF IInv, TypeOK
<1>2. first \in S
  BY <1>1
<1>3. step \in [Nat -> [S -> S]]
  <2>1. ASSUME NEW F \in S, NEW db \in DBs
        PROVE  Content(F, db) \in Seq(Blocks)
    <3>1. CASE db \in Blocks
      <4>1. F[base[db]] \in Seq(Blocks) /\ mem[db] \in Seq(Blocks)
        BY <1>1, <3>1
      <4> QED BY <1>1, <3>1, <4>1
    <3> QED BY <1>1, <3>1
  <2> HIDE DEF Content
  <2> QED BY <2>1
<1>4. PICK g \in [Nat -> S] : g[0] = first /\ \A n \in Nat : g[n + 1] = step[n][g[n]]
  <2> HIDE DEF S, first, step
  <2>1. \E g \in [Nat -> S] : Follows(g, first, step)
    BY <1>2, <1>3, Recursion
  <2> QED BY <2>1 DEF Follows
<1>5. ASSUME NEW n \in Nat, NEW db \in DBs
      PROVE  g[n + 1][db] = Content(g[n], db)
  <2>1. g[n] \in S /\ g[n + 1] = step[n][g[n]]
    BY <1>4
  <2> HIDE DEF S, Content
  <2> QED BY <2>1
<1> HIDE DEF step
<1>6. \A n \in Nat : g[n][Disk] = disk /\ g[n][NoDB] = <<>>
  <2> TAKE n \in Nat
  <2>1. CASE n = 0
    BY <1>1, <1>4, <2>1
  <2>2. CASE n # 0
    <3>1. n - 1 \in Nat /\ (n - 1) + 1 = n
      BY <2>2
    <3>2. g[n][Disk] = Content(g[n - 1], Disk) /\ g[n][NoDB] = Content(g[n - 1], NoDB)
      BY <1>5, <3>1
    <3> QED BY <1>1, <3>2
  <2> QED BY <2>1, <2>2
<1> DEFINE view == [db \in DBs |-> IF db \in Blocks THEN g[Height[db] + 1][db] ELSE g[0][db]]
<1>7. ASSUME NEW b \in Blocks
      PROVE  view[b] = view[base[b]] \o mem[b]
  <2>1. Height[b] \in Nat /\ base[b] \in DBs /\ b # Disk /\ b # NoDB
    BY <1>1, TreeAssumption
  <2>2. view[b] = g[Height[b]][base[b]] \o mem[b]
    <3>1. view[b] = g[Height[b] + 1][b]
      OBVIOUS
    <3>2. g[Height[b] + 1][b] = Content(g[Height[b]], b)
      BY <1>5, <2>1
    <3> QED BY <2>1, <3>1, <3>2
  <2>3. g[Height[b]][base[b]] = view[base[b]]
    <3>1. CASE base[b] \in {Disk, NoDB}
      BY <1>1, <1>6, <2>1, <3>1
    <3>2. CASE b # Genesis /\ base[b] = Parent[b]
      <4>1. Height[b] = Height[Parent[b]] + 1 /\ Parent[b] \in Blocks
        BY <3>2, TreeAssumption
      <4> QED BY <3>2, <4>1
    <3> QED BY <3>1, <3>2 DEF Stacked
  <2> QED BY <2>2, <2>3
<1>8. view[Disk] = disk /\ view[NoDB] = <<>>
  BY <1>1, <1>6
<1>9. view = [db \in DBs |-> view[db]]
  OBVIOUS
<1>10. \A db \in DBs : view[db] = IF db = Disk THEN disk ELSE IF db = NoDB THEN <<>>
                                  ELSE view[base[db]] \o mem[db]
  <2> HIDE DEF view
  <2> QED BY <1>1, <1>7, <1>8
<1>11. Fits(view)
  <2> HIDE DEF view
  <2> QED BY <1>9, <1>10, Zenon
<1>12. View = CHOOSE f : Fits(f)
  BY DEF View
<1>13. Fits(View)
  <2> HIDE DEF Fits
  <2> QED BY <1>11, <1>12
<1>14. /\ View[Disk] = disk
       /\ \A b \in Blocks : View[b] = View[base[b]] \o mem[b]
  BY <1>1, <1>13
<1> QED BY <1>14

\* A branch goes on with a child of its last block.
LEMMA BranchGoesOn ==
  ASSUME NEW s \in Seq(Blocks), NEW p \in Blocks, IsBranchTo(s, p), NEW b \in Blocks, Parent[b] = p
  PROVE  s \o <<b>> \in Seq(Blocks) /\ IsBranchTo(s \o <<b>>, b)
<1> DEFINE t == Append(s, b)
           n == Len(s)
<1>1. /\ n \in Nat \ {0} /\ s[1] = Genesis /\ s[n] = p
      /\ \A i \in 1..(n - 1) : Parent[s[i + 1]] = s[i]
  BY EmptySeq DEF IsBranchTo
<1>2. /\ t \in Seq(Blocks) /\ t # <<>> /\ Len(t) = n + 1 /\ t[n + 1] = b
      /\ \A i \in 1..n : t[i] = s[i]
  BY AppendProperties
<1>3. s \o <<b>> = t
  OBVIOUS
<1> HIDE DEF t, n
<1>4. ASSUME NEW i \in 1..n
      PROVE  Parent[t[i + 1]] = t[i]
  <2>1. CASE i = n
    BY <1>1, <1>2, <2>1
  <2>2. CASE i # n
    <3>1. i \in 1..(n - 1) /\ i + 1 \in 1..n
      BY <1>1, <2>2
    <3> QED BY <1>1, <1>2, <3>1
  <2> QED BY <2>1, <2>2
<1>5. t[1] = Genesis /\ Len(t) - 1 = n /\ t[Len(t)] = b
  BY <1>1, <1>2
<1>6. IsBranchTo(t, b)
  BY <1>2, <1>4, <1>5 DEF IsBranchTo
<1> QED BY <1>2, <1>3, <1>6

\* While no block is doomed, what is found under and in the overlay of a verified
\* block is its branch, by induction on its height.
LEMMA VerifiedViews ==
  ASSUME IInv, Stacked, Doomed = {}
  PROVE  \A b \in verified : IsBranchTo(View[b], b)
<1> DEFINE Right(b) == View[b] \in Seq(Blocks) /\ IsBranchTo(View[b], b)
           T == {n \in Nat : \A b \in verified : Height[b] <= n => Right(b)}
<1>1. /\ verified \subseteq Blocks /\ lastAccepted \in Blocks /\ disk \in Seq(Blocks)
      /\ IsBranchTo(disk, lastAccepted) /\ Genesis \notin verified
      /\ \A b \in Blocks : Height[b] \in Nat /\ Parent[b] \in Blocks
  BY DiskFacts, TreeAssumption DEF IInv, TypeOK, Durable, Sorted
<1>2. ASSUME NEW b \in verified
      PROVE  /\ Parent[b] = lastAccepted => Right(b)
             /\ Parent[b] # lastAccepted => /\ Parent[b] \in verified
                                            /\ Height[b] = Height[Parent[b]] + 1
                                            /\ Right(Parent[b]) => Right(b)
  <2>1. /\ mem[b] = <<b>> /\ base[b] = IF Parent[b] = lastAccepted THEN Disk ELSE Parent[b]
        /\ Parent[b] \in verified \cup {lastAccepted}
    BY DEF IInv, OverlaysOnParent, Doomed
  <2>2. View[b] = View[base[b]] \o <<b>> /\ View[Disk] = disk
    BY <1>1, <2>1, ViewIsDefined
  <2>3. Height[b] = Height[Parent[b]] + 1
    BY <1>1, TreeAssumption
  <2>4. ASSUME Parent[b] = lastAccepted
        PROVE  Right(b)
    BY <1>1, <2>1, <2>2, <2>4, BranchGoesOn
  <2>5. ASSUME Parent[b] # lastAccepted, Right(Parent[b])
        PROVE  Right(b)
    BY <1>1, <2>1, <2>2, <2>5, BranchGoesOn
  <2> QED BY <2>1, <2>3, <2>4, <2>5
<1> HIDE DEF Right
<1>3. 0 \in T
  <2> SUFFICES ASSUME NEW b \in verified, Height[b] <= 0 PROVE Right(b)
    OBVIOUS
  <2>1. Parent[b] = lastAccepted
    BY <1>1, <1>2
  <2> QED BY <1>2, <2>1
<1>4. \A n \in Nat : n \in T => n + 1 \in T
  <2> SUFFICES ASSUME NEW n \in Nat, n \in T, NEW b \in verified, Height[b] <= n + 1
               PROVE  Right(b)
    OBVIOUS
  <2>1. CASE Parent[b] = lastAccepted
    BY <1>2, <2>1
  <2>2. CASE Parent[b] # lastAccepted
    <3>1. Parent[b] \in verified /\ Height[Parent[b]] <= n
      BY <1>1, <1>2, <2>2
    <3> QED BY <1>2, <2>2, <3>1
  <2> QED BY <2>1, <2>2
<1>5. Nat \subseteq T
  <2> HIDE DEF T
  <2> QED BY <1>3, <1>4, Induction
<1>6. \A b \in verified : Right(b)
  BY <1>1, <1>5
<1> QED BY <1>6 DEF Right

\* Whatever the order of verdicts, crashes and runs of the pruner, a block, or what
\* is built on the preferred one, is executed on the writes of its ancestors and
\* of nothing else (chain/block.go, vm/chain_vm.go).
THEOREM ViewsAreBranches == Spec => []ViewIsBranch
<1>1. Init => Stacked /\ PreferredLives
  BY DEF Init, Stacked, PreferredLives
<1>2. IInv /\ Stacked /\ PreferredLives /\ [Next]_vars => Stacked' /\ PreferredLives'
  BY ViewStep
<1>3. IInv /\ Stacked /\ PreferredLives => ViewIsBranch
  <2> SUFFICES ASSUME IInv, Stacked, PreferredLives PROVE ViewIsBranch
    OBVIOUS
  <2>1. /\ \A b \in verified : StateAfter(b) = b
        /\ StateAfter(lastAccepted) = Disk
        /\ \A b \in verified \cup {lastAccepted} : Known(b)
    BY DiskFacts DEF IInv, Sorted, StateAfter, IsAccepted, Known
  <2>2. IsBranchTo(View[Disk], lastAccepted)
    BY ViewIsDefined DEF IInv, Durable
  <2>3. Doomed = {} => \A b \in verified : IsBranchTo(View[b], b)
    BY VerifiedViews
  <2>4. ~polling => Doomed = {}
    BY DEF IInv, Sorted
  <2> QED BY <2>1, <2>2, <2>3, <2>4 DEF ViewIsBranch, PreferredLives
<1> QED BY <1>1, <1>2, <1>3, Invariance, PTL DEF Spec

=============================================================================
