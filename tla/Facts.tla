--------------------------------- MODULE Facts ---------------------------------
(***************************************************************************)
(* Facts the proofs of several components need: induction over naturals    *)
(* and definition by recursion over them, both about sets and functions    *)
(* and not about operators, which the provers cannot instantiate.          *)
(***************************************************************************)
EXTENDS Integers, Sequences, FiniteSetTheorems, TLAPS

-----------------------------------------------------------------------------
(* Induction                                                               *)

\* Were n missed, subtracting one would map the numbers missed up to n to those
\* below n, one to one: a finite set into a smaller one.
LEMMA Induction ==
  ASSUME NEW T, 0 \in T, \A n \in Nat : n \in T => n + 1 \in T
  PROVE  Nat \subseteq T
<1> SUFFICES ASSUME NEW n \in Nat, n \notin T PROVE FALSE
  OBVIOUS
<1> DEFINE missed == {i \in 0..n : i \notin T}
           rest == missed \ {n}
           f == [i \in missed |-> i - 1]
<1>1. IsFiniteSet(missed) /\ Cardinality(missed) \in Nat
  <2>1. IsFiniteSet(0..n)
    BY FS_Interval
  <2> QED
    BY <2>1, FS_Subset, FS_CardinalityType
<1>2. IsFiniteSet(rest) /\ Cardinality(rest) = Cardinality(missed) - 1
  <2>1. n \in missed
    OBVIOUS
  <2> HIDE DEF missed
  <2> QED
    BY <1>1, <2>1, FS_RemoveElement
<1>3. \A i \in missed : i - 1 \in rest
  <2> TAKE i \in missed
  <2>1. i \in Nat /\ i # 0 /\ i <= n
    OBVIOUS
  <2>2. i - 1 \in Nat /\ (i - 1) + 1 = i /\ i - 1 # n
    BY <2>1
  <2>3. i - 1 \notin T
    BY <2>2
  <2> QED
    BY <2>1, <2>2, <2>3
<1>4. f \in Injection(missed, rest)
  <2>1. f \in [missed -> rest]
    BY <1>3
  <2>2. \A i, j \in missed : f[i] = f[j] => i = j
    OBVIOUS
  <2> QED
    BY <2>1, <2>2 DEF Injection, IsInjective
<1> QED
  BY <1>1, <1>2, <1>4, FS_Injection

\* The same for the numbers up to a bound.
LEMMA InductionUpTo ==
  ASSUME NEW N \in Nat, NEW T, 0 \in T,
         \A n \in 0..(N - 1) : n \in T => n + 1 \in T
  PROVE  0..N \subseteq T
<1> DEFINE U == {n \in Nat : n <= N => n \in T}
<1>1. 0 \in U
  OBVIOUS
<1>2. \A n \in Nat : n \in U => n + 1 \in U
  OBVIOUS
<1>3. Nat \subseteq U
  <2> HIDE DEF U
  <2> QED
    BY <1>1, <1>2, Induction
<1> QED
  BY <1>3

-----------------------------------------------------------------------------
(* Recursion                                                               *)

\* Each value of f follows from the one before, the first is base.
Follows(f, base, step) == f[0] = base /\ \A n \in Nat : f[n + 1] = step[n][f[n]]

\* A sequence of values each of which follows from the one before: the runs up to
\* n agree with each other, and the sequence of their last values is the one.
LEMMA Recursion ==
  ASSUME NEW S, NEW base \in S, NEW step \in [Nat -> [S -> S]]
  PROVE  \E f \in [Nat -> S] : Follows(f, base, step)
<1> DEFINE Run(g, n) == /\ g \in [0..n -> S]
                        /\ g[0] = base
                        /\ \A i \in 0..(n - 1) : g[i + 1] = step[i][g[i]]
           T == {n \in Nat : /\ \E g : Run(g, n)
                             /\ \A g, h : Run(g, n) /\ Run(h, n) => g = h}
<1>1. 0 \in T
  <2>1. Run([i \in 0..0 |-> base], 0)
    OBVIOUS
  <2>2. ASSUME NEW g, NEW h, Run(g, 0), Run(h, 0)
        PROVE  g = h
    BY <2>2
  <2> QED
    BY <2>1, <2>2
<1>2. ASSUME NEW n \in Nat, n \in T
      PROVE  n + 1 \in T
  <2>1. PICK g : Run(g, n)
    BY <1>2
  <2> DEFINE h == [i \in 0..(n + 1) |-> IF i = n + 1 THEN step[n][g[n]] ELSE g[i]]
  <2>2. Run(h, n + 1)
    <3>1. g[n] \in S /\ step[n] \in [S -> S]
      BY <2>1
    <3>2. \A i \in 0..n : h[i] = g[i]
      OBVIOUS
    <3>3. h \in [0..(n + 1) -> S]
      BY <2>1, <3>1
    <3>4. h[0] = base
      BY <2>1, <3>2
    <3>5. \A i \in 0..n : h[i + 1] = step[i][h[i]]
      <4> TAKE i \in 0..n
      <4>1. CASE i = n
        BY <4>1, <3>2
      <4>2. CASE i # n
        BY <4>2, <3>2, <2>1
      <4> QED
        BY <4>1, <4>2
    <3>6. (n + 1) - 1 = n
      OBVIOUS
    <3> HIDE DEF h
    <3> QED
      BY <3>3, <3>4, <3>5, <3>6
  <2>3. ASSUME NEW a, NEW b, Run(a, n + 1), Run(b, n + 1)
        PROVE  a = b
    <3> DEFINE Cut(c) == [i \in 0..n |-> c[i]]
    <3>1. Run(Cut(a), n) /\ Run(Cut(b), n)
      BY <2>3
    <3>2. Cut(a) = Cut(b)
      BY <3>1, <1>2
    <3>3. \A i \in 0..n : a[i] = b[i]
      <4> TAKE i \in 0..n
      <4>1. Cut(a)[i] = a[i] /\ Cut(b)[i] = b[i]
        OBVIOUS
      <4> QED
        BY <4>1, <3>2
    <3>4. a[n + 1] = b[n + 1]
      <4>1. n \in 0..((n + 1) - 1)
        OBVIOUS
      <4>2. a[n + 1] = step[n][a[n]] /\ b[n + 1] = step[n][b[n]]
        BY <2>3, <4>1
      <4> QED
        BY <3>3, <4>2
    <3> QED
      BY <2>3, <3>3, <3>4
  <2> HIDE DEF Run
  <2> QED
    BY <2>2, <2>3
<1>3. Nat \subseteq T
  <2> HIDE DEF T
  <2> QED
    BY <1>1, <1>2, Induction
<1> DEFINE run == [n \in Nat |-> CHOOSE g : Run(g, n)]
           f == [n \in Nat |-> run[n][n]]
<1>4. \A n \in Nat : Run(run[n], n)
  <2> HIDE DEF Run
  <2> QED
    BY <1>3
<1>5. ASSUME NEW n \in Nat
      PROVE  run[n + 1][n] = run[n][n]
  <2> DEFINE cut == [i \in 0..n |-> run[n + 1][i]]
  <2>1. Run(run[n + 1], n + 1)
    <3> HIDE DEF Run, run
    <3> QED
      BY <1>4
  <2>2. Run(cut, n)
    <3> HIDE DEF run
    <3> QED
      BY <2>1
  <2>3. cut = run[n]
    <3> HIDE DEF run, Run, cut
    <3> QED
      BY <2>2, <1>4, <1>3
  <2>4. cut[n] = run[n + 1][n]
    OBVIOUS
  <2> QED
    BY <2>3, <2>4
<1> HIDE DEF run
<1>6. f \in [Nat -> S] /\ f[0] = base
  BY <1>4
<1>7. ASSUME NEW n \in Nat
      PROVE  f[n + 1] = step[n][f[n]]
  <2>1. run[n + 1][n + 1] = step[n][run[n + 1][n]]
    BY <1>4
  <2> QED
    BY <2>1, <1>5
<1> HIDE DEF f
<1> QED
  BY <1>6, <1>7 DEF Follows

\* The same for the numbers up to a bound, as recursive functions are written.
FollowsUpTo(N, f, base, step) ==
  f = [n \in 0..N |-> IF n = 0 THEN base ELSE step[n][f[n - 1]]]

LEMMA RecursionUpTo ==
  ASSUME NEW N \in Nat, NEW S, NEW base \in S, NEW step \in [1..N -> [S -> S]]
  PROVE  \E f \in [0..N -> S] : FollowsUpTo(N, f, base, step)
<1> DEFINE next == [n \in Nat |-> IF n < N THEN step[n + 1] ELSE [x \in S |-> base]]
<1>1. next \in [Nat -> [S -> S]]
  OBVIOUS
<1> HIDE DEF next
<1>2. \E g \in [Nat -> S] : Follows(g, base, next)
  BY <1>1, Recursion
<1>3. PICK g \in [Nat -> S] : g[0] = base /\ \A n \in Nat : g[n + 1] = next[n][g[n]]
  BY <1>2 DEF Follows
<1> DEFINE f == [n \in 0..N |-> g[n]]
<1>4. f \in [0..N -> S]
  OBVIOUS
<1>5. ASSUME NEW n \in 0..N
      PROVE  f[n] = IF n = 0 THEN base ELSE step[n][f[n - 1]]
  <2>1. CASE n = 0
    BY <2>1, <1>3
  <2>2. CASE n # 0
    <3>1. n - 1 \in Nat /\ n - 1 < N /\ (n - 1) + 1 = n /\ n - 1 \in 0..N
      BY <2>2
    <3>2. g[n] = next[n - 1][g[n - 1]]
      BY <1>3, <3>1
    <3>3. next[n - 1] = step[n]
      BY <3>1 DEF next
    <3> QED
      BY <2>2, <3>1, <3>2, <3>3
  <2> QED
    BY <2>1, <2>2
<1> HIDE DEF f
<1>6. f = [n \in 0..N |-> IF n = 0 THEN base ELSE step[n][f[n - 1]]]
  BY <1>4, <1>5
<1> QED
  BY <1>4, <1>6 DEF FollowsUpTo

-----------------------------------------------------------------------------
(* Finite sets                                                             *)

\* What a function makes of the elements of a finite set is a finite set.
LEMMA FiniteImage ==
  ASSUME NEW S, IsFiniteSet(S), NEW f
  PROVE  IsFiniteSet({f[x] : x \in S})
<1> DEFINE T == {f[x] : x \in S}
           g == [x \in S |-> f[x]]
<1>1. g \in Surjection(S, T)
  BY DEF Surjection
<1> QED
  BY <1>1, FS_Surjection

-----------------------------------------------------------------------------
(* Sequences                                                               *)

\* A function of the numbers from 1 is a sequence.
LEMMA ListIsSeq ==
  ASSUME NEW S, NEW n \in Nat, NEW f \in [1..n -> S]
  PROVE  f \in Seq(S) /\ Len(f) = n
OBVIOUS

===============================================================================
