----------------------------- MODULE Aggregates -----------------------------
(***************************************************************************)
(* What Min, Max, SumFunction and the folds of the community modules give, *)
(* for the proofs about code that looks for the first or the last of       *)
(* something, adds up the entries of a map or loops over a list; and what  *)
(* the cost model of RecoverySla gives, the daemon's cadence above all.    *)
(*                                                                         *)
(* The induction theorems of the library take an operator; the lemmas      *)
(* below take the set of what is good instead, which is all the same for a *)
(* property of the numbers or of the subsets of a set.                     *)
(***************************************************************************)
EXTENDS RecoverySla, FiniteSetsExt, FiniteSetTheorems, SequenceTheorems, WellFoundedInduction, TLAPS

(* A set of natural numbers that is not empty has a least element. *)
LEMMA NatLeast ==
  ASSUME NEW T \in SUBSET Nat, T # {}
  PROVE  \E x \in T : \A y \in T : x <= y
  <1> DEFINE R == {ss \in Nat \X Nat : ss[1] < ss[2]}
  <1>1. IsWellFoundedOn(R, Nat)
    BY NatLessThanWellFounded DEF OpToRel
  <1>2. \A x, y \in Nat : y < x => <<y, x>> \in R
    OBVIOUS
  <1> HIDE DEF R
  <1>3. PICK x \in T : \A y \in T : ~(<<y, x>> \in R)
    BY <1>1, WFMin, Zenon
  <1>4. ASSUME NEW y \in T PROVE x <= y
    <2>1. x \in Nat /\ y \in Nat
      OBVIOUS
    <2>2. ~(y < x)
      BY <1>2, <1>3, <2>1, Zenon
    <2>3. QED
      BY <2>1, <2>2
  <1>5. QED
    BY <1>4

(* Min is that element. *)
LEMMA MinIsLeast ==
  ASSUME NEW T \in SUBSET Nat, T # {}
  PROVE  Min(T) \in T /\ \A y \in T : Min(T) <= y
  BY NatLeast DEF Min

(* Max is the greatest element, where there is a bound. *)
LEMMA MaxIsGreatest ==
  ASSUME NEW T \in SUBSET Nat, T # {}, NEW b \in Nat, \A y \in T : y <= b
  PROVE  Max(T) \in T /\ \A y \in T : y <= Max(T)
  <1> DEFINE U == {b - y : y \in T}
  <1>1. U \in SUBSET Nat
    OBVIOUS
  <1>2. U # {}
    <2>1. PICK y \in T : TRUE
      OBVIOUS
    <2>2. b - y \in U
      BY <2>1
    <2>3. QED
      BY <2>2
  <1>3. PICK u \in U : \A w \in U : u <= w
    BY <1>1, <1>2, NatLeast
  <1>4. PICK x \in T : u = b - x
    BY <1>3
  <1>5. \A y \in T : y <= x
    BY <1>3, <1>4
  <1>6. QED
    BY <1>4, <1>5 DEF Max

-----------------------------------------------------------------------------
(* Max, of what can be enumerated. *)
LEMMA MaxOfInterval ==
  ASSUME NEW n \in Nat, NEW s \in SUBSET (1..n), s # {}
  PROVE  Max(s) \in s /\ \A y \in s : y <= Max(s)
  <1>1. s \in SUBSET Nat /\ \A y \in s : y <= n
    OBVIOUS
  <1>2. QED
    BY <1>1, MaxIsGreatest

(* The intervals from 1 grow by their last element. *)
LEMMA LastOfInterval ==
  ASSUME NEW n \in Nat, NEW k \in 1..n
  PROVE  /\ 1..k \in SUBSET (1..n) /\ 1..k # {}
         /\ Max(1..k) = k
         /\ (1..k) \ {k} = 1..(k-1)
  <1>1. k \in Nat /\ 1 <= k /\ k <= n
    OBVIOUS
  <1>2. k \in 1..k /\ 1..k \subseteq 1..n
    BY <1>1
  <1>3. Max(1..k) \in 1..k /\ \A y \in 1..k : y <= Max(1..k)
    <2>1. 1..k \in SUBSET (1..k)
      OBVIOUS
    <2>2. QED
      BY <1>1, <1>2, <2>1, MaxOfInterval
  <1>4. Max(1..k) = k
    BY <1>1, <1>2, <1>3
  <1>5. (1..k) \ {k} = 1..(k-1)
    BY <1>1
  <1>6. QED
    BY <1>2, <1>4, <1>5

-----------------------------------------------------------------------------
(* A set of numbers that holds 0 and the successor of each of its members    *)
(* holds them all: the least number outside it would have a predecessor.     *)
LEMMA NatInductionSet ==
  ASSUME NEW G \in SUBSET Nat, 0 \in G, \A n \in G : n + 1 \in G
  PROVE  G = Nat
  <1> SUFFICES ASSUME Nat \ G # {} PROVE FALSE
    OBVIOUS
  <1>1. PICK x \in Nat \ G : \A y \in Nat \ G : x <= y
    <2>1. Nat \ G \in SUBSET Nat
      OBVIOUS
    <2>2. QED
      BY <2>1, NatLeast
  <1>2. x - 1 \in Nat
    BY <1>1
  <1>3. x - 1 \in G
    BY <1>1, <1>2
  <1>4. QED
    BY <1>1, <1>2, <1>3

(* What holds of the empty list, and of a list with one entry more, holds. *)
LEMMA SeqInductionSet ==
  ASSUME NEW T, NEW G \in SUBSET Seq(T), <<>> \in G,
         \A m \in G, x \in T : Append(m, x) \in G
  PROVE  G = Seq(T)
  <1> DEFINE H == {n \in Nat : \A m \in Seq(T) : Len(m) = n => m \in G}
  <1>1. 0 \in H
    <2>1. ASSUME NEW m \in Seq(T), Len(m) = 0 PROVE m \in G
      <3>1. m = <<>>
        BY <2>1
      <3>2. QED
        BY <3>1
    <2>2. QED
      BY <2>1
  <1>2. ASSUME NEW n \in H
        PROVE  n + 1 \in H
    <2>1. n \in Nat /\ \A m \in Seq(T) : Len(m) = n => m \in G
      OBVIOUS
    <2>2. ASSUME NEW m \in Seq(T), Len(m) = n + 1 PROVE m \in G
      <3>1. PICK p \in Seq(T), x \in T : m = Append(p, x) /\ Len(p) = n
        <4> DEFINE p == [k \in 1..n |-> m[k]]
        <4>1. p \in Seq(T) /\ Len(p) = n /\ m[n + 1] \in T
          <5>1. \A k \in 1..n : m[k] \in T
            BY <2>1, <2>2
          <5>2. p \in [1..n -> T]
            BY <5>1
          <5>3. QED
            BY <2>1, <2>2, <5>2, SeqDef
        <4>2. m = Append(p, m[n + 1])
          BY <2>1, <2>2, <4>1
        <4>3. QED
          BY <4>1, <4>2
      <3>2. QED
        BY <2>1, <3>1
    <2>3. QED
      BY <2>1, <2>2
  <1>3. H = Nat
    <2> HIDE DEF H
    <2>1. H \in SUBSET Nat
      BY DEF H
    <2>2. QED
      BY <1>1, <1>2, <2>1, NatInductionSet
  <1>4. ASSUME NEW m \in Seq(T) PROVE m \in G
    <2>1. Len(m) \in H
      BY <1>3
    <2>2. QED
      BY <2>1
  <1>5. QED
    BY <1>4

(* What rises with every step rises over any number of them. *)
LEMMA StepsRise ==
  ASSUME NEW n \in Nat, NEW f, \A k \in 0..n : f[k] \in Nat,
         \A k \in 1..n : f[k - 1] < f[k]
  PROVE  \A k, l \in 0..n : k < l => f[k] < f[l]
  <1> SUFFICES ASSUME NEW k \in 0..n PROVE \A l \in 0..n : k < l => f[k] < f[l]
    OBVIOUS
  <1> DEFINE G == {d \in Nat : k + d + 1 <= n => f[k] < f[k + d + 1]}
  <1>1. k \in Nat /\ k <= n
    OBVIOUS
  <1>2. 0 \in G
    <2> SUFFICES ASSUME k + 1 <= n PROVE f[k] < f[k + 1]
      BY <1>1
    <2>1. k + 1 \in 1..n /\ (k + 1) - 1 = k
      BY <1>1
    <2>2. QED
      BY <2>1
  <1>3. ASSUME NEW d \in G PROVE d + 1 \in G
    <2> SUFFICES ASSUME k + (d + 1) + 1 <= n PROVE f[k] < f[k + (d + 1) + 1]
      OBVIOUS
    <2>1. PICK l : l = k + (d + 1) + 1
      OBVIOUS
    <2>2. /\ l \in 1..n /\ l \in 0..n /\ l - 1 \in 0..n
          /\ l - 1 = k + d + 1 /\ l - 1 <= n
      BY <1>1, <2>1
    <2>3. f[k] < f[l - 1]
      BY <2>2
    <2>4. f[l - 1] < f[l] /\ f[l] \in Nat /\ f[l - 1] \in Nat /\ f[k] \in Nat
      BY <2>2
    <2>5. f[k] < f[l]
      BY <2>3, <2>4
    <2>6. QED
      BY <2>1, <2>5
  <1>4. G = Nat
    <2> HIDE DEF G
    <2>1. G \in SUBSET Nat
      BY DEF G
    <2>2. QED
      BY <1>2, <1>3, <2>1, NatInductionSet
  <1>5. ASSUME NEW l \in 0..n, k < l PROVE f[k] < f[l]
    <2>1. PICK d : d = l - k - 1
      OBVIOUS
    <2>2. d \in Nat /\ l = k + d + 1 /\ l <= n
      BY <1>1, <1>5, <2>1
    <2>3. d \in G
      BY <1>4, <2>2
    <2>4. QED
      BY <2>2, <2>3
  <1>6. QED
    BY <1>5

(* A set of subsets of S holds all of them when it holds every subset all of *)
(* whose smaller ones it holds.                                              *)
LEMMA SubsetInductionSet ==
  ASSUME NEW S, IsFiniteSet(S), NEW G \in SUBSET SUBSET S,
         \A t \in SUBSET S :
           (\A u \in SUBSET S : Cardinality(u) < Cardinality(t) => u \in G) => t \in G
  PROVE  G = SUBSET S
  <1> DEFINE B == {Cardinality(t) : t \in (SUBSET S) \ G}
  <1> SUFFICES ASSUME (SUBSET S) \ G # {} PROVE FALSE
    OBVIOUS
  <1>1. \A t \in SUBSET S : Cardinality(t) \in Nat
    BY FS_Subset, FS_CardinalityType
  <1>2. B \in SUBSET Nat /\ B # {}
    BY <1>1
  <1>3. PICK n \in B : \A m \in B : n <= m
    BY <1>2, NatLeast
  <1>4. PICK t \in (SUBSET S) \ G : n = Cardinality(t)
    BY <1>3
  <1>5. ASSUME NEW u \in SUBSET S, Cardinality(u) < Cardinality(t), u \notin G
        PROVE  FALSE
    <2>1. Cardinality(u) \in B
      BY <1>5
    <2>2. n <= Cardinality(u) /\ n \in Nat /\ Cardinality(u) \in Nat
      BY <1>1, <1>2, <1>3, <2>1
    <2>3. QED
      BY <1>4, <1>5, <2>2
  <1>6. QED
    BY <1>4, <1>5

-----------------------------------------------------------------------------
(* One round of the loop of MapThenFoldSet: what a fold gives for a set, from *)
(* g, what it gives for the smaller ones.  pick says which element is taken.  *)
FoldRound(S, base, next, pick, g) ==
  [s \in SUBSET S |-> IF s = {} THEN base ELSE next[<<pick[s], g[s \ {pick[s]}]>>]]

(* What makes a fold total: every round stays in V, and takes a member. *)
Foldable(S, V, base, next, pick) ==
  /\ IsFiniteSet(S)
  /\ base \in V
  /\ \A x \in S, v \in V : next[<<x, v>>] \in V
  /\ \A s \in SUBSET S : s # {} => pick[s] \in s

(* g is what the fold gives for every subset of S. *)
FoldsTo(S, V, base, next, pick, g) ==
  /\ g = FoldRound(S, base, next, pick, g)
  /\ \A s \in SUBSET S : g[s] \in V

(* The loop has an outcome in V: after n rounds it is right about every set  *)
(* of at most n elements.                                                    *)
LEMMA FoldExists ==
  ASSUME NEW S, NEW V, NEW base, NEW next, NEW pick,
         Foldable(S, V, base, next, pick)
  PROVE  \E g : FoldsTo(S, V, base, next, pick, g)
  <1> DEFINE R(g) == FoldRound(S, base, next, pick, g)
             Right(g, n) == \A t \in SUBSET S : Cardinality(t) <= n => g[t] = R(g)[t]
             G == {n \in Nat : \E g \in [SUBSET S -> V] : Right(g, n)}
  <1>0. /\ IsFiniteSet(S) /\ base \in V
        /\ \A x \in S, v \in V : next[<<x, v>>] \in V
        /\ \A s \in SUBSET S : s # {} => pick[s] \in s
    BY DEF Foldable
  <1>1. ASSUME NEW t \in SUBSET S, t # {}
        PROVE  /\ pick[t] \in S
               /\ t \ {pick[t]} \in SUBSET S
               /\ Cardinality(t) \in Nat
               /\ Cardinality(t \ {pick[t]}) = Cardinality(t) - 1
    <2>1. pick[t] \in t
      BY <1>0, <1>1
    <2>2. IsFiniteSet(t) /\ Cardinality(t) \in Nat
      BY <1>0, FS_Subset, FS_CardinalityType
    <2>3. Cardinality(t \ {pick[t]}) = Cardinality(t) - 1
      BY <2>1, <2>2, FS_RemoveElement
    <2>4. QED
      BY <2>1, <2>2, <2>3
  <1>2. ASSUME NEW g, NEW t \in SUBSET S
        PROVE  /\ t = {} => R(g)[t] = base
               /\ t # {} => R(g)[t] = next[<<pick[t], g[t \ {pick[t]}]>>]
    BY DEF FoldRound
  <1>3. \A g \in [SUBSET S -> V] : R(g) \in [SUBSET S -> V]
    <2>1. SUFFICES ASSUME NEW g \in [SUBSET S -> V], NEW t \in SUBSET S, t # {}
                   PROVE  next[<<pick[t], g[t \ {pick[t]}]>>] \in V
      BY <1>0 DEF FoldRound
    <2>2. pick[t] \in S /\ g[t \ {pick[t]}] \in V
      BY <1>1, <2>1
    <2>3. QED
      BY <1>0, <2>2
  <1>4. 0 \in G
    <2>1. [s \in SUBSET S |-> base] \in [SUBSET S -> V]
      BY <1>0
    <2>2. \A t \in SUBSET S : Cardinality(t) <= 0 => t = {}
      BY <1>0, FS_Subset, FS_EmptySet, FS_CardinalityType
    <2>3. Right([s \in SUBSET S |-> base], 0)
      BY <2>2 DEF FoldRound
    <2>4. QED
      BY <2>1, <2>3
  <1>5. ASSUME NEW n \in G PROVE n + 1 \in G
    <2>1. PICK g \in [SUBSET S -> V] : Right(g, n)
      OBVIOUS
    <2> DEFINE h == R(g)
    <2>2. h \in [SUBSET S -> V]
      BY <1>3
    <2>3. ASSUME NEW t \in SUBSET S, Cardinality(t) <= n + 1
          PROVE  h[t] = R(h)[t]
      <3>1. CASE t = {}
        BY <1>2, <3>1, Zenon
      <3>2. CASE t # {}
        <4> DEFINE u == t \ {pick[t]}
        <4>1. u \in SUBSET S /\ Cardinality(u) <= n
          BY <1>1, <2>3, <3>2
        <4>2. g[u] = h[u]
          BY <2>1, <4>1
        <4>3. h[t] = next[<<pick[t], g[u]>>] /\ R(h)[t] = next[<<pick[t], h[u]>>]
          BY <1>2, <3>2, Zenon
        <4>4. QED
          BY <4>2, <4>3, Zenon
      <3>3. QED
        BY <3>1, <3>2
    <2>4. n + 1 \in Nat /\ Right(h, n + 1)
      BY <2>3
    <2>5. QED
      BY <2>2, <2>4
  <1>6. G = Nat
    <2> HIDE DEF G
    <2>1. G \in SUBSET Nat
      BY DEF G
    <2>2. QED
      BY <1>4, <1>5, <2>1, NatInductionSet
  <1>7. Cardinality(S) \in G
    BY <1>0, <1>6, FS_CardinalityType
  <1>8. PICK g \in [SUBSET S -> V] : Right(g, Cardinality(S))
    BY <1>7
  <1>9. \A t \in SUBSET S : g[t] = R(g)[t]
    BY <1>0, <1>8, FS_Subset
  <1>10. g = R(g)
    <2> DEFINE h == R(g)
    <2>1. h \in [SUBSET S -> V] /\ \A t \in SUBSET S : g[t] = h[t]
      BY <1>3, <1>9
    <2> HIDE DEF h
    <2>2. g = h
      BY <2>1
    <2>3. QED
      BY <2>2 DEF h
  <1>11. QED
    BY <1>10 DEF FoldsTo

(* The loop of FoldLeft over the list m: what it comes to for each set of     *)
(* places, from g, what it comes to without the last of them.                *)
ListFold(m, start, next, g) ==
  g = [s \in SUBSET DOMAIN m |->
         IF s = {} THEN start ELSE next[<<g[s \ {Max(s)}], m[Max(s)]>>]]

LEMMA ListFoldExists ==
  ASSUME NEW T, NEW m \in Seq(T), NEW V, NEW start \in V, NEW next \in [V \X T -> V]
  PROVE  \E g : ListFold(m, start, next, g) /\ \A s \in SUBSET DOMAIN m : g[s] \in V
  <1> DEFINE S == DOMAIN m
             step == [p \in S \X V |-> next[<<p[2], m[p[1]]>>]]
             pick == [s \in SUBSET S |-> Max(s)]
  <1>1. S = 1..Len(m) /\ Len(m) \in Nat
    OBVIOUS
  <1>2. \A x \in S, v \in V : step[<<x, v>>] = next[<<v, m[x]>>] /\ step[<<x, v>>] \in V
    OBVIOUS
  <1>3. \A s \in SUBSET S : s # {} => pick[s] = Max(s) /\ pick[s] \in s
    BY <1>1, MaxOfInterval
  <1>4. IsFiniteSet(S)
    BY <1>1, FS_Interval
  <1> HIDE DEF step, pick, S
  <1>5. PICK g : FoldsTo(S, V, start, step, pick, g)
    <2>1. Foldable(S, V, start, step, pick)
      BY <1>2, <1>3, <1>4 DEF Foldable
    <2>2. QED
      BY <2>1, FoldExists
  <1>6. ASSUME NEW s \in SUBSET S, s # {}
        PROVE  step[<<pick[s], g[s \ {pick[s]}]>>] = next[<<g[s \ {Max(s)}], m[Max(s)]>>]
    <2>1. pick[s] = Max(s) /\ pick[s] \in S /\ g[s \ {pick[s]}] \in V
      BY <1>3, <1>5, <1>6 DEF FoldsTo
    <2>2. step[<<pick[s], g[s \ {pick[s]}]>>] = next[<<g[s \ {pick[s]}], m[pick[s]]>>]
      BY <1>2, <2>1
    <2>3. QED
      BY <2>1, <2>2, Zenon
  <1>7. ListFold(m, start, next, g)
    BY <1>5, <1>6 DEF FoldsTo, FoldRound, ListFold, S
  <1>8. \A s \in SUBSET S : g[s] \in V
    BY <1>5 DEF FoldsTo
  <1>9. QED
    BY <1>7, <1>8 DEF S

-----------------------------------------------------------------------------
(* The element SumFunction takes out of a set, and one round of its loop:    *)
(* what the sum over a set is, from g, the sums over the smaller ones.       *)
Chosen(s) == CHOOSE x \in s : TRUE

Round(f, S, g) ==
  [s \in SUBSET S |-> IF s = {} THEN 0 ELSE f[Chosen(s)] + g[s \ {Chosen(s)}]]

(* g is what the loop comes to. *)
IsSum(f, S, g) == g = Round(f, S, g)

(* ... for a function f of numbers, so that g too holds numbers. *)
Sums(f, S, g) == /\ f \in [S -> Int]
                 /\ g \in [SUBSET S -> Int]
                 /\ IsSum(f, S, g)

(* A member of s is taken, and what is left is smaller. *)
LEMMA ChosenTaken ==
  ASSUME NEW S, IsFiniteSet(S), NEW t \in SUBSET S, NEW x \in t
  PROVE  /\ Chosen(t) \in t
         /\ t \ {x} \in SUBSET S
         /\ IsFiniteSet(t) /\ Cardinality(t) \in Nat
         /\ Cardinality(t \ {x}) = Cardinality(t) - 1
  <1>1. Chosen(t) \in t
    BY DEF Chosen
  <1>2. IsFiniteSet(t) /\ Cardinality(t) \in Nat
    BY FS_Subset, FS_CardinalityType
  <1>3. Cardinality(t \ {x}) = Cardinality(t) - 1
    BY <1>2, FS_RemoveElement
  <1>4. QED
    BY <1>1, <1>2, <1>3

(* The sums exist. *)
LEMMA SumExists ==
  ASSUME NEW S, IsFiniteSet(S), NEW f \in [S -> Int]
  PROVE  \E g : IsSum(f, S, g)
  <1> DEFINE next == [p \in S \X Int |-> f[p[1]] + p[2]]
             pick == [s \in SUBSET S |-> Chosen(s)]
  <1>1. \A x \in S, v \in Int : next[<<x, v>>] = f[x] + v /\ next[<<x, v>>] \in Int
    OBVIOUS
  <1>2. \A s \in SUBSET S : s # {} => pick[s] = Chosen(s) /\ pick[s] \in s
    BY DEF Chosen
  <1> HIDE DEF next, pick
  <1>3. PICK g : FoldsTo(S, Int, 0, next, pick, g)
    <2>1. Foldable(S, Int, 0, next, pick)
      BY <1>1, <1>2 DEF Foldable
    <2>2. QED
      BY <2>1, FoldExists
  <1>4. \A s \in SUBSET S : s # {} =>
          next[<<pick[s], g[s \ {pick[s]}]>>] = f[Chosen(s)] + g[s \ {Chosen(s)}]
    <2> SUFFICES ASSUME NEW s \in SUBSET S, s # {}
                 PROVE  next[<<pick[s], g[s \ {pick[s]}]>>] = f[Chosen(s)] + g[s \ {Chosen(s)}]
      OBVIOUS
    <2>1. pick[s] = Chosen(s) /\ pick[s] \in S /\ g[s \ {pick[s]}] \in Int
      BY <1>2, <1>3 DEF FoldsTo
    <2>2. next[<<pick[s], g[s \ {pick[s]}]>>] = f[pick[s]] + g[s \ {pick[s]}]
      BY <1>1, <2>1
    <2>3. QED
      BY <2>1, <2>2, Zenon
  <1>5. FoldRound(S, 0, next, pick, g) = Round(f, S, g)
    BY <1>4 DEF FoldRound, Round
  <1>6. QED
    BY <1>3, <1>5 DEF IsSum, FoldsTo

(* Any outcome of the loop is a number for every set. *)
LEMMA SumTyped ==
  ASSUME NEW S, IsFiniteSet(S), NEW f \in [S -> Int],
         NEW g, IsSum(f, S, g)
  PROVE  g \in [SUBSET S -> Int]
  <1> DEFINE G == {t \in SUBSET S : g[t] \in Int}
  <1>0. g = [s \in SUBSET S |-> g[s]]
    BY DEF IsSum, Round
  <1>1. /\ \A t \in SUBSET S : t = {} => g[t] = 0
        /\ \A t \in SUBSET S : t # {} => g[t] = f[Chosen(t)] + g[t \ {Chosen(t)}]
    BY DEF IsSum, Round
  <1>2. ASSUME NEW t \in SUBSET S,
               \A u \in SUBSET S : Cardinality(u) < Cardinality(t) => u \in G
        PROVE  t \in G
    <2>1. CASE t = {}
      BY <1>1, <2>1
    <2>2. CASE t # {}
      <3>1. /\ Chosen(t) \in t
            /\ t \ {Chosen(t)} \in SUBSET S
            /\ Cardinality(t \ {Chosen(t)}) < Cardinality(t)
        <4>1. Chosen(t) \in t
          BY <2>2, ChosenTaken
        <4>2. QED
          BY <4>1, ChosenTaken
      <3>2. f[Chosen(t)] \in Int /\ g[t \ {Chosen(t)}] \in Int
        BY <1>2, <3>1
      <3>3. f[Chosen(t)] + g[t \ {Chosen(t)}] \in Int
        BY <3>2
      <3>4. g[t] \in Int
        BY <1>1, <2>2, <3>3, Zenon
      <3>5. QED
        BY <3>4
    <2>3. QED
      BY <2>1, <2>2
  <1>3. G = SUBSET S
    <2> HIDE DEF G
    <2>1. G \in SUBSET SUBSET S
      BY DEF G
    <2>2. QED
      BY <1>2, <2>1, SubsetInductionSet
  <1>4. QED
    BY <1>0, <1>3

(* What SumFunction answers obeys the loop. *)
LEMMA SumFunctionIs ==
  ASSUME NEW S, IsFiniteSet(S), NEW f \in [S -> Int]
  PROVE  \E g : Sums(f, S, g) /\ SumFunction(f) = g[S]
  <1> DEFINE g == CHOOSE g : IsSum(f, S, g)
  <1>1. \E h : IsSum(f, S, h)
    BY SumExists
  <1>2. IsSum(f, S, g)
    BY <1>1
  <1>3. SumFunction(f) = g[DOMAIN f]
    BY Zenon DEF SumFunction, SumFunctionOnSet, FoldFunctionOnSet, MapThenFoldSet, IsSum, Round, Chosen
  <1> HIDE DEF g
  <1>4. g \in [SUBSET S -> Int]
    BY <1>2, SumTyped
  <1>5. QED
    BY <1>2, <1>3, <1>4 DEF Sums

(* The order in which the elements are taken does not matter. *)
LEMMA SumTake ==
  ASSUME NEW S, IsFiniteSet(S), NEW f, NEW g, Sums(f, S, g),
         NEW T \in SUBSET S, NEW e \in T
  PROVE  g[T] = f[e] + g[T \ {e}]
  <1> DEFINE G == {t \in SUBSET S : \A x \in t : g[t] = f[x] + g[t \ {x}]}
  <1>0. f \in [S -> Int] /\ g \in [SUBSET S -> Int]
    BY DEF Sums
  <1>1. \A t \in SUBSET S : t # {} => g[t] = f[Chosen(t)] + g[t \ {Chosen(t)}]
    BY DEF Sums, IsSum, Round
  <1>2. ASSUME NEW t \in SUBSET S,
               \A u \in SUBSET S : Cardinality(u) < Cardinality(t) => u \in G
        PROVE  t \in G
    <2> SUFFICES ASSUME NEW x \in t PROVE g[t] = f[x] + g[t \ {x}]
      OBVIOUS
    <2> DEFINE c == Chosen(t)
    <2>1. c \in t /\ g[t] = f[c] + g[t \ {c}]
      BY <1>1, ChosenTaken
    <2> HIDE DEF c
    <2>2. /\ t \ {x} \in SUBSET S /\ Cardinality(t \ {x}) < Cardinality(t)
          /\ t \ {c} \in SUBSET S /\ Cardinality(t \ {c}) < Cardinality(t)
      BY <2>1, ChosenTaken
    <2>3. CASE x = c
      BY <2>1, <2>3
    <2>4. CASE x # c
      <3>1. g[t \ {c}] = f[x] + g[(t \ {c}) \ {x}]
        BY <1>2, <2>2, <2>4
      <3>2. g[t \ {x}] = f[c] + g[(t \ {x}) \ {c}]
        BY <1>2, <2>1, <2>2, <2>4
      <3>3. (t \ {c}) \ {x} = (t \ {x}) \ {c}
        OBVIOUS
      <3>4. f[x] \in Int /\ f[c] \in Int /\ g[(t \ {c}) \ {x}] \in Int
        BY <1>0, <2>1, <2>2
      <3> DEFINE rest == g[(t \ {c}) \ {x}]
      <3>5. g[t] = f[c] + (f[x] + rest)
        BY <2>1, <3>1, Zenon
      <3>6. f[x] + g[t \ {x}] = f[x] + (f[c] + rest)
        BY <3>2, <3>3, Zenon
      <3>7. f[c] + (f[x] + rest) = f[x] + (f[c] + rest)
        BY <3>4
      <3>8. QED
        BY <3>5, <3>6, <3>7, Zenon
    <2>5. QED
      BY <2>3, <2>4
  <1>3. G = SUBSET S
    <2> HIDE DEF G
    <2>1. G \in SUBSET SUBSET S
      BY DEF G
    <2>2. QED
      BY <1>2, <2>1, SubsetInductionSet
  <1>4. QED
    BY <1>3

(* The sum over a set sees the function on that set only. *)
LEMMA SumSame ==
  ASSUME NEW S, IsFiniteSet(S), NEW f \in [S -> Int], NEW h \in [S -> Int],
         NEW gf, IsSum(f, S, gf), NEW gh, IsSum(h, S, gh),
         NEW T \in SUBSET S, \A x \in T : f[x] = h[x]
  PROVE  gf[T] = gh[T]
  <1> DEFINE G == {t \in SUBSET S : t \subseteq T => gf[t] = gh[t]}
  <1>1. \A t \in SUBSET S :
          /\ t = {} => gf[t] = 0 /\ gh[t] = 0
          /\ t # {} => /\ gf[t] = f[Chosen(t)] + gf[t \ {Chosen(t)}]
                       /\ gh[t] = h[Chosen(t)] + gh[t \ {Chosen(t)}]
    BY DEF IsSum, Round
  <1>2. ASSUME NEW t \in SUBSET S,
               \A u \in SUBSET S : Cardinality(u) < Cardinality(t) => u \in G
        PROVE  t \in G
    <2> SUFFICES ASSUME t \subseteq T PROVE gf[t] = gh[t]
      OBVIOUS
    <2>1. CASE t = {}
      BY <1>1, <2>1
    <2>2. CASE t # {}
      <3> DEFINE c == Chosen(t)
      <3>1. c \in t
        BY <2>2, ChosenTaken
      <3> HIDE DEF c
      <3>2. /\ t \ {c} \in SUBSET S
            /\ Cardinality(t \ {c}) < Cardinality(t)
        BY <3>1, ChosenTaken
      <3>3. gf[t \ {c}] = gh[t \ {c}] /\ f[c] = h[c]
        BY <1>2, <3>1, <3>2
      <3>4. QED
        BY <1>1, <2>2, <3>3 DEF c
    <2>3. QED
      BY <2>1, <2>2
  <1>3. G = SUBSET S
    <2> HIDE DEF G
    <2>1. G \in SUBSET SUBSET S
      BY DEF G
    <2>2. QED
      BY <1>2, <2>1, SubsetInductionSet
  <1>4. QED
    BY <1>3

-----------------------------------------------------------------------------
(* A sum of integers is an integer, *)
LEMMA SumInt ==
  ASSUME NEW S, IsFiniteSet(S), NEW f \in [S -> Int]
  PROVE  SumFunction(f) \in Int
  <1>1. PICK g : Sums(f, S, g) /\ SumFunction(f) = g[S]
    BY SumFunctionIs
  <1>2. QED
    BY <1>1 DEF Sums

(* of zeros it is 0, *)
LEMMA SumZero ==
  ASSUME NEW S, IsFiniteSet(S)
  PROVE  SumFunction([x \in S |-> 0]) = 0
  <1> DEFINE f == [x \in S |-> 0]
             z == [t \in SUBSET S |-> 0]
  <1>1. f \in [S -> Int] /\ z \in [SUBSET S -> Int]
    OBVIOUS
  <1>2. PICK g : Sums(f, S, g) /\ SumFunction(f) = g[S]
    BY <1>1, SumFunctionIs
  <1>3. IsSum(f, S, z)
    <2>1. ASSUME NEW t \in SUBSET S, t # {}
          PROVE  f[Chosen(t)] + z[t \ {Chosen(t)}] = 0
      <3>1. Chosen(t) \in S /\ t \ {Chosen(t)} \in SUBSET S
        BY <2>1, ChosenTaken
      <3>2. QED
        BY <3>1
    <2>2. QED
      BY <2>1 DEF IsSum, Round
  <1>4. g[S] = z[S]
    <2> HIDE DEF f, z
    <2>1. QED
      BY <1>1, <1>2, <1>3, SumSame DEF Sums
  <1>5. QED
    BY <1>2, <1>4

(* and it moves with each of its entries. *)
LEMMA SumExcept ==
  ASSUME NEW S, IsFiniteSet(S), NEW f \in [S -> Int], NEW x \in S, NEW v \in Int
  PROVE  /\ SumFunction(f) \in Int
         /\ SumFunction([f EXCEPT ![x] = v]) = SumFunction(f) - f[x] + v
  <1> DEFINE h == [f EXCEPT ![x] = v]
             T == S \ {x}
  <1>1. h \in [S -> Int] /\ h[x] = v /\ (\A y \in T : f[y] = h[y])
    OBVIOUS
  <1> HIDE DEF h
  <1>2. PICK gf : Sums(f, S, gf) /\ SumFunction(f) = gf[S]
    BY SumFunctionIs
  <1>3. PICK gh : Sums(h, S, gh) /\ SumFunction(h) = gh[S]
    BY <1>1, SumFunctionIs
  <1>4. gf[S] = f[x] + gf[T]
    <2>1. S \in SUBSET S
      OBVIOUS
    <2>2. QED
      BY <1>2, <2>1, SumTake
  <1>5. gh[S] = v + gh[T]
    <2>1. S \in SUBSET S
      OBVIOUS
    <2>2. QED
      BY <1>1, <1>3, <2>1, SumTake
  <1>6. gf[T] = gh[T]
    BY <1>1, <1>2, <1>3, SumSame DEF Sums
  <1>7. gf[T] \in Int /\ f[x] \in Int
    BY <1>2 DEF Sums
  <1>8. QED
    BY <1>2, <1>3, <1>4, <1>5, <1>6, <1>7 DEF h

-----------------------------------------------------------------------------
(* The cost model of recovery-sla.ts. *)

(* A quotient that is cut to a natural number does not exceed the dividend,  *)
(* and one more does.                                                        *)
LEMMA QuotientIs ==
  ASSUME NEW n \in Int, NEW k \in Nat \ {0}
  PROVE  /\ n \div k \in Int
         /\ k * (n \div k) <= n
         /\ n < k * ((n \div k) + 1)
  <1>1. n \div k \in Int /\ n % k \in 0..k - 1 /\ n = k * (n \div k) + (n % k)
    OBVIOUS
  <1>2. PICK q : q = n \div k
    OBVIOUS
  <1>3. q \in Int /\ k * (q + 1) = k * q + k
    BY <1>1, <1>2
  <1>4. QED
    BY <1>1, <1>2, <1>3

LEMMA TimesMonotone ==
  ASSUME NEW k \in Nat, NEW x \in Int, NEW y \in Int, x <= y
  PROVE  k * x <= k * y
  <1>1. y - x \in Nat
    OBVIOUS
  <1>2. k * (y - x) \in Nat
    BY <1>1
  <1>3. k * (y - x) = k * y - k * x
    OBVIOUS
  <1>4. k * x \in Int /\ k * y \in Int
    OBVIOUS
  <1>5. QED
    BY <1>2, <1>3, <1>4

(* The longest tail of an SLA that covers the load and the margin. *)
LEMMA MaxTailIs ==
  ASSUME NEW sla \in Nat, NEW load \in Nat, NEW perTick \in Nat \ {0}, NEW margin \in Nat
  PROVE  LET n == MaxTailForSla(sla, load, perTick, margin) IN
         /\ n \in Nat
         /\ load + margin <= sla => PredictedRecovery(n, load, perTick, margin) <= sla
         /\ PredictedRecovery(n + 1, load, perTick, margin) > sla
  <1> DEFINE room == sla - load - margin
             q == room \div perTick
             n == MaxTailForSla(sla, load, perTick, margin)
  <1>1. room \in Int
    OBVIOUS
  <1>2. q \in Int /\ perTick * q <= room /\ room < perTick * (q + 1)
    BY <1>1, QuotientIs
  <1>3. n = IF q < 0 THEN 0 ELSE q
    BY DEF MaxTailForSla, AtLeast
  <1> HIDE DEF q, n
  <1>4. CASE q < 0
    <2>1. n = 0 /\ q + 1 <= 0
      BY <1>2, <1>3, <1>4
    <2>2. perTick * (q + 1) <= perTick * 0
      BY <1>2, <2>1, TimesMonotone
    <2>3. room < 0
      BY <1>1, <1>2, <2>2
    <2>4. QED
      BY <2>1, <2>3 DEF PredictedRecovery, n
  <1>5. CASE q >= 0
    <2>1. n = q /\ n \in Nat
      BY <1>2, <1>3, <1>5
    <2>2. n * perTick = perTick * q /\ (n + 1) * perTick = perTick * (q + 1)
      BY <1>2, <2>1
    <2>3. perTick * q \in Int /\ perTick * (q + 1) \in Int
      BY <1>2
    <2>4. QED
      BY <1>1, <1>2, <2>1, <2>2, <2>3 DEF PredictedRecovery, n
  <1>6. QED
    BY <1>2, <1>4, <1>5

(* The cadence is the longest whose safety-fold tail is recovered in time,   *)
(* unless none is: the floor is taken twice (operationalCadence).            *)
THEOREM CadenceIsTheLongest ==
  ASSUME NEW sla \in Nat, NEW load \in Nat, NEW perTick \in Nat \ {0}, NEW margin \in Nat,
         NEW safety \in Nat \ {0}
  PROVE  LET n == OperationalCadence(sla, load, perTick, margin, safety)
             Recovery(cadence) == PredictedRecovery(safety * cadence, load, perTick, margin)
         IN  /\ n \in Nat \ {0}
             /\ \A c \in Nat \ {0} : Recovery(c) <= sla => Recovery(n) <= sla /\ c <= n
             /\ Recovery(n + 1) > sla
  <1> DEFINE Recovery(c) == PredictedRecovery(safety * c, load, perTick, margin)
  <1>1. PICK n : n = OperationalCadence(sla, load, perTick, margin, safety)
    OBVIOUS
  <1>2. PICK t : t = MaxTailForSla(sla, load, perTick, margin)
    OBVIOUS
  <1>3. /\ t \in Nat
        /\ load + margin <= sla => PredictedRecovery(t, load, perTick, margin) <= sla
        /\ PredictedRecovery(t + 1, load, perTick, margin) > sla
    BY <1>2, MaxTailIs
  <1>4. PICK q : q = t \div safety
    OBVIOUS
  <1>5. /\ q \in Int /\ safety * q <= t /\ t < safety * (q + 1)
        /\ n = IF q < 1 THEN 1 ELSE q
    <2>1. q \in Int /\ safety * q <= t /\ t < safety * (q + 1)
      BY <1>3, <1>4, QuotientIs
    <2>2. n = IF q < 1 THEN 1 ELSE q
      BY <1>1, <1>2, <1>4 DEF OperationalCadence, AtLeast
    <2>3. QED
      BY <2>1, <2>2
  <1>6. q \in Nat
    <2>1. CASE q < 0
      <3>1. safety * (q + 1) <= safety * 0
        BY <1>5, <2>1, TimesMonotone
      <3>2. QED
        BY <1>3, <1>5, <3>1
    <2>2. QED
      BY <1>5, <2>1
  <1>7. n \in Nat \ {0} /\ q <= n
    BY <1>5, <1>6
  <1>8. \A x, y \in Nat : x <= y => PredictedRecovery(x, load, perTick, margin)
                                     <= PredictedRecovery(y, load, perTick, margin)
    <2> SUFFICES ASSUME NEW x \in Nat, NEW y \in Nat, x <= y
                 PROVE  load + x * perTick + margin <= load + y * perTick + margin
      BY DEF PredictedRecovery
    <2>1. perTick * x <= perTick * y
      BY TimesMonotone
    <2>2. x * perTick = perTick * x /\ y * perTick = perTick * y
      OBVIOUS
    <2>3. perTick * x \in Int /\ perTick * y \in Int
      OBVIOUS
    <2>4. QED
      BY <2>1, <2>2, <2>3
  <1>9. \A x \in Nat : PredictedRecovery(x, load, perTick, margin) \in Nat
    <2> SUFFICES ASSUME NEW x \in Nat PROVE load + x * perTick + margin \in Nat
      BY DEF PredictedRecovery
    <2>1. x * perTick \in Nat
      OBVIOUS
    <2>2. QED
      BY <2>1
  <1>10. safety * (n + 1) \in Nat /\ t + 1 <= safety * (n + 1)
    <2>1. safety * (q + 1) <= safety * (n + 1)
      BY <1>5, <1>7, TimesMonotone
    <2>2. safety * (q + 1) \in Int /\ safety * (n + 1) \in Nat
      BY <1>5, <1>7
    <2>3. QED
      BY <1>3, <1>5, <2>1, <2>2
  <1>11. Recovery(n + 1) > sla
    <2>1. PredictedRecovery(t + 1, load, perTick, margin) <= Recovery(n + 1)
      BY <1>3, <1>8, <1>10
    <2>2. PredictedRecovery(t + 1, load, perTick, margin) \in Nat /\ Recovery(n + 1) \in Nat
      BY <1>3, <1>9, <1>10
    <2>3. QED
      BY <1>3, <2>1, <2>2
  <1>12. ASSUME NEW c \in Nat \ {0}, Recovery(c) <= sla
         PROVE  Recovery(n) <= sla /\ c <= n
    <2>1. c <= n
      <3>1. CASE n + 1 <= c
        <4>1. safety * (n + 1) <= safety * c
          BY <1>7, <3>1, TimesMonotone
        <4>2. safety * c \in Nat
          OBVIOUS
        <4>3. Recovery(n + 1) <= Recovery(c) /\ Recovery(n + 1) \in Nat /\ Recovery(c) \in Nat
          BY <1>8, <1>9, <1>10, <4>1, <4>2
        <4>4. QED
          BY <1>11, <1>12, <4>3
      <3>2. QED
        BY <1>7, <3>1
    <2>2. CASE q < 1
      <3>1. n = 1 /\ c = 1
        BY <1>5, <1>7, <2>1, <2>2
      <3>2. QED
        BY <1>12, <2>1, <3>1
    <2>3. CASE q >= 1
      <3>1. n = q /\ safety * n <= t /\ safety * n \in Nat
        BY <1>5, <1>6, <2>3
      <3>2. load + margin <= sla
        <4>1. safety * c \in Nat
          OBVIOUS
        <4>2. PredictedRecovery(0, load, perTick, margin) <= Recovery(c)
          BY <1>8, <4>1
        <4>3. PredictedRecovery(0, load, perTick, margin) = load + margin
          BY DEF PredictedRecovery
        <4>4. Recovery(c) \in Nat
          BY <1>9, <4>1
        <4>5. QED
          BY <1>12, <4>2, <4>3, <4>4
      <3>3. Recovery(n) <= PredictedRecovery(t, load, perTick, margin)
        BY <1>3, <1>8, <3>1
      <3>4. Recovery(n) \in Nat /\ PredictedRecovery(t, load, perTick, margin) \in Nat
        BY <1>3, <1>9, <3>1
      <3>5. QED
        BY <1>3, <2>1, <3>2, <3>3, <3>4
    <2>4. QED
      BY <1>6, <2>2, <2>3
  <1>13. QED
    BY <1>1, <1>7, <1>11, <1>12
=============================================================================
