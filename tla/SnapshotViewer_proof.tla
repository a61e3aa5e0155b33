------------------------- MODULE SnapshotViewer_proof -------------------------
(***************************************************************************)
(* Proofs about SnapshotViewer, for snapshot files, terminals and texts of *)
(* every size.                                                             *)
(***************************************************************************)
EXTENDS SnapshotViewer, SequenceTheorems, FiniteSetTheorems, WellFoundedInduction, TLAPS

(***************************************************************************)
(* Sets of numbers.                                                        *)
(***************************************************************************)
LEMMA NatMin ==
  ASSUME NEW T \in SUBSET Nat, T # {}
  PROVE  \E m \in T : \A k \in T : m <= k
<1> DEFINE R == OpToRel(<, Nat)
<1>1. IsWellFoundedOn(R, Nat)
  BY NatLessThanWellFounded
<1>2. PICK x \in T : \A y \in T : ~(<<y, x>> \in R)
  <2> HIDE DEF R
  <2> QED
    BY <1>1, WFMin
<1>3. \A y \in T : y < x => <<y, x>> \in R
  BY DEF OpToRel
<1> HIDE DEF R
<1>4. \A y \in T : ~(y < x)
  BY <1>2, <1>3
<1> QED
  BY <1>4

LEMMA NatInd ==
  ASSUME NEW T, 0 \in T, \A n \in Nat : n \in T => n + 1 \in T
  PROVE  Nat \subseteq T
<1> SUFFICES ASSUME NEW b \in Nat, b \notin T PROVE FALSE
  OBVIOUS
<1> DEFINE U == {n \in Nat : n \notin T}
<1>1. U \in SUBSET Nat /\ U # {}
  OBVIOUS
<1>2. PICK m \in U : \A k \in U : m <= k
  <2> HIDE DEF U
  <2> QED
    BY <1>1, NatMin
<1>3. m # 0 /\ m \in Nat /\ m - 1 \in Nat /\ m - 1 \notin U
  BY <1>2
<1> QED
  BY <1>3

\* The least number of a set.
LEMMA MinOf ==
  ASSUME NEW T \in SUBSET Nat, T # {}
  PROVE  Min(T) \in T /\ \A k \in T : Min(T) <= k
<1>1. PICK m \in T : \A k \in T : m <= k
  BY NatMin
<1> QED
  BY <1>1 DEF Min

\* The greatest of two numbers, and the least.
LEMMA MaxOfTwo ==
  ASSUME NEW a \in Int, NEW b \in Int
  PROVE  Max({a, b}) \in Int /\ Max({a, b}) >= a /\ Max({a, b}) >= b /\ Max({a, b}) \in {a, b}
<1>1. \E x \in {a, b} : \A y \in {a, b} : x >= y
  <2>1. CASE a >= b
    BY <2>1
  <2>2. CASE b >= a
    BY <2>2
  <2> QED
    BY <2>1, <2>2
<1>2. Max({a, b}) \in {a, b} /\ \A y \in {a, b} : Max({a, b}) >= y
  BY <1>1 DEF Max
<1> QED
  BY <1>2

LEMMA MinOfTwo ==
  ASSUME NEW a \in Int, NEW b \in Int
  PROVE  Min({a, b}) \in Int /\ Min({a, b}) <= a /\ Min({a, b}) <= b /\ Min({a, b}) \in {a, b}
<1>1. \E x \in {a, b} : \A y \in {a, b} : x <= y
  <2>1. CASE a <= b
    BY <2>1
  <2>2. CASE b <= a
    BY <2>2
  <2> QED
    BY <2>1, <2>2
<1>2. Min({a, b}) \in {a, b} /\ \A y \in {a, b} : Min({a, b}) <= y
  BY <1>1 DEF Min
<1> QED
  BY <1>2

\* The greatest number of a set that has a bound.
LEMMA MaxOf ==
  ASSUME NEW n \in Nat, NEW T \in SUBSET (0..n), T # {}
  PROVE  Max(T) \in T /\ \A k \in T : k <= Max(T)
<1> DEFINE U == {k \in Nat : \A x \in T : x <= k}
<1>1. U \in SUBSET Nat /\ n \in U
  OBVIOUS
<1>2. PICK m \in U : \A k \in U : m <= k
  <2> HIDE DEF U
  <2> QED
    BY <1>1, NatMin
<1>3. m \in T
  <2> SUFFICES ASSUME m \notin T PROVE FALSE
    OBVIOUS
  <2>1. PICK x \in T : TRUE
    OBVIOUS
  <2>2. x \in Nat /\ x <= m /\ x # m /\ m \in Nat
    BY <1>2, <2>1
  <2>3. \A y \in T : y \in Nat /\ y <= m - 1
    BY <1>2
  <2>4. m - 1 \in U
    BY <2>2, <2>3
  <2> QED
    BY <1>2, <2>2, <2>4
<1>4. \E z \in T : \A y \in T : z >= y
  BY <1>2, <1>3
<1>5. Max(T) \in T /\ \A y \in T : Max(T) >= y
  BY <1>4 DEF Max
<1> QED
  BY <1>5

LEMMA FiniteBound ==
  ASSUME NEW S \in SUBSET (Nat \ {0}), IsFiniteSet(S)
  PROVE  \E n \in Nat : S \in SUBSET (1..n)
<1> DEFINE U == {c \in Nat : \A R \in SUBSET (Nat \ {0}) :
                   IsFiniteSet(R) /\ Cardinality(R) = c => \E n \in Nat : R \in SUBSET (1..n)}
<1>1. 0 \in U
  <2>1. ASSUME NEW R, IsFiniteSet(R), Cardinality(R) = 0
        PROVE  R \in SUBSET (1..0)
    BY <2>1, FS_EmptySet
  <2> QED
    BY <2>1
<1>2. ASSUME NEW c \in Nat, c \in U
      PROVE  c + 1 \in U
  <2> SUFFICES ASSUME NEW R \in SUBSET (Nat \ {0}), IsFiniteSet(R), Cardinality(R) = c + 1
               PROVE  \E n \in Nat : R \in SUBSET (1..n)
    OBVIOUS
  <2>1. R # {}
    BY FS_EmptySet
  <2>2. PICK x \in R : TRUE
    BY <2>1
  <2>3. IsFiniteSet(R \ {x}) /\ Cardinality(R \ {x}) = c
    <3>1. IsFiniteSet(R \ {x}) /\ Cardinality(R \ {x}) = Cardinality(R) - 1
      BY <2>2, FS_RemoveElement
    <3> QED
      BY <3>1
  <2>4. PICK n \in Nat : R \ {x} \in SUBSET (1..n)
    BY <1>2, <2>3
  <2>5. x \in Nat /\ x >= 1
    BY <2>2
  <2>6. CASE x <= n
    <3>1. R \in SUBSET (1..n)
      BY <2>4, <2>5, <2>6
    <3> QED
      BY <3>1
  <2>7. CASE ~(x <= n)
    <3>1. \A y \in R : y = x \/ y \in 1..n
      BY <2>4
    <3>2. R \in SUBSET (1..x)
      BY <2>5, <2>7, <3>1
    <3> QED
      BY <2>5, <3>2
  <2> QED
    BY <2>6, <2>7
<1> HIDE DEF U
<1>3. Cardinality(S) \in U
  <2>1. Nat \subseteq U
    BY <1>1, <1>2, NatInd
  <2>2. Cardinality(S) \in Nat
    BY FS_CardinalityType
  <2> QED
    BY <2>1, <2>2
<1> QED
  BY <1>3 DEF U

(***************************************************************************)
(* Some of the elements of a sequence, in its order.                       *)
(***************************************************************************)
\* There is a number of a set with so many of its numbers up to it.
HasNth(S, c) == \E k \in S : Cardinality({j \in S : j <= k}) = c
AllNth(S) == \A c \in 1..Cardinality(S) : HasNth(S, c)

\* The operators of the standard modules are the same there.
LEMMA SameCardinality == \A S : Chains!Cardinality(S) = Cardinality(S)
BY DEF Chains!Cardinality, Cardinality

LEMMA PartIs ==
  ASSUME NEW n \in Nat, NEW S \in SUBSET (1..n)
  PROVE  IsFiniteSet(S) /\ Cardinality(S) \in Nat /\ Cardinality(S) <= n
<1>1. IsFiniteSet(1..n) /\ Cardinality(1..n) = n
  BY FS_Interval
<1>2. IsFiniteSet(S) /\ Cardinality(S) <= Cardinality(1..n)
  BY <1>1, FS_Subset
<1>3. Cardinality(S) \in Nat
  BY <1>2, FS_CardinalityType
<1> QED
  BY <1>1, <1>2, <1>3

LEMMA NthExtends ==
  ASSUME NEW n \in Nat, \A S \in SUBSET (1..n) : AllNth(S), NEW T \in SUBSET (1..(n + 1))
  PROVE  AllNth(T)
<1>1. CASE n + 1 \notin T
  <2>1. T \in SUBSET (1..n)
    BY <1>1
  <2> QED
    BY <2>1
<1>2. CASE n + 1 \in T
  <2> DEFINE S == T \ {n + 1}
  <2>1. S \in SUBSET (1..n)
    OBVIOUS
  <2>2. IsFiniteSet(T) /\ Cardinality(T) \in Nat
    <3>1. n + 1 \in Nat
      OBVIOUS
    <3> QED
      BY <3>1, PartIs
  <2>3. Cardinality(S) = Cardinality(T) - 1
    BY <1>2, <2>2, FS_RemoveElement
  <2>4. ASSUME NEW c \in 1..Cardinality(T)
        PROVE  HasNth(T, c)
    <3>1. CASE c = Cardinality(T)
      <4>1. \A j \in T : j <= n + 1
        OBVIOUS
      <4>2. {j \in T : j <= n + 1} = T
        BY <4>1
      <4> QED
        BY <1>2, <3>1, <4>2 DEF HasNth
    <3>2. CASE c # Cardinality(T)
      <4>1. c \in 1..Cardinality(S)
        BY <2>2, <2>3, <3>2
      <4>2. PICK k \in S : Cardinality({j \in S : j <= k}) = c
        BY <2>1, <4>1 DEF AllNth, HasNth
      <4>3. k \in 1..n
        BY <2>1, <4>2
      <4>4. {j \in T : j <= k} = {j \in S : j <= k}
        BY <4>3
      <4> QED
        BY <4>2, <4>4 DEF HasNth
    <3> QED
      BY <3>1, <3>2
  <2> QED
    BY <2>4 DEF AllNth
<1> QED
  BY <1>1, <1>2

LEMMA NthExists == \A n \in Nat : \A S \in SUBSET (1..n) : AllNth(S)
<1> DEFINE U == {n \in Nat : \A S \in SUBSET (1..n) : AllNth(S)}
<1>1. 0 \in U
  <2>1. ASSUME NEW S \in SUBSET (1..0)
        PROVE  AllNth(S)
    <3>1. S = {} /\ Cardinality({}) = 0
      BY FS_EmptySet
    <3> QED
      BY <3>1 DEF AllNth
  <2> QED
    BY <2>1
<1>2. \A n \in Nat : n \in U => n + 1 \in U
  BY NthExtends
<1> HIDE DEF U
<1>3. Nat \subseteq U
  BY <1>1, <1>2, NatInd
<1> QED
  BY <1>3 DEF U

LEMMA AscendingIs ==
  ASSUME NEW n \in Nat, NEW S \in SUBSET (1..n)
  PROVE  \E c \in Nat : /\ c <= n /\ DOMAIN Chains!Ascending(S) = 1..c
                        /\ \A i \in 1..c : Chains!Ascending(S)[i] \in S
<1>1. PICK c \in Nat : c = Cardinality(S)
  BY PartIs
<1>2. c <= n
  BY <1>1, PartIs
<1>3. DOMAIN Chains!Ascending(S) = 1..c
  BY <1>1, SameCardinality DEF Chains!Ascending
<1>4. ASSUME NEW i \in 1..c
      PROVE  Chains!Ascending(S)[i] \in S
  <2>0. AllNth(S)
    BY NthExists
  <2>1. \E k \in S : Cardinality({j \in S : j <= k}) = i
    BY <1>1, <2>0 DEF AllNth, HasNth
  <2>2. Chains!Ascending(S)[i] = CHOOSE k \in S : Cardinality({j \in S : j <= k}) = i
    BY <1>1, SameCardinality DEF Chains!Ascending
  <2> QED
    BY <2>1, <2>2
<1> QED
  BY <1>2, <1>3, <1>4

(***************************************************************************)
(* The chain, from the root inwards.                                       *)
(***************************************************************************)
WalkStep(snap, walk) ==
  LET next == Chains!Follow(snap, Chains!Last(walk))
  IN  IF next = Chains!None \/ next \in Chains!ToSet(walk) THEN walk ELSE Append(walk, next)

WalkOf(f, n, snap, root) == [k \in 0..n |-> IF k = 0 THEN <<root>> ELSE WalkStep(snap, f[k - 1])]
IsWalk(f, n, snap, root) == f = WalkOf(f, n, snap, root)

LEMMA WalkExists ==
  ASSUME NEW snap, NEW root, NEW n \in Nat
  PROVE  \E f : IsWalk(f, n, snap, root)
<1> DEFINE T == {k \in Nat : \E f : IsWalk(f, k, snap, root)}
<1>1. 0 \in T
  <2> DEFINE f == [k \in 0..0 |-> <<root>>]
  <2>1. IsWalk(f, 0, snap, root)
    BY DEF WalkOf, IsWalk
  <2> QED
    BY <2>1
<1>2. ASSUME NEW k \in Nat, k \in T
      PROVE  k + 1 \in T
  <2>1. PICK f : IsWalk(f, k, snap, root)
    BY <1>2
  <2> DEFINE g == WalkOf(f, k + 1, snap, root)
  <2>2. ASSUME NEW j \in 0..k
        PROVE  g[j] = f[j]
    <3>1. g[j] = IF j = 0 THEN <<root>> ELSE WalkStep(snap, f[j - 1])
      BY DEF WalkOf
    <3>2. f[j] = IF j = 0 THEN <<root>> ELSE WalkStep(snap, f[j - 1])
      BY <2>1 DEF WalkOf, IsWalk
    <3> QED
      BY <3>1, <3>2
  <2>3. ASSUME NEW j \in 0..(k + 1)
        PROVE  g[j] = IF j = 0 THEN <<root>> ELSE WalkStep(snap, g[j - 1])
    <3>1. g[j] = IF j = 0 THEN <<root>> ELSE WalkStep(snap, f[j - 1])
      BY DEF WalkOf
    <3>2. CASE j = 0
      BY <3>1, <3>2
    <3>3. CASE j # 0
      <4>1. j - 1 \in 0..k
        BY <3>3
      <4>2. g[j - 1] = f[j - 1]
        BY <2>2, <4>1
      <4> HIDE DEF g
      <4> QED
        BY <3>1, <3>3, <4>2
    <3> QED
      BY <3>2, <3>3
  <2>4. g = [j \in 0..(k + 1) |-> g[j]]
    BY DEF WalkOf
  <2> HIDE DEF g
  <2>5. IsWalk(g, k + 1, snap, root)
    BY <2>3, <2>4 DEF WalkOf, IsWalk
  <2> QED
    BY <2>5
<1> HIDE DEF T
<1>3. n \in T
  BY <1>1, <1>2, NatInd
<1> QED
  BY <1>3 DEF T

LEMMA FollowIs ==
  ASSUME NEW snap, NEW t
  PROVE  Chains!Follow(snap, t) # Chains!None => Chains!Follow(snap, t) \in DOMAIN snap
BY DEF Chains!Follow, Chains!Cause, Chains!Context, Chains!Linked

LEMMA WalkIs ==
  ASSUME NEW snap, NEW root \in DOMAIN snap, NEW hops \in Nat
  PROVE  Chains!WalkUpTo(snap, root, hops) \in Seq(DOMAIN snap)
<1> DEFINE w == CHOOSE w : w = [n \in 0..hops |->
                  IF n = 0 THEN <<root>>
                  ELSE LET next == Chains!Follow(snap, Chains!Last(w[n - 1]))
                       IN  IF next = Chains!None \/ next \in Chains!ToSet(w[n - 1]) THEN w[n - 1]
                           ELSE Append(w[n - 1], next)]
<1>1. Chains!WalkUpTo(snap, root, hops) = w[hops]
  BY DEF Chains!WalkUpTo
<1>2. PICK f : IsWalk(f, hops, snap, root)
  BY <1>1, WalkExists
<1>3. f = [n \in 0..hops |->
             IF n = 0 THEN <<root>>
             ELSE LET next == Chains!Follow(snap, Chains!Last(f[n - 1]))
                  IN  IF next = Chains!None \/ next \in Chains!ToSet(f[n - 1]) THEN f[n - 1]
                      ELSE Append(f[n - 1], next)]
  BY <1>2 DEF IsWalk, WalkOf, WalkStep
<1>4. w = [n \in 0..hops |->
             IF n = 0 THEN <<root>>
             ELSE LET next == Chains!Follow(snap, Chains!Last(w[n - 1]))
                  IN  IF next = Chains!None \/ next \in Chains!ToSet(w[n - 1]) THEN w[n - 1]
                      ELSE Append(w[n - 1], next)]
  BY <1>3
<1> HIDE DEF w
<1>5. IsWalk(w, hops, snap, root)
  BY <1>4 DEF IsWalk, WalkOf, WalkStep
<1>6. \A k \in 0..hops : w[k] = IF k = 0 THEN <<root>> ELSE WalkStep(snap, w[k - 1])
  BY <1>5 DEF IsWalk, WalkOf
<1> DEFINE T == {k \in Nat : k <= hops => w[k] \in Seq(DOMAIN snap)}
<1>7. 0 \in T
  <2>1. w[0] = <<root>>
    BY <1>1, <1>6
  <2>2. <<root>> \in Seq(DOMAIN snap)
    OBVIOUS
  <2> QED
    BY <2>1, <2>2
<1>8. ASSUME NEW k \in Nat, k \in T
      PROVE  k + 1 \in T
  <2> SUFFICES ASSUME k + 1 <= hops PROVE w[k + 1] \in Seq(DOMAIN snap)
    OBVIOUS
  <2>1. w[k] \in Seq(DOMAIN snap) /\ k + 1 \in 0..hops /\ (k + 1) - 1 = k
    BY <1>1, <1>8
  <2>2. w[k + 1] = WalkStep(snap, w[k])
    BY <1>6, <2>1
  <2>3. WalkStep(snap, w[k]) \in Seq(DOMAIN snap)
    <3>1. PICK walk \in Seq(DOMAIN snap) : walk = w[k]
      BY <2>1
    <3>2. PICK next : next = Chains!Follow(snap, Chains!Last(walk))
      OBVIOUS
    <3>3. WalkStep(snap, walk) = IF next = Chains!None \/ next \in Chains!ToSet(walk) THEN walk
                                 ELSE Append(walk, next)
      BY <3>2 DEF WalkStep
    <3>4. next # Chains!None => next \in DOMAIN snap
      BY <3>2, FollowIs
    <3>5. next \in DOMAIN snap => Append(walk, next) \in Seq(DOMAIN snap)
      OBVIOUS
    <3> QED
      BY <3>1, <3>3, <3>4, <3>5
  <2> QED
    BY <2>2, <2>3
<1> HIDE DEF T
<1>9. hops \in T
  BY <1>1, <1>7, <1>8, NatInd
<1> QED
  BY <1>1, <1>9 DEF T
(***************************************************************************)
(* A sequence of sequences, flattened.                                     *)
(***************************************************************************)
FlatOf(f, n, seqs) == [i \in 1..n |-> IF i = 1 THEN seqs[i] ELSE f[i - 1] \o seqs[i]]
IsFlat(f, n, seqs) == f = FlatOf(f, n, seqs)

LEMMA FlatExists ==
  ASSUME NEW seqs, NEW n \in Nat
  PROVE  \E f : IsFlat(f, n, seqs)
<1> DEFINE T == {k \in Nat : \E f : IsFlat(f, k, seqs)}
<1>1. 0 \in T
  <2> DEFINE f == [k \in 1..0 |-> seqs[k]]
  <2>1. IsFlat(f, 0, seqs)
    BY DEF FlatOf, IsFlat
  <2> QED
    BY <2>1
<1>2. ASSUME NEW k \in Nat, k \in T
      PROVE  k + 1 \in T
  <2>1. PICK f : IsFlat(f, k, seqs)
    BY <1>2
  <2> DEFINE g == FlatOf(f, k + 1, seqs)
  <2>2. ASSUME NEW j \in 1..k
        PROVE  g[j] = f[j]
    <3>1. g[j] = IF j = 1 THEN seqs[j] ELSE f[j - 1] \o seqs[j]
      BY DEF FlatOf
    <3>2. f[j] = IF j = 1 THEN seqs[j] ELSE f[j - 1] \o seqs[j]
      BY <2>1 DEF FlatOf, IsFlat
    <3> QED
      BY <3>1, <3>2
  <2>3. ASSUME NEW j \in 1..(k + 1)
        PROVE  g[j] = IF j = 1 THEN seqs[j] ELSE g[j - 1] \o seqs[j]
    <3>1. g[j] = IF j = 1 THEN seqs[j] ELSE f[j - 1] \o seqs[j]
      BY DEF FlatOf
    <3>2. CASE j = 1
      BY <3>1, <3>2
    <3>3. CASE j # 1
      <4>1. j - 1 \in 1..k
        BY <3>3
      <4>2. g[j - 1] = f[j - 1]
        BY <2>2, <4>1
      <4> HIDE DEF g
      <4> QED
        BY <3>1, <3>3, <4>2
    <3> QED
      BY <3>2, <3>3
  <2>4. g = [j \in 1..(k + 1) |-> g[j]]
    BY DEF FlatOf
  <2> HIDE DEF g
  <2>5. IsFlat(g, k + 1, seqs)
    BY <2>3, <2>4 DEF FlatOf, IsFlat
  <2> QED
    BY <2>5
<1> HIDE DEF T
<1>3. n \in T
  BY <1>1, <1>2, NatInd
<1> QED
  BY <1>3 DEF T

LEMMA FlatSteps ==
  ASSUME NEW seqs, NEW N \in Nat, N = Len(seqs), N # 0
  PROVE  \E flat : /\ FlattenSeq(seqs) = flat[N]
                   /\ \A i \in 1..N : flat[i] = IF i = 1 THEN seqs[i] ELSE flat[i - 1] \o seqs[i]
<1> DEFINE flat == CHOOSE flat : flat = [i \in 1..N |->
                     IF i = 1 THEN seqs[i] ELSE flat[i - 1] \o seqs[i]]
<1>1. FlattenSeq(seqs) = flat[N]
  BY DEF FlattenSeq
<1>2. PICK f : IsFlat(f, N, seqs)
  BY FlatExists
<1>3. f = [i \in 1..N |-> IF i = 1 THEN seqs[i] ELSE f[i - 1] \o seqs[i]]
  BY <1>2 DEF IsFlat, FlatOf
<1>4. flat = [i \in 1..N |-> IF i = 1 THEN seqs[i] ELSE flat[i - 1] \o seqs[i]]
  BY <1>3
<1> HIDE DEF flat
<1>5. IsFlat(flat, N, seqs)
  BY <1>4 DEF IsFlat, FlatOf
<1>6. \A i \in 1..N : flat[i] = IF i = 1 THEN seqs[i] ELSE flat[i - 1] \o seqs[i]
  BY <1>5 DEF IsFlat, FlatOf
<1> QED
  BY <1>1, <1>6

\* It has the elements of all, and starts with those of the first.
LEMMA FlattenIs ==
  ASSUME NEW R, NEW seqs \in Seq(Seq(R))
  PROVE  /\ FlattenSeq(seqs) \in Seq(R)
         /\ seqs = <<>> => FlattenSeq(seqs) = <<>>
         /\ seqs # <<>> /\ seqs[1] # <<>> => /\ Len(FlattenSeq(seqs)) >= 1
                                             /\ FlattenSeq(seqs)[1] = seqs[1][1]
<1>1. PICK N \in Nat : N = Len(seqs)
  OBVIOUS
<1>2. CASE N = 0
  <2>1. FlattenSeq(seqs) = seqs
    BY <1>1, <1>2 DEF FlattenSeq
  <2>2. seqs = <<>>
    BY <1>1, <1>2, EmptySeq
  <2> QED
    BY <2>1, <2>2
<1>3. CASE N # 0
  <2>1. PICK flat : /\ FlattenSeq(seqs) = flat[N]
                    /\ \A i \in 1..N : flat[i] = IF i = 1 THEN seqs[i] ELSE flat[i - 1] \o seqs[i]
    BY <1>1, <1>3, FlatSteps
  <2>2. \A i \in 1..N : seqs[i] \in Seq(R)
    BY <1>1
  <2> DEFINE Starts(s) == Len(s) >= 1 /\ s[1] = seqs[1][1]
             T == {k \in Nat : k + 1 <= N => /\ flat[k + 1] \in Seq(R)
                                             /\ seqs[1] # <<>> => Starts(flat[k + 1])}
  <2>3. 0 \in T
    <3>1. 1 \in 1..N /\ 0 + 1 = 1
      BY <1>3
    <3>2. flat[1] = seqs[1] /\ seqs[1] \in Seq(R)
      BY <2>1, <2>2, <3>1
    <3>3. seqs[1] # <<>> => Starts(seqs[1])
      BY <3>2, EmptySeq
    <3> HIDE DEF Starts
    <3> QED
      BY <3>1, <3>2, <3>3
  <2>4. ASSUME NEW k \in Nat, k \in T
        PROVE  k + 1 \in T
    <3> SUFFICES ASSUME (k + 1) + 1 <= N
                 PROVE  /\ flat[(k + 1) + 1] \in Seq(R)
                        /\ seqs[1] # <<>> => Starts(flat[(k + 1) + 1])
      OBVIOUS
    <3>1. PICK a \in Seq(R) : a = flat[k + 1] /\ (seqs[1] # <<>> => Starts(a))
      BY <2>4
    <3>2. (k + 1) + 1 \in 1..N /\ ((k + 1) + 1) - 1 = k + 1 /\ (k + 1) + 1 # 1
      OBVIOUS
    <3>3. PICK b \in Seq(R) : b = seqs[(k + 1) + 1]
      BY <2>2, <3>2
    <3>4. flat[(k + 1) + 1] = a \o b
      BY <2>1, <3>1, <3>2, <3>3
    <3>5. Starts(a) => Starts(a \o b)
      <4> HIDE DEF T
      <4>1. /\ Len(a) \in Nat /\ Len(b) \in Nat /\ Len(a \o b) = Len(a) + Len(b)
            /\ Len(a) >= 1 => (a \o b)[1] = a[1]
        BY ConcatProperties
      <4> QED
        BY <4>1
    <3>6. a \o b \in Seq(R)
      BY ConcatProperties
    <3> HIDE DEF T, Starts
    <3> QED
      BY <3>1, <3>4, <3>5, <3>6
  <2> HIDE DEF T
  <2>5. N - 1 \in T
    <3>1. Nat \subseteq T
      BY <2>3, <2>4, NatInd
    <3>2. N - 1 \in Nat
      BY <1>3
    <3> QED
      BY <3>1, <3>2
  <2>6. flat[N] \in Seq(R) /\ (seqs[1] # <<>> => Starts(flat[N]))
    BY <1>3, <2>5 DEF T
  <2>7. seqs # <<>>
    BY <1>1, <1>3, EmptySeq
  <2> QED
    BY <2>1, <2>6, <2>7
<1> QED
  BY <1>2, <1>3

LEMMA SameFlatten == \A seqs : Chains!FlattenSeq(seqs) = FlattenSeq(seqs)
BY DEF Chains!FlattenSeq, FlattenSeq

(***************************************************************************)
(* The rows of the lists.                                                  *)
(***************************************************************************)
LEMMA FileIs ==
  ASSUME file \in Files
  PROVE  /\ IsSequence(file.snapshots) /\ \A i \in DOMAIN file.snapshots : IsSnapshot(file.snapshots[i])
         /\ IsSequence(file.sources) /\ \A n \in DOMAIN file.sources : LinesOf[file.sources[n]] \in Nat
BY ViewerAssumption

LEMMA AscendingSeq ==
  ASSUME NEW S \in SUBSET (Nat \ {0}), IsFiniteSet(S)
  PROVE  Chains!Ascending(S) \in Seq(S)
<1>1. PICK b \in Nat : S \in SUBSET (1..b)
  BY FiniteBound
<1>2. PICK c \in Nat : /\ DOMAIN Chains!Ascending(S) = 1..c
                       /\ \A i \in 1..c : Chains!Ascending(S)[i] \in S
  BY <1>1, AscendingIs
<1> DEFINE e(n) == CHOOSE k \in S : Chains!Cardinality({j \in S : j <= k}) = n
<1>3. PICK m : Chains!Ascending(S) = [n \in 1..m |-> e(n)]
  BY DEF Chains!Ascending
<1> HIDE DEF e
<1>4. 1..m = 1..c
  BY <1>2, <1>3
<1>5. Chains!Ascending(S) = [n \in 1..c |-> e(n)]
  BY <1>3, <1>4
<1>6. \A n \in 1..c : e(n) \in S
  BY <1>2, <1>5
<1>7. [n \in 1..c |-> e(n)] \in Seq(S)
  BY <1>6
<1> QED
  BY <1>5, <1>7

\* The tree of a snapshot has its stacktraces.
LEMMA TreeIs ==
  ASSUME NEW snap, IsSnapshot(snap)
  PROVE  Chains!TreeItems(snap) \in Seq(DOMAIN snap)
<1> DEFINE excs == {t \in DOMAIN snap : snap[t].exc}
           children == UNION {{Chains!Cause(snap, t), Chains!Context(snap, t)} : t \in excs}
           roots == Chains!Ascending(excs \ children)
           threads == Chains!Ascending(DOMAIN snap \ excs)
           chains == [n \in DOMAIN roots |-> Chains!ViewerWalk(snap, roots[n])]
<1>1. IsFiniteSet(DOMAIN snap) /\ DOMAIN snap \in SUBSET (Nat \ {0})
  BY DEF IsSnapshot
<1>2. ASSUME NEW S \in SUBSET (DOMAIN snap)
      PROVE  Chains!Ascending(S) \in Seq(DOMAIN snap)
  <2>1. IsFiniteSet(S) /\ S \in SUBSET (Nat \ {0})
    BY <1>1, FS_Subset
  <2>2. Chains!Ascending(S) \in Seq(S)
    BY <2>1, AscendingSeq
  <2> QED
    BY <2>2, SeqMonotonic
<1>3. Chains!TreeItems(snap) = Chains!FlattenSeq(chains) \o threads
  BY DEF Chains!TreeItems
<1>4. roots \in Seq(DOMAIN snap) /\ threads \in Seq(DOMAIN snap)
  BY <1>2
<1> HIDE DEF roots, threads, children, excs
<1>5. chains \in Seq(Seq(DOMAIN snap))
  <2>1. PICK N \in Nat : N = Len(roots) /\ DOMAIN roots = 1..N
    BY <1>4
  <2>2. ASSUME NEW n \in 1..N
        PROVE  Chains!ViewerWalk(snap, roots[n]) \in Seq(DOMAIN snap)
    <3>1. roots[n] \in DOMAIN snap
      BY <1>4, <2>1
    <3>2. Cardinality(DOMAIN snap) \in Nat
      BY <1>1, FS_CardinalityType
    <3> QED
      BY <3>1, <3>2, WalkIs, SameCardinality DEF Chains!ViewerWalk
  <2>3. chains = [n \in 1..N |-> chains[n]] /\ \A n \in 1..N : chains[n] \in Seq(DOMAIN snap)
    BY <2>1, <2>2
  <2> HIDE DEF chains
  <2> QED
    BY <2>3
<1> HIDE DEF chains
<1>6. Chains!FlattenSeq(chains) \in Seq(DOMAIN snap)
  BY <1>5, FlattenIs, SameFlatten
<1> QED
  BY <1>3, <1>4, <1>6, ConcatProperties

\* The rows there can be, and those of one snapshot.
TreeRows ==
  {[kind |-> "snapshot", snapshot |-> i] : i \in DOMAIN file.snapshots}
  \cup UNION {{[kind |-> "stacktrace", snapshot |-> i, stack |-> t] : t \in DOMAIN file.snapshots[i]} :
              i \in DOMAIN file.snapshots}
TreeBelow(i) ==
  LET stacks == Chains!TreeItems(file.snapshots[i])
  IN  [n \in DOMAIN stacks |-> [kind |-> "stacktrace", snapshot |-> i, stack |-> stacks[n]]]
TreeOf(u, i) ==
  <<[kind |-> "snapshot", snapshot |-> i]>> \o (IF i \notin u.openSnapshots THEN <<>> ELSE TreeBelow(i))

\* A row, and what is below it.
LEMMA HeadedIs ==
  ASSUME NEW R, NEW row \in R, NEW below \in Seq(R)
  PROVE  <<row>> \o below \in Seq(R) /\ <<row>> \o below # <<>> /\ (<<row>> \o below)[1] = row
<1>1. <<row>> \in Seq(R) /\ Len(<<row>>) = 1 /\ Len(below) \in Nat
  OBVIOUS
<1>2. /\ <<row>> \o below \in Seq(R) /\ Len(<<row>> \o below) = Len(<<row>>) + Len(below)
      /\ \A i \in 1..Len(<<row>>) + Len(below) :
           (<<row>> \o below)[i] = IF i <= Len(<<row>>) THEN <<row>>[i] ELSE below[i - Len(<<row>>)]
  BY <1>1, ConcatProperties
<1>3. 1 \in 1..Len(<<row>>) + Len(below) /\ 1 <= Len(<<row>>)
  BY <1>1
<1>4. (<<row>> \o below)[1] = <<row>>[1]
  BY <1>2, <1>3
<1>5. Len(<<row>> \o below) # 0
  BY <1>1, <1>2
<1> QED
  BY <1>2, <1>4, <1>5, EmptySeq

LEMMA TreeOfIs ==
  ASSUME file \in Files, NEW u, NEW i \in DOMAIN file.snapshots
  PROVE  /\ TreeOf(u, i) \in Seq(TreeRows) /\ TreeOf(u, i) # <<>>
         /\ TreeOf(u, i)[1] = [kind |-> "snapshot", snapshot |-> i]
<1> DEFINE stacks == Chains!TreeItems(file.snapshots[i])
<1>1. stacks \in Seq(DOMAIN file.snapshots[i])
  BY FileIs, TreeIs
<1> HIDE DEF stacks
<1>2. \A n \in DOMAIN stacks : [kind |-> "stacktrace", snapshot |-> i, stack |-> stacks[n]] \in TreeRows
  <2>1. \A n \in DOMAIN stacks : stacks[n] \in DOMAIN file.snapshots[i]
    BY <1>1
  <2> QED
    BY <2>1 DEF TreeRows
<1>3. TreeBelow(i) = [n \in DOMAIN stacks |-> [kind |-> "stacktrace", snapshot |-> i, stack |-> stacks[n]]]
  BY DEF TreeBelow, stacks
<1>4. DOMAIN stacks = 1..Len(stacks) /\ Len(stacks) \in Nat
  BY <1>1
<1>5. TreeBelow(i) \in Seq(TreeRows)
  BY <1>2, <1>3, <1>4
<1>6. PICK below \in Seq(TreeRows) : below = IF i \notin u.openSnapshots THEN <<>> ELSE TreeBelow(i)
  BY <1>5, EmptySeq
<1>7. [kind |-> "snapshot", snapshot |-> i] \in TreeRows
  BY DEF TreeRows
<1> QED
  BY <1>6, <1>7, HeadedIs DEF TreeOf

LEMMA SnapshotRowsAre ==
  ASSUME file \in Files, NEW u
  PROVE  /\ SnapshotRows(u) \in Seq(TreeRows)
         /\ file.snapshots = <<>> => SnapshotRows(u) = <<>>
         /\ file.snapshots # <<>> => Len(SnapshotRows(u)) >= 1 /\ SnapshotRows(u)[1].kind = "snapshot"
<1> DEFINE parts == [i \in DOMAIN file.snapshots |-> TreeOf(u, i)]
<1>1. SnapshotRows(u) = FlattenSeq(parts)
  BY DEF SnapshotRows, TreeOf, TreeBelow
<1>2. PICK N \in Nat : N = Len(file.snapshots) /\ DOMAIN file.snapshots = 1..N
  BY FileIs DEF IsSequence
<1>3. parts = [i \in 1..N |-> TreeOf(u, i)] /\ \A i \in 1..N : TreeOf(u, i) \in Seq(TreeRows)
  BY <1>2, TreeOfIs
<1>4. file.snapshots = <<>> <=> N = 0
  BY <1>2, FileIs, EmptySeq DEF IsSequence
<1> HIDE DEF parts
<1>5. parts \in Seq(Seq(TreeRows)) /\ Len(parts) = N
  BY <1>3
<1>6. N = 0 <=> parts = <<>>
  BY <1>5, EmptySeq
<1>7. N # 0 => parts[1] # <<>> /\ parts[1][1].kind = "snapshot"
  <2> SUFFICES ASSUME N # 0 PROVE parts[1] # <<>> /\ parts[1][1].kind = "snapshot"
    OBVIOUS
  <2>1. 1 \in 1..N
    OBVIOUS
  <2>2. parts[1] = TreeOf(u, 1)
    BY <1>3, <2>1
  <2>3. TreeOf(u, 1) # <<>> /\ TreeOf(u, 1)[1] = [kind |-> "snapshot", snapshot |-> 1]
    BY <1>2, <2>1, TreeOfIs
  <2> QED
    BY <2>2, <2>3
<1> QED
  BY <1>1, <1>4, <1>5, <1>6, <1>7, FlattenIs

\* The rows of a stacktrace.
LocalRows(stack) ==
  {[kind |-> "frame", frame |-> i] : i \in DOMAIN stack.frames}
  \cup {[kind |-> "local", frame |-> i] : i \in DOMAIN stack.frames}
FrameOf(u, i) ==
  <<[kind |-> "frame", frame |-> i]>>
  \o (IF i \notin u.openFrames THEN <<>>
      ELSE [n \in 1..Max({1, Stack(u).frames[i].locals}) |-> [kind |-> "local", frame |-> i]])

LEMMA FrameOfIs ==
  ASSUME NEW u, IsStacktrace(Stack(u)), NEW i \in DOMAIN Stack(u).frames
  PROVE  /\ FrameOf(u, i) \in Seq(LocalRows(Stack(u))) /\ FrameOf(u, i) # <<>>
         /\ FrameOf(u, i)[1] = [kind |-> "frame", frame |-> i]
<1>1. PICK m \in Nat : m = Max({1, Stack(u).frames[i].locals})
  <2>1. PICK l \in Nat : l = Stack(u).frames[i].locals
    BY DEF IsStacktrace
  <2>2. 1 \in Int /\ l \in Int
    OBVIOUS
  <2>3. Max({1, l}) \in Int /\ Max({1, l}) >= 1
    BY <2>2, MaxOfTwo
  <2> QED
    BY <2>1, <2>3
<1>2. [kind |-> "frame", frame |-> i] \in LocalRows(Stack(u))
      /\ [kind |-> "local", frame |-> i] \in LocalRows(Stack(u))
  BY DEF LocalRows
<1>3. [n \in 1..m |-> [kind |-> "local", frame |-> i]] \in Seq(LocalRows(Stack(u)))
  BY <1>2
<1>4. PICK below \in Seq(LocalRows(Stack(u))) :
        below = IF i \notin u.openFrames THEN <<>> ELSE [n \in 1..m |-> [kind |-> "local", frame |-> i]]
  BY <1>3, EmptySeq
<1>5. FrameOf(u, i) = <<[kind |-> "frame", frame |-> i]>> \o below
  BY <1>1, <1>4 DEF FrameOf
<1> QED
  BY <1>2, <1>5, HeadedIs

LEMMA FrameRowsAre ==
  ASSUME NEW u, IsStacktrace(Stack(u))
  PROVE  /\ FrameRows(u) \in Seq(LocalRows(Stack(u)))
         /\ Stack(u).frames = <<>> => FrameRows(u) = <<>>
         /\ Stack(u).frames # <<>> => Len(FrameRows(u)) >= 1 /\ FrameRows(u)[1].kind = "frame"
<1> DEFINE R == LocalRows(Stack(u))
           parts == [i \in DOMAIN Stack(u).frames |-> FrameOf(u, i)]
<1>1. FrameRows(u) = FlattenSeq(parts)
  BY DEF FrameRows, FrameOf
<1>2. PICK N \in Nat : N = Len(Stack(u).frames) /\ DOMAIN Stack(u).frames = 1..N
  BY DEF IsSequence, IsStacktrace
<1>3. parts = [i \in 1..N |-> FrameOf(u, i)] /\ \A i \in 1..N : FrameOf(u, i) \in Seq(R)
  BY <1>2, FrameOfIs
<1>4. Stack(u).frames = <<>> <=> N = 0
  BY <1>2, EmptySeq DEF IsSequence, IsStacktrace
<1> HIDE DEF parts
<1>5. parts \in Seq(Seq(R)) /\ Len(parts) = N
  BY <1>3
<1>6. N = 0 <=> parts = <<>>
  BY <1>5, EmptySeq
<1>7. N # 0 => parts[1] # <<>> /\ parts[1][1].kind = "frame"
  <2> SUFFICES ASSUME N # 0 PROVE parts[1] # <<>> /\ parts[1][1].kind = "frame"
    OBVIOUS
  <2>1. 1 \in 1..N
    OBVIOUS
  <2>2. parts[1] = FrameOf(u, 1)
    BY <1>3, <2>1
  <2>3. FrameOf(u, 1) # <<>> /\ FrameOf(u, 1)[1] = [kind |-> "frame", frame |-> 1]
    BY <1>2, <2>1, FrameOfIs
  <2> QED
    BY <2>2, <2>3
<1> HIDE DEF R
<1>8. FlattenSeq(parts) \in Seq(R)
  BY <1>5, FlattenIs
<1> QED
  BY <1>1, <1>4, <1>5, <1>6, <1>7, <1>8, FlattenIs DEF R

(***************************************************************************)
(* The inductive invariant: u is the viewer, or what it is about to become *)
(* before it is drawn.                                                     *)
(***************************************************************************)
Fields == {"view", "cursor", "scroll", "views", "text", "stack", "openSnapshots", "openFrames",
           "source", "highlight"}

\* The n-th view on the way from the main menu to the one on show.
ViewAt(u, n) == IF n = Len(u.views) + 1 THEN u.view ELSE u.views[n].view

\* Which views can be opened from which.
TrailOK(u) ==
  /\ IsSequence(u.views) /\ Len(u.views) <= 3
  /\ \A n \in DOMAIN u.views :
       u.views[n].cursor \in Nat /\ u.views[n].scroll \in Int /\ u.views[n].text = NoText
  /\ ViewAt(u, 1) = "main"
  /\ u.view = "main" => u.cursor \in 0..5
  /\ Len(u.views) >= 1 =>
       u.views[1].cursor \in 0..5 /\ ViewAt(u, 2) = MainRows[u.views[1].cursor + 1]
  /\ Len(u.views) >= 2 =>
       \/ ViewAt(u, 2) = "snapshots" /\ ViewAt(u, 3) \in {"frame", "traceback"}
       \/ ViewAt(u, 2) = "sources" /\ ViewAt(u, 3) = "source_content"
  /\ Len(u.views) = 3 => ViewAt(u, 3) = "frame" /\ u.view = "source_content"

\* The rows at which the views were left are those of what is shown.
AtStack(u, cursor) ==
  LET rows == SnapshotRows(u)
      row == rows[cursor + 1]
  IN  /\ cursor \in 0..Len(rows) - 1 /\ row.kind = "stacktrace"
      /\ u.stack = <<row.snapshot, row.stack>>
AtSource(u, cursor) ==
  /\ cursor \in 0..Len(file.sources) - 1 /\ u.source = cursor + 1
  /\ u.text \in {NoText, SourceText(file.sources[cursor + 1])}
AtFrame(u, cursor) ==
  LET rows == FrameRows(u)
      frame == Stack(u).frames[rows[cursor + 1].frame]
  IN  /\ cursor \in 0..Len(rows) - 1 /\ LinesOf[frame.path] \in Nat
      /\ u.text = SourceText(frame.path) /\ u.highlight = frame.line
PlaceOK(u) ==
  /\ Len(u.views) >= 2 /\ u.views[2].view = "snapshots" => AtStack(u, u.views[2].cursor)
  /\ Len(u.views) >= 2 /\ u.views[2].view = "sources" => AtSource(u, u.views[2].cursor)
  /\ Len(u.views) = 3 => AtFrame(u, u.views[3].cursor)

\* Only a list without rows has the cursor before its first row.
CursorOK(u) == u.view \in ListViews /\ u.cursor < 0 => Count(u) = 0
TextOK(u) == IF u.view \in TextViews THEN u.text.lines \in Nat ELSE u.text = NoText

ViewerOK(u) ==
  /\ DOMAIN u = Fields /\ u.cursor \in Int /\ u.scroll \in Int
  /\ TrailOK(u) /\ PlaceOK(u) /\ CursorOK(u) /\ TextOK(u)

\* The screen, of a terminal that has room for a row.
Shows(u, h) ==
  h >= 4 =>
    LET rows == h - (IF u.view = "frame" THEN 3 ELSE 2)
    IN  IF u.view \in TextViews THEN u.scroll \in 0..Max({0, Count(u) - rows})
        ELSE Count(u) > 0 => /\ u.cursor \in 0..Count(u) - 1
                             /\ u.cursor \in u.scroll..u.scroll + rows - 1

\* What a crash may come from.
CrashOK(u) ==
  CASE u.view = "traceback" -> \E path \in TracebackPaths(u) : CannotDecode(path)
    [] u.view = "frame" /\ Count(u) > 0 ->
         CannotDecode(Stack(u).frames[Rows(u)[u.cursor + 1].frame].path)
    [] OTHER -> u.view \notin TextViews /\ Count(u) = 0

ViewerInv ==
  /\ file \in Files /\ height \in Nat /\ ViewerOK(ui)
  /\ prompt = NoPrompt /\ ended = "no" => Shows(ui, height)
  /\ ended = "crashed" => CrashOK(ui)

\* The line that is edited.
LineOK(line) ==
  /\ DOMAIN line = {"buf", "pos", "offset"} /\ IsSequence(line.buf)
  /\ line.pos \in 0..Len(line.buf) /\ line.offset \in Nat
InWindow(line) == line.pos \in line.offset..line.offset + FieldWidth - 1
PromptInv == prompt # NoPrompt => LineOK(prompt) /\ InWindow(prompt)

IInv == ViewerInv /\ PromptInv

(***************************************************************************)
(* What the invariant says of the views.                                   *)
(***************************************************************************)
LEMMA MainRowsAre ==
  ASSUME NEW c \in 0..5
  PROVE  /\ MainRows[c + 1] \in {"snapshots", "metadata", "manifest", "environment", "statistics", "sources"}
         /\ Len(MainRows) = 6
<1>1. c = 0 \/ c = 1 \/ c = 2 \/ c = 3 \/ c = 4 \/ c = 5
  OBVIOUS
<1> QED
  BY <1>1 DEF MainRows

\* The ways there are.
AtMain(u) == Len(u.views) = 0 /\ u.view = "main"
InMenu(u) ==
  /\ Len(u.views) = 1 /\ u.views[1].view = "main"
  /\ u.view \in {"snapshots", "metadata", "manifest", "environment", "statistics", "sources"}
BelowSnapshots(u) ==
  /\ Len(u.views) = 2 /\ u.views[1].view = "main" /\ u.views[2].view = "snapshots"
  /\ u.view \in {"frame", "traceback"}
BelowSources(u) ==
  /\ Len(u.views) = 2 /\ u.views[1].view = "main" /\ u.views[2].view = "sources"
  /\ u.view = "source_content"
BelowFrame(u) ==
  /\ Len(u.views) = 3 /\ u.views[1].view = "main" /\ u.views[2].view = "snapshots"
  /\ u.views[3].view = "frame" /\ u.view = "source_content"

LEMMA TrailIs ==
  ASSUME NEW u, TrailOK(u)
  PROVE  AtMain(u) \/ InMenu(u) \/ BelowSnapshots(u) \/ BelowSources(u) \/ BelowFrame(u)
<1>1. PICK n \in Nat : n = Len(u.views) /\ n <= 3
  <2>1. Len(u.views) \in Nat
    BY LenProperties DEF TrailOK, IsSequence
  <2> QED
    BY <2>1 DEF TrailOK
<1>2. n = 0 \/ n = 1 \/ n = 2 \/ n = 3
  <2>1. \A k \in Nat : k <= 3 => k = 0 \/ k = 1 \/ k = 2 \/ k = 3
    OBVIOUS
  <2> QED
    BY <1>1, <2>1
<1>3. ViewAt(u, 1) = "main"
  BY DEF TrailOK
<1>4. n >= 1 => ViewAt(u, 2) \in {"snapshots", "metadata", "manifest", "environment", "statistics", "sources"}
  BY <1>1, MainRowsAre DEF TrailOK
<1>5. n >= 2 => \/ ViewAt(u, 2) = "snapshots" /\ ViewAt(u, 3) \in {"frame", "traceback"}
                \/ ViewAt(u, 2) = "sources" /\ ViewAt(u, 3) = "source_content"
  BY <1>1 DEF TrailOK
<1>6. n = 3 => ViewAt(u, 3) = "frame" /\ u.view = "source_content"
  BY <1>1 DEF TrailOK
<1>7. CASE n = 0
  BY <1>1, <1>3, <1>7 DEF ViewAt, AtMain
<1>8. CASE n = 1
  BY <1>1, <1>3, <1>4, <1>8 DEF ViewAt, InMenu
<1>9. CASE n = 2
  <2>1. ViewAt(u, 1) = u.views[1].view /\ ViewAt(u, 2) = u.views[2].view /\ ViewAt(u, 3) = u.view
    BY <1>1, <1>9 DEF ViewAt
  <2> QED
    BY <1>1, <1>3, <1>5, <1>9, <2>1 DEF BelowSnapshots, BelowSources
<1>10. CASE n = 3
  <2>1. ViewAt(u, 1) = u.views[1].view /\ ViewAt(u, 2) = u.views[2].view /\ ViewAt(u, 3) = u.views[3].view
    BY <1>1, <1>10 DEF ViewAt
  <2>2. ViewAt(u, 2) = "snapshots"
    BY <1>5, <1>6, <1>10
  <2> QED
    BY <1>1, <1>3, <1>6, <1>10, <2>1, <2>2 DEF BelowFrame
<1> QED
  BY <1>2, <1>7, <1>8, <1>9, <1>10

LEMMA ViewIs ==
  ASSUME NEW u, TrailOK(u)
  PROVE  /\ u.view \in {"main", "snapshots", "frame", "sources", "metadata", "manifest", "environment",
                        "statistics", "source_content", "traceback"}
         /\ u.view \in ListViews <=> u.view \notin TextViews
<1>1. u.view \in {"main", "snapshots", "frame", "sources", "metadata", "manifest", "environment",
                  "statistics", "source_content", "traceback"}
  BY TrailIs DEF AtMain, InMenu, BelowSnapshots, BelowSources, BelowFrame
<1> QED
  BY <1>1 DEF ListViews, TextViews

\* What a row of the tree stands for is there.
LEMMA RowStackIs ==
  ASSUME file \in Files, NEW row \in TreeRows
  PROVE  /\ row.kind = "stacktrace" => /\ row.snapshot \in DOMAIN file.snapshots
                                       /\ row.stack \in DOMAIN file.snapshots[row.snapshot]
                                       /\ IsStacktrace(file.snapshots[row.snapshot][row.stack])
         /\ row.kind \in {"snapshot", "stacktrace"}
<1>1. CASE row \in {[kind |-> "snapshot", snapshot |-> i] : i \in DOMAIN file.snapshots}
  BY <1>1
<1>2. CASE row \notin {[kind |-> "snapshot", snapshot |-> i] : i \in DOMAIN file.snapshots}
  <2>1. PICK i \in DOMAIN file.snapshots :
          \E t \in DOMAIN file.snapshots[i] : row = [kind |-> "stacktrace", snapshot |-> i, stack |-> t]
    BY <1>2 DEF TreeRows
  <2>2. PICK t \in DOMAIN file.snapshots[i] : row = [kind |-> "stacktrace", snapshot |-> i, stack |-> t]
    BY <2>1
  <2>3. IsStacktrace(file.snapshots[i][t])
    BY FileIs DEF IsSnapshot
  <2> QED
    BY <2>2, <2>3
<1> QED
  BY <1>1, <1>2

LEMMA AtStackIs ==
  ASSUME file \in Files, NEW u, NEW c, AtStack(u, c)
  PROVE  IsStacktrace(Stack(u))
<1> DEFINE rows == SnapshotRows(u)
<1>1. PICK k : k = c + 1
  OBVIOUS
<1>2. rows \in Seq(TreeRows) /\ Len(rows) \in Nat
  BY SnapshotRowsAre
<1>3. c \in 0..Len(rows) - 1 /\ rows[k].kind = "stacktrace" /\ u.stack = <<rows[k].snapshot, rows[k].stack>>
  BY <1>1 DEF AtStack
<1> HIDE DEF rows
<1>4. k \in 1..Len(rows)
  BY <1>1, <1>2, <1>3
<1>5. rows[k] \in TreeRows
  BY <1>2, <1>4
<1> QED
  BY <1>3, <1>5, RowStackIs DEF Stack

LEMMA StackIs ==
  ASSUME file \in Files, NEW u, TrailOK(u), PlaceOK(u),
         u.view \in {"frame", "traceback"} \/ Len(u.views) = 3
  PROVE  IsStacktrace(Stack(u)) /\ AtStack(u, u.views[2].cursor)
<1>1. BelowSnapshots(u) \/ BelowFrame(u)
  BY TrailIs DEF AtMain, InMenu, BelowSnapshots, BelowSources, BelowFrame
<1>2. AtStack(u, u.views[2].cursor)
  BY <1>1 DEF PlaceOK, BelowSnapshots, BelowFrame
<1> QED
  BY <1>2, AtStackIs

LEMMA CountIs ==
  ASSUME file \in Files, NEW u, ViewerOK(u)
  PROVE  Count(u) \in Nat
<1>1. u.view \in {"main", "snapshots", "frame", "sources"} \/ u.view \in TextViews
  BY ViewIs DEF ViewerOK, ListViews
<1>2. CASE u.view \in TextViews
  BY <1>2 DEF Count, ViewerOK, TextOK
<1>3. CASE u.view \notin TextViews
  <2>1. Count(u) = Len(Rows(u))
    BY <1>3 DEF Count
  <2>2. CASE u.view = "main"
    <3>1. 0 \in 0..5
      OBVIOUS
    <3> QED
      BY <2>1, <2>2, <3>1, MainRowsAre DEF Rows
  <2>3. CASE u.view = "snapshots"
    <3>1. Rows(u) = SnapshotRows(u)
      BY <2>3 DEF Rows
    <3>2. Len(SnapshotRows(u)) \in Nat
      BY SnapshotRowsAre, LenProperties
    <3> QED
      BY <2>1, <3>1, <3>2
  <2>4. CASE u.view = "frame"
    <3>1. Rows(u) = FrameRows(u)
      BY <2>4 DEF Rows
    <3>2. IsStacktrace(Stack(u))
      BY <2>4, StackIs DEF ViewerOK
    <3>3. Len(FrameRows(u)) \in Nat
      BY <3>2, FrameRowsAre, LenProperties
    <3> QED
      BY <2>1, <3>1, <3>3
  <2>5. CASE u.view = "sources"
    <3>1. Rows(u) = file.sources
      BY <2>5 DEF Rows
    <3>2. Len(file.sources) \in Nat
      BY FileIs, LenProperties DEF IsSequence
    <3> QED
      BY <2>1, <3>1, <3>2
  <2> QED
    BY <1>1, <1>3, <2>2, <2>3, <2>4, <2>5
<1> QED
  BY <1>2, <1>3

(***************************************************************************)
(* Drawing.                                                                *)
(***************************************************************************)
\* Only the cursor, the scroll offset and the text differ.
Kept(u, d) ==
  /\ DOMAIN d = DOMAIN u /\ d.view = u.view /\ d.views = u.views /\ d.stack = u.stack
  /\ d.openSnapshots = u.openSnapshots /\ d.openFrames = u.openFrames
  /\ d.source = u.source /\ d.highlight = u.highlight

LEMMA KeptRows ==
  ASSUME NEW u, NEW d, Kept(u, d)
  PROVE  /\ SnapshotRows(d) = SnapshotRows(u) /\ Stack(d) = Stack(u) /\ FrameRows(d) = FrameRows(u)
         /\ Rows(d) = Rows(u)
<1>1. SnapshotRows(d) = SnapshotRows(u)
  BY DEF Kept, SnapshotRows
<1>2. Stack(d) = Stack(u)
  BY DEF Kept, Stack
<1>3. FrameRows(d) = FrameRows(u)
  BY <1>2 DEF Kept, FrameRows
<1> QED
  BY <1>1, <1>2, <1>3 DEF Kept, Rows

\* A list is drawn with its cursor in it, if it has rows.
LEMMA DrawListIs ==
  ASSUME NEW u, DOMAIN u = Fields, NEW c \in Int, c = u.cursor, NEW s \in Int, s = u.scroll,
         NEW n \in Nat, n = Count(u), NEW rows \in Int,
         NEW d, d = DrawList(u, rows)
  PROVE  /\ Kept(u, d) /\ d.text = u.text /\ d.cursor \in Nat /\ d.scroll \in Int
         /\ n > 0 => d.cursor \in 0..n - 1
         /\ rows >= 1 => d.cursor \in d.scroll..d.scroll + rows - 1
<1> DEFINE cursor == Max({0, Min({c, n - 1})})
           up == Min({cursor, s})
           scroll == IF cursor >= up + rows THEN cursor - rows + 1 ELSE up
<1>1. d = [u EXCEPT !.cursor = cursor, !.scroll = scroll]
  BY DEF DrawList
<1>2. cursor \in Nat /\ (n > 0 => cursor \in 0..n - 1)
  <2>1. n - 1 \in Int /\ 0 \in Int
    OBVIOUS
  <2>2. PICK m \in Int : m = Min({c, n - 1}) /\ m <= n - 1
    BY <2>1, MinOfTwo
  <2>3. PICK x \in Int : x = Max({0, m}) /\ x >= 0 /\ x \in {0, m}
    BY <2>1, <2>2, MaxOfTwo
  <2>4. cursor = x
    BY <2>2, <2>3
  <2> HIDE DEF cursor
  <2> QED
    BY <2>2, <2>3, <2>4
<1> HIDE DEF cursor
<1>3. scroll \in Int /\ (rows >= 1 => cursor \in scroll..scroll + rows - 1)
  <2>1. cursor \in Int
    BY <1>2
  <2>2. PICK m \in Int : m = up /\ m <= cursor
    BY <2>1, MinOfTwo
  <2> HIDE DEF up
  <2> QED
    BY <2>1, <2>2
<1> HIDE DEF scroll
<1>4. d.cursor = cursor /\ d.scroll = scroll /\ d.text = u.text
  BY <1>1 DEF Fields
<1>5. Kept(u, d)
  <2>1. DOMAIN d = DOMAIN u
    BY <1>1
  <2>2. d.view = u.view /\ d.views = u.views /\ d.stack = u.stack
    BY <1>1 DEF Fields
  <2>3. d.openSnapshots = u.openSnapshots /\ d.openFrames = u.openFrames
    BY <1>1 DEF Fields
  <2>4. d.source = u.source /\ d.highlight = u.highlight
    BY <1>1 DEF Fields
  <2> QED
    BY <2>1, <2>2, <2>3, <2>4 DEF Kept
<1> QED
  BY <1>2, <1>3, <1>4, <1>5

\* The text that is drawn, how far it can be scrolled, and where it is then.
TextDrawnOf(u) == IF u.text.lines = 0 THEN TextOf(u) ELSE u.text
Limit(n, rows) == Max({0, n - rows})
Scrolled(s, n, rows) == Max({0, IF n <= rows THEN 0 ELSE Min({s, n - rows})})

\* A text is drawn so that its end is not above the end of the screen.
LEMMA DrawTextIs ==
  ASSUME NEW u, DOMAIN u = Fields, NEW s \in Int, s = u.scroll, NEW rows \in Int,
         NEW text, text = TextDrawnOf(u),
         NEW n \in Nat, n = text.lines,
         NEW d, d = DrawText(u, rows)
  PROVE  /\ Kept(u, d) /\ d.text = text /\ d.cursor = u.cursor
         /\ d.scroll \in 0..Limit(n, rows) /\ d.scroll = Scrolled(s, n, rows)
<1> DEFINE low == IF n <= rows THEN 0 ELSE Min({s, n - rows})
           scroll == Max({0, low})
<1>1. d = [u EXCEPT !.text = text, !.scroll = scroll]
  BY DEF DrawText, TextDrawnOf, Fields
<1>2. n - rows \in Int /\ 0 \in Int
  OBVIOUS
<1>3. PICK l \in Int : l = low /\ (l = 0 \/ (l <= n - rows))
  <2>1. PICK m \in Int : m = Min({s, n - rows}) /\ m <= n - rows
    BY <1>2, MinOfTwo
  <2> QED
    BY <2>1
<1>4. PICK top \in Int : top = Max({0, n - rows}) /\ top >= 0 /\ top >= n - rows
  BY <1>2, MaxOfTwo
<1>5. PICK x \in Int : x = scroll /\ x >= 0 /\ x \in {0, l}
  BY <1>2, <1>3, MaxOfTwo
<1>6. scroll \in 0..top
  BY <1>2, <1>3, <1>4, <1>5
<1> HIDE DEF scroll
<1>7. d.text = text /\ d.scroll = scroll /\ d.cursor = u.cursor
  BY <1>1 DEF Fields
<1>8. Kept(u, d)
  <2>1. DOMAIN d = DOMAIN u
    BY <1>1
  <2>2. d.view = u.view /\ d.views = u.views /\ d.stack = u.stack
    BY <1>1 DEF Fields
  <2>3. d.openSnapshots = u.openSnapshots /\ d.openFrames = u.openFrames
    BY <1>1 DEF Fields
  <2>4. d.source = u.source /\ d.highlight = u.highlight
    BY <1>1 DEF Fields
  <2> QED
    BY <2>1, <2>2, <2>3, <2>4 DEF Kept
<1> QED
  BY <1>4, <1>6, <1>7, <1>8 DEF scroll, Limit, Scrolled

LEMMA KeptTrail ==
  ASSUME NEW u, NEW d, Kept(u, d), TrailOK(u), d.view = "main" => d.cursor \in 0..5
  PROVE  TrailOK(d)
<1>1. d.views = u.views /\ d.view = u.view
  BY DEF Kept
<1>2. \A n : ViewAt(d, n) = ViewAt(u, n)
  BY <1>1 DEF ViewAt
<1> QED
  BY <1>1, <1>2 DEF TrailOK

\* If the text stays too, so does what the way back leads to.
LEMMA KeptPlace ==
  ASSUME NEW u, NEW d, Kept(u, d), PlaceOK(u),
         Len(u.views) >= 2 => d.text = u.text
  PROVE  PlaceOK(d)
<1>1. /\ SnapshotRows(d) = SnapshotRows(u) /\ FrameRows(d) = FrameRows(u) /\ Stack(d) = Stack(u)
      /\ d.views = u.views /\ d.stack = u.stack /\ d.source = u.source /\ d.highlight = u.highlight
  BY KeptRows DEF Kept
<1>2. \A c : AtStack(u, c) => AtStack(d, c)
  BY <1>1 DEF AtStack
<1>3. d.text = u.text => \A c : AtSource(u, c) => AtSource(d, c)
  BY <1>1 DEF AtSource
<1>4. d.text = u.text => \A c : AtFrame(u, c) => AtFrame(d, c)
  BY <1>1 DEF AtFrame
<1>5. Len(u.views) = 3 => Len(u.views) >= 2
  OBVIOUS
<1> QED
  BY <1>1, <1>2, <1>3, <1>4, <1>5 DEF PlaceOK

LEMMA TextIs ==
  ASSUME file \in Files, NEW u, TrailOK(u), PlaceOK(u), TextOK(u), u.view \in TextViews,
         Len(u.views) # 3, NEW text, text = TextOf(u)
  PROVE  text.lines \in Nat /\ (BelowSources(u) => text = SourceText(file.sources[u.source]))
<1>1. InMenu(u) \/ BelowSnapshots(u) \/ BelowSources(u)
  BY TrailIs DEF AtMain, BelowFrame, TextViews
<1>2. CASE InMenu(u)
  <2>1. u.view \in {"metadata", "manifest", "environment", "statistics"}
    BY <1>2 DEF InMenu, TextViews
  <2>2. text = [shows |-> u.view, lines |-> TextLines[u.view]]
    BY <2>1 DEF TextOf
  <2>3. TextLines[u.view] \in Nat
    BY <2>1, ViewerAssumption
  <2> QED
    BY <1>2, <2>2, <2>3 DEF BelowSources, InMenu
<1>3. CASE BelowSnapshots(u)
  <2>1. u.view = "traceback"
    BY <1>3 DEF BelowSnapshots, TextViews
  <2>2. text = [shows |-> u.stack, lines |-> Len(Stack(u).frames) + 1]
    BY <2>1 DEF TextOf
  <2>3. Len(Stack(u).frames) \in Nat
    BY <2>1, StackIs, LenProperties DEF IsStacktrace, IsSequence
  <2> QED
    BY <2>1, <2>2, <2>3 DEF BelowSources
<1>4. CASE BelowSources(u)
  <2>1. text = SourceText(file.sources[u.source])
    BY <1>4 DEF TextOf, BelowSources
  <2>2. PICK c : c \in 0..Len(file.sources) - 1 /\ u.source = c + 1
    BY <1>4 DEF PlaceOK, AtSource, BelowSources
  <2>3. Len(file.sources) \in Nat /\ DOMAIN file.sources = 1..Len(file.sources)
    BY FileIs, LenProperties DEF IsSequence
  <2>4. LinesOf[file.sources[u.source]] \in Nat
    BY <2>2, <2>3, FileIs
  <2> QED
    BY <2>1, <2>4 DEF SourceText
<1> QED
  BY <1>1, <1>2, <1>3, <1>4

\* A list that is drawn.
LEMMA ListDrawn ==
  ASSUME file \in Files, NEW u, ViewerOK(u), u.view \in ListViews,
         NEW d, Kept(u, d), d.text = u.text, d.cursor \in Nat, d.scroll \in Int,
         Count(u) > 0 => d.cursor \in 0..Count(u) - 1
  PROVE  ViewerOK(d) /\ Count(d) = Count(u)
<1>1. u.view \notin TextViews /\ d.view = u.view
  BY ViewIs DEF ViewerOK, Kept
<1>2. Count(d) = Count(u)
  BY <1>1, KeptRows DEF Count
<1>3. d.view = "main" => d.cursor \in 0..5
  <2>1. Len(MainRows) = 6
    <3>1. 0 \in 0..5
      OBVIOUS
    <3> QED
      BY <3>1, MainRowsAre
  <2>2. d.view = "main" => Count(u) = 6
    BY <1>1, <2>1 DEF Count, Rows
  <2> QED
    BY <2>2
<1>4. TrailOK(d)
  BY <1>3, KeptTrail DEF ViewerOK
<1>5. PlaceOK(d)
  BY KeptPlace DEF ViewerOK
<1>6. CursorOK(d)
  BY DEF CursorOK
<1>7. TextOK(d)
  BY <1>1 DEF ViewerOK, TextOK
<1>8. DOMAIN d = Fields
  BY DEF ViewerOK, Kept
<1> QED
  BY <1>2, <1>4, <1>5, <1>6, <1>7, <1>8 DEF ViewerOK

\* A text that is drawn.
LEMMA TextDrawn ==
  ASSUME file \in Files, NEW u, ViewerOK(u), u.view \in TextViews,
         NEW d, Kept(u, d), d.text = TextDrawnOf(u),
         d.cursor = u.cursor, d.scroll \in Int
  PROVE  ViewerOK(d)
<1>1. d.view = u.view /\ d.view \notin ListViews /\ d.view # "main"
  BY ViewIs DEF ViewerOK, Kept, TextViews
<1>2. TrailOK(d)
  BY <1>1, KeptTrail DEF ViewerOK
<1>3. Len(u.views) = 3 => d.text = u.text
  <2> SUFFICES ASSUME Len(u.views) = 3 PROVE u.text.lines # 0
    BY DEF TextDrawnOf
  <2>1. PICK path : u.text = SourceText(path) /\ LinesOf[path] \in Nat
    BY DEF ViewerOK, PlaceOK, AtFrame
  <2> QED
    BY <2>1 DEF SourceText
<1>4. BelowSources(u) => d.text \in {NoText, SourceText(file.sources[u.source])}
  <2> SUFFICES ASSUME BelowSources(u) PROVE d.text \in {NoText, SourceText(file.sources[u.source])}
    OBVIOUS
  <2>1. u.text \in {NoText, SourceText(file.sources[u.source])}
    BY DEF BelowSources, ViewerOK, PlaceOK, AtSource
  <2>2. TextOf(u) = SourceText(file.sources[u.source])
    BY TextIs DEF BelowSources, ViewerOK
  <2> QED
    BY <2>1, <2>2 DEF TextDrawnOf
<1>5. PlaceOK(d)
  <2>1. /\ SnapshotRows(d) = SnapshotRows(u) /\ FrameRows(d) = FrameRows(u) /\ Stack(d) = Stack(u)
        /\ d.views = u.views /\ d.stack = u.stack /\ d.source = u.source /\ d.highlight = u.highlight
    BY KeptRows DEF Kept
  <2>2. AtStack(u, u.views[2].cursor) => AtStack(d, d.views[2].cursor)
    BY <2>1 DEF AtStack
  <2>3. Len(u.views) = 3 => (AtFrame(u, u.views[3].cursor) => AtFrame(d, d.views[3].cursor))
    BY <1>3, <2>1 DEF AtFrame
  <2>4. Len(u.views) >= 2 /\ u.views[2].view = "sources" => AtSource(d, d.views[2].cursor)
    <3> SUFFICES ASSUME Len(u.views) >= 2, u.views[2].view = "sources"
                 PROVE  AtSource(d, d.views[2].cursor)
      OBVIOUS
    <3>1. BelowSources(u)
      BY TrailIs DEF ViewerOK, AtMain, InMenu, BelowSnapshots, BelowFrame
    <3>2. AtSource(u, u.views[2].cursor)
      BY DEF ViewerOK, PlaceOK
    <3>3. u.source = u.views[2].cursor + 1
      BY <3>2 DEF AtSource
    <3>4. d.text \in {NoText, SourceText(file.sources[u.views[2].cursor + 1])}
      BY <1>4, <3>1, <3>3
    <3> QED
      BY <2>1, <3>2, <3>4 DEF AtSource
  <2> QED
    BY <2>1, <2>2, <2>3, <2>4 DEF ViewerOK, PlaceOK
<1>6. TextOK(d)
  <2>1. u.text.lines \in Nat
    BY DEF ViewerOK, TextOK
  <2>2. Len(u.views) # 3 => TextOf(u).lines \in Nat
    BY TextIs DEF ViewerOK
  <2>3. d.text.lines \in Nat
    BY <1>3, <2>1, <2>2 DEF TextDrawnOf
  <2> QED
    BY <1>1, <2>3 DEF TextOK
<1>7. DOMAIN d = Fields /\ d.cursor \in Int
  BY DEF ViewerOK, Kept
<1> QED
  BY <1>1, <1>2, <1>5, <1>6, <1>7 DEF ViewerOK, CursorOK

LEMMA DrawIs ==
  ASSUME file \in Files, NEW u, ViewerOK(u), NEW h \in Nat, NEW d, d = Draw(u, h)
  PROVE  ViewerOK(d) /\ Shows(d, h) /\ d.view = u.view
<1>1. PICK n \in Nat : n = Count(u)
  BY CountIs
<1>2. u.view \in ListViews <=> u.view \notin TextViews
  BY ViewIs DEF ViewerOK
<1>3. DOMAIN u = Fields /\ u.cursor \in Int /\ u.scroll \in Int
  BY DEF ViewerOK
<1>4. CASE h < 3
  <2>1. d = u
    BY <1>4 DEF Draw
  <2> QED
    BY <1>4, <2>1 DEF Shows
<1>5. CASE h >= 3 /\ u.view \in TextViews
  <2>0. u.view # "frame" /\ u.view \notin {"snapshots", "sources"} /\ ~(h < 3)
    BY <1>5 DEF TextViews
  <2>1. d = DrawText(u, h - 2)
    BY <1>5, <2>0 DEF Draw
  <2>2. PICK text : text = TextDrawnOf(u)
    OBVIOUS
  <2>3. text.lines \in Nat
    <3>1. u.text.lines \in Nat
      BY <1>5 DEF ViewerOK, TextOK
    <3>2. Len(u.views) # 3 => TextOf(u).lines \in Nat
      BY <1>5, TextIs DEF ViewerOK
    <3>3. Len(u.views) = 3 => u.text.lines # 0
      <4> SUFFICES ASSUME Len(u.views) = 3 PROVE u.text.lines # 0
        OBVIOUS
      <4>1. PICK path : u.text = SourceText(path) /\ LinesOf[path] \in Nat
        BY DEF ViewerOK, PlaceOK, AtFrame
      <4> QED
        BY <4>1 DEF SourceText
    <3> QED
      BY <2>2, <3>1, <3>2, <3>3 DEF TextDrawnOf
  <2>4. PICK rows \in Int : rows = h - 2
    OBVIOUS
  <2>lines. PICK m \in Nat : m = text.lines
    BY <2>3
  <2>scroll. PICK s \in Int : s = u.scroll
    BY <1>3
  <2>5. /\ Kept(u, d) /\ d.text = text /\ d.cursor = u.cursor
        /\ d.scroll \in 0..Limit(m, rows)
    <3>1. d = DrawText(u, rows)
      BY <2>1, <2>4
    <3> QED
      BY <1>3, <2>2, <2>lines, <2>scroll, <3>1, DrawTextIs
  <2>6. d.scroll \in Int
    BY <2>5
  <2>7. ViewerOK(d)
    BY <1>5, <2>2, <2>5, <2>6, TextDrawn
  <2>8. d.view \in TextViews /\ d.view # "frame"
    BY <1>5, <2>5 DEF Kept, TextViews
  <2>9. Count(d) = m
    BY <2>lines, <2>5, <2>8 DEF Count
  <2>10. Shows(d, h)
    BY <2>4, <2>5, <2>8, <2>9 DEF Shows, Limit
  <2> QED
    BY <2>5, <2>7, <2>10 DEF Kept
<1>6. CASE /\ h >= 3 /\ u.view \notin TextViews /\ u.view # "frame"
          /\ ~(u.view \in {"snapshots", "sources"} /\ n = 0)
  <2>1. d = DrawList(u, h - 2)
    BY <1>1, <1>6 DEF Draw
  <2>2. h - 2 \in Int
    OBVIOUS
  <2>3. /\ Kept(u, d) /\ d.text = u.text /\ d.cursor \in Nat /\ d.scroll \in Int
        /\ n > 0 => d.cursor \in 0..n - 1
        /\ h - 2 >= 1 => d.cursor \in d.scroll..d.scroll + (h - 2) - 1
    BY <1>1, <1>3, <2>1, <2>2, DrawListIs
  <2>4. ViewerOK(d) /\ Count(d) = n
    BY <1>1, <1>2, <1>6, <2>3, ListDrawn
  <2>5. d.view \notin TextViews /\ d.view # "frame"
    BY <1>6, <2>3 DEF Kept
  <2>6. Shows(d, h)
    BY <2>3, <2>4, <2>5 DEF Shows
  <2> QED
    BY <2>3, <2>4, <2>6 DEF Kept
<1>7. CASE h >= 3 /\ u.view = "frame"
  <2>0. u.view \notin TextViews
    BY <1>7 DEF TextViews
  <2>1. d = DrawList(u, h - 3)
    BY <1>7, <2>0 DEF Draw
  <2>2. h - 3 \in Int
    OBVIOUS
  <2>3. /\ Kept(u, d) /\ d.text = u.text /\ d.cursor \in Nat /\ d.scroll \in Int
        /\ n > 0 => d.cursor \in 0..n - 1
        /\ h - 3 >= 1 => d.cursor \in d.scroll..d.scroll + (h - 3) - 1
    BY <1>1, <1>3, <2>1, <2>2, DrawListIs
  <2>4. ViewerOK(d) /\ Count(d) = n
    BY <1>1, <1>2, <2>0, <2>3, ListDrawn
  <2>5. d.view \notin TextViews /\ d.view = "frame"
    BY <1>7, <2>0, <2>3 DEF Kept
  <2>6. Shows(d, h)
    BY <2>3, <2>4, <2>5 DEF Shows
  <2> QED
    BY <2>3, <2>4, <2>6 DEF Kept
<1>8. CASE h >= 3 /\ u.view \in {"snapshots", "sources"} /\ n = 0
  <2>0. u.view \notin TextViews /\ u.view # "frame"
    BY <1>8 DEF TextViews
  <2>1. d = u
    BY <1>1, <1>8, <2>0 DEF Draw
  <2>2. Count(d) = 0
    BY <1>1, <1>8, <2>1
  <2>3. d.view \notin TextViews
    BY <2>0, <2>1
  <2>4. Shows(d, h)
    BY <2>2, <2>3 DEF Shows
  <2> QED
    BY <2>1, <2>4
<1> QED
  BY <1>1, <1>4, <1>5, <1>6, <1>7, <1>8

(***************************************************************************)
(* A step that ends with a drawing.                                        *)
(***************************************************************************)
LEMMA PrimedIs ==
  ASSUME file' = file
  PROVE  /\ Count(ui)' = Count(ui') /\ (ViewerOK(ui') => ViewerOK(ui)')
         /\ CrashOK(ui') => CrashOK(ui)'
<1>1. SnapshotRows(ui)' = SnapshotRows(ui')
  BY DEF SnapshotRows
<1>2. Stack(ui)' = Stack(ui')
  BY DEF Stack
<1>3. FrameRows(ui)' = FrameRows(ui')
  BY <1>2 DEF FrameRows
<1>4. Rows(ui)' = Rows(ui')
  BY <1>1, <1>3 DEF Rows
<1>5. Count(ui)' = Count(ui')
  BY <1>4 DEF Count
<1>6. TrailOK(ui)' = TrailOK(ui')
  BY DEF TrailOK, ViewAt
<1>7. PlaceOK(ui') => PlaceOK(ui)'
  <2> SUFFICES ASSUME PlaceOK(ui') PROVE PlaceOK(ui)'
    OBVIOUS
  <2>1. Len(ui'.views) >= 2 /\ ui'.views[2].view = "snapshots" => AtStack(ui, ui.views[2].cursor)'
    BY <1>1 DEF PlaceOK, AtStack
  <2>2. Len(ui'.views) >= 2 /\ ui'.views[2].view = "sources" => AtSource(ui, ui.views[2].cursor)'
    BY DEF PlaceOK, AtSource
  <2>3. Len(ui'.views) = 3 => AtFrame(ui, ui.views[3].cursor)'
    BY <1>2, <1>3 DEF PlaceOK, AtFrame
  <2> QED
    BY <2>1, <2>2, <2>3 DEF PlaceOK
<1>8. CursorOK(ui') => CursorOK(ui)'
  BY <1>5 DEF CursorOK
<1>9. TextOK(ui') => TextOK(ui)'
  BY DEF TextOK
<1>10. CrashOK(ui') => CrashOK(ui)'
  <2>1. TracebackPaths(ui)' = TracebackPaths(ui')
    BY <1>2 DEF TracebackPaths
  <2>2. ASSUME NEW path
        PROVE  CannotDecode(path)' = CannotDecode(path)
    BY DEF CannotDecode, SourcesOf
  <2>3. CASE ui'.view = "traceback"
    BY <2>1, <2>2, <2>3 DEF CrashOK
  <2>4. CASE ui'.view # "traceback" /\ ui'.view = "frame" /\ Count(ui') > 0
    <3>1. PICK path : path = Stack(ui').frames[Rows(ui')[ui'.cursor + 1].frame].path
      OBVIOUS
    <3>2. path = (Stack(ui).frames[Rows(ui)[ui.cursor + 1].frame].path)'
      BY <1>2, <1>4, <3>1
    <3> QED
      BY <1>5, <2>2, <2>4, <3>1, <3>2 DEF CrashOK
  <2>5. CASE ui'.view # "traceback" /\ ~(ui'.view = "frame" /\ Count(ui') > 0)
    BY <1>5, <2>5 DEF CrashOK
  <2> QED
    BY <2>3, <2>4, <2>5
<1> QED
  BY <1>5, <1>6, <1>7, <1>8, <1>9, <1>10 DEF ViewerOK

LEMMA BecomesIs ==
  ASSUME ViewerInv, NEW u, ViewerOK(u), ended' # "crashed", file' = file,
         height' \in Heights, ui' = Draw(u, height')
  PROVE  ViewerInv'
<1>1. PICK h \in Nat : h = height'
  BY ViewerAssumption
<1>2. ViewerOK(ui') /\ Shows(ui', h)
  <2>1. file \in Files /\ ui' = Draw(u, h)
    BY <1>1 DEF ViewerInv
  <2> QED
    BY <2>1, DrawIs
<1>3. Count(ui)' = Count(ui') /\ ViewerOK(ui)'
  BY <1>2, PrimedIs
<1>4. Shows(ui, height)'
  BY <1>1, <1>2, <1>3 DEF Shows
<1> QED
  BY <1>1, <1>3, <1>4 DEF ViewerInv

LEMMA BecomesKeeps ==
  ASSUME IInv, Waiting, NEW u, ViewerOK(u), Becomes(u)
  PROVE  IInv'
<1>1. file' = file /\ height' \in Heights /\ height' \in Nat
  BY ViewerAssumption DEF Becomes
<1>2. ViewerInv'
  <2>1. CASE height' >= 3 /\ Undrawable(u)
    <3>1. ui' = u /\ ended' = "crashed"
      BY <2>1 DEF Becomes
    <3>2. CrashOK(u)
      BY <2>1 DEF Undrawable, CrashOK
    <3>3. ViewerOK(ui)' /\ CrashOK(ui)'
      BY <1>1, <3>1, <3>2, PrimedIs
    <3> QED
      BY <1>1, <3>1, <3>3 DEF IInv, ViewerInv
  <2>2. CASE ~(height' >= 3 /\ Undrawable(u))
    <3>1. ended' # "crashed" /\ ui' = Draw(u, height')
      BY <2>2 DEF Becomes, Waiting
    <3> QED
      BY <1>1, <3>1, BecomesIs DEF IInv
  <2> QED
    BY <2>1, <2>2
<1>3. PromptInv'
  BY DEF Becomes, IInv, PromptInv, LineOK, InWindow
<1> QED
  BY <1>2, <1>3 DEF IInv

\* A step that does not change what the viewer shows.
LEMMA SameViewer ==
  ASSUME ViewerInv, file' = file, ui' = ui, height' = height,
         prompt' = NoPrompt => prompt = NoPrompt, ended' = "no" => ended = "no",
         ended' = "crashed" => CrashOK(ui)
  PROVE  ViewerInv'
<1>1. ViewerOK(ui')
  BY DEF ViewerInv
<1>2. Count(ui)' = Count(ui) /\ ViewerOK(ui)' /\ (CrashOK(ui) => CrashOK(ui)')
  BY <1>1, PrimedIs
<1>3. Shows(ui, height) => Shows(ui, height)'
  BY <1>2 DEF Shows
<1> QED
  BY <1>2, <1>3 DEF ViewerInv

(***************************************************************************)
(* Moving.                                                                 *)
(***************************************************************************)
LEMMA MovedIs ==
  ASSUME file \in Files, NEW u, ViewerOK(u), NEW d, Kept(u, d), d.text = u.text,
         d.cursor \in Int, d.scroll \in Int, u.view = "main" => d.cursor \in 0..5,
         u.view \in ListViews /\ d.cursor < 0 => Count(u) = 0
  PROVE  ViewerOK(d)
<1>1. d.view = u.view /\ DOMAIN d = Fields
  BY DEF Kept, ViewerOK
<1>2. Count(d) = Count(u)
  BY <1>1, KeptRows DEF Count
<1>3. TrailOK(d)
  BY <1>1, KeptTrail DEF ViewerOK
<1>4. PlaceOK(d)
  BY KeptPlace DEF ViewerOK
<1>5. CursorOK(d) /\ TextOK(d)
  BY <1>1, <1>2 DEF ViewerOK, CursorOK, TextOK
<1> QED
  BY <1>1, <1>3, <1>4, <1>5 DEF ViewerOK

\* A step that leads to a good state of the viewer; only ViewFile opens a file
\* from the list of frames.
Leads ==
  \E u : ViewerOK(u) /\ Becomes(u) /\ (ui.view = "frame" => u.view # "source_content")

LEMMA ScrollToLeads ==
  ASSUME IInv, NEW n \in Int, ScrollTo(n)
  PROVE  Leads
<1>1. PICK u : u = [ui EXCEPT !.scroll = n]
  OBVIOUS
<1>2. DOMAIN ui = Fields /\ ViewerOK(ui) /\ file \in Files
  BY DEF IInv, ViewerInv, ViewerOK
<1>3. Kept(ui, u) /\ u.text = ui.text /\ u.cursor = ui.cursor /\ u.scroll = n
  BY <1>1, <1>2 DEF Kept, Fields
<1>4. ui.cursor \in Int /\ (ui.view = "main" => ui.cursor \in 0..5)
      /\ (ui.view \in ListViews /\ ui.cursor < 0 => Count(ui) = 0)
  BY <1>2 DEF ViewerOK, TrailOK, CursorOK
<1>5. ViewerOK(u)
  BY <1>2, <1>3, <1>4, MovedIs
<1> QED
  BY <1>1, <1>3, <1>5 DEF ScrollTo, Leads, Kept

LEMMA PointToLeads ==
  ASSUME IInv, NEW n \in Int, PointTo(n), ui.view = "main" => n \in 0..5, n < 0 => Count(ui) = 0
  PROVE  Leads
<1>1. PICK u : u = [ui EXCEPT !.cursor = n]
  OBVIOUS
<1>2. DOMAIN ui = Fields /\ ViewerOK(ui) /\ file \in Files /\ ui.scroll \in Int
  BY DEF IInv, ViewerInv, ViewerOK
<1>3. Kept(ui, u) /\ u.text = ui.text /\ u.cursor = n /\ u.scroll = ui.scroll
  BY <1>1, <1>2 DEF Kept, Fields
<1>4. ViewerOK(u)
  BY <1>2, <1>3, MovedIs
<1> QED
  BY <1>1, <1>3, <1>4 DEF PointTo, Leads, Kept

\* Where the viewer is, and how many rows or lines it has.
LEMMA HereIs ==
  ASSUME IInv
  PROVE  /\ file \in Files /\ ViewerOK(ui) /\ DOMAIN ui = Fields /\ TrailOK(ui)
         /\ ui.cursor \in Int /\ ui.scroll \in Int /\ Count(ui) \in Nat
         /\ ui.view = "main" => ui.cursor \in 0..5 /\ Count(ui) = 6
         /\ ui.view \in ListViews /\ ui.cursor < 0 => Count(ui) = 0
         /\ ui.view \in ListViews <=> ui.view \notin TextViews
<1>1. file \in Files /\ ViewerOK(ui)
  BY DEF IInv, ViewerInv
<1>2. Count(ui) \in Nat
  BY <1>1, CountIs
<1>3. ui.view = "main" => Count(ui) = 6
  <2>1. Len(MainRows) = 6
    <3>1. 0 \in 0..5
      OBVIOUS
    <3> QED
      BY <3>1, MainRowsAre
  <2> QED
    BY <2>1 DEF Count, Rows, TextViews
<1>4. ui.view = "main" => ui.cursor \in 0..5
  BY <1>1 DEF ViewerOK, TrailOK
<1>5. ui.view \in ListViews <=> ui.view \notin TextViews
  BY <1>1, ViewIs DEF ViewerOK
<1> QED
  BY <1>1, <1>2, <1>3, <1>4, <1>5 DEF ViewerOK, CursorOK

LEMMA MoveLeads ==
  ASSUME IInv, Down \/ Up \/ Home \/ End \/ PageUp \/ PageDown
  PROVE  Leads
<1>1. PICK n \in Nat : n = Count(ui)
  BY HereIs
<1>2. PICK c \in Int : c = ui.cursor
  BY HereIs
<1>3. PICK s \in Int : s = ui.scroll
  BY HereIs
<1>4. /\ ui.view = "main" => c \in 0..5 /\ n = 6
      /\ ui.view \in ListViews /\ c < 0 => n = 0
      /\ ui.view \in ListViews <=> ui.view \notin TextViews
  BY <1>1, <1>2, HereIs
<1>5. ASSUME NEW p, PointTo(p)
      PROVE  c < 0 => n = 0
  BY <1>4, <1>5 DEF PointTo, InText
<1>6. PageStep \in Nat
  BY ViewerAssumption
<1>7. PICK last \in Int : last = Max({0, n - 1}) /\ last >= 0 /\ last >= n - 1 /\ last \in {0, n - 1}
  <2>1. 0 \in Int /\ n - 1 \in Int
    OBVIOUS
  <2> QED
    BY <2>1, MaxOfTwo
<1>8. CASE Down
  <2>1. CASE ScrollTo(IF s < n - 1 THEN s + 1 ELSE s)
    <3>1. PICK p \in Int : p = IF s < n - 1 THEN s + 1 ELSE s
      OBVIOUS
    <3> QED
      BY <2>1, <3>1, ScrollToLeads
  <2>2. CASE PointTo(IF c < n - 1 THEN c + 1 ELSE c)
    <3>1. PICK p \in Int : p = IF c < n - 1 THEN c + 1 ELSE c
      OBVIOUS
    <3>2. PointTo(p)
      BY <2>2, <3>1
    <3>3. (ui.view = "main" => p \in 0..5) /\ (p < 0 => n = 0)
      BY <1>4, <1>5, <3>1, <3>2
    <3> QED
      BY <1>1, <3>2, <3>3, PointToLeads
  <2> QED
    BY <1>1, <1>2, <1>3, <1>8, <2>1, <2>2 DEF Down
<1>9. CASE Up
  <2>1. CASE ScrollTo(IF s > 0 THEN s - 1 ELSE s)
    <3>1. PICK p \in Int : p = IF s > 0 THEN s - 1 ELSE s
      OBVIOUS
    <3> QED
      BY <2>1, <3>1, ScrollToLeads
  <2>2. CASE PointTo(IF c > 0 THEN c - 1 ELSE c)
    <3>1. PICK p \in Int : p = IF c > 0 THEN c - 1 ELSE c
      OBVIOUS
    <3>2. PointTo(p)
      BY <2>2, <3>1
    <3>3. (ui.view = "main" => p \in 0..5) /\ (p < 0 => n = 0)
      BY <1>4, <1>5, <3>1, <3>2
    <3> QED
      BY <1>1, <3>2, <3>3, PointToLeads
  <2> QED
    BY <1>2, <1>3, <1>9, <2>1, <2>2 DEF Up
<1>10. CASE Home
  <2>1. PICK u : u = [ui EXCEPT !.cursor = 0, !.scroll = 0]
    OBVIOUS
  <2>2. Kept(ui, u) /\ u.text = ui.text /\ u.cursor = 0 /\ u.scroll = 0
    BY <2>1, HereIs DEF Kept, Fields
  <2>3. ViewerOK(u)
    <3>1. 0 \in Int /\ 0 \in 0..5 /\ ~(0 < 0)
      OBVIOUS
    <3> QED
      BY <2>2, <3>1, HereIs, MovedIs
  <2> QED
    BY <1>10, <2>1, <2>2, <2>3 DEF Home, Leads, Kept
<1>11. CASE End
  <2>1. ScrollTo(last) \/ PointTo(last)
    BY <1>1, <1>7, <1>11 DEF End
  <2>2. (ui.view = "main" => last \in 0..5) /\ (last < 0 => n = 0)
    BY <1>4, <1>7
  <2> QED
    BY <1>1, <2>1, <2>2, ScrollToLeads, PointToLeads
<1>12. CASE PageUp
  <2>1. PICK p \in Int : p = Max({0, s - PageStep})
    <3>1. 0 \in Int /\ s - PageStep \in Int
      BY <1>6
    <3> QED
      BY <3>1, MaxOfTwo
  <2>2. PICK q \in Int : q = Max({0, c - PageStep}) /\ q >= 0 /\ q \in {0, c - PageStep}
    <3>1. 0 \in Int /\ c - PageStep \in Int
      BY <1>6
    <3> QED
      BY <3>1, MaxOfTwo
  <2>3. ScrollTo(p) \/ PointTo(q)
    BY <1>2, <1>3, <1>12, <2>1, <2>2 DEF PageUp
  <2>4. (ui.view = "main" => q \in 0..5) /\ (q < 0 => n = 0)
    BY <1>4, <1>6, <2>2
  <2> QED
    BY <1>1, <2>3, <2>4, ScrollToLeads, PointToLeads
<1>13. CASE PageDown
  <2>1. PICK p \in Int : p = Min({last, s + PageStep})
    <3>1. s + PageStep \in Int
      BY <1>6
    <3> QED
      BY <3>1, MinOfTwo
  <2>2. PICK q \in Int : q = Min({n - 1, c + PageStep}) /\ q <= n - 1 /\ q \in {n - 1, c + PageStep}
    <3>1. n - 1 \in Int /\ c + PageStep \in Int
      BY <1>6
    <3> QED
      BY <3>1, MinOfTwo
  <2>3. ScrollTo(p) \/ PointTo(q)
    BY <1>1, <1>2, <1>3, <1>7, <1>13, <2>1, <2>2 DEF PageDown
  <2>4. CASE PointTo(q)
    <3>1. (ui.view = "main" => q \in 0..5) /\ (q < 0 => n = 0)
      BY <1>4, <1>5, <1>6, <2>2, <2>4
    <3> QED
      BY <1>1, <2>4, <3>1, PointToLeads
  <2> QED
    BY <2>3, <2>4, ScrollToLeads
<1> QED
  BY <1>8, <1>9, <1>10, <1>11, <1>12, <1>13

(***************************************************************************)
(* Opening and closing rows, and choosing a stacktrace.                    *)
(***************************************************************************)
LEMMA OpenSnapshotsOK ==
  ASSUME IInv, ui.view = "snapshots", NEW S, NEW u, u = [ui EXCEPT !.openSnapshots = S]
  PROVE  ViewerOK(u)
<1>1. DOMAIN u = Fields /\ u.view = ui.view /\ u.views = ui.views /\ u.cursor = ui.cursor
      /\ u.scroll = ui.scroll /\ u.text = ui.text
  BY HereIs DEF Fields
<1>2. InMenu(ui)
  BY HereIs, TrailIs DEF AtMain, BelowSnapshots, BelowSources, BelowFrame
<1>3. TrailOK(u)
  <2>1. \A n : ViewAt(u, n) = ViewAt(ui, n)
    BY <1>1 DEF ViewAt
  <2> QED
    BY <1>1, <2>1, HereIs DEF TrailOK
<1>4. PlaceOK(u)
  BY <1>1, <1>2 DEF PlaceOK, InMenu
<1>5. CursorOK(u)
  <2>1. Count(ui) = Len(SnapshotRows(ui)) /\ Count(u) = Len(SnapshotRows(u))
    BY <1>1 DEF Count, Rows, TextViews
  <2>2. file.snapshots = <<>> => Count(u) = 0
    BY <2>1, SnapshotRowsAre, HereIs, EmptySeq
  <2>3. Count(ui) = 0 => file.snapshots = <<>>
    <3>1. file.snapshots # <<>> => Len(SnapshotRows(ui)) >= 1
      BY SnapshotRowsAre, HereIs
    <3> QED
      BY <2>1, <3>1
  <2> QED
    BY <1>1, <2>2, <2>3, HereIs DEF CursorOK
<1>6. TextOK(u)
  BY <1>1, HereIs DEF ViewerOK, TextOK
<1> QED
  BY <1>1, <1>3, <1>4, <1>5, <1>6, HereIs DEF ViewerOK

LEMMA OpenFramesOK ==
  ASSUME IInv, ui.view = "frame", NEW S, NEW u, u = [ui EXCEPT !.openFrames = S]
  PROVE  ViewerOK(u)
<1>1. DOMAIN u = Fields /\ u.view = ui.view /\ u.views = ui.views /\ u.cursor = ui.cursor
      /\ u.scroll = ui.scroll /\ u.text = ui.text /\ u.stack = ui.stack
      /\ u.openSnapshots = ui.openSnapshots
  BY HereIs DEF Fields
<1>2. BelowSnapshots(ui)
  BY HereIs, TrailIs DEF AtMain, InMenu, BelowSources, BelowFrame
<1>3. TrailOK(u)
  <2>1. \A n : ViewAt(u, n) = ViewAt(ui, n)
    BY <1>1 DEF ViewAt
  <2> QED
    BY <1>1, <2>1, HereIs DEF TrailOK
<1>4. SnapshotRows(u) = SnapshotRows(ui) /\ Stack(u) = Stack(ui)
  BY <1>1 DEF SnapshotRows, Stack
<1>5. PlaceOK(u)
  <2>1. AtStack(ui, ui.views[2].cursor)
    BY <1>2, HereIs DEF ViewerOK, PlaceOK, BelowSnapshots
  <2>2. AtStack(u, u.views[2].cursor)
    BY <1>1, <1>4, <2>1 DEF AtStack
  <2> QED
    BY <1>1, <1>2, <2>2 DEF PlaceOK, BelowSnapshots
<1>6. CursorOK(u)
  <2>1. Count(ui) = Len(FrameRows(ui)) /\ Count(u) = Len(FrameRows(u))
    BY <1>1 DEF Count, Rows, TextViews
  <2>2. IsStacktrace(Stack(ui))
    BY HereIs, StackIs DEF ViewerOK
  <2>3. Stack(ui).frames = <<>> => Count(u) = 0
    BY <1>4, <2>1, <2>2, FrameRowsAre, EmptySeq
  <2>4. Count(ui) = 0 => Stack(ui).frames = <<>>
    <3>1. Stack(ui).frames # <<>> => Len(FrameRows(ui)) >= 1
      BY <2>2, FrameRowsAre
    <3> QED
      BY <2>1, <3>1
  <2> QED
    BY <1>1, <2>3, <2>4, HereIs DEF CursorOK
<1>7. TextOK(u)
  BY <1>1, HereIs DEF ViewerOK, TextOK
<1> QED
  BY <1>1, <1>3, <1>5, <1>6, <1>7, HereIs DEF ViewerOK

\* As long as the tree is shown, the stacktrace and the file are free.
LEMMA InMenuOK ==
  ASSUME IInv, ui.view \in {"snapshots", "sources"},
         NEW u, DOMAIN u = Fields, u.view = ui.view, u.views = ui.views, u.cursor = ui.cursor,
         u.scroll = ui.scroll, u.text = ui.text, u.openSnapshots = ui.openSnapshots
  PROVE  ViewerOK(u) /\ InMenu(u)
<1>1. InMenu(ui)
  BY HereIs, TrailIs DEF AtMain, BelowSnapshots, BelowSources, BelowFrame
<1>2. TrailOK(u)
  <2>1. \A n : ViewAt(u, n) = ViewAt(ui, n)
    BY DEF ViewAt
  <2> QED
    BY <2>1, HereIs DEF TrailOK
<1>3. PlaceOK(u)
  BY <1>1 DEF PlaceOK, InMenu
<1>4. CursorOK(u)
  <2>1. SnapshotRows(u) = SnapshotRows(ui)
    BY DEF SnapshotRows
  <2>2. Count(u) = Count(ui)
    BY <2>1 DEF Count, Rows, TextViews
  <2> QED
    BY <2>2, HereIs DEF CursorOK
<1>5. TextOK(u)
  BY HereIs DEF ViewerOK, TextOK
<1> QED
  BY <1>1, <1>2, <1>3, <1>4, <1>5, HereIs DEF ViewerOK, InMenu

(***************************************************************************)
(* The way in and the way back.                                            *)
(***************************************************************************)
LEMMA AppendIs ==
  ASSUME NEW s, IsSequence(s), NEW e
  PROVE  /\ IsSequence(Append(s, e)) /\ Len(Append(s, e)) = Len(s) + 1 /\ Len(s) \in Nat
         /\ DOMAIN Append(s, e) = 1..(Len(s) + 1)
         /\ Append(s, e)[Len(s) + 1] = e
         /\ \A i \in 1..Len(s) : Append(s, e)[i] = s[i]
<1> DEFINE T == ToSet(s) \cup {e}
           t == Append(s, e)
<1>1. s \in Seq(ToSet(s))
  BY DEF IsSequence
<1>2. s \in Seq(T) /\ e \in T
  BY <1>1
<1> HIDE DEF T
<1>3. /\ t \in Seq(T) /\ Len(t) = Len(s) + 1 /\ Len(s) \in Nat /\ DOMAIN t = 1..(Len(s) + 1)
      /\ t[Len(s) + 1] = e /\ \A i \in 1..Len(s) : t[i] = s[i]
  BY <1>2
<1> HIDE DEF t
<1>4. t \in Seq(ToSet(t))
  <2>1. \A i \in 1..Len(t) : t[i] \in ToSet(t)
    BY <1>3 DEF ToSet
  <2> QED
    BY <1>3, <2>1
<1> QED
  BY <1>3, <1>4 DEF IsSequence, t

LEMMA FrontIs ==
  ASSUME NEW s, IsSequence(s), NEW n \in Nat, n = Len(s), n >= 1
  PROVE  /\ IsSequence(Front(s)) /\ Len(Front(s)) = n - 1 /\ DOMAIN Front(s) = 1..(n - 1)
         /\ \A i \in 1..(n - 1) : Front(s)[i] = s[i]
         /\ Last(s) = s[n] /\ DOMAIN s = 1..n
<1>1. PICK T : s \in Seq(T)
  BY DEF IsSequence
<1>2. PICK t : t = Front(s)
  OBVIOUS
<1>3. /\ t \in Seq(T) /\ Len(t) = n - 1 /\ DOMAIN t = 1..(n - 1)
      /\ \A i \in 1..(n - 1) : t[i] = s[i]
  <2>1. t = SubSeq(s, 1, n - 1)
    BY <1>2 DEF Front
  <2>2. \A i \in 1..(n - 1) : s[i] \in T
    BY <1>1
  <2>3. t = [i \in 1..(n - 1) |-> s[i]]
    BY <1>1, <2>1
  <2> QED
    BY <2>2, <2>3
<1>4. t \in Seq(ToSet(t))
  <2>1. \A i \in 1..Len(t) : t[i] \in ToSet(t)
    BY <1>3 DEF ToSet
  <2> QED
    BY <1>3, <2>1
<1>5. Last(s) = s[n] /\ DOMAIN s = 1..n
  BY <1>1 DEF Last
<1> QED
  BY <1>2, <1>3, <1>4, <1>5 DEF IsSequence

Place(u) == [view |-> u.view, cursor |-> u.cursor, scroll |-> u.scroll, text |-> u.text]

LEMMA PushIs ==
  ASSUME NEW u, DOMAIN u = Fields, NEW view, NEW d, d = Push(u, view)
  PROVE  /\ DOMAIN d = Fields /\ d.views = Append(u.views, Place(u)) /\ d.view = view
         /\ d.cursor = 0 /\ d.scroll = 0 /\ d.text = NoText
         /\ d.stack = u.stack /\ d.openSnapshots = u.openSnapshots /\ d.openFrames = u.openFrames
         /\ d.source = u.source /\ d.highlight = u.highlight
<1>1. PICK views : views = Append(u.views, Place(u))
  OBVIOUS
<1>2. d = [u EXCEPT !.views = views, !.view = view, !.cursor = 0, !.scroll = 0, !.text = NoText]
  BY <1>1 DEF Push, Place, Fields
<1>3. DOMAIN d = Fields /\ d.views = views /\ d.view = view
  BY <1>2 DEF Fields
<1>4. d.cursor = 0 /\ d.scroll = 0 /\ d.text = NoText
  BY <1>2 DEF Fields
<1>5. d.stack = u.stack /\ d.openSnapshots = u.openSnapshots /\ d.openFrames = u.openFrames
  BY <1>2 DEF Fields
<1>6. d.source = u.source /\ d.highlight = u.highlight
  BY <1>2 DEF Fields
<1> QED
  BY <1>1, <1>3, <1>4, <1>5, <1>6

LEMMA PopIs ==
  ASSUME NEW u, DOMAIN u = Fields, NEW saved, saved = Last(u.views), NEW d, d = Pop(u)
  PROVE  /\ DOMAIN d = Fields /\ d.views = Front(u.views) /\ d.view = saved.view
         /\ d.cursor = saved.cursor /\ d.scroll = saved.scroll /\ d.text = saved.text
         /\ d.stack = u.stack /\ d.openSnapshots = u.openSnapshots /\ d.openFrames = u.openFrames
         /\ d.source = u.source /\ d.highlight = u.highlight
<1>1. PICK views : views = Front(u.views)
  OBVIOUS
<1>2. d = [u EXCEPT !.views = views, !.view = saved.view, !.cursor = saved.cursor,
                    !.scroll = saved.scroll, !.text = saved.text]
  BY <1>1 DEF Pop, Fields
<1>3. DOMAIN d = Fields /\ d.views = views /\ d.view = saved.view
  BY <1>2 DEF Fields
<1>4. d.cursor = saved.cursor /\ d.scroll = saved.scroll /\ d.text = saved.text
  BY <1>2 DEF Fields
<1>5. d.stack = u.stack /\ d.openSnapshots = u.openSnapshots /\ d.openFrames = u.openFrames
  BY <1>2 DEF Fields
<1>6. d.source = u.source /\ d.highlight = u.highlight
  BY <1>2 DEF Fields
<1> QED
  BY <1>1, <1>3, <1>4, <1>5, <1>6

\* Back to a view that was left.
LEMMA PopOK ==
  ASSUME file \in Files, NEW u, ViewerOK(u), NEW n \in Nat, n = Len(u.views), n >= 1,
         NEW d, d = Pop(u)
  PROVE  ViewerOK(d)
<1>1. DOMAIN u = Fields /\ TrailOK(u) /\ IsSequence(u.views) /\ n <= 3
  BY DEF ViewerOK, TrailOK
<1>10. n = 1 \/ n = 2 \/ n = 3
  <2>1. \A k \in Nat : k >= 1 /\ k <= 3 => k = 1 \/ k = 2 \/ k = 3
    OBVIOUS
  <2>2. n <= 3
    BY <1>1
  <2> QED
    BY <2>1, <2>2
<1>2. /\ Len(d.views) = n - 1 /\ IsSequence(d.views) /\ DOMAIN d.views = 1..(n - 1)
      /\ \A i \in 1..(n - 1) : d.views[i] = u.views[i]
      /\ Last(u.views) = u.views[n] /\ DOMAIN u.views = 1..n
  BY <1>1, FrontIs, PopIs
<1>3. /\ DOMAIN d = Fields /\ d.view = u.views[n].view
      /\ d.cursor = u.views[n].cursor /\ d.scroll = u.views[n].scroll /\ d.text = u.views[n].text
      /\ d.stack = u.stack /\ d.openSnapshots = u.openSnapshots /\ d.openFrames = u.openFrames
  BY <1>1, <1>2, PopIs
<1>4. n \in 1..n /\ d.cursor \in Nat /\ d.scroll \in Int /\ d.text = NoText
  BY <1>1, <1>2, <1>3 DEF TrailOK
<1>5. \A i \in 1..n : ViewAt(d, i) = ViewAt(u, i)
  BY <1>2, <1>3 DEF ViewAt
<1>6. AtMain(u) \/ InMenu(u) \/ BelowSnapshots(u) \/ BelowSources(u) \/ BelowFrame(u)
  BY <1>1, TrailIs
<1>7. TrailOK(d)
  <2>1. \A i \in DOMAIN d.views :
          d.views[i].cursor \in Nat /\ d.views[i].scroll \in Int /\ d.views[i].text = NoText
    BY <1>1, <1>2 DEF TrailOK
  <2>2. ViewAt(d, 1) = "main"
    BY <1>1, <1>5 DEF TrailOK
  <2>3. d.view = "main" => d.cursor \in 0..5
    <3>1. d.view = "main" => n = 1
      <4>1. n = 2 => d.view \in {"snapshots", "sources"}
        BY <1>3, <1>6 DEF AtMain, InMenu, BelowSnapshots, BelowSources, BelowFrame
      <4>2. n = 3 => d.view = "frame"
        BY <1>3, <1>6 DEF AtMain, InMenu, BelowSnapshots, BelowSources, BelowFrame
      <4> QED
        BY <1>10, <4>1, <4>2
    <3> QED
      BY <1>1, <1>3, <3>1 DEF TrailOK
  <2>4. n - 1 >= 1 => d.views[1].cursor \in 0..5 /\ ViewAt(d, 2) = MainRows[d.views[1].cursor + 1]
    <3> SUFFICES ASSUME n - 1 >= 1
                 PROVE  d.views[1].cursor \in 0..5 /\ ViewAt(d, 2) = MainRows[d.views[1].cursor + 1]
      OBVIOUS
    <3>1. 1 \in 1..(n - 1) /\ 2 \in 1..n /\ n >= 1
      OBVIOUS
    <3>2. d.views[1] = u.views[1] /\ ViewAt(d, 2) = ViewAt(u, 2)
      BY <1>2, <1>5, <3>1
    <3> QED
      BY <1>1, <3>1, <3>2 DEF TrailOK
  <2>5. n - 1 >= 2 => ViewAt(d, 2) = "snapshots" /\ ViewAt(d, 3) = "frame"
    <3> SUFFICES ASSUME n - 1 >= 2 PROVE ViewAt(d, 2) = "snapshots" /\ ViewAt(d, 3) = "frame"
      OBVIOUS
    <3>1. n = 3 /\ 2 \in 1..n /\ 3 \in 1..n
      BY <1>10
    <3>2. ViewAt(u, 2) = "snapshots" /\ ViewAt(u, 3) = "frame"
      BY <1>1, <3>1 DEF TrailOK
    <3> QED
      BY <1>5, <3>1, <3>2
  <2>6. n - 1 <= 3 /\ n - 1 # 3
    BY <1>1
  <2> QED
    BY <1>2, <2>1, <2>2, <2>3, <2>4, <2>5, <2>6 DEF TrailOK
<1>8. PlaceOK(d)
  <2>1. CASE n = 3
    <3>1. Len(d.views) = 2 /\ d.views[2] = u.views[2] /\ d.views[2].view = "snapshots"
      <4>1. BelowFrame(u)
        BY <1>6, <2>1 DEF AtMain, InMenu, BelowSnapshots, BelowSources
      <4>2. 2 \in 1..(n - 1) /\ Len(d.views) = 2
        BY <1>2, <2>1
      <4> QED
        BY <1>2, <4>1, <4>2 DEF BelowFrame
    <3>2. AtStack(u, u.views[2].cursor)
      BY <2>1, <3>1 DEF ViewerOK, PlaceOK
    <3>3. SnapshotRows(d) = SnapshotRows(u)
      BY <1>3 DEF SnapshotRows
    <3>4. AtStack(d, d.views[2].cursor)
      BY <1>3, <3>1, <3>2, <3>3 DEF AtStack
    <3> QED
      BY <3>1, <3>4 DEF PlaceOK
  <2>2. CASE n # 3
    <3>1. Len(d.views) < 2 /\ Len(d.views) # 3
      <4>1. n - 1 < 2 /\ n - 1 # 3
        <5>1. n = 1 => n - 1 = 0
          OBVIOUS
        <5>2. n = 2 => n - 1 = 1
          OBVIOUS
        <5>3. n - 1 = 0 \/ n - 1 = 1
          BY <1>10, <2>2, <5>1, <5>2
        <5>4. \A m : m = 0 \/ m = 1 => m < 2 /\ m # 3
          OBVIOUS
        <5> QED
          BY <5>3, <5>4
      <4>2. Len(d.views) = n - 1
        BY <1>2
      <4> QED
        BY <4>1, <4>2
    <3> QED
      BY <1>2, <3>1 DEF PlaceOK
  <2> QED
    BY <2>1, <2>2
<1>9. CursorOK(d) /\ TextOK(d)
  BY <1>4 DEF CursorOK, TextOK, NoText
<1> QED
  BY <1>3, <1>4, <1>7, <1>8, <1>9 DEF ViewerOK

\* On to a view that is opened from the one on show.
Opens(u, view, d) ==
  /\ TrailOK(u) /\ u.cursor \in Nat /\ u.scroll \in Int /\ u.text = NoText
  /\ \/ u.view = "main" /\ view = MainRows[u.cursor + 1] /\ view # "main"
     \/ u.view = "snapshots" /\ view \in {"frame", "traceback"}
     \/ u.view = "sources" /\ view = "source_content"
     \/ u.view = "frame" /\ view = "source_content"
  /\ d.view = view /\ d.views = Append(u.views, Place(u))

LEMMA PushTrail ==
  ASSUME NEW u, NEW view, NEW d, Opens(u, view, d), NEW n, n = Len(u.views)
  PROVE  /\ TrailOK(d) /\ n \in Nat /\ Len(d.views) = n + 1
         /\ d.views[n + 1] = Place(u) /\ \A i \in 1..n : d.views[i] = u.views[i]
<1>opens. TrailOK(u) /\ d.view = view /\ d.views = Append(u.views, Place(u)) /\ view # "main"
  BY DEF Opens
<1>depth. n \in Nat
  BY <1>opens, LenProperties DEF TrailOK, IsSequence
<1>cursor. PICK c \in Nat : c = u.cursor
  BY DEF Opens
<1>from. /\ n = 0 => u.view = "main" /\ view = MainRows[c + 1]
         /\ n = 1 => \/ u.view = "snapshots" /\ view \in {"frame", "traceback"}
                     \/ u.view = "sources" /\ view = "source_content"
         /\ n = 2 => u.view = "frame" /\ view = "source_content"
         /\ n # 3
  <2>1. AtMain(u) \/ InMenu(u) \/ BelowSnapshots(u) \/ BelowSources(u) \/ BelowFrame(u)
    BY <1>opens, TrailIs
  <2>2. u.view \in {"main", "snapshots", "sources", "frame"}
    BY DEF Opens
  <2>3. /\ n = 0 => u.view = "main"
        /\ n = 1 => u.view \in {"snapshots", "sources"}
        /\ n = 2 => u.view = "frame"
        /\ n # 3
    BY <2>1, <2>2 DEF AtMain, InMenu, BelowSnapshots, BelowSources, BelowFrame
  <2> QED
    BY <1>cursor, <2>3 DEF Opens
<1>1. IsSequence(u.views) /\ ViewAt(u, 1) = "main" /\ ViewAt(u, n + 1) = u.view
  BY <1>opens DEF TrailOK, ViewAt
<1>2. /\ IsSequence(d.views) /\ Len(d.views) = n + 1 /\ DOMAIN d.views = 1..(n + 1)
      /\ d.views[n + 1] = Place(u) /\ \A i \in 1..n : d.views[i] = u.views[i]
  BY <1>opens, <1>1, AppendIs
<1>3. /\ Place(u).view = u.view /\ Place(u).cursor = c /\ Place(u).scroll \in Int
      /\ Place(u).text = NoText
  BY <1>cursor DEF Place, Opens
<1>4. \A i \in 1..(n + 1) : ViewAt(d, i) = ViewAt(u, i)
  <2>1. ViewAt(d, n + 1) = ViewAt(u, n + 1)
    BY <1>opens, <1>depth, <1>from, <1>1, <1>2, <1>3 DEF ViewAt
  <2>2. \A i \in 1..n : ViewAt(d, i) = ViewAt(u, i)
    BY <1>opens, <1>depth, <1>from, <1>2 DEF ViewAt
  <2> QED
    BY <1>opens, <1>depth, <1>from, <2>1, <2>2
<1>5. ViewAt(d, (n + 1) + 1) = view
  BY <1>opens, <1>depth, <1>from, <1>opens, <1>2 DEF ViewAt
<1>6. ViewAt(d, 1) = "main"
  <2>1. 1 \in 1..(n + 1)
    BY <1>depth
  <2> QED
    BY <1>opens, <1>depth, <1>from, <1>1, <1>4, <2>1
<1>7. \A i \in DOMAIN d.views :
        d.views[i].cursor \in Nat /\ d.views[i].scroll \in Int /\ d.views[i].text = NoText
  <2>1. DOMAIN u.views = 1..n
    BY <1>opens, <1>depth, <1>from, <1>1 DEF IsSequence
  <2>2. \A i \in 1..n :
          d.views[i].cursor \in Nat /\ d.views[i].scroll \in Int /\ d.views[i].text = NoText
    BY <1>opens, <1>depth, <1>from, <1>2, <2>1 DEF TrailOK
  <2>3. \A i \in 1..(n + 1) : i = n + 1 \/ i \in 1..n
    BY <1>depth
  <2> QED
    BY <1>opens, <1>depth, <1>from, <1>2, <1>3, <2>2, <2>3
<1>8. n = 0 \/ n = 1 \/ n = 2
  <2>1. \A k \in Nat : k <= 3 /\ k # 3 => k = 0 \/ k = 1 \/ k = 2
    OBVIOUS
  <2>2. n <= 3
    BY <1>opens DEF TrailOK
  <2> QED
    BY <1>depth, <1>from, <2>1, <2>2
<1>9. CASE n = 0
  <2>1. Len(d.views) = 1 /\ d.views[1] = Place(u) /\ ViewAt(d, 2) = view
    BY <1>opens, <1>depth, <1>from, <1>2, <1>5, <1>9
  <2>2. u.view = "main"
    BY <1>opens, <1>depth, <1>from, <1>1, <1>9
  <2>3. c \in 0..5
    BY <1>opens, <1>cursor, <2>2 DEF TrailOK
  <2> QED
    BY <1>opens, <1>depth, <1>from, <1>2, <1>3, <1>6, <1>7, <1>9, <2>1, <2>3 DEF TrailOK
<1>10. CASE n = 1
  <2>1. Len(d.views) = 2 /\ d.views[1] = u.views[1] /\ ViewAt(d, 2) = u.view /\ ViewAt(d, 3) = view
    <3>1. 1 \in 1..n /\ 2 \in 1..(n + 1) /\ n + 1 = 2 /\ (n + 1) + 1 = 3
      BY <1>opens, <1>depth, <1>from, <1>10
    <3> QED
      BY <1>opens, <1>depth, <1>from, <1>1, <1>2, <1>4, <1>5, <3>1
  <2>2. u.views[1].cursor \in 0..5 /\ u.view = MainRows[u.views[1].cursor + 1]
    <3>1. Len(u.views) >= 1 /\ ViewAt(u, 2) = u.view
      BY <1>opens, <1>depth, <1>from, <1>1, <1>10
    <3> QED
      BY <1>opens, <1>depth, <1>from, <3>1 DEF TrailOK
  <2> QED
    BY <1>opens, <1>depth, <1>from, <1>2, <1>6, <1>7, <1>10, <2>1, <2>2 DEF TrailOK
<1>11. CASE n = 2
  <2>1. /\ Len(d.views) = 3 /\ d.views[1] = u.views[1] /\ ViewAt(d, 2) = ViewAt(u, 2)
        /\ ViewAt(d, 3) = u.view /\ ViewAt(u, 3) = u.view
    <3>1. 1 \in 1..n /\ 2 \in 1..(n + 1) /\ 3 \in 1..(n + 1) /\ n + 1 = 3
      BY <1>opens, <1>depth, <1>from, <1>11
    <3> QED
      BY <1>opens, <1>depth, <1>from, <1>1, <1>2, <1>4, <3>1
  <2>2. u.views[1].cursor \in 0..5 /\ ViewAt(u, 2) = MainRows[u.views[1].cursor + 1]
    <3>1. Len(u.views) >= 1
      BY <1>opens, <1>depth, <1>from, <1>11
    <3> QED
      BY <1>opens, <1>depth, <1>from, <3>1 DEF TrailOK
  <2>3. \/ ViewAt(u, 2) = "snapshots" /\ ViewAt(u, 3) \in {"frame", "traceback"}
        \/ ViewAt(u, 2) = "sources" /\ ViewAt(u, 3) = "source_content"
    <3>1. Len(u.views) >= 2
      BY <1>opens, <1>depth, <1>from, <1>11
    <3> QED
      BY <1>opens, <1>depth, <1>from, <3>1 DEF TrailOK
  <2> QED
    BY <1>opens, <1>depth, <1>from, <1>2, <1>6, <1>7, <1>11, <2>1, <2>2, <2>3 DEF TrailOK
<1> QED
  BY <1>opens, <1>depth, <1>from, <1>8, <1>9, <1>10, <1>11

\* The row at the cursor of the tree, and the one of a stacktrace.
LEMMA TreeRowIs ==
  ASSUME IInv, ui.view = "snapshots", NEW kind, OnRow(kind)
  PROVE  /\ Rows(ui) = SnapshotRows(ui) /\ Count(ui) = Len(SnapshotRows(ui))
         /\ ui.cursor \in 0..Len(SnapshotRows(ui)) - 1 /\ Row = SnapshotRows(ui)[ui.cursor + 1]
         /\ Row.kind = kind /\ Len(SnapshotRows(ui)) \in Nat /\ Row \in TreeRows
<1>1. Rows(ui) = SnapshotRows(ui) /\ Count(ui) = Len(SnapshotRows(ui))
  BY DEF Rows, Count, TextViews
<1>2. SnapshotRows(ui) \in Seq(TreeRows) /\ Len(SnapshotRows(ui)) \in Nat
  BY HereIs, SnapshotRowsAre
<1>3. PICK n \in Nat : n = Len(SnapshotRows(ui))
  BY <1>2
<1>4. PICK c \in 0..n - 1 : c = ui.cursor
  BY <1>1, <1>3 DEF OnRow
<1>5. c + 1 \in 1..n
  OBVIOUS
<1>6. Row = SnapshotRows(ui)[c + 1] /\ Row \in TreeRows
  BY <1>1, <1>2, <1>3, <1>4, <1>5 DEF Row
<1> QED
  BY <1>1, <1>2, <1>3, <1>4, <1>6 DEF OnRow, Row

LEMMA FrameRowIs ==
  ASSUME IInv, ui.view = "frame", NEW kind, OnRow(kind)
  PROVE  /\ Rows(ui) = FrameRows(ui) /\ Count(ui) = Len(FrameRows(ui))
         /\ ui.cursor \in 0..Len(FrameRows(ui)) - 1 /\ Row = FrameRows(ui)[ui.cursor + 1]
         /\ Row.kind = kind /\ Row \in LocalRows(Stack(ui)) /\ IsStacktrace(Stack(ui))
         /\ Row.frame \in DOMAIN Stack(ui).frames
<1>1. Rows(ui) = FrameRows(ui) /\ Count(ui) = Len(FrameRows(ui))
  BY DEF Rows, Count, TextViews
<1>2. IsStacktrace(Stack(ui))
  BY HereIs, StackIs DEF ViewerOK
<1>3. FrameRows(ui) \in Seq(LocalRows(Stack(ui)))
  BY <1>2, FrameRowsAre
<1>4. PICK n \in Nat : n = Len(FrameRows(ui))
  BY <1>3
<1>5. PICK c \in 0..n - 1 : c = ui.cursor
  BY <1>1, <1>4 DEF OnRow
<1>6. c + 1 \in 1..n
  OBVIOUS
<1>7. Row = FrameRows(ui)[c + 1] /\ Row \in LocalRows(Stack(ui))
  BY <1>1, <1>3, <1>4, <1>5, <1>6 DEF Row
<1>8. Row.frame \in DOMAIN Stack(ui).frames
  <2>1. PICK row : row = Row
    OBVIOUS
  <2>2. \/ row \in {[kind |-> "frame", frame |-> i] : i \in DOMAIN Stack(ui).frames}
        \/ row \in {[kind |-> "local", frame |-> i] : i \in DOMAIN Stack(ui).frames}
    BY <1>7, <2>1 DEF LocalRows
  <2>3. row.frame \in DOMAIN Stack(ui).frames
    BY <2>2
  <2> QED
    BY <2>1, <2>3
<1> QED
  BY <1>1, <1>2, <1>4, <1>5, <1>7, <1>8 DEF OnRow, Row

\* A stacktrace is opened from the tree, as a list of frames or as a text.
LEMMA StackOpened ==
  ASSUME IInv, ui.view = "snapshots", OnRow("stacktrace"),
         NEW u, DOMAIN u = Fields, u.view = ui.view, u.views = ui.views, u.cursor = ui.cursor,
         u.scroll = ui.scroll, u.text = ui.text, u.openSnapshots = ui.openSnapshots,
         u.stack = <<Row.snapshot, Row.stack>>,
         NEW view \in {"frame", "traceback"}, NEW d, d = Push(u, view)
  PROVE  ViewerOK(d)
<1>1. ViewerOK(u) /\ InMenu(u)
  BY InMenuOK
<1>2. /\ ui.cursor \in 0..Len(SnapshotRows(ui)) - 1 /\ Row = SnapshotRows(ui)[ui.cursor + 1]
      /\ Row.kind = "stacktrace" /\ Len(SnapshotRows(ui)) \in Nat
  BY TreeRowIs
<1>3. PICK c \in Nat : c = ui.cursor
  BY <1>2
<1>4. /\ DOMAIN d = Fields /\ d.views = Append(u.views, Place(u)) /\ d.view = view
      /\ d.cursor = 0 /\ d.scroll = 0 /\ d.text = NoText
      /\ d.stack = u.stack /\ d.openSnapshots = u.openSnapshots
  BY PushIs
<1>5. PICK n \in Nat : n = Len(u.views)
  <2>1. Len(u.views) = 1 /\ 1 \in Nat
    BY <1>1 DEF InMenu
  <2> QED
    BY <2>1
<1>6. TrailOK(u) /\ u.scroll \in Int /\ u.text = NoText
  BY <1>1 DEF ViewerOK, TextOK, TextViews
<1>8. TrailOK(d) /\ Len(d.views) = n + 1 /\ d.views[n + 1] = Place(u)
  <2>1. Opens(u, view, d)
    BY <1>3, <1>4, <1>6 DEF Opens
  <2> QED
    BY <1>5, <2>1, PushTrail
<1>9. Len(d.views) = 2 /\ d.views[2] = Place(u)
  <2>1. n + 1 = 2
    BY <1>1, <1>5 DEF InMenu
  <2> QED
    BY <1>8, <2>1
<1>10. PlaceOK(d)
  <2>1. SnapshotRows(d) = SnapshotRows(ui)
    BY <1>4 DEF SnapshotRows
  <2>2. d.views[2].cursor = ui.cursor /\ d.views[2].view = "snapshots"
    BY <1>9 DEF Place
  <2>3. AtStack(d, d.views[2].cursor)
    BY <1>2, <1>4, <2>1, <2>2 DEF AtStack
  <2> QED
    BY <1>9, <2>2, <2>3 DEF PlaceOK
<1>11. CursorOK(d) /\ TextOK(d)
  BY <1>4 DEF CursorOK, TextOK, NoText
<1> QED
  BY <1>4, <1>8, <1>10, <1>11 DEF ViewerOK

\* A view that is chosen from the menu.
LEMMA MenuOpened ==
  ASSUME IInv, ui.view = "main", NEW d, d = Push(ui, MainRows[ui.cursor + 1])
  PROVE  ViewerOK(d)
<1>1. PICK c \in 0..5 : c = ui.cursor
  BY HereIs
<1>2. PICK view : view = MainRows[c + 1]
  OBVIOUS
<1>3. view \in {"snapshots", "metadata", "manifest", "environment", "statistics", "sources"}
  BY <1>2, MainRowsAre
<1>4. AtMain(ui)
  BY HereIs, TrailIs DEF InMenu, BelowSnapshots, BelowSources, BelowFrame
<1>5. PICK n \in Nat : n = Len(ui.views)
  <2>1. Len(ui.views) = 0 /\ 0 \in Nat
    BY <1>4 DEF AtMain
  <2> QED
    BY <2>1
<1>6. TrailOK(ui) /\ ui.scroll \in Int /\ ui.text = NoText
  BY HereIs DEF ViewerOK, TextOK, TextViews
<1>7. /\ DOMAIN d = Fields /\ d.views = Append(ui.views, Place(ui)) /\ d.view = view
      /\ d.cursor = 0 /\ d.scroll = 0 /\ d.text = NoText
  BY <1>1, <1>2, HereIs, PushIs
<1>8. TrailOK(d) /\ Len(d.views) = n + 1
  <2>1. Opens(ui, view, d)
    BY <1>1, <1>2, <1>3, <1>6, <1>7 DEF Opens
  <2> QED
    BY <1>5, <2>1, PushTrail
<1>9. PlaceOK(d)
  <2>1. Len(d.views) = 1
    BY <1>4, <1>5, <1>8 DEF AtMain
  <2> QED
    BY <2>1 DEF PlaceOK
<1>10. CursorOK(d) /\ TextOK(d)
  BY <1>7 DEF CursorOK, TextOK, NoText
<1> QED
  BY <1>7, <1>8, <1>9, <1>10 DEF ViewerOK

\* An embedded file.
LEMMA SourceOpened ==
  ASSUME IInv, ui.view = "sources", ui.cursor \in 0..Count(ui) - 1,
         NEW u, DOMAIN u = Fields, u.view = ui.view, u.views = ui.views, u.cursor = ui.cursor,
         u.scroll = ui.scroll, u.text = ui.text, u.openSnapshots = ui.openSnapshots,
         u.source = ui.cursor + 1,
         NEW view, view = "source_content", NEW d, d = Push(u, view)
  PROVE  ViewerOK(d)
<1>1. ViewerOK(u) /\ InMenu(u)
  BY InMenuOK
<1>2. Count(ui) = Len(file.sources) /\ Count(ui) \in Nat
  BY HereIs DEF Count, Rows, TextViews
<1>3. PICK c \in Nat : c = ui.cursor
  BY <1>2
<1>4. /\ DOMAIN d = Fields /\ d.views = Append(u.views, Place(u)) /\ d.view = view
      /\ d.cursor = 0 /\ d.scroll = 0 /\ d.text = NoText /\ d.source = u.source
  BY PushIs
<1>5. PICK n \in Nat : n = Len(u.views)
  <2>1. Len(u.views) = 1 /\ 1 \in Nat
    BY <1>1 DEF InMenu
  <2> QED
    BY <2>1
<1>6. TrailOK(u) /\ u.scroll \in Int /\ u.text = NoText
  BY <1>1 DEF ViewerOK, TextOK, TextViews
<1>7. TrailOK(d) /\ Len(d.views) = n + 1 /\ d.views[n + 1] = Place(u)
  <2>1. Opens(u, view, d)
    BY <1>3, <1>4, <1>6 DEF Opens
  <2> QED
    BY <1>5, <2>1, PushTrail
<1>8. Len(d.views) = 2 /\ d.views[2] = Place(u)
  <2>1. n + 1 = 2
    BY <1>1, <1>5 DEF InMenu
  <2> QED
    BY <1>7, <2>1
<1>9. PlaceOK(d)
  <2>1. d.views[2].cursor = ui.cursor /\ d.views[2].view = "sources"
    BY <1>8 DEF Place
  <2>2. AtSource(d, d.views[2].cursor)
    BY <1>2, <1>4, <2>1 DEF AtSource
  <2> QED
    BY <1>8, <2>1, <2>2 DEF PlaceOK
<1>10. CursorOK(d) /\ TextOK(d)
  BY <1>4 DEF CursorOK, TextOK, NoText
<1> QED
  BY <1>4, <1>7, <1>9, <1>10 DEF ViewerOK

(***************************************************************************)
(* The file of a frame.                                                    *)
(***************************************************************************)
\* Where a file of so many lines is scrolled to, to show one of them.
LineAt(line, lines) == Max({0, Min({line + 1, lines + 1}) - Center})

LEMMA LineAtIs ==
  ASSUME NEW line \in Nat, NEW lines \in Nat
  PROVE  /\ LineAt(line, lines) \in Nat
         /\ line <= lines => /\ LineAt(line, lines) >= line + 1 - Center
                             /\ LineAt(line, lines) <= line + 1
<1>1. PICK m \in Int : m = Min({line + 1, lines + 1}) /\ m <= line + 1 /\ m \in {line + 1, lines + 1}
  <2>1. line + 1 \in Int /\ lines + 1 \in Int
    OBVIOUS
  <2> QED
    BY <2>1, MinOfTwo
<1>2. Center \in Nat
  BY ViewerAssumption
<1>3. m \in Nat /\ (line <= lines => m = line + 1)
  BY <1>1
<1>4. PICK x \in Int : x = Max({0, m - Center}) /\ x >= 0 /\ x >= m - Center /\ x \in {0, m - Center}
  <2>1. 0 \in Int /\ m - Center \in Int
    BY <1>2
  <2> QED
    BY <2>1, MaxOfTwo
<1>5. LineAt(line, lines) = x
  BY <1>1, <1>4 DEF LineAt
<1> QED
  BY <1>2, <1>3, <1>4, <1>5

\* A frame's file, as it is before it is drawn.
FileOf(u, path, line) ==
  /\ LinesOf[path] \in Nat /\ line \in Nat
  /\ u.view = "source_content" /\ u.text = SourceText(path) /\ u.highlight = line
  /\ u.scroll = LineAt(line, LinesOf[path])

LEMMA CentredIs ==
  ASSUME NEW o, DOMAIN o = Fields, NEW path, NEW lines \in Nat, lines = LinesOf[path], NEW line \in Nat,
         NEW t, t = [o EXCEPT !.text = SourceText(path)], NEW d, d = Centred(t, line)
  PROVE  /\ DOMAIN d = Fields /\ d.view = o.view /\ d.views = o.views /\ d.cursor = o.cursor
         /\ d.text = SourceText(path) /\ d.scroll = LineAt(line, lines)
         /\ d.stack = o.stack /\ d.openSnapshots = o.openSnapshots /\ d.openFrames = o.openFrames
         /\ d.source = o.source /\ d.highlight = o.highlight
<1>1. PICK text : text = SourceText(path)
  OBVIOUS
<1>2. text.lines = lines + 2 /\ (lines + 2) - 1 = lines + 1
  BY <1>1 DEF SourceText
<1>3. t = [o EXCEPT !.text = text] /\ t.text = text
  BY <1>1 DEF Fields
<1>4. d = [t EXCEPT !.scroll = Max({0, Min({line + 1, t.text.lines - 1}) - Center})]
  BY DEF Centred
<1>5. d = [t EXCEPT !.scroll = LineAt(line, lines)]
  BY <1>2, <1>3, <1>4 DEF LineAt
<1>6. DOMAIN d = Fields /\ d.scroll = LineAt(line, lines) /\ d.text = text
  BY <1>3, <1>5 DEF Fields
<1>7. d.view = o.view /\ d.views = o.views /\ d.cursor = o.cursor
  BY <1>3, <1>5 DEF Fields
<1>8. d.stack = o.stack /\ d.openSnapshots = o.openSnapshots /\ d.openFrames = o.openFrames
  BY <1>3, <1>5 DEF Fields
<1>9. d.source = o.source /\ d.highlight = o.highlight
  BY <1>3, <1>5 DEF Fields
<1> QED
  BY <1>1, <1>6, <1>7, <1>8, <1>9

LEMMA FileOpened ==
  ASSUME IInv, ViewFile
  PROVE  \E u, path, line : ViewerOK(u) /\ Becomes(u) /\ FileOf(u, path, line)
<1>1. ui.view = "frame" /\ \E kind : OnRow(kind)
  BY DEF ViewFile, InView
<1>2. /\ ui.cursor \in 0..Len(FrameRows(ui)) - 1 /\ Row = FrameRows(ui)[ui.cursor + 1]
      /\ IsStacktrace(Stack(ui)) /\ Row.frame \in DOMAIN Stack(ui).frames
  BY <1>1, FrameRowIs
<1>3. PICK frame : frame = Stack(ui).frames[Row.frame]
  OBVIOUS
<1>4. PICK path : path = frame.path
  OBVIOUS
<1>5. PICK line \in Nat : line = frame.line
  BY <1>2, <1>3 DEF IsStacktrace
<1>6. PICK source : source = IF SourcesOf(path) = {} THEN ui.source ELSE Min(SourcesOf(path))
  OBVIOUS
<1>7. PICK u : u = [ui EXCEPT !.highlight = line, !.source = source]
  OBVIOUS
<1>8. PICK view : view = "source_content"
  OBVIOUS
<1>9. PICK o : o = Push(u, view)
  OBVIOUS
<1>10. PICK t : t = [o EXCEPT !.text = SourceText(path)]
  OBVIOUS
<1>centred. PICK d : d = Centred(t, line)
  OBVIOUS
<1>11. (SourcesOf(path) # {} \/ path \in OnDisk) /\ Becomes(d)
  <2>1. DOMAIN ui = Fields
    BY HereIs
  <2>2. u = [ui EXCEPT !.highlight = frame.line,
                       !.source = IF SourcesOf(frame.path) = {} THEN @ ELSE Min(SourcesOf(frame.path))]
    BY <1>4, <1>5, <1>6, <1>7, <2>1 DEF Fields
  <2>3. /\ SourcesOf(frame.path) # {} \/ frame.path \in OnDisk
        /\ Becomes(Centred([Push(u, "source_content") EXCEPT !.text = SourceText(frame.path)], frame.line))
    BY <1>3, <2>2 DEF ViewFile
  <2> QED
    BY <1>4, <1>5, <1>8, <1>9, <1>10, <1>centred, <2>3
<1>12. PICK lines \in Nat : lines = LinesOf[path]
  <2>1. CASE path \in OnDisk
    BY <2>1, ViewerAssumption
  <2>2. CASE SourcesOf(path) # {}
    <3>1. PICK n \in DOMAIN file.sources : file.sources[n] = path
      BY <2>2 DEF SourcesOf
    <3>2. LinesOf[file.sources[n]] \in Nat
      BY <3>1, FileIs, HereIs
    <3> QED
      BY <3>1, <3>2
  <2> QED
    BY <1>11, <2>1, <2>2
<1>13. /\ DOMAIN u = Fields /\ u.view = "frame" /\ u.views = ui.views /\ u.cursor = ui.cursor
       /\ u.scroll = ui.scroll /\ u.text = ui.text /\ u.stack = ui.stack
  BY <1>1, <1>7, HereIs DEF Fields
<1>14. u.openSnapshots = ui.openSnapshots /\ u.openFrames = ui.openFrames /\ u.highlight = line
  BY <1>7, HereIs DEF Fields
<1>15. /\ DOMAIN o = Fields /\ o.views = Append(u.views, Place(u)) /\ o.view = view /\ o.cursor = 0
       /\ o.stack = u.stack /\ o.openSnapshots = u.openSnapshots /\ o.openFrames = u.openFrames
       /\ o.highlight = u.highlight
  BY <1>9, <1>13, PushIs
<1>16. /\ DOMAIN d = Fields /\ d.view = o.view /\ d.views = o.views /\ d.cursor = o.cursor
       /\ d.text = SourceText(path) /\ d.scroll = LineAt(line, lines)
       /\ d.stack = o.stack /\ d.openSnapshots = o.openSnapshots /\ d.openFrames = o.openFrames
       /\ d.highlight = o.highlight
  <2>1. DOMAIN o = Fields
    BY <1>15
  <2> QED
    BY <1>10, <1>centred, <1>12, <2>1, CentredIs
<1>17. d.scroll \in Nat
  BY <1>16, LineAtIs
<1>18. FileOf(d, path, line)
  BY <1>8, <1>12, <1>14, <1>15, <1>16 DEF FileOf
<1>19. BelowSnapshots(ui)
  BY <1>1, HereIs, TrailIs DEF AtMain, InMenu, BelowSources, BelowFrame
<1>20. TrailOK(u)
  <2>1. \A n : ViewAt(u, n) = ViewAt(ui, n)
    BY <1>1, <1>13 DEF ViewAt
  <2> QED
    BY <1>1, <1>13, <2>1, HereIs DEF TrailOK
<1>21. Opens(u, view, d)
  <2>1. u.cursor \in Nat
    <3>1. PICK n \in Nat : n = Len(FrameRows(ui))
      BY <1>2, FrameRowsAre, LenProperties
    <3> QED
      BY <1>2, <1>13, <3>1
  <2>2. u.scroll \in Int /\ u.text = NoText
    BY <1>1, <1>13, HereIs DEF ViewerOK, TextOK, TextViews
  <2> QED
    BY <1>8, <1>13, <1>15, <1>16, <1>20, <2>1, <2>2 DEF Opens
<1>22. PICK n : n = Len(u.views)
  OBVIOUS
<1>23. /\ TrailOK(d) /\ Len(d.views) = n + 1 /\ d.views[n + 1] = Place(u)
       /\ \A i \in 1..n : d.views[i] = u.views[i]
  BY <1>21, <1>22, PushTrail
<1>24. Len(d.views) = 3 /\ d.views[3] = Place(u) /\ d.views[2] = ui.views[2]
  <2>1. n = 2 /\ n + 1 = 3 /\ 2 \in 1..n
    <3>1. n = 2
      BY <1>13, <1>19, <1>22 DEF BelowSnapshots
    <3>2. 2 + 1 = 3 /\ 2 \in 1..2
      OBVIOUS
    <3> QED
      BY <3>1, <3>2
  <2> QED
    BY <1>13, <1>23, <2>1
<1>25. /\ SnapshotRows(d) = SnapshotRows(ui) /\ Stack(d) = Stack(ui) /\ FrameRows(d) = FrameRows(ui)
       /\ d.stack = ui.stack
  <2>1. d.stack = ui.stack /\ d.openSnapshots = ui.openSnapshots /\ d.openFrames = ui.openFrames
    BY <1>13, <1>14, <1>15, <1>16
  <2>2. Stack(d) = Stack(ui)
    BY <2>1 DEF Stack
  <2>3. SnapshotRows(d) = SnapshotRows(ui)
    BY <2>1 DEF SnapshotRows
  <2>4. FrameRows(d) = FrameRows(ui)
    BY <2>1, <2>2 DEF FrameRows
  <2> QED
    BY <2>1, <2>2, <2>3, <2>4
<1>26. PlaceOK(d)
  <2>1. AtStack(ui, ui.views[2].cursor)
    BY <1>1, HereIs, StackIs DEF ViewerOK
  <2>2. AtStack(d, d.views[2].cursor)
    BY <1>24, <1>25, <2>1 DEF AtStack
  <2>3. d.views[2].view = "snapshots"
    BY <1>19, <1>24 DEF BelowSnapshots
  <2>4. d.views[3].cursor = ui.cursor
    BY <1>13, <1>24 DEF Place
  <2>5. AtFrame(d, d.views[3].cursor)
    BY <1>2, <1>3, <1>4, <1>5, <1>12, <1>14, <1>15, <1>16, <1>25, <2>4 DEF AtFrame
  <2> QED
    BY <1>24, <2>2, <2>3, <2>5 DEF PlaceOK
<1>27. CursorOK(d) /\ TextOK(d)
  <2>1. d.view = "source_content" /\ d.text.lines = lines + 2 /\ lines + 2 \in Nat
    BY <1>8, <1>12, <1>15, <1>16 DEF SourceText
  <2> QED
    BY <2>1 DEF CursorOK, TextOK, ListViews, TextViews
<1>28. ViewerOK(d)
  BY <1>15, <1>16, <1>17, <1>23, <1>26, <1>27 DEF ViewerOK
<1> QED
  BY <1>11, <1>18, <1>28

(***************************************************************************)
(* The prompt.                                                             *)
(***************************************************************************)
LEMMA IsASequence ==
  ASSUME NEW T, NEW s \in Seq(T)
  PROVE  IsSequence(s)
<1>1. PICK n \in Nat : n = Len(s) /\ DOMAIN s = 1..n
  OBVIOUS
<1>2. \A i \in 1..n : s[i] \in ToSet(s)
  BY <1>1 DEF ToSet
<1>3. s = [i \in 1..n |-> s[i]]
  BY <1>1
<1>4. s \in Seq(ToSet(s))
  BY <1>2, <1>3
<1> QED
  BY <1>4 DEF IsSequence

\* A part of a sequence, and two parts put together.
LEMMA CutIs ==
  ASSUME NEW T, NEW s \in Seq(T), NEW p \in Nat, NEW q \in Nat, p <= q, q <= Len(s)
  PROVE  /\ SubSeq(s, p + 1, q) \in Seq(T) /\ Len(SubSeq(s, p + 1, q)) = q - p
         /\ \A i \in 1..(q - p) : SubSeq(s, p + 1, q)[i] = s[p + i]
<1>1. PICK n \in Nat : n = q - p
  OBVIOUS
<1>2. \A i \in 1..n : s[p + i] \in T
  BY <1>1
<1>3. SubSeq(s, p + 1, q) = [i \in 1..n |-> s[p + i]]
  <2>1. PICK m \in Int : m = p + 1
    OBVIOUS
  <2>2. SubSeq(s, m, q) = [i \in 1..(1 + q - m) |-> s[i + m - 1]]
    <3>1. q \in Int
      OBVIOUS
    <3> QED
      BY <3>1 DEF SubSeq
  <2>3. 1 + q - m = n /\ \A i \in 1..n : i + m - 1 = p + i
    BY <1>1, <2>1
  <2> QED
    BY <2>1, <2>2, <2>3
<1>4. [i \in 1..n |-> s[p + i]] \in Seq(T)
  BY <1>2
<1> QED
  BY <1>1, <1>3, <1>4

LEMMA SameSequence ==
  ASSUME NEW T, NEW s \in Seq(T), NEW t \in Seq(T), Len(s) = Len(t), \A i \in 1..Len(s) : s[i] = t[i]
  PROVE  s = t
BY SeqEqual

LEMMA HeadOf ==
  ASSUME NEW T, NEW s \in Seq(T), NEW q \in Nat, q <= Len(s)
  PROVE  /\ SubSeq(s, 1, q) \in Seq(T) /\ Len(SubSeq(s, 1, q)) = q
         /\ \A i \in 1..q : SubSeq(s, 1, q)[i] = s[i]
<1>1. PICK p \in Nat : p = 0
  OBVIOUS
<1>2. p <= q
  BY <1>1
<1>3. /\ SubSeq(s, p + 1, q) \in Seq(T) /\ Len(SubSeq(s, p + 1, q)) = q - p
      /\ \A i \in 1..(q - p) : SubSeq(s, p + 1, q)[i] = s[p + i]
  BY <1>2, CutIs
<1>4. p + 1 = 1 /\ q - p = q /\ \A i \in 1..q : p + i = i
  BY <1>1
<1> QED
  BY <1>3, <1>4

LEMMA JoinIs ==
  ASSUME NEW T, NEW x \in Seq(T), NEW y \in Seq(T), NEW b, b = x \o y
  PROVE  /\ b \in Seq(T) /\ Len(b) = Len(x) + Len(y)
         /\ SubSeq(b, 1, Len(x)) = x /\ SubSeq(b, Len(x) + 1, Len(b)) = y
<1>1. PICK m \in Nat : m = Len(x)
  OBVIOUS
<1>2. PICK n \in Nat : n = Len(y)
  OBVIOUS
<1>3. /\ b \in Seq(T) /\ Len(b) = m + n
      /\ \A i \in 1..m : b[i] = x[i]
      /\ \A i \in 1..n : b[m + i] = y[i]
  <2>1. /\ b \in Seq(T) /\ Len(b) = m + n
        /\ \A i \in 1..(m + n) : b[i] = IF i <= m THEN x[i] ELSE y[i - m]
    BY <1>1, <1>2, ConcatProperties
  <2>2. ASSUME NEW i \in 1..n
        PROVE  b[m + i] = y[i]
    <3>1. m + i \in 1..(m + n) /\ ~(m + i <= m) /\ (m + i) - m = i
      OBVIOUS
    <3> QED
      BY <2>1, <3>1
  <2>3. \A i \in 1..m : b[i] = x[i]
    BY <2>1
  <2> QED
    BY <2>1, <2>2, <2>3
<1>4. SubSeq(b, 1, m) = x
  <2>1. m <= Len(b)
    BY <1>3
  <2>2. PICK c : c = SubSeq(b, 1, m)
    OBVIOUS
  <2>3. c \in Seq(T) /\ Len(c) = m /\ \A i \in 1..m : c[i] = b[i]
    BY <1>3, <2>1, <2>2, HeadOf
  <2>4. \A i \in 1..Len(c) : c[i] = x[i]
    BY <1>3, <2>3
  <2> QED
    BY <1>1, <2>2, <2>3, <2>4, SameSequence
<1>5. SubSeq(b, m + 1, m + n) = y
  <2>1. PICK q \in Nat : q = m + n
    OBVIOUS
  <2>2. m <= q /\ q <= Len(b) /\ q - m = n
    BY <1>3, <2>1
  <2>3. PICK c : c = SubSeq(b, m + 1, q)
    OBVIOUS
  <2>4. c \in Seq(T) /\ Len(c) = n /\ \A i \in 1..n : c[i] = b[m + i]
    BY <1>3, <2>2, <2>3, CutIs
  <2>5. \A i \in 1..Len(c) : c[i] = y[i]
    BY <1>3, <2>4
  <2> QED
    BY <1>2, <2>1, <2>3, <2>4, <2>5, SameSequence
<1> QED
  BY <1>1, <1>2, <1>3, <1>4, <1>5

\* A shorter head, and a shorter tail.
LEMMA ShorterHead ==
  ASSUME NEW T, NEW s \in Seq(T), NEW p \in Nat, NEW q \in Nat, p <= q, q <= Len(s)
  PROVE  IsPrefix(SubSeq(s, 1, p), SubSeq(s, 1, q))
<1>1. PICK x : x = SubSeq(s, 1, p)
  OBVIOUS
<1>2. PICK y : y = SubSeq(s, 1, q)
  OBVIOUS
<1>3. p <= Len(s)
  OBVIOUS
<1>4. x \in Seq(T) /\ Len(x) = p /\ \A i \in 1..p : x[i] = s[i]
  BY <1>1, <1>3, HeadOf
<1>5. y \in Seq(T) /\ Len(y) = q /\ \A i \in 1..q : y[i] = s[i]
  BY <1>2, HeadOf
<1>6. PICK v : v = SubSeq(x, 1, p)
  OBVIOUS
<1>7. PICK w : w = SubSeq(y, 1, p)
  OBVIOUS
<1>8. v \in Seq(T) /\ Len(v) = p /\ \A i \in 1..p : v[i] = x[i]
  <2>1. p <= Len(x)
    BY <1>4
  <2> QED
    BY <1>4, <1>6, <2>1, HeadOf
<1>9. w \in Seq(T) /\ Len(w) = p /\ \A i \in 1..p : w[i] = y[i]
  <2>1. p <= Len(y)
    BY <1>5
  <2> QED
    BY <1>5, <1>7, <2>1, HeadOf
<1>10. v = w
  <2>1. \A i \in 1..Len(v) : v[i] = w[i]
    BY <1>4, <1>5, <1>8, <1>9
  <2> QED
    BY <1>8, <1>9, <2>1, SameSequence
<1> QED
  BY <1>1, <1>2, <1>4, <1>5, <1>6, <1>7, <1>10 DEF IsPrefix

LEMMA ReverseIs ==
  ASSUME NEW T, NEW s \in Seq(T), NEW n \in Nat, n = Len(s)
  PROVE  /\ Reverse(s) \in Seq(T) /\ Len(Reverse(s)) = n
         /\ \A i \in 1..n : Reverse(s)[i] = s[(n - i) + 1]
<1>1. Reverse(s) = [i \in 1..n |-> s[(n - i) + 1]]
  BY DEF Reverse
<1>2. \A i \in 1..n : s[(n - i) + 1] \in T
  OBVIOUS
<1>3. [i \in 1..n |-> s[(n - i) + 1]] \in Seq(T)
  BY <1>2
<1> QED
  BY <1>1, <1>3

LEMMA ShorterTail ==
  ASSUME NEW T, NEW s \in Seq(T), NEW n \in Nat, n = Len(s), NEW p \in Nat, NEW q \in Nat, p <= q, q <= n
  PROVE  IsSuffix(SubSeq(s, q + 1, n), SubSeq(s, p + 1, n))
<1>1. PICK a \in Nat : a = n - q
  <2>1. n - q \in Nat
    OBVIOUS
  <2> QED
    BY <2>1
<1>2. PICK b \in Nat : b = n - p /\ a <= b
  <2>1. n - p \in Nat /\ n - q <= n - p
    OBVIOUS
  <2> QED
    BY <1>1, <2>1
<1>3. PICK x : x = SubSeq(s, q + 1, n)
  OBVIOUS
<1>4. PICK y : y = SubSeq(s, p + 1, n)
  OBVIOUS
<1>5. p <= n /\ n <= Len(s)
  OBVIOUS
<1>6. x \in Seq(T) /\ Len(x) = a /\ \A i \in 1..a : x[i] = s[q + i]
  BY <1>1, <1>3, <1>5, CutIs
<1>7. y \in Seq(T) /\ Len(y) = b /\ \A i \in 1..b : y[i] = s[p + i]
  BY <1>2, <1>4, <1>5, CutIs
<1>8. PICK v : v = Reverse(x)
  OBVIOUS
<1>9. PICK w : w = Reverse(y)
  OBVIOUS
<1>10. v \in Seq(T) /\ Len(v) = a /\ \A i \in 1..a : v[i] = x[(a - i) + 1]
  BY <1>6, <1>8, ReverseIs
<1>11. w \in Seq(T) /\ Len(w) = b /\ \A i \in 1..b : w[i] = y[(b - i) + 1]
  BY <1>7, <1>9, ReverseIs
<1>12. \A i \in 1..a : v[i] = w[i]
  <2> SUFFICES ASSUME NEW i \in 1..a PROVE v[i] = w[i]
    OBVIOUS
  <2>1. /\ i \in 1..b /\ (a - i) + 1 \in 1..a /\ (b - i) + 1 \in 1..b
        /\ q + ((a - i) + 1) = p + ((b - i) + 1)
    BY <1>1, <1>2
  <2>2. v[i] = s[q + ((a - i) + 1)]
    BY <1>6, <1>10, <2>1
  <2>3. w[i] = s[p + ((b - i) + 1)]
    BY <1>7, <1>11, <2>1
  <2> QED
    BY <2>1, <2>2, <2>3
<1>13. SubSeq(v, 1, a) = SubSeq(w, 1, a)
  <2>1. PICK c : c = SubSeq(v, 1, a)
    OBVIOUS
  <2>2. PICK d : d = SubSeq(w, 1, a)
    OBVIOUS
  <2>3. a <= Len(v) /\ a <= Len(w)
    BY <1>2, <1>10, <1>11
  <2>4. c \in Seq(T) /\ Len(c) = a /\ \A i \in 1..a : c[i] = v[i]
    BY <1>10, <2>1, <2>3, HeadOf
  <2>5. d \in Seq(T) /\ Len(d) = a /\ \A i \in 1..a : d[i] = w[i]
    BY <1>11, <2>2, <2>3, HeadOf
  <2>6. \A i \in 1..Len(c) : c[i] = d[i]
    BY <1>12, <2>4, <2>5
  <2> QED
    BY <2>1, <2>2, <2>4, <2>5, <2>6, SameSequence
<1>14. IsPrefix(v, w)
  BY <1>2, <1>10, <1>11, <1>13 DEF IsPrefix
<1> QED
  BY <1>3, <1>4, <1>8, <1>9, <1>14 DEF IsSuffix

\* The window follows the cursor.
LEMMA RedrawIs ==
  ASSUME NEW line, LineOK(line), NEW d, d = Redraw(line)
  PROVE  LineOK(d) /\ InWindow(d) /\ d.buf = line.buf /\ d.pos = line.pos /\ d # NoPrompt
<1>1. PICK p \in Nat : p = line.pos
  <2>1. Len(line.buf) \in Nat
    BY LenProperties DEF LineOK, IsSequence
  <2> QED
    BY <2>1 DEF LineOK
<1>2. PICK o \in Nat : o = line.offset
  BY DEF LineOK
<1>3. PICK w \in Nat : w = FieldWidth /\ w >= 1
  BY FieldAssumption
<1>4. PICK left \in Nat : left = Min({o, p}) /\ left <= p
  <2>1. o \in Int /\ p \in Int
    OBVIOUS
  <2>2. Min({o, p}) \in {o, p} /\ Min({o, p}) <= p
    BY <2>1, MinOfTwo
  <2> QED
    BY <2>2
<1>5. PICK x \in Nat : x = (IF p >= left + w THEN p - w + 1 ELSE left) /\ p \in x..x + w - 1
  <2>1. CASE p >= left + w
    BY <1>3, <2>1
  <2>2. CASE ~(p >= left + w)
    BY <1>3, <1>4, <2>2
  <2> QED
    BY <2>1, <2>2
<1>6. Max({0, x}) = x
  <2>1. 0 \in Int /\ x \in Int
    OBVIOUS
  <2>2. Max({0, x}) >= 0 /\ Max({0, x}) >= x /\ Max({0, x}) \in {0, x}
    BY <2>1, MaxOfTwo
  <2> QED
    BY <2>2
<1>7. d = [line EXCEPT !.offset = x]
  BY <1>1, <1>2, <1>3, <1>4, <1>5, <1>6 DEF Redraw
<1>8. DOMAIN line = {"buf", "pos", "offset"}
  BY DEF LineOK
<1>9. d.offset = x /\ d.buf = line.buf /\ d.pos = p /\ DOMAIN d = {"buf", "pos", "offset"}
  BY <1>1, <1>7, <1>8
<1>10. LineOK(d)
  BY <1>1, <1>9 DEF LineOK
<1>11. InWindow(d)
  BY <1>3, <1>5, <1>9 DEF InWindow
<1>12. d # NoPrompt
  <2>1. NoPrompt.pos = -1 /\ p # -1
    BY DEF NoPrompt
  <2> QED
    BY <1>9, <2>1
<1> QED
  BY <1>1, <1>9, <1>10, <1>11, <1>12

\* What a key may do to the line that is edited.
Edited(line, d) ==
  \/ d.buf = line.buf
  \/ Behind(d) = Behind(line) /\ IsPrefix(Before(d), Before(line))
  \/ Before(d) = Before(line) /\ IsSuffix(Behind(d), Behind(line))
  \/ Behind(d) = Behind(line) /\ Front(Before(d)) = Before(line)

\* The line, cut at a place.
LEMMA LineIs ==
  ASSUME NEW line, LineOK(line)
  PROVE  /\ line.buf \in Seq(ToSet(line.buf)) /\ Len(line.buf) \in Nat
         /\ line.pos \in Nat /\ line.pos <= Len(line.buf)
<1>1. line.buf \in Seq(ToSet(line.buf)) /\ Len(line.buf) \in Nat
  BY LenProperties DEF LineOK, IsSequence
<1> QED
  BY <1>1 DEF LineOK

LEMMA MoveToIs ==
  ASSUME NEW line, LineOK(line), NEW p \in 0..Len(line.buf), NEW d, d = MoveTo(line, p)
  PROVE  LineOK(d) /\ Edited(line, d)
<1>1. DOMAIN line = {"buf", "pos", "offset"}
  BY DEF LineOK
<1>2. d.buf = line.buf /\ d.pos = p /\ d.offset = line.offset /\ DOMAIN d = {"buf", "pos", "offset"}
  BY <1>1 DEF MoveTo
<1> QED
  BY <1>2 DEF LineOK, Edited

\* A line that consists of what is before its cursor and what is behind.
LEMMA JoinedIs ==
  ASSUME NEW T, NEW x \in Seq(T), NEW y \in Seq(T), NEW d, DOMAIN d = {"buf", "pos", "offset"},
         d.buf = x \o y, d.pos = Len(x), d.offset \in Nat
  PROVE  LineOK(d) /\ Before(d) = x /\ Behind(d) = y
<1>1. PICK b : b = d.buf
  OBVIOUS
<1>2. PICK m : m = Len(x)
  OBVIOUS
<1>3. /\ b \in Seq(T) /\ Len(b) = m + Len(y)
      /\ SubSeq(b, 1, m) = x /\ SubSeq(b, m + 1, Len(b)) = y
  BY <1>1, <1>2, JoinIs
<1>4. Before(d) = x /\ Behind(d) = y
  BY <1>1, <1>2, <1>3 DEF Before, Behind
<1>5. IsSequence(b)
  BY <1>3, IsASequence
<1>6. m \in Nat /\ Len(y) \in Nat
  BY <1>2
<1>7. m \in 0..Len(b)
  BY <1>3, <1>6
<1> QED
  BY <1>1, <1>2, <1>4, <1>5, <1>7 DEF LineOK

LEMMA KillBackIs ==
  ASSUME NEW line, LineOK(line), NEW p \in 0..line.pos, NEW d, d = KillBack(line, p)
  PROVE  LineOK(d) /\ Edited(line, d)
<1>1. PICK T : line.buf \in Seq(T)
  BY LineIs
<1>2. PICK s \in Seq(T) : s = line.buf
  BY <1>1
<1>3. PICK n \in Nat : n = Len(s)
  OBVIOUS
<1>4. PICK q \in Nat : q = line.pos /\ q <= n /\ p \in Nat /\ p <= q
  BY <1>2, <1>3, LineIs
<1>5. PICK x : x = SubSeq(s, 1, p)
  OBVIOUS
<1>6. PICK y : y = SubSeq(s, q + 1, n)
  OBVIOUS
<1>7. x \in Seq(T) /\ Len(x) = p
  <2>1. p \in Nat /\ p <= Len(s)
    BY <1>3, <1>4
  <2> QED
    BY <1>5, <2>1, HeadOf
<1>8. y \in Seq(T)
  <2>1. n <= Len(s)
    BY <1>3
  <2> QED
    BY <1>4, <1>6, <2>1, CutIs
<1>9. Before(line) = SubSeq(s, 1, q) /\ Behind(line) = y
  BY <1>2, <1>3, <1>4, <1>6 DEF Before, Behind
<1>10. DOMAIN line = {"buf", "pos", "offset"} /\ line.offset \in Nat
  BY DEF LineOK
<1>11. d = [line EXCEPT !.buf = x \o y, !.pos = p]
  BY <1>2, <1>5, <1>9, <1>10 DEF KillBack
<1>12. d.buf = x \o y /\ d.pos = p /\ d.offset \in Nat /\ DOMAIN d = {"buf", "pos", "offset"}
  BY <1>10, <1>11
<1>13. LineOK(d) /\ Before(d) = x /\ Behind(d) = y
  BY <1>7, <1>8, <1>12, JoinedIs
<1>14. IsPrefix(x, SubSeq(s, 1, q))
  <2>1. p \in Nat /\ q <= Len(s)
    BY <1>3, <1>4
  <2> QED
    BY <1>4, <1>5, <2>1, ShorterHead
<1> QED
  BY <1>9, <1>13, <1>14 DEF Edited

LEMMA KillForwardIs ==
  ASSUME NEW line, LineOK(line), NEW p \in line.pos..Len(line.buf), NEW d, d = KillForward(line, p)
  PROVE  LineOK(d) /\ Edited(line, d)
<1>1. PICK T : line.buf \in Seq(T)
  BY LineIs
<1>2. PICK s \in Seq(T) : s = line.buf
  BY <1>1
<1>3. PICK n \in Nat : n = Len(s)
  OBVIOUS
<1>4. PICK q \in Nat : q = line.pos /\ q <= n /\ q <= p /\ p \in Nat /\ p <= n
  BY <1>2, <1>3, LineIs
<1>5. PICK x : x = SubSeq(s, 1, q)
  OBVIOUS
<1>6. PICK y : y = SubSeq(s, p + 1, n)
  OBVIOUS
<1>7. x \in Seq(T) /\ Len(x) = q
  <2>1. q <= Len(s)
    BY <1>3, <1>4
  <2> QED
    BY <1>5, <2>1, HeadOf
<1>8. y \in Seq(T)
  <2>1. n <= Len(s) /\ p \in Nat /\ p <= n
    BY <1>3, <1>4
  <2> QED
    BY <1>6, <2>1, CutIs
<1>9. Before(line) = x /\ Behind(line) = SubSeq(s, q + 1, n)
  BY <1>2, <1>3, <1>4, <1>5 DEF Before, Behind
<1>10. DOMAIN line = {"buf", "pos", "offset"} /\ line.offset \in Nat
  BY DEF LineOK
<1>11. d = [line EXCEPT !.buf = x \o y]
  BY <1>2, <1>3, <1>6, <1>9, <1>10 DEF KillForward
<1>12. d.buf = x \o y /\ d.pos = q /\ d.offset \in Nat /\ DOMAIN d = {"buf", "pos", "offset"}
  BY <1>4, <1>10, <1>11
<1>13. LineOK(d) /\ Before(d) = x /\ Behind(d) = y
  BY <1>7, <1>8, <1>12, JoinedIs
<1>14. IsSuffix(y, SubSeq(s, q + 1, n))
  <2>1. p \in Nat /\ q <= p /\ p <= n
    BY <1>4
  <2> QED
    BY <1>3, <1>6, <2>1, ShorterTail
<1> QED
  BY <1>9, <1>13, <1>14 DEF Edited

LEMMA TypeIs ==
  ASSUME NEW line, LineOK(line), NEW c, NEW d, d = Type(line, c)
  PROVE  LineOK(d) /\ Edited(line, d)
<1>1. PICK T : line.buf \in Seq(T) /\ c \in T
  <2>1. PICK S : line.buf \in Seq(S)
    BY LineIs
  <2>2. line.buf \in Seq(S \cup {c}) /\ c \in S \cup {c}
    BY <2>1
  <2> QED
    BY <2>2
<1>2. PICK s \in Seq(T) : s = line.buf
  BY <1>1
<1>3. PICK n \in Nat : n = Len(s)
  OBVIOUS
<1>4. PICK q \in Nat : q = line.pos /\ q <= n
  BY <1>2, <1>3, LineIs
<1>5. PICK w : w = SubSeq(s, 1, q)
  OBVIOUS
<1>6. PICK y : y = SubSeq(s, q + 1, n)
  OBVIOUS
<1>7. w \in Seq(T) /\ Len(w) = q
  <2>1. q <= Len(s)
    BY <1>3, <1>4
  <2> QED
    BY <1>5, <2>1, HeadOf
<1>8. y \in Seq(T)
  <2>1. n <= Len(s)
    BY <1>3
  <2> QED
    BY <1>4, <1>6, <2>1, CutIs
<1>9. Before(line) = w /\ Behind(line) = y
  BY <1>2, <1>3, <1>4, <1>5, <1>6 DEF Before, Behind
<1>10. DOMAIN line = {"buf", "pos", "offset"} /\ line.offset \in Nat
  BY DEF LineOK
<1>11. PICK x : x = Append(w, c)
  OBVIOUS
<1>12. x \in Seq(T) /\ Len(x) = q + 1 /\ \A i \in 1..q : x[i] = w[i]
  BY <1>1, <1>7, <1>11
<1>13. d = [line EXCEPT !.buf = x \o y, !.pos = q + 1]
  BY <1>4, <1>9, <1>10, <1>11 DEF Type
<1>14. d.buf = x \o y /\ d.pos = q + 1 /\ d.offset \in Nat /\ DOMAIN d = {"buf", "pos", "offset"}
  BY <1>10, <1>13
<1>15. LineOK(d) /\ Before(d) = x /\ Behind(d) = y
  BY <1>8, <1>12, <1>14, JoinedIs
<1>16. Front(x) = w
  <2>1. PICK f : f = SubSeq(x, 1, q)
    OBVIOUS
  <2>2. q <= Len(x)
    BY <1>12
  <2>3. f \in Seq(T) /\ Len(f) = q /\ \A i \in 1..q : f[i] = x[i]
    BY <1>12, <2>1, <2>2, HeadOf
  <2>4. \A i \in 1..Len(f) : f[i] = w[i]
    BY <1>12, <2>3
  <2>5. f = w
    BY <1>7, <2>3, <2>4, SameSequence
  <2>6. Len(x) - 1 = q
    BY <1>12
  <2> QED
    BY <2>1, <2>5, <2>6 DEF Front
<1> QED
  BY <1>9, <1>15, <1>16 DEF Edited

\* The places of the words.
LEMMA WordBackIs ==
  ASSUME NEW line, LineOK(line)
  PROVE  WordBack(line) \in 0..line.pos
<1>1. PICK q \in Nat : q = line.pos
  BY LineIs
<1>2. PICK T \in SUBSET (0..q) : T = {p \in 0..q : p = 0 \/ line.buf[p] \in WordChars} /\ 0 \in T
  <2>1. 0 \in 0..q
    OBVIOUS
  <2> QED
    BY <2>1
<1>3. PICK end \in 0..q : end = Max(T)
  <2>1. Max(T) \in T
    BY <1>2, MaxOf
  <2> QED
    BY <1>2, <2>1
<1>4. PICK S \in SUBSET (0..end) : S = {p \in 0..end : p = 0 \/ ~(line.buf[p] \in WordChars)} /\ 0 \in S
  <2>1. 0 \in 0..end
    OBVIOUS
  <2> QED
    BY <2>1
<1>5. Max(S) \in 0..end
  <2>1. end \in Nat /\ S # {}
    BY <1>4
  <2>2. Max(S) \in S
    BY <2>1, MaxOf
  <2> QED
    BY <1>4, <2>2
<1>6. WordBack(line) = Max(S)
  BY <1>1, <1>2, <1>3, <1>4 DEF WordBack
<1> QED
  BY <1>1, <1>3, <1>5, <1>6

LEMMA WordForwardIs ==
  ASSUME NEW line, LineOK(line)
  PROVE  WordForward(line) \in line.pos..Len(line.buf)
<1>1. PICK q \in Nat : q = line.pos
  BY LineIs
<1>2. PICK n \in Nat : n = Len(line.buf) /\ q <= n
  BY <1>1, LineIs
<1>3. PICK T \in SUBSET (q..n) : T = {p \in q..n : p = n \/ ~(line.buf[p + 1] \in WordChars)} /\ n \in T
  <2>1. n \in q..n
    BY <1>2
  <2> QED
    BY <2>1
<1>4. PICK end \in q..n : end = Min(T)
  <2>1. T \in SUBSET Nat /\ T # {}
    BY <1>3
  <2>2. Min(T) \in T
    BY <2>1, MinOf
  <2> QED
    BY <1>3, <2>2
<1>5. PICK S \in SUBSET (end..n) : S = {p \in end..n : p = n \/ line.buf[p + 1] \in WordChars} /\ n \in S
  <2>1. n \in end..n
    BY <1>4
  <2> QED
    BY <2>1
<1>6. Min(S) \in end..n
  <2>1. S \in SUBSET Nat /\ S # {}
    BY <1>4, <1>5
  <2>2. Min(S) \in S
    BY <2>1, MinOf
  <2> QED
    BY <1>5, <2>2
<1>7. WordForward(line) = Min(S)
  BY <1>1, <1>2, <1>3, <1>4, <1>5 DEF WordForward
<1>8. Min(S) \in q..n
  BY <1>4, <1>6
<1> QED
  BY <1>1, <1>2, <1>7, <1>8

LEMMA EditsAre ==
  ASSUME NEW line, LineOK(line), NEW typed, NEW d, d \in Edits(line, typed)
  PROVE  LineOK(d) /\ Edited(line, d)
<1>1. PICK q \in Nat : q = line.pos
  BY LineIs
<1>2. PICK n \in Nat : n = Len(line.buf) /\ q <= n
  BY <1>1, LineIs
<1>3. PICK left \in 0..q : left = Max({0, q - 1})
  <2>1. 0 \in Int /\ q - 1 \in Int
    OBVIOUS
  <2>2. Max({0, q - 1}) >= 0 /\ Max({0, q - 1}) \in {0, q - 1}
    BY <2>1, MaxOfTwo
  <2>3. Max({0, q - 1}) \in 0..q
    BY <2>2
  <2> QED
    BY <2>3
<1>4. PICK right \in q..n : right = Min({n, q + 1})
  <2>1. n \in Int /\ q + 1 \in Int
    OBVIOUS
  <2>2. Min({n, q + 1}) <= n /\ Min({n, q + 1}) \in {n, q + 1}
    BY <2>1, MinOfTwo
  <2>3. Min({n, q + 1}) \in q..n
    BY <1>2, <2>2
  <2> QED
    BY <2>3
<1>5. PICK back \in 0..q : back = WordBack(line)
  BY <1>1, WordBackIs
<1>6. PICK forward \in q..n : forward = WordForward(line)
  BY <1>1, <1>2, WordForwardIs
<1>7. \/ \E p \in {left, right, 0, n, back, forward} : d = MoveTo(line, p)
      \/ \E p \in {left, 0, back} : d = KillBack(line, p)
      \/ \E p \in {right, n, forward} : d = KillForward(line, p)
      \/ \E c \in typed : d = Type(line, c)
  <2>1. \/ d \in {MoveTo(line, left), MoveTo(line, right), MoveTo(line, 0), MoveTo(line, n),
                  MoveTo(line, back), MoveTo(line, forward),
                  KillBack(line, left), KillBack(line, 0), KillBack(line, back),
                  KillForward(line, right), KillForward(line, n), KillForward(line, forward)}
        \/ d \in {Type(line, c) : c \in typed}
    BY <1>1, <1>2, <1>3, <1>4, <1>5, <1>6 DEF Edits
  <2> QED
    BY <2>1
<1>8. 0 \in 0..q /\ n \in q..n
  BY <1>2
<1>9. ASSUME NEW p \in {left, right, 0, n, back, forward}, d = MoveTo(line, p)
      PROVE  LineOK(d) /\ Edited(line, d)
  <2>1. p \in 0..n
    BY <1>2, <1>9
  <2> QED
    BY <1>2, <1>9, <2>1, MoveToIs
<1>10. ASSUME NEW p \in {left, 0, back}, d = KillBack(line, p)
       PROVE  LineOK(d) /\ Edited(line, d)
  <2>1. p \in 0..q
    BY <1>8
  <2> QED
    BY <1>1, <1>10, <2>1, KillBackIs
<1>11. ASSUME NEW p \in {right, n, forward}, d = KillForward(line, p)
       PROVE  LineOK(d) /\ Edited(line, d)
  <2>1. p \in q..n
    BY <1>8
  <2> QED
    BY <1>1, <1>2, <1>11, <2>1, KillForwardIs
<1>12. ASSUME NEW c \in typed, d = Type(line, c)
       PROVE  LineOK(d) /\ Edited(line, d)
  BY <1>12, TypeIs
<1> QED
  BY <1>7, <1>9, <1>10, <1>11, <1>12

\* A key in the prompt.
LEMMA EditIs ==
  ASSUME IInv, Edit
  PROVE  LineOK(prompt') /\ InWindow(prompt') /\ prompt' # NoPrompt /\ Edited(prompt, prompt')
<1>1. LineOK(prompt)
  BY DEF IInv, PromptInv, Edit, Prompting
<1>2. PICK typed : typed = IF Len(prompt.buf) < MaxText THEN Typed ELSE {}
  OBVIOUS
<1>3. PICK line \in Edits(prompt, typed) : prompt' = Redraw(line)
  BY <1>2 DEF Edit
<1>4. LineOK(line) /\ Edited(prompt, line)
  BY <1>1, <1>3, EditsAre
<1>5. /\ LineOK(prompt') /\ InWindow(prompt') /\ prompt' # NoPrompt
      /\ prompt'.buf = line.buf /\ prompt'.pos = line.pos
  BY <1>3, <1>4, RedrawIs
<1>6. Before(prompt') = Before(line) /\ Behind(prompt') = Behind(line)
  BY <1>5 DEF Before, Behind
<1> QED
  BY <1>4, <1>5, <1>6 DEF Edited

(***************************************************************************)
(* The steps.                                                              *)
(***************************************************************************)
LEMMA LeadsKeeps ==
  ASSUME IInv, Waiting, Leads
  PROVE  IInv' /\ (ui.view = "frame" => ui'.view # "source_content")
<1>1. PICK u : ViewerOK(u) /\ Becomes(u) /\ (ui.view = "frame" => u.view # "source_content")
  BY DEF Leads
<1>2. IInv'
  BY <1>1, BecomesKeeps
<1>3. ui'.view = u.view
  <2>1. PICK h \in Nat : h = height' /\ (ui' = u \/ ui' = Draw(u, h))
    BY <1>1, ViewerAssumption DEF Becomes
  <2> QED
    BY <1>1, <2>1, DrawIs, HereIs
<1> QED
  BY <1>1, <1>2, <1>3

\* A row is opened or closed.
LEMMA OpenLeads ==
  ASSUME IInv, NEW S,
         \/ ui.view = "snapshots" /\ Becomes([ui EXCEPT !.openSnapshots = S])
         \/ ui.view = "frame" /\ Becomes([ui EXCEPT !.openFrames = S])
  PROVE  Leads
<1>1. CASE ui.view = "snapshots" /\ Becomes([ui EXCEPT !.openSnapshots = S])
  <2>1. PICK u : u = [ui EXCEPT !.openSnapshots = S]
    OBVIOUS
  <2>2. ViewerOK(u)
    BY <1>1, <2>1, OpenSnapshotsOK
  <2> QED
    BY <1>1, <2>1, <2>2 DEF Leads
<1>2. CASE ui.view = "frame" /\ Becomes([ui EXCEPT !.openFrames = S])
  <2>1. PICK u : u = [ui EXCEPT !.openFrames = S]
    OBVIOUS
  <2>2. ViewerOK(u) /\ u.view = "frame"
    BY <1>2, <2>1, HereIs, OpenFramesOK DEF Fields
  <2> QED
    BY <1>2, <2>1, <2>2 DEF Leads
<1> QED
  BY <1>1, <1>2

LEMMA ToggleLeads ==
  ASSUME IInv, ToggleSnapshot \/ ToggleFrame \/ OpenAll \/ CloseAll \/ Expand
  PROVE  Leads
<1>0. DOMAIN ui = Fields
  BY HereIs
<1>1. CASE ToggleSnapshot
  <2>1. PICK S : S = Toggled(ui.openSnapshots, Row.snapshot)
    OBVIOUS
  <2>2. ui.view = "snapshots" /\ Becomes([ui EXCEPT !.openSnapshots = S])
    BY <1>0, <1>1, <2>1 DEF ToggleSnapshot, InView, Fields
  <2> QED
    BY <2>2, OpenLeads
<1>2. CASE ToggleFrame
  <2>1. PICK S : S = Toggled(ui.openFrames, Row.frame)
    OBVIOUS
  <2>2. ui.view = "frame" /\ Becomes([ui EXCEPT !.openFrames = S])
    BY <1>0, <1>2, <2>1 DEF ToggleFrame, InView, Fields
  <2> QED
    BY <2>2, OpenLeads
<1>3. CASE OpenAll
  BY <1>3, OpenLeads DEF OpenAll, InView
<1>4. CASE CloseAll
  BY <1>4, OpenLeads DEF CloseAll, InView
<1>5. CASE Expand
  <2>1. PICK S : S = ui.openSnapshots \cup {Row.snapshot}
    OBVIOUS
  <2>2. PICK R : R = ui.openFrames \cup {Row.frame}
    OBVIOUS
  <2>3. \/ ui.view = "snapshots" /\ Becomes([ui EXCEPT !.openSnapshots = S])
        \/ ui.view = "frame" /\ Becomes([ui EXCEPT !.openFrames = R])
    BY <1>0, <1>5, <2>1, <2>2 DEF Expand, InView, Fields
  <2> QED
    BY <2>3, OpenLeads
<1> QED
  BY <1>1, <1>2, <1>3, <1>4, <1>5

LEMMA EnterLeads ==
  ASSUME IInv, EnterMain \/ EnterStack \/ EnterSource \/ Traceback \/ RunAction
  PROVE  Leads
<1>0. DOMAIN ui = Fields
  BY HereIs
<1>1. CASE EnterMain
  <2>1. PICK d : d = Push(ui, MainRows[ui.cursor + 1])
    OBVIOUS
  <2>2. ui.view = "main" /\ Becomes(d)
    BY <1>1, <2>1 DEF EnterMain, InView
  <2>3. ViewerOK(d)
    BY <2>1, <2>2, MenuOpened
  <2> QED
    BY <2>2, <2>3 DEF Leads
<1>2. CASE EnterStack
  <2>1. PICK stack : stack = <<Row.snapshot, Row.stack>>
    OBVIOUS
  <2>2. PICK u : u = [[ui EXCEPT !.stack = stack] EXCEPT !.openFrames = {}]
    OBVIOUS
  <2>3. PICK d : d = Push(u, "frame")
    OBVIOUS
  <2>4. ui.view = "snapshots" /\ OnRow("stacktrace") /\ Becomes(d)
    BY <1>2, <2>1, <2>2, <2>3 DEF EnterStack, InView, Selected
  <2>5. /\ DOMAIN u = Fields /\ u.view = ui.view /\ u.views = ui.views /\ u.cursor = ui.cursor
        /\ u.scroll = ui.scroll
    BY <1>0, <2>2 DEF Fields
  <2>6. u.text = ui.text /\ u.openSnapshots = ui.openSnapshots /\ u.stack = stack
    BY <1>0, <2>2 DEF Fields
  <2>7. ViewerOK(d)
    BY <2>1, <2>3, <2>4, <2>5, <2>6, StackOpened
  <2> QED
    BY <2>4, <2>7 DEF Leads
<1>3. CASE Traceback \/ RunAction
  <2>1. PICK stack : stack = <<Row.snapshot, Row.stack>>
    OBVIOUS
  <2>2. PICK u : u = [ui EXCEPT !.stack = stack]
    OBVIOUS
  <2>3. PICK d : d = Push(u, "traceback")
    OBVIOUS
  <2>4. ui.view = "snapshots" /\ OnRow("stacktrace") /\ (Becomes(d) \/ Becomes(u))
    BY <1>3, <2>1, <2>2, <2>3 DEF Traceback, RunAction, InView, Selected
  <2>5. /\ DOMAIN u = Fields /\ u.view = ui.view /\ u.views = ui.views /\ u.cursor = ui.cursor
        /\ u.scroll = ui.scroll
    BY <1>0, <2>2 DEF Fields
  <2>6. u.text = ui.text /\ u.openSnapshots = ui.openSnapshots /\ u.stack = stack
    BY <1>0, <2>2 DEF Fields
  <2>7. ViewerOK(d)
    BY <2>1, <2>3, <2>4, <2>5, <2>6, StackOpened
  <2>8. ViewerOK(u)
    BY <2>4, <2>5, <2>6, InMenuOK
  <2> QED
    BY <2>4, <2>7, <2>8 DEF Leads
<1>4. CASE EnterSource
  <2>1. PICK n : n = ui.cursor + 1
    OBVIOUS
  <2>2. PICK u : u = [ui EXCEPT !.source = n, !.highlight = 0]
    OBVIOUS
  <2>3. PICK view : view = "source_content"
    OBVIOUS
  <2>4. PICK d : d = Push(u, view)
    OBVIOUS
  <2>5. ui.view = "sources" /\ ui.cursor \in 0..Count(ui) - 1 /\ Becomes(d)
    BY <1>4, <2>1, <2>2, <2>3, <2>4 DEF EnterSource, InView
  <2>6. /\ DOMAIN u = Fields /\ u.view = ui.view /\ u.views = ui.views /\ u.cursor = ui.cursor
        /\ u.scroll = ui.scroll
    BY <1>0, <2>2 DEF Fields
  <2>7. u.text = ui.text /\ u.openSnapshots = ui.openSnapshots /\ u.source = n
    BY <1>0, <2>2 DEF Fields
  <2>8. ViewerOK(d)
    BY <2>1, <2>3, <2>4, <2>5, <2>6, <2>7, SourceOpened
  <2> QED
    BY <2>5, <2>8 DEF Leads
<1> QED
  BY <1>1, <1>2, <1>3, <1>4

\* Back to the view before.
LEMMA PopLeads ==
  ASSUME IInv, ui.views # <<>>, Becomes(Pop(ui))
  PROVE  Leads
<1>1. PICK d : d = Pop(ui)
  OBVIOUS
<1>2. PICK n \in Nat : n = Len(ui.views) /\ n >= 1
  <2>1. IsSequence(ui.views)
    BY HereIs DEF TrailOK
  <2>2. Len(ui.views) \in Nat /\ Len(ui.views) # 0
    BY <2>1, LenProperties, EmptySeq DEF IsSequence
  <2> QED
    BY <2>2
<1>3. ViewerOK(d)
  BY <1>1, <1>2, HereIs, PopOK
<1>4. ui.view = "frame" => d.view # "source_content"
  <2> SUFFICES ASSUME ui.view = "frame" PROVE d.view = "snapshots"
    OBVIOUS
  <2>1. BelowSnapshots(ui)
    BY HereIs, TrailIs DEF AtMain, InMenu, BelowSources, BelowFrame
  <2>2. Last(ui.views) = ui.views[2]
    BY <2>1 DEF Last, BelowSnapshots
  <2>3. d.view = ui.views[2].view
    BY <1>1, <2>2, HereIs, PopIs
  <2> QED
    BY <2>1, <2>3 DEF BelowSnapshots
<1> QED
  BY <1>1, <1>3, <1>4 DEF Leads

LEMMA NotAtMain ==
  ASSUME IInv, ui.view # "main"
  PROVE  ui.views # <<>>
<1>1. Len(ui.views) # 0
  BY HereIs, TrailIs DEF AtMain, InMenu, BelowSnapshots, BelowSources, BelowFrame
<1>2. Len(<<>>) = 0
  OBVIOUS
<1> QED
  BY <1>1, <1>2

\* The row above that a row belongs to: the first one is such a row.
LEMMA ParentIs ==
  ASSUME IInv, NEW c \in Nat, c = ui.cursor, NEW kind, Rows(ui)[1].kind = kind, Rows(ui)[c + 1].kind # kind
  PROVE  Parent(kind) \in Nat
<1>1. c # 0
  OBVIOUS
<1>2. PICK b \in Nat : b = c - 1
  <2>1. c - 1 \in Nat
    BY <1>1
  <2> QED
    BY <2>1
<1>3. PICK T \in SUBSET (0..b) : T = {n \in 0..b : Rows(ui)[n + 1].kind = kind} /\ 0 \in T
  <2>1. 0 \in 0..b /\ 0 + 1 = 1
    OBVIOUS
  <2>2. Rows(ui)[0 + 1].kind = kind
    BY <2>1
  <2> QED
    BY <2>1, <2>2
<1>4. Max(T) \in 0..b
  <2>1. T # {}
    BY <1>3
  <2>2. Max(T) \in T
    BY <2>1, MaxOf
  <2> QED
    BY <1>3, <2>2
<1>5. Parent(kind) = Max(T)
  BY <1>2, <1>3 DEF Parent
<1> QED
  BY <1>4, <1>5

LEMMA UpLeads ==
  ASSUME IInv, NEW n \in Nat, ui.view \in {"snapshots", "frame"}, Becomes([ui EXCEPT !.cursor = n])
  PROVE  Leads
<1>1. PICK u : u = [ui EXCEPT !.cursor = n]
  OBVIOUS
<1>2. Kept(ui, u) /\ u.text = ui.text /\ u.cursor = n /\ u.scroll = ui.scroll
  BY <1>1, HereIs DEF Kept, Fields
<1>3. ViewerOK(u)
  <2>1. n \in Int /\ ~(n < 0)
    OBVIOUS
  <2>2. u.cursor \in Int /\ u.scroll \in Int
    BY <1>2, <2>1, HereIs
  <2>3. ui.view # "main"
    OBVIOUS
  <2> QED
    BY <1>2, <2>1, <2>2, <2>3, HereIs, MovedIs
<1>4. u.view = ui.view
  BY <1>2 DEF Kept
<1> QED
  BY <1>1, <1>3, <1>4 DEF Leads

LEMMA LeftLeads ==
  ASSUME IInv, Left
  PROVE  Leads
<1>0. DOMAIN ui = Fields
  BY HereIs
<1>1. CASE InView({"sources"} \cup TextViews) /\ Becomes(Pop(ui))
  <2>1. ui.view # "main"
    BY <1>1 DEF InView, TextViews
  <2> QED
    BY <1>1, <2>1, NotAtMain, PopLeads
<1>2. CASE /\ InView({"snapshots"}) /\ OnRow("snapshot")
           /\ Becomes(IF Row.snapshot \in ui.openSnapshots
                      THEN [ui EXCEPT !.openSnapshots = @ \ {Row.snapshot}] ELSE Pop(ui))
  <2>1. PICK S : S = ui.openSnapshots \ {Row.snapshot}
    OBVIOUS
  <2>2. ui.view = "snapshots" /\ (Becomes([ui EXCEPT !.openSnapshots = S]) \/ Becomes(Pop(ui)))
    BY <1>0, <1>2, <2>1 DEF InView, Fields
  <2>3. ui.views # <<>>
    BY <2>2, NotAtMain
  <2> QED
    BY <2>2, <2>3, OpenLeads, PopLeads
<1>3. CASE /\ InView({"frame"}) /\ OnRow("frame")
           /\ Becomes(IF Row.frame \in ui.openFrames
                      THEN [ui EXCEPT !.openFrames = @ \ {Row.frame}] ELSE Pop(ui))
  <2>1. PICK S : S = ui.openFrames \ {Row.frame}
    OBVIOUS
  <2>2. ui.view = "frame" /\ (Becomes([ui EXCEPT !.openFrames = S]) \/ Becomes(Pop(ui)))
    BY <1>0, <1>3, <2>1 DEF InView, Fields
  <2>3. ui.views # <<>>
    BY <2>2, NotAtMain
  <2> QED
    BY <2>2, <2>3, OpenLeads, PopLeads
<1>4. CASE InView({"snapshots"}) /\ OnRow("stacktrace") /\ Becomes([ui EXCEPT !.cursor = Parent("snapshot")])
  <2>1. ui.view = "snapshots" /\ OnRow("stacktrace")
    BY <1>4 DEF InView
  <2>2. /\ Rows(ui) = SnapshotRows(ui) /\ ui.cursor \in 0..Len(SnapshotRows(ui)) - 1
        /\ Row = SnapshotRows(ui)[ui.cursor + 1] /\ Row.kind = "stacktrace" /\ Len(SnapshotRows(ui)) \in Nat
    BY <2>1, TreeRowIs
  <2>3. PICK c \in Nat : c = ui.cursor
    BY <2>2
  <2>4. file.snapshots # <<>>
    <3>1. file.snapshots = <<>> => SnapshotRows(ui) = <<>>
      BY HereIs, SnapshotRowsAre
    <3>2. Len(<<>>) = 0
      OBVIOUS
    <3>3. Len(SnapshotRows(ui)) # 0
      BY <2>2
    <3> QED
      BY <3>1, <3>2, <3>3
  <2>5. Rows(ui)[1].kind = "snapshot"
    BY <2>2, <2>4, HereIs, SnapshotRowsAre
  <2>6. Rows(ui)[c + 1].kind # "snapshot"
    BY <2>2, <2>3
  <2>7. PICK n \in Nat : n = Parent("snapshot")
    BY <2>3, <2>5, <2>6, ParentIs
  <2> QED
    BY <1>4, <2>1, <2>7, UpLeads
<1>5. CASE InView({"frame"}) /\ OnRow("local") /\ Becomes([ui EXCEPT !.cursor = Parent("frame")])
  <2>1. ui.view = "frame" /\ OnRow("local")
    BY <1>5 DEF InView
  <2>2. /\ Rows(ui) = FrameRows(ui) /\ ui.cursor \in 0..Len(FrameRows(ui)) - 1
        /\ Row = FrameRows(ui)[ui.cursor + 1] /\ Row.kind = "local" /\ IsStacktrace(Stack(ui))
    BY <2>1, FrameRowIs
  <2>3. PICK m \in Nat : m = Len(FrameRows(ui))
    BY <2>2, FrameRowsAre, LenProperties
  <2>4. PICK c \in Nat : c = ui.cursor /\ m # 0
    BY <2>2, <2>3
  <2>5. Stack(ui).frames # <<>>
    <3>1. Stack(ui).frames = <<>> => FrameRows(ui) = <<>>
      BY <2>2, FrameRowsAre
    <3>2. Len(<<>>) = 0
      OBVIOUS
    <3> QED
      BY <2>3, <2>4, <3>1, <3>2
  <2>6. Rows(ui)[1].kind = "frame"
    BY <2>2, <2>5, FrameRowsAre
  <2>7. Rows(ui)[c + 1].kind # "frame"
    BY <2>2, <2>4
  <2>8. PICK n \in Nat : n = Parent("frame")
    BY <2>4, <2>6, <2>7, ParentIs
  <2> QED
    BY <1>5, <2>1, <2>8, UpLeads
<1>6. CASE InView({"snapshots", "frame"}) /\ ui.cursor >= Count(ui) /\ Becomes(Pop(ui))
  <2>1. ui.view # "main"
    BY <1>6 DEF InView
  <2> QED
    BY <1>6, <2>1, NotAtMain, PopLeads
<1> QED
  BY <1>1, <1>2, <1>3, <1>4, <1>5, <1>6 DEF Left

(***************************************************************************)
(* The prompt opens and closes.                                            *)
(***************************************************************************)
LEMMA StartPromptKeeps ==
  ASSUME IInv, Waiting, NEW u, ViewerOK(u), u.view # "frame", NEW what, StartPrompt(u, what)
  PROVE  IInv' /\ prompt = NoPrompt
<1>1. PICK line : line = [buf |-> DefaultPath, pos |-> Len(DefaultPath), offset |-> 0]
  OBVIOUS
<1>2. LineOK(line)
  <2>1. IsSequence(DefaultPath)
    BY ViewerAssumption
  <2>2. Len(DefaultPath) \in Nat
    BY <2>1, LenProperties DEF IsSequence
  <2>3. Len(DefaultPath) \in 0..Len(DefaultPath) /\ 0 \in Nat
    BY <2>2
  <2> QED
    BY <1>1, <2>1, <2>3 DEF LineOK
<1>3. prompt' = Redraw(line)
  BY <1>1 DEF StartPrompt, Prompt
<1>4. LineOK(prompt') /\ InWindow(prompt') /\ prompt' # NoPrompt
  BY <1>2, <1>3, RedrawIs
<1>5. PromptInv'
  <2>1. LineOK(prompt)' /\ InWindow(prompt)'
    BY <1>4 DEF LineOK, InWindow
  <2> QED
    BY <2>1 DEF PromptInv
<1>6. ui' = u /\ file' = file /\ height' = height /\ ended' = "no"
  BY DEF StartPrompt, Waiting
<1>7. ViewerOK(ui)'
  BY <1>6, PrimedIs
<1>8. ViewerInv'
  BY <1>4, <1>6, <1>7, HereIs DEF IInv, ViewerInv
<1> QED
  BY <1>5, <1>8 DEF IInv, Waiting

LEMMA ExtractKeeps ==
  ASSUME IInv, Extract
  PROVE  IInv' /\ prompt = NoPrompt /\ ui.view # "frame"
<1>0. DOMAIN ui = Fields /\ ViewerOK(ui)
  BY HereIs
<1>1. Waiting /\ ui.view \in {"sources", "source_content"} /\ ui.view # "frame"
  BY DEF Extract, InView
<1>2. CASE \E what : StartPrompt(ui, what)
  BY <1>0, <1>1, <1>2, StartPromptKeeps
<1>3. CASE ui.view = "sources" /\ StartPrompt([ui EXCEPT !.source = ui.cursor + 1], "one")
  <2>1. PICK u : u = [ui EXCEPT !.source = ui.cursor + 1]
    OBVIOUS
  <2>2. /\ DOMAIN u = Fields /\ u.view = ui.view /\ u.views = ui.views /\ u.cursor = ui.cursor
        /\ u.scroll = ui.scroll /\ u.text = ui.text /\ u.openSnapshots = ui.openSnapshots
    BY <1>0, <2>1 DEF Fields
  <2>3. ViewerOK(u)
    BY <1>3, <2>2, InMenuOK
  <2> QED
    BY <1>1, <1>3, <2>1, <2>2, <2>3, StartPromptKeeps
<1> QED
  BY <1>1, <1>2, <1>3 DEF Extract, InView

LEMMA EndPromptKeeps ==
  ASSUME IInv, EndPrompt
  PROVE  IInv' /\ ui'.view = ui.view /\ prompt' = NoPrompt
<1>1. /\ ended' # "crashed" /\ file' = file /\ height' \in Heights
      /\ ui' = Draw(ui, height') /\ prompt' = NoPrompt
  BY DEF EndPrompt, Prompting
<1>2. ViewerInv'
  BY <1>1, HereIs, BecomesIs DEF IInv
<1>3. PromptInv'
  BY <1>1 DEF PromptInv
<1>4. ui'.view = ui.view
  <2>1. PICK h \in Nat : h = height' /\ ui' = Draw(ui, h)
    BY <1>1, ViewerAssumption
  <2> QED
    BY <2>1, DrawIs, HereIs
<1> QED
  BY <1>1, <1>2, <1>3, <1>4 DEF IInv

LEMMA SameKeeps ==
  ASSUME IInv, file' = file, ui' = ui, height' = height, prompt' = prompt,
         ended' = "no" => ended = "no", ended' = "crashed" => CrashOK(ui)
  PROVE  IInv'
<1>1. ViewerInv'
  BY SameViewer DEF IInv
<1>2. PromptInv'
  BY DEF IInv, PromptInv, LineOK, InWindow
<1> QED
  BY <1>1, <1>2 DEF IInv

LEMMA EditKeeps ==
  ASSUME IInv, Edit
  PROVE  IInv'
<1>1. LineOK(prompt') /\ InWindow(prompt') /\ prompt' # NoPrompt
  BY EditIs
<1>2. PromptInv'
  <2>1. LineOK(prompt)' /\ InWindow(prompt)'
    BY <1>1 DEF LineOK, InWindow
  <2> QED
    BY <2>1 DEF PromptInv
<1>3. file' = file /\ ui' = ui /\ height' = height /\ ended' = ended /\ ended = "no"
  BY DEF Edit, Prompting
<1>4. ViewerInv'
  BY <1>1, <1>3, SameViewer DEF IInv
<1> QED
  BY <1>2, <1>4 DEF IInv

\* A file is opened from the list of frames by ViewFile only.
LEMMA StepIs ==
  ASSUME IInv, Next
  PROVE  /\ IInv'
         /\ ui.view = "frame" /\ ui'.view = "source_content" => ViewFile
         /\ prompt # NoPrompt /\ prompt' # NoPrompt => Edit
<1>1. ASSUME Waiting, Leads
      PROVE  /\ IInv'
             /\ ui.view = "frame" /\ ui'.view = "source_content" => ViewFile
             /\ prompt # NoPrompt /\ prompt' # NoPrompt => Edit
  BY <1>1, LeadsKeeps DEF Waiting
<1>2. CASE Down \/ Up \/ Home \/ End \/ PageUp \/ PageDown
  <2>1. Leads
    BY <1>2, MoveLeads
  <2>2. Waiting
    BY <1>2 DEF Down, Up, Home, End, PageUp, PageDown, ScrollTo, PointTo
  <2> QED
    BY <1>1, <2>1, <2>2
<1>3. CASE IndexError \/ ViewFileFails
  <2>1. ui.view \in {"snapshots", "frame", "sources"} /\ Waiting
    BY <1>3 DEF IndexError, ViewFileFails, InView
  <2>2. file' = file /\ ui' = ui /\ height' = height /\ prompt' = prompt /\ ended' = "crashed"
    BY <1>3 DEF IndexError, ViewFileFails, Crash
  <2>3. CrashOK(ui)
    <3>1. CASE IndexError
      <4>1. ui.view \in ListViews /\ ui.view \notin TextViews /\ ui.cursor < 0
        BY <2>1, <3>1 DEF IndexError, ListViews, TextViews
      <4>2. Count(ui) = 0
        BY <4>1, HereIs
      <4>3. ~(Count(ui) > 0) /\ ui.view # "traceback"
        BY <2>1, <4>2
      <4> QED
        BY <4>1, <4>2, <4>3 DEF CrashOK
    <3>2. CASE ViewFileFails
      <4>1. /\ ui.view = "frame" /\ ui.cursor \in 0..Count(ui) - 1
            /\ CannotDecode(Stack(ui).frames[Rows(ui)[ui.cursor + 1].frame].path)
        BY <3>2 DEF ViewFileFails, InView, OnRow, Row
      <4>2. Count(ui) > 0
        BY <4>1, HereIs
      <4> QED
        BY <4>1, <4>2 DEF CrashOK
    <3> QED
      BY <1>3, <3>1, <3>2
  <2>4. IInv'
    BY <2>2, <2>3, SameKeeps
  <2> QED
    BY <2>1, <2>2, <2>4 DEF Waiting
<1>4. CASE EnterMain \/ EnterStack \/ EnterSource \/ Traceback \/ RunAction
  <2>1. Leads
    BY <1>4, EnterLeads
  <2>2. Waiting
    BY <1>4 DEF EnterMain, EnterStack, EnterSource, Traceback, RunAction, InView
  <2> QED
    BY <1>1, <2>1, <2>2
<1>5. CASE ToggleSnapshot \/ ToggleFrame \/ OpenAll \/ CloseAll \/ Expand
  <2>1. Leads
    BY <1>5, ToggleLeads
  <2>2. Waiting
    BY <1>5 DEF ToggleSnapshot, ToggleFrame, OpenAll, CloseAll, Expand, InView
  <2> QED
    BY <1>1, <2>1, <2>2
<1>6. CASE Back
  <2>1. Waiting
    BY <1>6 DEF Back
  <2>2. CASE ui.views # <<>>
    <3>1. Becomes(Pop(ui))
      BY <1>6, <2>2 DEF Back
    <3>2. Leads
      BY <2>2, <3>1, PopLeads
    <3> QED
      BY <1>1, <2>1, <3>2
  <2>3. CASE ui.views = <<>>
    <3>1. ended' = "quit" /\ file' = file /\ ui' = ui /\ height' = height /\ prompt' = prompt
      BY <1>6, <2>3 DEF Back
    <3>2. IInv'
      BY <3>1, SameKeeps
    <3> QED
      BY <2>1, <3>1, <3>2 DEF Waiting
  <2> QED
    BY <2>2, <2>3
<1>7. CASE Left
  <2>1. Leads
    BY <1>7, LeftLeads
  <2>2. Waiting
    BY <1>7 DEF Left, InView
  <2> QED
    BY <1>1, <2>1, <2>2
<1>8. CASE ViewFile
  <2>1. Waiting
    BY <1>8 DEF ViewFile, InView
  <2>2. PICK u, path, line : ViewerOK(u) /\ Becomes(u) /\ FileOf(u, path, line)
    BY <1>8, FileOpened
  <2>3. IInv'
    BY <2>1, <2>2, BecomesKeeps
  <2> QED
    BY <1>8, <2>1, <2>3 DEF Waiting
<1>9. CASE Extract
  BY <1>9, ExtractKeeps
<1>10. CASE Edit
  <2>1. IInv'
    BY <1>10, EditKeeps
  <2>2. ui' = ui
    BY <1>10 DEF Edit
  <2> QED
    BY <1>10, <2>1, <2>2
<1>11. CASE Accept \/ Cancel
  <2>1. EndPrompt
    BY <1>11 DEF Accept, Cancel
  <2> QED
    BY <2>1, EndPromptKeeps
<1> QED
  BY <1>2, <1>3, <1>4, <1>5, <1>6, <1>7, <1>8, <1>9, <1>10, <1>11 DEF Next

LEMMA InitIs ==
  ASSUME Init
  PROVE  IInv
<1>1. /\ ui = [view |-> "main", cursor |-> 0, scroll |-> 0, views |-> <<>>, text |-> NoText,
               stack |-> NoStack, openSnapshots |-> {}, openFrames |-> {}, source |-> 0,
               highlight |-> 0]
      /\ file \in Files /\ height \in Heights /\ prompt = NoPrompt /\ ended = "no"
  BY DEF Init
<1>2. DOMAIN ui = Fields
  BY <1>1 DEF Fields
<1>3. /\ ui.view = "main" /\ ui.cursor = 0 /\ ui.scroll = 0 /\ ui.views = <<>> /\ ui.text = NoText
  BY <1>1
<1>4. Len(ui.views) = 0 /\ IsSequence(ui.views) /\ DOMAIN ui.views = {}
  <2>1. <<>> \in Seq({}) /\ Len(<<>>) = 0 /\ DOMAIN <<>> = {}
    BY EmptySeq
  <2>2. IsSequence(<<>>)
    BY <2>1, IsASequence
  <2> QED
    BY <1>3, <2>1, <2>2
<1>5. TrailOK(ui)
  <2>1. ViewAt(ui, 1) = "main"
    BY <1>3, <1>4 DEF ViewAt
  <2> QED
    BY <1>3, <1>4, <2>1 DEF TrailOK
<1>6. PlaceOK(ui)
  BY <1>4 DEF PlaceOK
<1>7. CursorOK(ui) /\ TextOK(ui)
  BY <1>3 DEF CursorOK, TextOK, TextViews
<1>8. ViewerOK(ui)
  BY <1>2, <1>3, <1>5, <1>6, <1>7 DEF ViewerOK
<1>9. Shows(ui, height)
  <2>1. PICK h \in Nat : h = height
    BY <1>1, ViewerAssumption
  <2>2. Shows(ui, h)
    <3>1. ui.view \notin TextViews /\ ui.view # "frame"
      BY <1>3 DEF TextViews
    <3>2. Count(ui) = 6
      <4>1. 0 \in 0..5
        OBVIOUS
      <4> QED
        BY <1>3, <3>1, <4>1, MainRowsAre DEF Count, Rows
    <3>3. h >= 4 => 0 \in 0..6 - 1 /\ 0 \in 0..0 + (h - 2) - 1
      OBVIOUS
    <3> QED
      BY <1>3, <3>1, <3>2, <3>3 DEF Shows
  <2> QED
    BY <2>1, <2>2
<1>10. ViewerInv
  BY <1>1, <1>8, <1>9, ViewerAssumption DEF ViewerInv
<1>11. PromptInv
  BY <1>1 DEF PromptInv
<1> QED
  BY <1>10, <1>11 DEF IInv

\* The viewer stays in a good state: the views that were left lead to the one on
\* show, the rows at which they were left are those of what is shown, and the
\* prompt's cursor is in its text and its window.
THEOREM Invariance == Spec => []IInv
<1>1. Init => IInv
  BY InitIs
<1>2. IInv /\ [Next]_vars => IInv'
  <2> SUFFICES ASSUME IInv, [Next]_vars PROVE IInv'
    OBVIOUS
  <2>1. CASE Next
    BY <2>1, StepIs
  <2>2. CASE UNCHANGED vars
    <3>1. file' = file /\ ui' = ui /\ height' = height /\ prompt' = prompt /\ ended' = ended
      BY <2>2 DEF vars
    <3>2. ended = "crashed" => CrashOK(ui)
      BY DEF IInv, ViewerInv
    <3> QED
      BY <3>1, <3>2, SameKeeps
  <2> QED
    BY <2>1, <2>2
<1> QED
  BY <1>1, <1>2, PTL DEF Spec

\* Whatever was open or scrolled before and however the terminal was resized, the
\* row at the cursor is on the screen, a text is not scrolled past its end, and
\* only a key in a list without rows, or a file on disk that cannot be decoded,
\* ends the viewer with an exception.
THEOREM OnScreenCorrect == Spec => []OnScreen
<1>1. IInv => OnScreen
  <2> SUFFICES ASSUME IInv PROVE OnScreen
    OBVIOUS
  <2>1. prompt = NoPrompt /\ ended = "no" => Shows(ui, height)
    BY DEF IInv, ViewerInv
  <2>2. ended = "crashed" => CrashOK(ui)
    BY DEF IInv, ViewerInv
  <2> QED
    BY <2>1, <2>2 DEF OnScreen, Shows, InText, CrashOK, Row
<1> QED
  BY <1>1, Invariance, PTL

\* A view that was left.
LEMMA SavedIs ==
  ASSUME IInv, NEW n \in DOMAIN ui.views
  PROVE  /\ Saved(n).view = ui.views[n].view /\ Saved(n).cursor = ui.views[n].cursor
         /\ SnapshotRows(Saved(n)) = SnapshotRows(ui) /\ FrameRows(Saved(n)) = FrameRows(ui)
<1>0. IsSequence(ui.views) /\ DOMAIN ui = Fields
  BY HereIs DEF TrailOK
<1>1. n # 0
  BY <1>0 DEF IsSequence
<1>2. PICK d : d = Saved(n)
  OBVIOUS
<1>3. d = [ui EXCEPT !.view = ui.views[n].view, !.cursor = ui.views[n].cursor]
  BY <1>1, <1>2 DEF Saved
<1>4. d.view = ui.views[n].view /\ d.cursor = ui.views[n].cursor
  BY <1>0, <1>3 DEF Fields
<1>5. d.stack = ui.stack /\ d.openSnapshots = ui.openSnapshots /\ d.openFrames = ui.openFrames
  BY <1>0, <1>3 DEF Fields
<1>6. SnapshotRows(d) = SnapshotRows(ui)
  BY <1>5 DEF SnapshotRows
<1>7. Stack(d) = Stack(ui)
  BY <1>5 DEF Stack
<1>8. FrameRows(d) = FrameRows(ui)
  BY <1>5, <1>7 DEF FrameRows
<1> QED
  BY <1>2, <1>4, <1>6, <1>8

\* The way back leads to where each view was opened: whatever was done in the
\* views below, the rows of the views above still are those of what is shown.
THEOREM BackToOriginCorrect == Spec => []BackToOrigin
<1>1. IInv => BackToOrigin
  <2> SUFFICES ASSUME IInv, NEW n \in DOMAIN ui.views
               PROVE  LET left == Saved(n)
                          next == IF n = Len(ui.views) THEN ui ELSE Saved(n + 1)
                          row == Rows(left)[left.cursor + 1]
                      IN  CASE left.view = "main" -> next.view = row
                            [] left.view = "snapshots" ->
                                 row.kind = "stacktrace" /\ ui.stack = <<row.snapshot, row.stack>>
                            [] left.view = "frame" ->
                                 /\ ui.text.shows = Stack(ui).frames[row.frame].path
                                 /\ ui.highlight = Stack(ui).frames[row.frame].line
                            [] left.view = "sources" ->
                                 ui.text.lines > 0 => ui.text.shows = row /\ ui.source = left.cursor + 1
    BY DEF BackToOrigin
  <2>1. PICK left : left = Saved(n)
    OBVIOUS
  <2>2. PICK next : next = IF n = Len(ui.views) THEN ui ELSE Saved(n + 1)
    OBVIOUS
  <2>3. PICK row : row = Rows(left)[left.cursor + 1]
    OBVIOUS
  <2>4. /\ left.view = ui.views[n].view /\ left.cursor = ui.views[n].cursor
        /\ SnapshotRows(left) = SnapshotRows(ui) /\ FrameRows(left) = FrameRows(ui)
    BY <2>1, SavedIs
  <2>5. PICK m \in Nat : m = Len(ui.views) /\ DOMAIN ui.views = 1..m /\ m <= 3
    <3>1. IsSequence(ui.views) /\ Len(ui.views) <= 3
      BY HereIs DEF TrailOK
    <3> QED
      BY <3>1, LenProperties DEF IsSequence
  <2>6. n \in 1..m
    BY <2>5
  <2>7. AtMain(ui) \/ InMenu(ui) \/ BelowSnapshots(ui) \/ BelowSources(ui) \/ BelowFrame(ui)
    BY HereIs, TrailIs
  <2>8. PlaceOK(ui) /\ TrailOK(ui)
    BY HereIs DEF ViewerOK
  <2>9. n = 1 \/ n = 2 \/ n = 3
    <3>1. \A k \in Nat : k >= 1 /\ k <= 3 => k = 1 \/ k = 2 \/ k = 3
      OBVIOUS
    <3>2. n \in Nat /\ n >= 1 /\ n <= 3
      BY <2>5, <2>6
    <3> QED
      BY <3>1, <3>2
  <2>10. ASSUME n = 1
         PROVE  left.view = "main" /\ next.view = row
    <3>1. left.view = "main"
      BY <2>4, <2>5, <2>6, <2>7, <2>10 DEF AtMain, InMenu, BelowSnapshots, BelowSources, BelowFrame
    <3>2. m >= 1
      BY <2>6, <2>10
    <3>3. ViewAt(ui, 2) = MainRows[left.cursor + 1]
      BY <2>4, <2>5, <2>8, <2>10, <3>2 DEF TrailOK
    <3>4. row = MainRows[left.cursor + 1]
      BY <2>3, <3>1 DEF Rows
    <3>5. next.view = ViewAt(ui, 2)
      <4>1. CASE m = 1
        BY <2>2, <2>5, <2>10, <4>1 DEF ViewAt
      <4>2. CASE m # 1
        <5>1. 2 \in DOMAIN ui.views /\ n + 1 = 2 /\ 2 # m + 1
          <6>1. \A k \in Nat : k >= 1 /\ k # 1 => 2 \in 1..k /\ 2 # k + 1
            OBVIOUS
          <6>2. 2 \in 1..m /\ 2 # m + 1
            BY <3>2, <4>2, <6>1
          <6>3. 1 + 1 = 2
            OBVIOUS
          <6> QED
            BY <2>5, <2>10, <6>2, <6>3
        <5>2. next = Saved(2)
          BY <2>2, <2>5, <2>10, <4>2, <5>1
        <5>3. Saved(2).view = ui.views[2].view
          BY <5>1, SavedIs
        <5> QED
          BY <2>5, <5>1, <5>2, <5>3 DEF ViewAt
      <4> QED
        BY <4>1, <4>2
    <3> QED
      BY <3>1, <3>3, <3>4, <3>5
  <2>11. ASSUME n = 2
         PROVE  \/ /\ left.view = "snapshots"
                   /\ row.kind = "stacktrace" /\ ui.stack = <<row.snapshot, row.stack>>
                \/ /\ left.view = "sources"
                   /\ ui.text.lines > 0 => ui.text.shows = row /\ ui.source = left.cursor + 1
    <3>1. m >= 2 /\ left.view = ui.views[2].view /\ left.cursor = ui.views[2].cursor
      BY <2>4, <2>6, <2>11
    <3>2. left.view \in {"snapshots", "sources"}
      BY <2>5, <2>7, <3>1 DEF AtMain, InMenu, BelowSnapshots, BelowSources, BelowFrame
    <3>3. CASE left.view = "snapshots"
      <4>1. AtStack(ui, left.cursor)
        BY <2>5, <2>8, <3>1, <3>3 DEF PlaceOK
      <4>2. row = SnapshotRows(ui)[left.cursor + 1]
        BY <2>3, <2>4, <3>3 DEF Rows
      <4> QED
        BY <3>3, <4>1, <4>2 DEF AtStack
    <3>4. CASE left.view = "sources"
      <4>1. AtSource(ui, left.cursor)
        BY <2>5, <2>8, <3>1, <3>4 DEF PlaceOK
      <4>2. row = file.sources[left.cursor + 1]
        BY <2>3, <3>4 DEF Rows
      <4>3. ui.source = left.cursor + 1 /\ (ui.text = NoText \/ ui.text = SourceText(row))
        BY <4>1, <4>2 DEF AtSource
      <4>4. ui.text.lines > 0 => ui.text.shows = row
        BY <4>3 DEF NoText, SourceText
      <4> QED
        BY <3>4, <4>3, <4>4
    <3> QED
      BY <3>2, <3>3, <3>4
  <2>12. ASSUME n = 3
         PROVE  /\ left.view = "frame"
                /\ ui.text.shows = Stack(ui).frames[row.frame].path
                /\ ui.highlight = Stack(ui).frames[row.frame].line
    <3>1. m = 3 /\ left.view = ui.views[3].view /\ left.cursor = ui.views[3].cursor
      <4>1. \A k \in Nat : 3 \in 1..k /\ k <= 3 => k = 3
        OBVIOUS
      <4>2. m = 3
        BY <2>5, <2>6, <2>12, <4>1
      <4> QED
        BY <2>4, <2>12, <4>2
    <3>2. left.view = "frame"
      BY <2>5, <2>7, <3>1 DEF AtMain, InMenu, BelowSnapshots, BelowSources, BelowFrame
    <3>3. AtFrame(ui, left.cursor)
      BY <2>5, <2>8, <3>1 DEF PlaceOK
    <3>4. row = FrameRows(ui)[left.cursor + 1]
      BY <2>3, <2>4, <3>2 DEF Rows
    <3> QED
      BY <3>2, <3>3, <3>4 DEF AtFrame, SourceText
  <2> QED
    BY <2>1, <2>2, <2>3, <2>9, <2>10, <2>11, <2>12
<1> QED
  BY <1>1, Invariance, PTL

\* A text that is drawn at a line shows it.
LEMMA LineShown ==
  ASSUME NEW line \in Nat, NEW lines \in Nat, line <= lines,
         NEW s \in Nat, s >= line + 1 - Center, s <= line + 1,
         NEW rows \in Int, rows > Center,
         NEW n, n = lines + 2, NEW x, x = Scrolled(s, n, rows)
  PROVE  line + 1 \in x..x + rows - 1
<1>1. Center \in Nat
  BY ViewerAssumption
<1>2. CASE n <= rows
  <2>1. x = Max({0, 0})
    BY <1>2 DEF Scrolled
  <2>2. 0 \in Int
    OBVIOUS
  <2>3. Max({0, 0}) \in {0, 0}
    BY <2>2, MaxOfTwo
  <2>4. x = 0
    BY <2>1, <2>3
  <2> QED
    BY <1>2, <2>4
<1>3. CASE ~(n <= rows)
  <2>1. PICK k \in Int : k = n - rows
    OBVIOUS
  <2>2. PICK m \in Int : m = Min({s, k}) /\ m <= s /\ m \in {s, k}
    <3>1. s \in Int /\ k \in Int
      OBVIOUS
    <3> QED
      BY <3>1, MinOfTwo
  <2>3. m >= 0 /\ k > 0
    BY <1>3, <2>1, <2>2
  <2>4. PICK y \in Int : y = Max({0, m}) /\ y >= m /\ y \in {0, m}
    <3>1. 0 \in Int /\ m \in Int
      OBVIOUS
    <3> QED
      BY <3>1, MaxOfTwo
  <2>5. x = y
    BY <1>3, <2>1, <2>2, <2>4 DEF Scrolled
  <2>6. x = m
    BY <2>3, <2>4, <2>5
  <2> QED
    BY <1>1, <2>1, <2>2, <2>6
<1> QED
  BY <1>2, <1>3

\* A frame's file is opened at its line, on a terminal with more rows than there
\* are above that line.
THEOREM OpensAtLineCorrect == Spec => OpensAtLine
<1> DEFINE P == /\ ui.view = "frame" /\ ui'.view = "source_content"
                /\ height' - 2 > Center /\ ui'.highlight <= LinesOf[ui'.text.shows]
                => ui'.highlight + 1 \in ui'.scroll..ui'.scroll + height' - 3
<1>1. IInv /\ [Next]_vars => [P]_vars
  <2> SUFFICES ASSUME IInv, Next, ui.view = "frame", ui'.view = "source_content",
                      height' - 2 > Center, ui'.highlight <= LinesOf[ui'.text.shows]
               PROVE  ui'.highlight + 1 \in ui'.scroll..ui'.scroll + height' - 3
    OBVIOUS
  <2>1. ViewFile
    BY StepIs
  <2>2. PICK u, path, line : ViewerOK(u) /\ Becomes(u) /\ FileOf(u, path, line)
    BY <2>1, FileOpened
  <2>3. PICK h \in Nat : h = height' /\ ui' = Draw(u, h)
    BY <2>2, ViewerAssumption DEF Becomes, Undrawable, FileOf
  <2>4. line \in Nat /\ LinesOf[path] \in Nat
    BY <2>2 DEF FileOf
  <2>5. PICK lines \in Nat : lines = LinesOf[path]
    BY <2>4
  <2>6. /\ u.view = "source_content" /\ u.text = SourceText(path) /\ u.highlight = line
        /\ u.scroll = LineAt(line, lines)
    BY <2>2, <2>5 DEF FileOf
  <2>7. PICK s \in Nat : s = u.scroll
    BY <2>4, <2>6, LineAtIs
  <2>8. PICK rows \in Int : rows = h - 2
    OBVIOUS
  <2>9. Center \in Nat /\ rows > Center /\ h >= 3
    <3>1. PICK c \in Nat : c = Center
      BY ViewerAssumption
    <3>2. h - 2 > c
      BY <2>3, <3>1
    <3>3. h >= 3
      BY <3>2
    <3> QED
      BY <2>8, <3>1, <3>2, <3>3
  <2>10. ui' = DrawText(u, rows)
    <3>1. u.view \in TextViews /\ u.view # "frame" /\ u.view \notin {"snapshots", "sources"} /\ ~(h < 3)
      BY <2>6, <2>9 DEF TextViews
    <3> QED
      BY <2>3, <2>8, <2>9, <3>1 DEF Draw
  <2>11. PICK text : text = SourceText(path)
    OBVIOUS
  <2>12. PICK n \in Nat : n = lines + 2
    OBVIOUS
  <2>13. n = text.lines /\ text.shows = path /\ n # 0
    BY <2>5, <2>11, <2>12 DEF SourceText
  <2>14. text = TextDrawnOf(u)
    BY <2>6, <2>11, <2>13 DEF TextDrawnOf
  <2>15. DOMAIN u = Fields
    BY <2>2 DEF ViewerOK
  <2>16. Kept(u, ui') /\ ui'.text = text /\ ui'.scroll = Scrolled(s, n, rows)
    BY <2>7, <2>10, <2>13, <2>14, <2>15, DrawTextIs
  <2>17. ui'.highlight = line /\ line <= lines
    BY <2>5, <2>6, <2>13, <2>16 DEF Kept
  <2>18. s >= line + 1 - Center /\ s <= line + 1
    BY <2>4, <2>6, <2>7, <2>17, LineAtIs
  <2>19. PICK x : x = Scrolled(s, n, rows)
    OBVIOUS
  <2>20. line + 1 \in x..x + rows - 1
    BY <2>4, <2>9, <2>12, <2>17, <2>18, <2>19, LineShown
  <2>21. x \in Int /\ rows = height' - 2 /\ h \in Int
    <3>1. IInv'
      BY StepIs
    <3>2. ViewerOK(ui)'
      BY <3>1 DEF IInv, ViewerInv
    <3>3. ui'.scroll \in Int
      BY <3>2 DEF ViewerOK
    <3> QED
      BY <2>3, <2>8, <2>16, <2>19, <3>3
  <2>22. x + rows - 1 = x + height' - 3
    BY <2>3, <2>8, <2>21
  <2> QED
    BY <2>16, <2>17, <2>19, <2>20, <2>22
<1>2. Spec => [][P]_vars
  BY <1>1, Invariance, PTL DEF Spec
<1> QED
  BY <1>2 DEF OpensAtLine

\* A key in the prompt changes the text next to the cursor only, on one side of
\* it, and leaves the cursor in the text and in the window.
THEOREM EditsAtCursorCorrect == Spec => EditsAtCursor
<1> DEFINE P == prompt # NoPrompt /\ prompt' # NoPrompt =>
       /\ prompt'.pos \in 0..Len(prompt'.buf)
       /\ prompt'.pos \in prompt'.offset..prompt'.offset + FieldWidth - 1
       /\ \/ prompt'.buf = prompt.buf
          \/ Behind(prompt') = Behind(prompt) /\ IsPrefix(Before(prompt'), Before(prompt))
          \/ Before(prompt') = Before(prompt) /\ IsSuffix(Behind(prompt'), Behind(prompt))
          \/ Behind(prompt') = Behind(prompt) /\ Front(Before(prompt')) = Before(prompt)
<1>1. IInv /\ [Next]_vars => [P]_vars
  <2> SUFFICES ASSUME IInv, Next, prompt # NoPrompt, prompt' # NoPrompt
               PROVE  /\ prompt'.pos \in 0..Len(prompt'.buf)
                      /\ prompt'.pos \in prompt'.offset..prompt'.offset + FieldWidth - 1
                      /\ Edited(prompt, prompt')
    BY DEF Edited
  <2>1. Edit
    BY StepIs
  <2>2. LineOK(prompt') /\ InWindow(prompt') /\ Edited(prompt, prompt')
    BY <2>1, EditIs
  <2> QED
    BY <2>2 DEF LineOK, InWindow
<1>2. Spec => [][P]_vars
  BY <1>1, Invariance, PTL DEF Spec
<1> QED
  BY <1>2 DEF EditsAtCursor

=============================================================================
