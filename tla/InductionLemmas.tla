-------------------------- MODULE InductionLemmas --------------------------
(***************************************************************************)
(* Induction over the naturals for a set, functions defined by iteration,  *)
(* and what follows for the folds of the community modules: how the sum of *)
(* a function changes when one of its values does.                         *)
(***************************************************************************)
EXTENDS Sequences, Functions, FiniteSetTheorems, TLAPS

\* A set of naturals has a least element.
LEMMA LeastExists ==
  ASSUME NEW T \in SUBSET Nat, T # {}
  PROVE  \E n \in T : \A m \in T : n <= m
<1> DEFINE R == OpToRel(<, Nat)
<1>1. IsWellFoundedOn(R, Nat)
  BY NatLessThanWellFounded
<1>2. PICK n \in T : \A m \in T : ~(<<m, n>> \in R)
  <2> HIDE DEF R
  <2> QED  BY <1>1, WFMin
<1>3. ASSUME NEW m \in T  PROVE n <= m
  <2>1. ~(<<m, n>> \in R)
    BY <1>2, <1>3
  <2>2. ~(m < n)
    BY <2>1 DEF OpToRel
  <2> QED  BY <2>2
<1> QED  BY <1>3

\* Induction: a set with 0 and the successor of each of its elements.
LEMMA SetInduction ==
  ASSUME NEW S, 0 \in S, \A n \in Nat : n \in S => n + 1 \in S
  PROVE  \A n \in Nat : n \in S
<1> SUFFICES ASSUME NEW k \in Nat, k \notin S  PROVE FALSE
  OBVIOUS
<1> DEFINE T == {n \in Nat : n \notin S}
<1>1. PICK n \in T : \A m \in T : n <= m
  <2>1. T \in SUBSET Nat /\ T # {}
    OBVIOUS
  <2> HIDE DEF T
  <2> QED  BY <2>1, LeastExists
<1>2. n # 0 /\ n \in Nat
  OBVIOUS
<1>3. n - 1 \in Nat /\ n - 1 \notin T
  BY <1>1, <1>2
<1>4. n - 1 \in S
  BY <1>3
<1>5. (n - 1) + 1 \in S
  BY <1>3, <1>4
<1> QED  BY <1>2, <1>5

\* f begins with w0, and H[n] leads from its n-th value to the next.
Iterates(f, W, w0, H) ==
  f \in [Nat -> W] /\ f[0] = w0 /\ \A n \in Nat : f[n + 1] = H[n][f[n]]

\* A function is defined by its value at 0 and how each value follows.
LEMMA Recursion ==
  ASSUME NEW W, NEW w0 \in W, NEW H \in [Nat -> [W -> W]]
  PROVE  \E f : Iterates(f, W, w0, H)
<1> DEFINE Upto(n) == {f \in [0..n -> W] :
                         f[0] = w0 /\ \A k \in Nat : k < n => f[k + 1] = H[k][f[k]]}
<1>1. \A n \in Nat : \A f \in Upto(n) : \A k \in Nat : k <= n => f[k] \in W
  OBVIOUS
<1>2. \A n \in Nat : Upto(n) # {}
  <2> DEFINE S == {n \in Nat : Upto(n) # {}}
  <2>1. 0 \in S
    <3>1. [k \in 0..0 |-> w0] \in Upto(0)
      OBVIOUS
    <3> QED  BY <3>1
  <2>2. ASSUME NEW n \in Nat, n \in S  PROVE n + 1 \in S
    <3>1. PICK f : f \in Upto(n)
      BY <2>2
    <3> DEFINE v == H[n][f[n]]
               g == [k \in 0..(n + 1) |-> IF k <= n THEN f[k] ELSE v]
    <3>2. /\ f[0] = w0 /\ (\A k \in Nat : k < n => f[k + 1] = H[k][f[k]])
          /\ (\A k \in 0..n : f[k] \in W) /\ v \in W
      BY <3>1
    <3> HIDE DEF v
    <3>3. g \in [0..(n + 1) -> W] /\ g[0] = w0
      BY <3>2
    <3>4. ASSUME NEW k \in Nat, k < n + 1  PROVE g[k + 1] = H[k][g[k]]
      <4>1. CASE k < n
        <5>1. g[k] = f[k] /\ g[k + 1] = f[k + 1]
          BY <4>1
        <5> QED  BY <3>2, <4>1, <5>1
      <4>2. CASE k = n
        <5>1. g[n] = f[n] /\ g[n + 1] = v
          OBVIOUS
        <5> QED  BY <4>2, <5>1 DEF v
      <4> QED  BY <3>4, <4>1, <4>2
    <3>5. g \in Upto(n + 1)
      BY <3>3, <3>4
    <3> HIDE DEF Upto, g
    <3>6. Upto(n + 1) # {} /\ n + 1 \in Nat
      BY <3>5
    <3> QED  BY <3>6
  <2> HIDE DEF S
  <2>3. \A n \in Nat : n \in S
    BY <2>1, <2>2, SetInduction
  <2> QED  BY <2>3 DEF S
<1>3. ASSUME NEW n \in Nat, NEW m \in Nat, NEW f \in Upto(n), NEW g \in Upto(m)
      PROVE  \A k \in Nat : k <= n /\ k <= m => f[k] = g[k]
  <2> DEFINE S == {k \in Nat : k <= n /\ k <= m => f[k] = g[k]}
  <2>1. 0 \in S
    OBVIOUS
  <2>2. ASSUME NEW k \in Nat, k \in S  PROVE k + 1 \in S
    <3> SUFFICES ASSUME k + 1 <= n, k + 1 <= m  PROVE f[k + 1] = g[k + 1]
      OBVIOUS
    <3>1. f[k] = g[k]
      BY <2>2
    <3>2. f[k + 1] = H[k][f[k]]
      OBVIOUS
    <3>3. g[k + 1] = H[k][g[k]]
      OBVIOUS
    <3> QED  BY <3>1, <3>2, <3>3
  <2> HIDE DEF S
  <2>3. \A k \in Nat : k \in S
    BY <2>1, <2>2, SetInduction
  <2> QED  BY <2>3 DEF S
<1> DEFINE F == [n \in Nat |-> CHOOSE f : f \in Upto(n)]
           G == [n \in Nat |-> F[n][n]]
<1>4. \A n \in Nat : F[n] \in Upto(n)
  <2> HIDE DEF Upto
  <2> SUFFICES ASSUME NEW n \in Nat  PROVE (CHOOSE f : f \in Upto(n)) \in Upto(n)
    OBVIOUS
  <2>1. PICK f : f \in Upto(n)
    BY <1>2
  <2> QED  BY <2>1, Zenon
<1> HIDE DEF F
<1>5. G \in [Nat -> W]
  <2> HIDE DEF Upto
  <2> QED  BY <1>1, <1>4
<1>6. G[0] = w0
  BY <1>4
<1>7. ASSUME NEW n \in Nat  PROVE G[n + 1] = H[n][G[n]]
  <2>1. F[n] \in Upto(n) /\ F[n + 1] \in Upto(n + 1)
    BY <1>4
  <2>2. F[n + 1][n] = F[n][n]
    <3> HIDE DEF Upto
    <3> QED  BY <2>1, <1>3
  <2>3. F[n + 1][n + 1] = H[n][F[n + 1][n]]
    BY <2>1
  <2> QED  BY <2>2, <2>3
<1> QED  BY <1>5, <1>6, <1>7 DEF Iterates

-----------------------------------------------------------------------------
(* Sums.                                                                   *)

\* The element the folds take first.
First(s) == CHOOSE x \in s : TRUE

\* g has the partial sums of f, on the subsets of S.
PartialSums(g, f, S) ==
  g = [s \in SUBSET S |-> IF s = {} THEN 0 ELSE f[First(s)] + g[s \ {First(s)}]]

\* It is an element, and without it one fewer are left.
LEMMA FirstFacts ==
  ASSUME NEW S, IsFiniteSet(S), NEW s \in SUBSET S, s # {}
  PROVE  /\ First(s) \in s /\ s \ {First(s)} \in SUBSET S
         /\ IsFiniteSet(s) /\ Cardinality(s) \in Nat
         /\ Cardinality(s) > 0 /\ Cardinality(s \ {First(s)}) = Cardinality(s) - 1
<1>1. First(s) \in s
  BY Zenon DEF First
<1>2. IsFiniteSet(s)
  BY FS_Subset
<1>3. Cardinality(s) \in Nat /\ Cardinality(s \ {First(s)}) = Cardinality(s) - 1
  BY <1>1, <1>2, FS_RemoveElement, FS_CardinalityType
<1>4. Cardinality(s) # 0
  BY <1>2, FS_EmptySet
<1> QED  BY <1>1, <1>2, <1>3, <1>4

\* Only the empty set has no elements.
LEMMA NoneAtZero ==
  ASSUME NEW S, IsFiniteSet(S), NEW s \in SUBSET S, Cardinality(s) <= 0
  PROVE  s = {}
<1> SUFFICES ASSUME s # {}  PROVE FALSE
  OBVIOUS
<1>1. Cardinality(s) \in Nat /\ Cardinality(s) > 0
  BY FirstFacts
<1> QED  BY <1>1

\* There is such a function: the fold of the library is defined.
LEMMA PartialSumsExist ==
  ASSUME NEW S, IsFiniteSet(S), NEW f \in [S -> Nat]
  PROVE  \E g \in [SUBSET S -> Nat] : PartialSums(g, f, S)
<1> DEFINE W == [SUBSET S -> Nat]
           Step(h, s) == IF s = {} THEN 0 ELSE f[First(s)] + h[s \ {First(s)}]
           H == [n \in Nat |-> [h \in W |-> [s \in SUBSET S |-> Step(h, s)]]]
           z == [s \in SUBSET S |-> 0]
<1>1. ASSUME NEW h \in W, NEW s \in SUBSET S  PROVE Step(h, s) \in Nat
  <2>1. CASE s = {}
    BY <2>1
  <2>2. CASE s # {}
    <3>1. First(s) \in S /\ s \ {First(s)} \in SUBSET S
      BY <2>2, FirstFacts
    <3>2. f[First(s)] \in Nat /\ h[s \ {First(s)}] \in Nat
      BY <3>1
    <3> QED  BY <2>2, <3>2
  <2> QED  BY <2>1, <2>2
<1>2. H \in [Nat -> [W -> W]]
  <2> HIDE DEF Step
  <2>1. \A h \in W : [s \in SUBSET S |-> Step(h, s)] \in W
    BY <1>1
  <2> HIDE DEF W
  <2> QED  BY <2>1
<1>3. z \in W
  OBVIOUS
<1>4. PICK h : Iterates(h, W, z, H)
  <2> HIDE DEF W, z, H
  <2> QED  BY <1>2, <1>3, Recursion
<1>5. \A n \in Nat : h[n] \in W /\ \A s \in SUBSET S : h[n + 1][s] = Step(h[n], s)
  <2> SUFFICES ASSUME NEW n \in Nat
               PROVE  h[n] \in W /\ \A s \in SUBSET S : h[n + 1][s] = Step(h[n], s)
    OBVIOUS
  <2>1. h[n] \in W /\ h[n + 1] = H[n][h[n]]
    <3> HIDE DEF W, z, H
    <3> QED  BY <1>4 DEF Iterates
  <2>2. H[n][h[n]] = [s \in SUBSET S |-> Step(h[n], s)]
    <3> HIDE DEF W, Step
    <3> QED  BY <2>1
  <2> HIDE DEF W, Step, H
  <2> QED  BY <2>1, <2>2
<1> HIDE DEF z, H, W
<1> DEFINE A(n) == \A s \in SUBSET S : Cardinality(s) <= n => h[n + 1][s] = h[n][s]
           T == {n \in Nat : A(n)}
<1>6. 0 \in T
  <2> SUFFICES ASSUME NEW s \in SUBSET S, Cardinality(s) <= 0  PROVE h[1][s] = h[0][s]
    OBVIOUS
  <2>1. s = {}
    BY NoneAtZero
  <2>2. h[0][s] = 0
    BY <1>4 DEF Iterates, z
  <2>3. h[0 + 1][s] = Step(h[0], s)
    BY <1>5
  <2> QED  BY <2>1, <2>2, <2>3
<1>7. ASSUME NEW n \in Nat, n \in T  PROVE n + 1 \in T
  <2> SUFFICES ASSUME NEW s \in SUBSET S, Cardinality(s) <= n + 1
               PROVE  h[(n + 1) + 1][s] = h[n + 1][s]
    OBVIOUS
  <2>1. h[(n + 1) + 1][s] = Step(h[n + 1], s) /\ h[n + 1][s] = Step(h[n], s)
    BY <1>5
  <2>2. CASE s = {}
    BY <2>1, <2>2
  <2>3. CASE s # {}
    <3>1. s \ {First(s)} \in SUBSET S /\ Cardinality(s \ {First(s)}) <= n
      BY <2>3, FirstFacts
    <3>2. h[n + 1][s \ {First(s)}] = h[n][s \ {First(s)}]
      BY <1>7, <3>1
    <3> QED  BY <2>1, <2>3, <3>2
  <2> QED  BY <2>2, <2>3
<1>8. \A n \in Nat : A(n)
  <2> HIDE DEF A
  <2>1. \A n \in Nat : n \in T
    <3> HIDE DEF T
    <3> QED  BY <1>6, <1>7, SetInduction
  <2> QED  BY <2>1
<1> DEFINE N == Cardinality(S)
<1>9. N \in Nat /\ \A s \in SUBSET S : Cardinality(s) <= N
  BY FS_CardinalityType, FS_Subset
<1>10. ASSUME NEW s \in SUBSET S  PROVE h[N][s] = Step(h[N], s)
  <2> HIDE DEF N, Step
  <2>1. h[N + 1][s] = h[N][s]
    BY <1>8, <1>9
  <2> QED  BY <1>5, <1>9, <2>1
<1>11. h[N] = [s \in SUBSET S |-> Step(h[N], s)]
  <2>1. h[N] = [s \in SUBSET S |-> h[N][s]]
    BY <1>5, <1>9 DEF W
  <2> HIDE DEF N, Step
  <2> QED  BY <1>10, <2>1
<1> QED  BY <1>5, <1>9, <1>11 DEF PartialSums, W

\* The library's sum is the last of them.
LEMMA SumIsPartialSum ==
  ASSUME NEW S, IsFiniteSet(S), NEW f \in [S -> Nat]
  PROVE  \E g \in [SUBSET S -> Nat] : PartialSums(g, f, S) /\ SumFunction(f) = g[S]
<1> DEFINE it == CHOOSE g : PartialSums(g, f, S)
<1>1. SumFunction(f) = it[S]
  BY DEF SumFunction, SumFunctionOnSet, FoldFunctionOnSet, MapThenFoldSet, PartialSums, First
<1>2. PICK g0 \in [SUBSET S -> Nat] : PartialSums(g0, f, S)
  BY PartialSumsExist
<1>3. PartialSums(it, f, S)
  BY <1>2, Zenon
<1> HIDE DEF it
<1>4. ASSUME NEW s \in SUBSET S
      PROVE  /\ s = {} => it[s] = 0
             /\ s # {} => it[s] = f[First(s)] + it[s \ {First(s)}]
  <2>1. it[s] = (IF s = {} THEN 0 ELSE f[First(s)] + it[s \ {First(s)}])
    BY <1>3 DEF PartialSums
  <2> QED  BY <2>1, Zenon
<1> DEFINE T == {n \in Nat : \A s \in SUBSET S : Cardinality(s) <= n => it[s] \in Nat}
<1>5. 0 \in T
  <2> SUFFICES ASSUME NEW s \in SUBSET S, Cardinality(s) <= 0  PROVE it[s] \in Nat
    OBVIOUS
  <2>1. s = {}
    BY NoneAtZero
  <2>2. it[s] = 0
    BY <1>4, <2>1, Zenon
  <2> QED  BY <2>2
<1>6. ASSUME NEW n \in Nat, n \in T  PROVE n + 1 \in T
  <2> SUFFICES ASSUME NEW s \in SUBSET S, Cardinality(s) <= n + 1  PROVE it[s] \in Nat
    OBVIOUS
  <2>1. CASE s = {}
    <3>1. it[s] = 0
      BY <1>4, <2>1, Zenon
    <3> QED  BY <3>1
  <2>2. CASE s # {}
    <3>1. First(s) \in S /\ s \ {First(s)} \in SUBSET S /\ Cardinality(s \ {First(s)}) <= n
      BY <2>2, FirstFacts
    <3>2. f[First(s)] \in Nat /\ it[s \ {First(s)}] \in Nat
      BY <1>6, <3>1
    <3>3. it[s] = f[First(s)] + it[s \ {First(s)}]
      BY <1>4, <2>2, Zenon
    <3> QED  BY <3>2, <3>3
  <2> QED  BY <2>1, <2>2
<1>7. \A n \in Nat : n \in T
  <2> HIDE DEF T
  <2> QED  BY <1>5, <1>6, SetInduction
<1>8. it \in [SUBSET S -> Nat]
  <2>1. ASSUME NEW s \in SUBSET S  PROVE it[s] \in Nat
    <3>1. Cardinality(s) \in Nat
      BY FS_Subset, FS_CardinalityType
    <3> QED  BY <1>7, <3>1
  <2>2. it = [s \in SUBSET S |-> it[s]]
    BY <1>3 DEF PartialSums
  <2> QED  BY <2>1, <2>2
<1> QED  BY <1>1, <1>3, <1>8

\* The sum of zeros.
LEMMA SumOfZeros ==
  ASSUME NEW S, IsFiniteSet(S), NEW f \in [S -> Nat], \A x \in S : f[x] = 0
  PROVE  SumFunction(f) = 0
<1>1. PICK g \in [SUBSET S -> Nat] : PartialSums(g, f, S) /\ SumFunction(f) = g[S]
  BY SumIsPartialSum
<1>2. ASSUME NEW s \in SUBSET S
      PROVE  g[s] = (IF s = {} THEN 0 ELSE f[First(s)] + g[s \ {First(s)}])
  BY <1>1 DEF PartialSums
<1> DEFINE T == {n \in Nat : \A s \in SUBSET S : Cardinality(s) <= n => g[s] = 0}
<1>3. 0 \in T
  <2> SUFFICES ASSUME NEW s \in SUBSET S, Cardinality(s) <= 0  PROVE g[s] = 0
    OBVIOUS
  <2>1. s = {}
    BY NoneAtZero
  <2> QED  BY <1>2, <2>1
<1>4. ASSUME NEW n \in Nat, n \in T  PROVE n + 1 \in T
  <2> SUFFICES ASSUME NEW s \in SUBSET S, Cardinality(s) <= n + 1  PROVE g[s] = 0
    OBVIOUS
  <2>1. CASE s = {}
    BY <1>2, <2>1
  <2>2. CASE s # {}
    <3>1. First(s) \in S /\ s \ {First(s)} \in SUBSET S /\ Cardinality(s \ {First(s)}) <= n
      BY <2>2, FirstFacts
    <3>2. f[First(s)] = 0 /\ g[s \ {First(s)}] = 0
      BY <1>4, <3>1
    <3> QED  BY <1>2, <2>2, <3>2
  <2> QED  BY <2>1, <2>2
<1>5. \A n \in Nat : n \in T
  <2> HIDE DEF T
  <2> QED  BY <1>3, <1>4, SetInduction
<1>6. Cardinality(S) \in Nat
  BY FS_CardinalityType
<1> QED  BY <1>1, <1>5, <1>6

\* h is f but for its value at t.
DiffersOnlyAt(h, f, t, S) == \A x \in S : x # t => h[x] = f[x]

\* When one value changes, the sum changes by as much.
LEMMA SumChanges ==
  ASSUME NEW S, IsFiniteSet(S), NEW f \in [S -> Nat], NEW h \in [S -> Nat],
         NEW t \in S, DiffersOnlyAt(h, f, t, S)
  PROVE  /\ SumFunction(f) \in Nat /\ SumFunction(h) \in Nat
         /\ SumFunction(h) + f[t] = SumFunction(f) + h[t]
<1>1. PICK g \in [SUBSET S -> Nat] : PartialSums(g, f, S) /\ SumFunction(f) = g[S]
  BY SumIsPartialSum
<1>2. PICK k \in [SUBSET S -> Nat] : PartialSums(k, h, S) /\ SumFunction(h) = k[S]
  BY SumIsPartialSum
<1>3. ASSUME NEW s \in SUBSET S
      PROVE  /\ g[s] = (IF s = {} THEN 0 ELSE f[First(s)] + g[s \ {First(s)}])
             /\ k[s] = (IF s = {} THEN 0 ELSE h[First(s)] + k[s \ {First(s)}])
             /\ g[s] \in Nat /\ k[s] \in Nat
  BY <1>1, <1>2 DEF PartialSums
<1> DEFINE Differ(s) == IF t \in s THEN k[s] + f[t] = g[s] + h[t] ELSE k[s] = g[s]
           T == {n \in Nat : \A s \in SUBSET S : Cardinality(s) <= n => Differ(s)}
<1>4. 0 \in T
  <2> SUFFICES ASSUME NEW s \in SUBSET S, Cardinality(s) <= 0  PROVE Differ(s)
    OBVIOUS
  <2>1. s = {}
    BY NoneAtZero
  <2> QED  BY <1>3, <2>1
<1>5. ASSUME NEW n \in Nat, n \in T  PROVE n + 1 \in T
  <2> SUFFICES ASSUME NEW s \in SUBSET S, Cardinality(s) <= n + 1  PROVE Differ(s)
    OBVIOUS
  <2>1. CASE s = {}
    BY <1>3, <2>1
  <2>2. CASE s # {}
    <3> DEFINE x == First(s)
               r == s \ {x}
    <3>1. x \in s /\ x \in S /\ r \in SUBSET S /\ Cardinality(r) <= n
      BY <2>2, FirstFacts
    <3>2. Differ(r)
      BY <1>5, <3>1
    <3>3. /\ g[s] = f[x] + g[r] /\ k[s] = h[x] + k[r]
          /\ g[r] \in Nat /\ k[r] \in Nat /\ f[x] \in Nat /\ h[x] \in Nat
          /\ f[t] \in Nat /\ h[t] \in Nat
      <4> HIDE DEF T, Differ
      <4> QED  BY <1>3, <2>2, <3>1
    <3>4. t \in r <=> t \in s /\ t # x
      OBVIOUS
    <3> HIDE DEF x, r
    <3>5. CASE t = x
      <4>1. k[r] = g[r] /\ t \in s
        BY <3>1, <3>2, <3>4, <3>5
      <4> QED  BY <3>3, <3>5, <4>1
    <3>6. CASE t # x
      <4>1. h[x] = f[x]
        BY <3>1, <3>6 DEF DiffersOnlyAt
      <4>2. CASE t \in s
        <5>1. k[r] + f[t] = g[r] + h[t]
          BY <3>2, <3>4, <3>6, <4>2
        <5> QED  BY <3>3, <4>1, <4>2, <5>1
      <4>3. CASE t \notin s
        <5>1. k[r] = g[r]
          BY <3>2, <3>4, <4>3
        <5> QED  BY <3>3, <4>1, <4>3, <5>1
      <4> QED  BY <4>2, <4>3
    <3> QED  BY <3>5, <3>6
  <2> QED  BY <2>1, <2>2
<1>6. \A n \in Nat : n \in T
  <2> HIDE DEF T
  <2> QED  BY <1>4, <1>5, SetInduction
<1>7. Cardinality(S) \in Nat
  BY FS_CardinalityType
<1>8. Differ(S)
  <2> HIDE DEF Differ
  <2> QED  BY <1>6, <1>7
<1> QED  BY <1>1, <1>2, <1>3, <1>8

\* A function that is nowhere below another has no smaller sum.
LEMMA SumMonotone ==
  ASSUME NEW S, IsFiniteSet(S), NEW f \in [S -> Nat], NEW h \in [S -> Nat],
         \A x \in S : f[x] <= h[x]
  PROVE  /\ SumFunction(f) \in Nat /\ SumFunction(h) \in Nat
         /\ SumFunction(f) <= SumFunction(h)
<1>1. PICK g \in [SUBSET S -> Nat] : PartialSums(g, f, S) /\ SumFunction(f) = g[S]
  BY SumIsPartialSum
<1>2. PICK k \in [SUBSET S -> Nat] : PartialSums(k, h, S) /\ SumFunction(h) = k[S]
  BY SumIsPartialSum
<1>3. ASSUME NEW s \in SUBSET S
      PROVE  /\ g[s] = (IF s = {} THEN 0 ELSE f[First(s)] + g[s \ {First(s)}])
             /\ k[s] = (IF s = {} THEN 0 ELSE h[First(s)] + k[s \ {First(s)}])
             /\ g[s] \in Nat /\ k[s] \in Nat
  BY <1>1, <1>2 DEF PartialSums
<1>4. ASSUME NEW s \in SUBSET S, s = {}  PROVE g[s] <= k[s]
  <2>1. g[s] = 0 /\ k[s] = 0
    BY <1>3, <1>4, Zenon
  <2> QED  BY <2>1
<1> DEFINE T == {n \in Nat : \A s \in SUBSET S : Cardinality(s) <= n => g[s] <= k[s]}
<1>5. 0 \in T
  <2> SUFFICES ASSUME NEW s \in SUBSET S, Cardinality(s) <= 0  PROVE g[s] <= k[s]
    OBVIOUS
  <2>1. s = {}
    BY NoneAtZero
  <2> QED  BY <1>4, <2>1
<1>6. ASSUME NEW n \in Nat, n \in T  PROVE n + 1 \in T
  <2> SUFFICES ASSUME NEW s \in SUBSET S, Cardinality(s) <= n + 1  PROVE g[s] <= k[s]
    OBVIOUS
  <2>1. CASE s = {}
    BY <1>4, <2>1
  <2>2. CASE s # {}
    <3> DEFINE x == First(s)
               r == s \ {x}
    <3>1. x \in S /\ r \in SUBSET S /\ Cardinality(r) <= n
      BY <2>2, FirstFacts
    <3>2. g[r] <= k[r]
      BY <1>6, <3>1
    <3>3. /\ g[s] = f[x] + g[r] /\ k[s] = h[x] + k[r]
          /\ g[r] \in Nat /\ k[r] \in Nat /\ f[x] \in Nat /\ h[x] \in Nat
      <4> HIDE DEF T
      <4> QED  BY <1>3, <2>2, <3>1
    <3>4. f[x] <= h[x]
      BY <3>1
    <3> HIDE DEF x, r, T
    <3> QED  BY <3>2, <3>3, <3>4
  <2> QED  BY <2>1, <2>2
<1>7. \A n \in Nat : n \in T
  <2> HIDE DEF T
  <2> QED  BY <1>5, <1>6, SetInduction
<1>8. Cardinality(S) \in Nat
  BY FS_CardinalityType
<1>9. g[S] <= k[S]
  BY <1>7, <1>8
<1> QED  BY <1>1, <1>2, <1>3, <1>9

-----------------------------------------------------------------------------
(* Orders, as sets of pairs.                                               *)

\* R puts the elements of S in one strict order.
Ordering(R, S) ==
  /\ \A x, y \in S : x # y => <<x, y>> \in R \/ <<y, x>> \in R
  /\ \A x, y \in S : <<x, y>> \in R => <<y, x>> \notin R
  /\ \A x, y, z \in S : <<x, y>> \in R /\ <<y, z>> \in R => <<x, z>> \in R

\* m comes after all others of S.
Greatest(R, S, m) == m \in S /\ \A z \in S : z # m => <<z, m>> \in R

\* Of finitely many elements one is the greatest.
LEMMA GreatestExists ==
  ASSUME NEW S, IsFiniteSet(S), NEW R, Ordering(R, S), S # {}
  PROVE  \E m : Greatest(R, S, m)
<1> DEFINE Has(s) == s # {} => \E m : Greatest(R, s, m)
           T == {n \in Nat : \A s \in SUBSET S : Cardinality(s) <= n => Has(s)}
<1>1. 0 \in T
  <2> SUFFICES ASSUME NEW s \in SUBSET S, Cardinality(s) <= 0  PROVE Has(s)
    OBVIOUS
  <2> QED  BY NoneAtZero
<1>2. ASSUME NEW n \in Nat, n \in T  PROVE n + 1 \in T
  <2> SUFFICES ASSUME NEW s \in SUBSET S, Cardinality(s) <= n + 1, s # {}
               PROVE  \E m : Greatest(R, s, m)
    OBVIOUS
  <2> DEFINE x == First(s)
             r == s \ {x}
  <2>1. x \in s /\ r \in SUBSET S /\ Cardinality(r) <= n
    BY FirstFacts
  <2>2. Has(r)
    <3> HIDE DEF Has
    <3> QED  BY <1>2, <2>1
  <2> HIDE DEF x
  <2>3. CASE r = {}
    <3>1. Greatest(R, s, x)
      BY <2>1, <2>3 DEF Greatest
    <3> QED  BY <3>1
  <2>4. CASE r # {}
    <3>1. PICK m : Greatest(R, r, m)
      BY <2>2, <2>4
    <3>2. m \in s /\ m # x /\ \A z \in s : z # m /\ z # x => <<z, m>> \in R
      BY <3>1 DEF Greatest
    <3>3. CASE <<m, x>> \in R
      <4>1. ASSUME NEW z \in s, z # x  PROVE <<z, x>> \in R
        <5>1. z \in S /\ m \in S /\ x \in S
          BY <2>1, <3>2
        <5> QED  BY <3>2, <3>3, <4>1, <5>1 DEF Ordering
      <4>2. Greatest(R, s, x)
        BY <2>1, <4>1 DEF Greatest
      <4> QED  BY <4>2
    <3>4. CASE <<m, x>> \notin R
      <4>1. <<x, m>> \in R
        BY <2>1, <3>2, <3>4 DEF Ordering
      <4>2. Greatest(R, s, m)
        BY <3>2, <4>1 DEF Greatest
      <4> QED  BY <4>2
    <3> QED  BY <3>3, <3>4
  <2> QED  BY <2>3, <2>4
<1> HIDE DEF T
<1>3. \A n \in Nat : n \in T
  BY <1>1, <1>2, SetInduction
<1>4. Cardinality(S) \in Nat /\ Cardinality(S) \in T
  BY <1>3, FS_CardinalityType
<1> QED  BY <1>4 DEF T

\* s lists S in the order R.
Lists(s, S, R) ==
  /\ s \in [1..Cardinality(S) -> S]
  /\ \A i, j \in 1..Cardinality(S) : i < j => <<s[i], s[j]>> \in R

\* A finite set can be listed in order.
LEMMA ListExists ==
  ASSUME NEW S, IsFiniteSet(S), NEW R, Ordering(R, S)
  PROVE  \E s : Lists(s, S, R)
<1> DEFINE T == {n \in Nat : \A s \in SUBSET S :
                   Cardinality(s) <= n => \E f : Lists(f, s, R)}
<1>1. 0 \in T
  <2> SUFFICES ASSUME NEW s \in SUBSET S, Cardinality(s) <= 0
               PROVE  \E f : Lists(f, s, R)
    OBVIOUS
  <2>1. Cardinality(s) = 0
    BY FS_Subset, FS_CardinalityType
  <2>2. Lists([i \in 1..0 |-> i], s, R)
    BY <2>1 DEF Lists
  <2> QED  BY <2>2
<1>2. ASSUME NEW n \in Nat, n \in T  PROVE n + 1 \in T
  <2> SUFFICES ASSUME NEW s \in SUBSET S, Cardinality(s) <= n + 1
               PROVE  \E f : Lists(f, s, R)
    OBVIOUS
  <2>1. IsFiniteSet(s) /\ Cardinality(s) \in Nat
    BY FS_Subset, FS_CardinalityType
  <2>2. CASE Cardinality(s) <= n
    BY <1>2, <2>2
  <2>3. CASE Cardinality(s) = n + 1
    <3>1. s # {}
      BY <2>1, <2>3, FS_EmptySet
    <3>2. Ordering(R, s)
      BY DEF Ordering
    <3>3. PICK m : Greatest(R, s, m)
      BY <2>1, <3>1, <3>2, GreatestExists
    <3> DEFINE r == s \ {m}
    <3>4. m \in s /\ (\A z \in r : <<z, m>> \in R) /\ r \in SUBSET S
      BY <3>3 DEF Greatest
    <3>5. Cardinality(r) = n
      <4>1. Cardinality(s \ {m}) = Cardinality(s) - 1
        BY <2>1, <3>4, FS_RemoveElement, Zenon
      <4> QED  BY <2>3, <4>1
    <3>6. PICK f : Lists(f, r, R)
      <4> HIDE DEF r
      <4> QED  BY <1>2, <3>4, <3>5
    <3>7. f \in [1..n -> r] /\ \A i, j \in 1..n : i < j => <<f[i], f[j]>> \in R
      BY <3>5, <3>6 DEF Lists
    <3> DEFINE g == [i \in 1..(n + 1) |-> IF i <= n THEN f[i] ELSE m]
    <3>8. \A i \in 1..n : g[i] = f[i] /\ g[i] \in r
      BY <3>7
    <3>9. g[n + 1] = m
      OBVIOUS
    <3>10. \A i \in 1..(n + 1) : i \in 1..n \/ i = n + 1
      OBVIOUS
    <3>11. g \in [1..(n + 1) -> s]
      BY <3>4, <3>7
    <3> HIDE DEF g
    <3>12. ASSUME NEW i \in 1..(n + 1), NEW j \in 1..(n + 1), i < j
           PROVE  <<g[i], g[j]>> \in R
      <4>1. i \in 1..n
        BY <3>12
      <4>2. CASE j \in 1..n
        BY <3>7, <3>8, <3>12, <4>1, <4>2
      <4>3. CASE j = n + 1
        BY <3>4, <3>8, <3>9, <4>1, <4>3
      <4> QED  BY <3>10, <4>2, <4>3
    <3>13. Lists(g, s, R)
      BY <2>3, <3>11, <3>12 DEF Lists
    <3> QED  BY <3>13
  <2> QED  BY <2>1, <2>2, <2>3
<1> HIDE DEF T
<1>3. \A n \in Nat : n \in T
  BY <1>1, <1>2, SetInduction
<1>4. Cardinality(S) \in Nat /\ Cardinality(S) \in T
  BY <1>3, FS_CardinalityType
<1> QED  BY <1>4 DEF T

\* Such a list has every element, and none twice.
LEMMA ListFacts ==
  ASSUME NEW S, IsFiniteSet(S), NEW R, Ordering(R, S), NEW s, Lists(s, S, R)
  PROVE  /\ s \in Seq(S) /\ Len(s) = Cardinality(S) /\ Cardinality(S) \in Nat
         /\ Range(s) = S
         /\ \A i, j \in 1..Len(s) : s[i] = s[j] => i = j
<1> DEFINE n == Cardinality(S)
<1>1. n \in Nat /\ s \in [1..n -> S] /\ \A i, j \in 1..n : i < j => <<s[i], s[j]>> \in R
  BY FS_CardinalityType DEF Lists
<1> HIDE DEF n
<1>2. s \in Seq(S) /\ Len(s) = n
  BY <1>1
<1>3. ASSUME NEW i \in 1..n, NEW j \in 1..n, s[i] = s[j]  PROVE i = j
  <2>1. s[i] \in S /\ s[j] \in S
    BY <1>1
  <2>2. ~(i < j) /\ ~(j < i)
    BY <1>1, <1>3, <2>1 DEF Ordering
  <2> QED  BY <2>2
<1>4. s \in Injection(1..n, S)
  BY <1>1, <1>3 DEF Injection, IsInjective
<1>5. IsFiniteSet(1..n) /\ Cardinality(1..n) = n
  BY <1>1, FS_Interval
<1>6. s \in Surjection(1..n, S)
  BY <1>4, <1>5, FS_Injection DEF n
<1>7. Range(s) = S
  <2>1. \A x \in S : \E i \in 1..n : s[i] = x
    BY <1>6, Zenon DEF Surjection
  <2> QED  BY <1>1, <2>1 DEF Range
<1> QED  BY <1>1, <1>2, <1>3, <1>7 DEF n
=============================================================================
