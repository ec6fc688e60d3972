---------------------------- MODULE DataTheorems ----------------------------
(***************************************************************************)
(* What the operators that the models take from the community modules      *)
(* return, for data of any size: sums over a finite set, the levels of a   *)
(* closure, sorting by rank, folds, and the concatenation of a list of     *)
(* lists; and the order of paths.  A fact is proved of all sets, or of all *)
(* stages of a recursive function, by looking at a smallest one for which  *)
(* it would be wrong.                                                      *)
(***************************************************************************)
EXTENDS TreeOps, FiniteSetTheorems, SequenceTheorems, WellFoundedInduction, TLAPS

-----------------------------------------------------------------------------
(* Smallest counterexamples                                                *)

\* A set of natural numbers has a least element.
LEMMA LeastNumber ==
  ASSUME NEW T \in SUBSET Nat, T # {}
  PROVE  \E m \in T : \A k \in T : m <= k
<1> DEFINE R == {ss \in Nat \X Nat : ss[1] < ss[2]}
<1>1. IsWellFoundedOn(R, Nat)
  BY NatLessThanWellFounded DEF OpToRel
<1>2. \A m, k \in Nat : <<k, m>> \in R <=> k < m
  OBVIOUS
<1> HIDE DEF R
<1>3. PICK m \in T : \A k \in T : ~ (<<k, m>> \in R)
  BY <1>1, WFMin
<1>4. ASSUME NEW k \in T PROVE m <= k
  <2>1. m \in Nat /\ k \in Nat
    OBVIOUS
  <2>2. ~ (k < m)
    BY <1>2, <1>3, <2>1
  <2> QED BY <2>1, <2>2
<1> QED BY <1>4

\* Among subsets of a finite set there is a smallest one.
LEMMA SmallestSet ==
  ASSUME NEW S, IsFiniteSet(S), NEW B \in SUBSET (SUBSET S), B # {}
  PROVE  \E b \in B : \A c \in B : c \subseteq b => c = b
<1>1. \A b \in B : IsFiniteSet(b) /\ Cardinality(b) \in Nat
  BY FS_Subset, FS_CardinalityType
<1> DEFINE T == {Cardinality(b) : b \in B}
<1>2. T \in SUBSET Nat /\ T # {}
  BY <1>1
<1>3. PICK m \in T : \A k \in T : m <= k
  BY <1>2, LeastNumber
<1>4. PICK b \in B : m = Cardinality(b)
  BY <1>3
<1>5. ASSUME NEW c \in B, c \subseteq b PROVE c = b
  BY <1>1, <1>3, <1>4, <1>5, FS_Subset
<1> QED BY <1>5

-----------------------------------------------------------------------------
(* The sum as a recursive function                                         *)

Pick(s) == CHOOSE x \in s : TRUE

IsSum(g, f, S) ==
  g = [s \in SUBSET S |-> IF s = {} THEN 0 ELSE f[Pick(s)] + g[s \ {Pick(s)}]]

LEMMA Picked == \A s : s # {} => Pick(s) \in s
BY DEF Pick

\* Two such functions agree where what they sum up agrees.
LEMMA SameSums ==
  ASSUME NEW g, NEW h, NEW f, NEW e, NEW S, NEW T, IsSum(g, f, S), IsSum(h, e, T),
         NEW R, R \subseteq S, R \subseteq T, IsFiniteSet(R), \A x \in R : f[x] = e[x]
  PROVE  g[R] = h[R]
<1> DEFINE B == {r \in SUBSET R : g[r] # h[r]}
<1> SUFFICES ASSUME B # {} PROVE FALSE
  OBVIOUS
<1>1. PICK r \in B : \A c \in B : c \subseteq r => c = r
  <2>1. B \in SUBSET (SUBSET R)
    OBVIOUS
  <2> HIDE DEF B
  <2> QED BY <2>1, SmallestSet
<1>2. /\ g[r] = IF r = {} THEN 0 ELSE f[Pick(r)] + g[r \ {Pick(r)}]
      /\ h[r] = IF r = {} THEN 0 ELSE e[Pick(r)] + h[r \ {Pick(r)}]
  <2>1. r \in SUBSET S /\ r \in SUBSET T
    OBVIOUS
  <2> QED BY <2>1, Zenon DEF IsSum
<1>3. r # {}
  BY <1>2
<1>4. Pick(r) \in r
  BY <1>3, Picked
<1>5. g[r \ {Pick(r)}] = h[r \ {Pick(r)}]
  BY <1>1, <1>4
<1> QED BY <1>2, <1>3, <1>4, <1>5

LEMMA SumExists ==
  ASSUME NEW f, NEW S, IsFiniteSet(S)
  PROVE  \E g : IsSum(g, f, S)
<1> DEFINE B == {s \in SUBSET S : ~ \E g : IsSum(g, f, s)}
<1> SUFFICES ASSUME B # {} PROVE FALSE
  OBVIOUS
<1>1. PICK s \in B : \A c \in B : c \subseteq s => c = s
  <2>1. B \in SUBSET (SUBSET S)
    OBVIOUS
  <2> HIDE DEF B
  <2> QED BY <2>1, SmallestSet
<1> DEFINE Below(t) == CHOOSE g : IsSum(g, f, t)
           Rest(t) == t \ {Pick(t)}
           G == [t \in SUBSET s |-> IF t = {} THEN 0 ELSE f[Pick(t)] + Below(Rest(t))[Rest(t)]]
<1>2. \A t \in SUBSET s : t # s => IsSum(Below(t), f, t)
  BY <1>1
<1>3. \A t \in SUBSET s : t # {} => Rest(t) \in SUBSET s /\ Rest(t) # s /\ Rest(t) # t
  BY Picked
<1>4. ASSUME NEW u \in SUBSET s, u # s PROVE G[u] = Below(u)[u]
  <2>1. Below(u)[u] = IF u = {} THEN 0 ELSE f[Pick(u)] + Below(u)[Rest(u)]
    <3>1. IsSum(Below(u), f, u)
      BY <1>2, <1>4
    <3> HIDE DEF Below
    <3>2. u \in SUBSET u
      OBVIOUS
    <3> QED BY <3>1, <3>2, Zenon DEF IsSum
  <2>2. ASSUME u # {} PROVE Below(u)[Rest(u)] = Below(Rest(u))[Rest(u)]
    <3>1. IsFiniteSet(Rest(u))
      BY FS_Subset
    <3>2. IsSum(Below(u), f, u) /\ IsSum(Below(Rest(u)), f, Rest(u))
      BY <1>2, <1>3, <1>4, <2>2
    <3> HIDE DEF Below, Rest
    <3>3. Rest(u) \subseteq u
      BY DEF Rest
    <3> QED BY <3>1, <3>2, <3>3, SameSums
  <2> QED BY <2>1, <2>2
<1>5. G = [t \in SUBSET s |-> IF t = {} THEN 0 ELSE f[Pick(t)] + Below(Rest(t))[Rest(t)]]
  OBVIOUS
<1> HIDE DEF G, Below, Rest
<1>6. G = [t \in SUBSET s |-> IF t = {} THEN 0 ELSE f[Pick(t)] + G[Rest(t)]]
  BY <1>3, <1>4, <1>5
<1> USE DEF Rest
<1>7. IsSum(G, f, s)
  BY <1>6 DEF IsSum
<1> QED BY <1>7

-----------------------------------------------------------------------------
(* What SumFunctionOnSet returns                                           *)

LEMMA SumIsSum ==
  ASSUME NEW f, NEW S, IsFiniteSet(S)
  PROVE  \E g : IsSum(g, f, S) /\ SumFunctionOnSet(f, S) = g[S]
<1> DEFINE g == CHOOSE g : IsSum(g, f, S)
<1>1. IsSum(g, f, S)
  BY SumExists
<1>2. SumFunctionOnSet(f, S) = g[S]
  BY DEF SumFunctionOnSet, FoldFunctionOnSet, MapThenFoldSet, IsSum, Pick
<1> QED BY <1>1, <1>2

LEMMA SumEmpty ==
  ASSUME NEW f
  PROVE  SumFunctionOnSet(f, {}) = 0
<1>1. PICK g : IsSum(g, f, {}) /\ SumFunctionOnSet(f, {}) = g[{}]
  BY SumIsSum, FS_EmptySet
<1>2. {} \in SUBSET {}
  OBVIOUS
<1> QED BY <1>1, <1>2, Zenon DEF IsSum

LEMMA SumSplits ==
  ASSUME NEW f, NEW S, IsFiniteSet(S), S # {}
  PROVE  SumFunctionOnSet(f, S) = f[Pick(S)] + SumFunctionOnSet(f, S \ {Pick(S)})
<1> DEFINE R == S \ {Pick(S)}
<1>1. R \in SUBSET S /\ S \in SUBSET S /\ IsFiniteSet(R)
  BY FS_Subset
<1> HIDE DEF R
<1>2. PICK g : IsSum(g, f, S) /\ SumFunctionOnSet(f, S) = g[S]
  BY SumIsSum
<1>3. PICK h : IsSum(h, f, R) /\ SumFunctionOnSet(f, R) = h[R]
  BY <1>1, SumIsSum
<1>4. g[S] = f[Pick(S)] + g[R]
  BY <1>1, <1>2, Zenon DEF IsSum, R
<1>5. g[R] = h[R]
  BY <1>1, <1>2, <1>3, SameSums
<1> QED BY <1>2, <1>3, <1>4, <1>5 DEF R

\* The sum depends only on the values it sums up.
LEMMA SumCongruence ==
  ASSUME NEW f, NEW e, NEW S, IsFiniteSet(S), \A x \in S : f[x] = e[x]
  PROVE  SumFunctionOnSet(f, S) = SumFunctionOnSet(e, S)
<1>1. PICK g : IsSum(g, f, S) /\ SumFunctionOnSet(f, S) = g[S]
  BY SumIsSum
<1>2. PICK h : IsSum(h, e, S) /\ SumFunctionOnSet(e, S) = h[S]
  BY SumIsSum
<1> QED BY <1>1, <1>2, SameSums

LEMMA SumZero ==
  ASSUME NEW f, NEW S, IsFiniteSet(S), \A x \in S : f[x] = 0
  PROVE  SumFunctionOnSet(f, S) = 0
<1> DEFINE B == {s \in SUBSET S : SumFunctionOnSet(f, s) # 0}
<1> SUFFICES ASSUME B # {} PROVE FALSE
  OBVIOUS
<1>1. PICK s \in B : \A c \in B : c \subseteq s => c = s
  <2>1. B \in SUBSET (SUBSET S)
    OBVIOUS
  <2> HIDE DEF B
  <2> QED BY <2>1, SmallestSet
<1>2. s \in SUBSET S /\ SumFunctionOnSet(f, s) # 0 /\ IsFiniteSet(s)
  BY FS_Subset
<1>3. s # {}
  BY <1>2, SumEmpty
<1>4. Pick(s) \in s
  BY <1>3, Picked
<1>5. SumFunctionOnSet(f, s \ {Pick(s)}) = 0
  BY <1>1, <1>2, <1>4
<1>6. f[Pick(s)] = 0
  BY <1>2, <1>4
<1>7. SumFunctionOnSet(f, s) = f[Pick(s)] + SumFunctionOnSet(f, s \ {Pick(s)})
  BY <1>2, <1>3, SumSplits
<1> QED BY <1>2, <1>5, <1>6, <1>7

LEMMA SumType ==
  ASSUME NEW f, NEW S, IsFiniteSet(S), \A x \in S : f[x] \in Nat
  PROVE  SumFunctionOnSet(f, S) \in Nat
<1> DEFINE B == {s \in SUBSET S : SumFunctionOnSet(f, s) \notin Nat}
<1> SUFFICES ASSUME B # {} PROVE FALSE
  OBVIOUS
<1>1. PICK s \in B : \A c \in B : c \subseteq s => c = s
  <2>1. B \in SUBSET (SUBSET S)
    OBVIOUS
  <2> HIDE DEF B
  <2> QED BY <2>1, SmallestSet
<1>2. s \in SUBSET S /\ SumFunctionOnSet(f, s) \notin Nat /\ IsFiniteSet(s)
  BY FS_Subset
<1>3. s # {}
  BY <1>2, SumEmpty
<1>4. Pick(s) \in s
  BY <1>3, Picked
<1>5. SumFunctionOnSet(f, s \ {Pick(s)}) \in Nat
  BY <1>1, <1>2, <1>4
<1>6. f[Pick(s)] \in Nat
  BY <1>2, <1>4
<1>7. SumFunctionOnSet(f, s) = f[Pick(s)] + SumFunctionOnSet(f, s \ {Pick(s)})
  BY <1>2, <1>3, SumSplits
<1> QED BY <1>2, <1>5, <1>6, <1>7

\* Any element may be taken out first.
LEMMA SumRemove ==
  ASSUME NEW f, NEW S, IsFiniteSet(S), NEW x \in S, \A y \in S : f[y] \in Nat
  PROVE  SumFunctionOnSet(f, S) = f[x] + SumFunctionOnSet(f, S \ {x})
<1> DEFINE Sum(s) == SumFunctionOnSet(f, s)
           B == {s \in SUBSET S : \E y \in s : Sum(s) # f[y] + Sum(s \ {y})}
<1> SUFFICES ASSUME B # {} PROVE FALSE
  OBVIOUS
<1>1. PICK s \in B : \A c \in B : c \subseteq s => c = s
  <2>1. B \in SUBSET (SUBSET S)
    OBVIOUS
  <2> HIDE DEF B
  <2> QED BY <2>1, SmallestSet
<1>2. PICK y \in s : Sum(s) # f[y] + Sum(s \ {y})
  OBVIOUS
<1> DEFINE p == Pick(s)
<1>3. s \in SUBSET S /\ IsFiniteSet(s) /\ p \in s
  BY FS_Subset, Picked
<1>4. Sum(s) = f[p] + Sum(s \ {p})
  BY <1>3, SumSplits
<1> HIDE DEF p
<1>5. y # p
  BY <1>2, <1>4
<1>6. \A c \in SUBSET s : c # s => \A z \in c : Sum(c) = f[z] + Sum(c \ {z})
  BY <1>1, <1>3
<1> HIDE DEF B
<1>7. Sum(s \ {p}) = f[y] + Sum((s \ {p}) \ {y})
  BY <1>3, <1>5, <1>6
<1>8. Sum(s \ {y}) = f[p] + Sum((s \ {y}) \ {p})
  BY <1>3, <1>5, <1>6
<1>9. (s \ {p}) \ {y} = (s \ {y}) \ {p}
  OBVIOUS
<1>10. f[p] \in Nat /\ f[y] \in Nat
  BY <1>3
<1>11. Sum((s \ {p}) \ {y}) \in Nat
  <2>1. (s \ {p}) \ {y} \in SUBSET S
    BY <1>3
  <2> QED BY <2>1, FS_Subset, SumType
<1> HIDE DEF Sum
<1>12. PICK u, v, w \in Nat : u = f[p] /\ v = f[y] /\ w = Sum((s \ {p}) \ {y})
  BY <1>10, <1>11
<1>13. Sum(s \ {p}) = v + w /\ Sum(s \ {y}) = u + w
  BY <1>7, <1>8, <1>9, <1>12
<1>14. Sum(s) = u + (v + w) /\ Sum(s) # v + (u + w)
  BY <1>2, <1>4, <1>12, <1>13
<1>15. u + (v + w) = v + (u + w)
  OBVIOUS
<1> QED BY <1>14, <1>15

\* Another element adds its value.
LEMMA SumAdd ==
  ASSUME NEW f, NEW S, IsFiniteSet(S), NEW x, x \notin S, \A y \in S \cup {x} : f[y] \in Nat
  PROVE  SumFunctionOnSet(f, S \cup {x}) = SumFunctionOnSet(f, S) + f[x]
<1>1. IsFiniteSet(S \cup {x}) /\ x \in S \cup {x} /\ (S \cup {x}) \ {x} = S
  BY FS_AddElement
<1>2. SumFunctionOnSet(f, S \cup {x}) = f[x] + SumFunctionOnSet(f, S)
  BY <1>1, SumRemove
<1>3. f[x] \in Nat /\ SumFunctionOnSet(f, S) \in Nat
  BY SumType
<1> QED BY <1>2, <1>3

\* Values that differ at one element only.
LEMMA SumChange ==
  ASSUME NEW f, NEW e, NEW S, IsFiniteSet(S), NEW x \in S,
         \A y \in S : f[y] \in Nat, \A y \in S : e[y] \in Nat,
         \A y \in S \ {x} : e[y] = f[y]
  PROVE  SumFunctionOnSet(e, S) + f[x] = SumFunctionOnSet(f, S) + e[x]
<1> DEFINE R == S \ {x}
<1>1. IsFiniteSet(R) /\ R \subseteq S
  BY FS_Subset
<1>2. /\ SumFunctionOnSet(f, S) = f[x] + SumFunctionOnSet(f, R)
      /\ SumFunctionOnSet(e, S) = e[x] + SumFunctionOnSet(e, R)
  BY SumRemove
<1>3. SumFunctionOnSet(f, R) \in Nat /\ f[x] \in Nat /\ e[x] \in Nat
  BY <1>1, SumType
<1>4. SumFunctionOnSet(e, R) = SumFunctionOnSet(f, R)
  BY <1>1, SumCongruence
<1> QED BY <1>2, <1>3, <1>4

-----------------------------------------------------------------------------
(* The levels of a closure                                                 *)

IsLevels(g, F, base, N) == g = [k \in 0 .. N |-> IF k = 0 THEN base ELSE F[g[k - 1]]]

Grows(F, U) == \A S \in SUBSET U : F[S] \in SUBSET U /\ S \subseteq F[S]

\* C is the least set above base that F keeps.
LeastClosed(C, F, base, U) ==
  /\ C \in SUBSET U /\ base \subseteq C /\ F[C] = C
  /\ \A T \in SUBSET U :
       base \subseteq T /\ (\A S \in SUBSET T : F[S] \subseteq T) => C \subseteq T

LEMMA LevelsExist ==
  ASSUME NEW F, NEW base, NEW N \in Nat
  PROVE  \E g : IsLevels(g, F, base, N)
<1> DEFINE T == {n \in 0 .. N : ~ \E g : IsLevels(g, F, base, n)}
<1> SUFFICES ASSUME T # {} PROVE FALSE
  OBVIOUS
<1>1. PICK n \in T : \A k \in T : n <= k
  <2>1. T \in SUBSET Nat
    OBVIOUS
  <2> HIDE DEF T
  <2> QED BY <2>1, LeastNumber
<1>2. n \in 0 .. N /\ ~ \E g : IsLevels(g, F, base, n)
  OBVIOUS
<1>3. n # 0
  <2>1. IsLevels([k \in 0 .. 0 |-> base], F, base, 0)
    BY DEF IsLevels
  <2> QED BY <1>2, <2>1
<1>4. PICK g : IsLevels(g, F, base, n - 1)
  <2>1. n - 1 \in 0 .. N /\ ~ (n <= n - 1)
    BY <1>2, <1>3
  <2> QED BY <1>1, <2>1
<1> HIDE DEF T
<1> DEFINE h == [k \in 0 .. n |-> IF k = n THEN F[g[n - 1]] ELSE g[k]]
<1>5. \A k \in 0 .. n - 1 : g[k] = IF k = 0 THEN base ELSE F[g[k - 1]]
  BY <1>2, <1>3, <1>4, Zenon DEF IsLevels
<1>6. \A k \in 0 .. n : k # 0 => k - 1 \in 0 .. n /\ h[k - 1] = g[k - 1]
  BY <1>2, <1>3
<1>7. \A k \in 0 .. n : h[k] = IF k = 0 THEN base ELSE F[h[k - 1]]
  <2> SUFFICES ASSUME NEW k \in 0 .. n PROVE h[k] = IF k = 0 THEN base ELSE F[h[k - 1]]
    OBVIOUS
  <2>1. CASE k = n
    BY <1>3, <1>6, <2>1
  <2>2. CASE k # n
    <3>1. k \in 0 .. n - 1
      BY <1>2, <2>2
    <3> QED BY <1>5, <1>6, <2>2, <3>1
  <2> QED BY <2>1, <2>2
<1>8. h = [k \in 0 .. n |-> h[k]]
  OBVIOUS
<1> HIDE DEF h
<1>9. IsLevels(h, F, base, n)
  BY <1>7, <1>8 DEF IsLevels
<1> QED BY <1>2, <1>9

\* When F only adds elements of a finite set, the last level is the least closed set
\* above the first: each level before it has one more element.
LEMMA LastLevel ==
  ASSUME NEW U, IsFiniteSet(U), NEW F, Grows(F, U), NEW base \in SUBSET U,
         NEW N \in Nat, Cardinality(U) <= N, NEW g, IsLevels(g, F, base, N)
  PROVE  (\A k \in 0 .. N : g[k] \in SUBSET U) /\ LeastClosed(g[N], F, base, U)
<1> USE DEF Grows
<1>1. \A k \in 0 .. N : g[k] = IF k = 0 THEN base ELSE F[g[k - 1]]
  BY Zenon DEF IsLevels
<1>2. g[0] = base /\ \A k \in 1 .. N : k - 1 \in 0 .. N /\ k \in 0 .. N /\ g[k] = F[g[k - 1]]
  BY <1>1
<1>3. ASSUME NEW T \in SUBSET U, base \subseteq T, \A S \in SUBSET T : F[S] \subseteq T
      PROVE  \A k \in 0 .. N : g[k] \subseteq T
  <2> DEFINE B == {k \in 0 .. N : ~ (g[k] \subseteq T)}
  <2> SUFFICES ASSUME B # {} PROVE FALSE
    OBVIOUS
  <2>1. PICK k \in B : \A j \in B : k <= j
    <3>1. B \in SUBSET Nat
      OBVIOUS
    <3> HIDE DEF B
    <3> QED BY <3>1, LeastNumber
  <2>2. k \in 0 .. N /\ ~ (g[k] \subseteq T)
    OBVIOUS
  <2>3. k \in 1 .. N /\ k - 1 \in 0 .. N /\ ~ (k <= k - 1)
    BY <1>2, <1>3, <2>2
  <2>4. g[k - 1] \subseteq T
    BY <2>1, <2>3
  <2> QED BY <1>2, <1>3, <2>2, <2>3, <2>4
<1>4. \A k \in 0 .. N : g[k] \in SUBSET U
  BY <1>3
<1>5. \A k \in 1 .. N : g[k - 1] \subseteq g[k]
  BY <1>2, <1>4
<1>6. base \subseteq g[N]
  <2> DEFINE B == {k \in 0 .. N : ~ (base \subseteq g[k])}
  <2> SUFFICES ASSUME B # {} PROVE FALSE
    OBVIOUS
  <2>1. PICK k \in B : \A j \in B : k <= j
    <3>1. B \in SUBSET Nat
      OBVIOUS
    <3> HIDE DEF B
    <3> QED BY <3>1, LeastNumber
  <2>2. k \in 1 .. N /\ k - 1 \in 0 .. N /\ ~ (k <= k - 1)
    BY <1>2
  <2>3. base \subseteq g[k - 1]
    BY <2>1, <2>2
  <2> QED BY <1>5, <2>2, <2>3
\* A level that adds nothing is the last: either some level adds nothing, or each
\* level k has at least k elements.
<1>7. \A k \in 0 .. N : Cardinality(g[k]) >= k \/ F[g[k]] = g[k]
  <2> DEFINE B == {k \in 0 .. N : ~ (Cardinality(g[k]) >= k \/ F[g[k]] = g[k])}
  <2> SUFFICES ASSUME B # {} PROVE FALSE
    OBVIOUS
  <2>1. PICK k \in B : \A j \in B : k <= j
    <3>1. B \in SUBSET Nat
      OBVIOUS
    <3> HIDE DEF B
    <3> QED BY <3>1, LeastNumber
  <2>2. k \in 0 .. N /\ ~ (Cardinality(g[k]) >= k) /\ F[g[k]] # g[k]
    OBVIOUS
  <2>3. \A j \in 0 .. N : IsFiniteSet(g[j]) /\ Cardinality(g[j]) \in Nat
    BY <1>4, FS_Subset, FS_CardinalityType
  <2>4. k \in 1 .. N /\ k - 1 \in 0 .. N /\ ~ (k <= k - 1)
    BY <2>2, <2>3
  <2>5. Cardinality(g[k - 1]) >= k - 1 \/ F[g[k - 1]] = g[k - 1]
    BY <2>1, <2>4
  <2>6. CASE F[g[k - 1]] = g[k - 1]
    BY <1>2, <2>2, <2>4, <2>6
  <2>7. CASE F[g[k - 1]] # g[k - 1]
    <3>1. g[k - 1] \subseteq g[k] /\ g[k - 1] # g[k]
      BY <1>2, <1>5, <2>4, <2>7
    <3>2. Cardinality(g[k - 1]) < Cardinality(g[k])
      BY <2>3, <2>4, <3>1, FS_Subset
    <3> QED BY <2>2, <2>3, <2>4, <2>5, <2>7, <3>2
  <2> QED BY <2>6, <2>7
<1>8. F[g[N]] = g[N]
  <2>1. g[N] \in SUBSET U /\ F[g[N]] \in SUBSET U /\ g[N] \subseteq F[g[N]]
    BY <1>4
  <2>2. CASE Cardinality(g[N]) >= N
    <3>1. Cardinality(g[N]) \in Nat /\ Cardinality(U) \in Nat /\ IsFiniteSet(g[N])
      BY <2>1, FS_Subset, FS_CardinalityType
    <3>2. g[N] = U
      BY <2>1, <2>2, <3>1, FS_Subset
    <3> QED BY <2>1, <3>2
  <2> QED BY <1>7, <2>2
<1> QED BY <1>3, <1>4, <1>6, <1>8 DEF LeastClosed

-----------------------------------------------------------------------------
(* Lists and paths                                                         *)

\* Appending to a list adds one record to it.
LEMMA AppendedToSet ==
  ASSUME NEW S, NEW f \in Seq(S), NEW x
  PROVE  ToSet(Append(f, x)) = ToSet(f) \cup {x}
<1>1. /\ DOMAIN f = 1 .. Len(f) /\ Len(f) \in Nat
      /\ DOMAIN Append(f, x) = 1 .. Len(f) + 1
      /\ \A i \in 1 .. Len(f) : Append(f, x)[i] = f[i]
      /\ Append(f, x)[Len(f) + 1] = x
  BY LenProperties, AppendProperties
<1>2. \A y : y \in ToSet(Append(f, x)) <=> y \in ToSet(f) \cup {x}
  BY <1>1 DEF ToSet
<1> QED BY <1>2

\* The parent of a path of two or more components is below the root.
LEMMA ParentBelowRoot ==
  ASSUME NEW p \in Seq(Nat), p # <<>>
  PROVE  /\ Parent(p) \in Seq(Nat) /\ Len(p) = Len(Parent(p)) + 1
         /\ \A i \in 1 .. Len(Parent(p)) : Parent(p)[i] = p[i]
<1>1. Len(p) \in Nat /\ Len(p) # 0 /\ DOMAIN p = 1 .. Len(p)
  BY LenProperties, EmptySeq
<1>2. \A i \in 1 .. Len(p) - 1 : p[i] \in Nat
  BY <1>1
<1>3. PICK n : n \in Nat /\ n = Len(p) - 1
  <2>1. Len(p) - 1 \in Nat
    BY <1>1
  <2> QED BY <2>1
<1>4. /\ SubSeq(p, 1, n) \in Seq(Nat) /\ Len(SubSeq(p, 1, n)) = (IF 1 <= n THEN n - 1 + 1 ELSE 0)
      /\ \A i \in 1 .. n - 1 + 1 : SubSeq(p, 1, n)[i] = p[1 + i - 1]
  BY <1>2, <1>3, SubSeqProperties
<1>5. Parent(p) = SubSeq(p, 1, n)
  BY <1>3 DEF Parent, Front
<1> HIDE DEF Parent
<1> QED BY <1>1, <1>3, <1>4, <1>5

LEMMA PrefixElements ==
  ASSUME NEW p \in Seq(Nat), NEW q \in Seq(Nat)
  PROVE  IsPrefix(p, q) <=> Len(p) <= Len(q) /\ \A i \in 1 .. Len(p) : p[i] = q[i]
<1>1. Len(p) \in Nat /\ Len(q) \in Nat /\ DOMAIN p = 1 .. Len(p) /\ DOMAIN q = 1 .. Len(q)
  BY LenProperties
<1>2. PICK n : n = Len(p)
  OBVIOUS
<1>3. \A i \in 1 .. n : p[i] \in Nat /\ (n <= Len(q) => q[i] \in Nat)
  BY <1>1, <1>2
<1>4. SubSeq(p, 1, n) = p
  BY <1>1, <1>2, SubSeqFull
<1>5. ASSUME n <= Len(q)
      PROVE  SubSeq(p, 1, n) = SubSeq(q, 1, n) <=> \A i \in 1 .. n : p[i] = q[i]
  BY <1>1, <1>2, <1>3, <1>4, <1>5, SubSeqProperties, SeqEqual
<1> QED BY <1>1, <1>2, <1>5 DEF IsPrefix

LEMMA PrefixOfParent ==
  ASSUME NEW p \in Seq(Nat), NEW q \in Seq(Nat), q # <<>>, IsStrictPrefix(p, q)
  PROVE  p = Parent(q) \/ IsStrictPrefix(p, Parent(q))
<1>1. /\ Parent(q) \in Seq(Nat) /\ Len(q) = Len(Parent(q)) + 1
      /\ \A i \in 1 .. Len(Parent(q)) : Parent(q)[i] = q[i]
  BY ParentBelowRoot
<1>2. p # q /\ Len(p) <= Len(q) /\ \A i \in 1 .. Len(p) : p[i] = q[i]
  BY PrefixElements DEF IsStrictPrefix
<1>3. Len(p) \in Nat /\ Len(q) \in Nat /\ Len(Parent(q)) \in Nat
  BY <1>1, LenProperties
<1>4. Len(p) # Len(q)
  BY <1>2, SeqEqual
<1>5. IsPrefix(p, Parent(q))
  <2>1. PICK r \in Seq(Nat) : r = Parent(q)
    BY <1>1
  <2>2. PICK k, n : k = Len(p) /\ n = Len(r)
    OBVIOUS
  <2>3. k \in Nat /\ n \in Nat /\ k <= n /\ \A i \in 1 .. n : r[i] = q[i]
    BY <1>1, <1>2, <1>3, <1>4, <2>1, <2>2
  <2>4. \A i \in 1 .. k : i \in 1 .. n /\ p[i] = q[i]
    BY <1>2, <2>2, <2>3
  <2> QED BY <2>1, <2>2, <2>3, <2>4, PrefixElements
<1> QED BY <1>5 DEF IsStrictPrefix

-----------------------------------------------------------------------------
(* Sorting by rank                                                         *)

\* R orders the numbers 1 .. n one after the other.
TotalOn(R, n) ==
  /\ \A i \in 1 .. n : <<i, i>> \notin R
  /\ \A i, j, k \in 1 .. n : <<i, j>> \in R /\ <<j, k>> \in R => <<i, k>> \in R
  /\ \A i, j \in 1 .. n : i # j => <<i, j>> \in R \/ <<j, i>> \in R

IsPermutation(p, n) ==
  /\ p \in [1 .. n -> 1 .. n]
  /\ \A k, l \in 1 .. n : p[k] = p[l] => k = l
  /\ \A i \in 1 .. n : \E k \in 1 .. n : p[k] = i

\* What comes before j comes before whatever j comes before, and so does j.
LEMMA RankOrders ==
  ASSUME NEW n \in Nat, NEW R, TotalOn(R, n)
  PROVE  /\ \A i \in 1 .. n : RankIn(R, n, i) \in 1 .. n
         /\ \A i, j \in 1 .. n : <<j, i>> \in R => RankIn(R, n, j) < RankIn(R, n, i)
<1> DEFINE I == 1 .. n
           P(i) == {j \in I : <<j, i>> \in R}
<1>1. IsFiniteSet(I) /\ Cardinality(I) = n
  BY FS_Interval
<1>2. \A i \in I : /\ P(i) \in SUBSET I /\ i \notin P(i)
                   /\ IsFiniteSet(P(i)) /\ Cardinality(P(i)) \in Nat
                   /\ IsFiniteSet(P(i) \cup {i})
                   /\ Cardinality(P(i) \cup {i}) = Cardinality(P(i)) + 1
  <2> SUFFICES ASSUME NEW i \in I
               PROVE  /\ P(i) \in SUBSET I /\ i \notin P(i)
                      /\ IsFiniteSet(P(i)) /\ Cardinality(P(i)) \in Nat
                      /\ IsFiniteSet(P(i) \cup {i})
                      /\ Cardinality(P(i) \cup {i}) = Cardinality(P(i)) + 1
    OBVIOUS
  <2>1. P(i) \in SUBSET I /\ i \notin P(i)
    BY DEF TotalOn
  <2> HIDE DEF I, P
  <2>2. IsFiniteSet(P(i)) /\ Cardinality(P(i)) \in Nat
    BY <1>1, <2>1, FS_Subset, FS_CardinalityType
  <2> QED BY <2>1, <2>2, FS_AddElement
<1>3. ASSUME NEW i \in I PROVE RankIn(R, n, i) \in 1 .. n
  <2>1. P(i) \cup {i} \in SUBSET I
    OBVIOUS
  <2>2. RankIn(R, n, i) = 1 + Cardinality(P(i))
    BY DEF RankIn
  <2> HIDE DEF I, P
  <2>3. Cardinality(P(i) \cup {i}) <= n
    BY <1>1, <2>1, FS_Subset
  <2>4. Cardinality(P(i)) \in Nat /\ Cardinality(P(i) \cup {i}) = Cardinality(P(i)) + 1
    BY <1>2
  <2> QED BY <2>2, <2>3, <2>4
<1>4. ASSUME NEW i \in I, NEW j \in I, <<j, i>> \in R
      PROVE  RankIn(R, n, j) < RankIn(R, n, i)
  <2>1. P(j) \cup {j} \in SUBSET P(i)
    BY <1>4 DEF TotalOn
  <2>2. RankIn(R, n, i) = 1 + Cardinality(P(i)) /\ RankIn(R, n, j) = 1 + Cardinality(P(j))
    BY DEF RankIn
  <2> HIDE DEF I, P
  <2>3. Cardinality(P(j) \cup {j}) <= Cardinality(P(i))
    BY <1>2, <2>1, FS_Subset
  <2>4. /\ Cardinality(P(i)) \in Nat /\ Cardinality(P(j)) \in Nat
        /\ Cardinality(P(j) \cup {j}) = Cardinality(P(j)) + 1
    BY <1>2
  <2> QED BY <2>2, <2>3, <2>4
<1> QED BY <1>3, <1>4

ByRank(R, n) == [k \in 1 .. n |-> CHOOSE i \in 1 .. n : RankIn(R, n, i) = k]

\* So each rank is that of one number, and the numbers put at their ranks are in order.
LEMMA SortPermutes ==
  ASSUME NEW n \in Nat, NEW R, TotalOn(R, n)
  PROVE  /\ IsPermutation(ByRank(R, n), n)
         /\ \A k, l \in 1 .. n : k < l => <<ByRank(R, n)[k], ByRank(R, n)[l]>> \in R
<1> DEFINE I == 1 .. n
           r == [i \in I |-> RankIn(R, n, i)]
           p == [k \in I |-> CHOOSE i \in I : RankIn(R, n, i) = k]
<1>1. r \in [I -> I] /\ \A i, j \in I : <<j, i>> \in R => r[j] < r[i]
  BY RankOrders
<1>2. \A i, j \in I : r[i] = r[j] => i = j
  <2> SUFFICES ASSUME NEW i \in I, NEW j \in I, r[i] = r[j], i # j PROVE FALSE
    OBVIOUS
  <2>1. <<i, j>> \in R \/ <<j, i>> \in R
    BY DEF TotalOn
  <2>2. r[i] \in I /\ r[j] \in I
    BY <1>1
  <2> HIDE DEF r
  <2> QED BY <1>1, <2>1, <2>2
<1>3. \A k \in I : \E i \in I : r[i] = k
  <2>1. IsFiniteSet(I)
    BY FS_Interval
  <2>2. r \in Injection(I, I)
    BY <1>1, <1>2 DEF Injection, IsInjective
  <2> HIDE DEF r, I
  <2>3. r \in Surjection(I, I)
    BY <2>1, <2>2, FS_Injection
  <2> QED BY <2>3 DEF Surjection
<1>4. \A k \in I : p[k] \in I /\ r[p[k]] = k
  <2> SUFFICES ASSUME NEW k \in I PROVE p[k] \in I /\ r[p[k]] = k
    OBVIOUS
  <2>1. \E i \in I : RankIn(R, n, i) = k
    BY <1>3
  <2>2. p[k] = CHOOSE i \in I : RankIn(R, n, i) = k
    OBVIOUS
  <2> HIDE DEF p, I
  <2>3. p[k] \in I /\ RankIn(R, n, p[k]) = k
    BY <2>1, <2>2
  <2> QED BY <2>3
<1>5. p \in [I -> I]
  BY <1>4
<1>6. \A k, l \in I : k < l => <<p[k], p[l]>> \in R
  <2> SUFFICES ASSUME NEW k \in I, NEW l \in I, k < l PROVE <<p[k], p[l]>> \in R
    OBVIOUS
  <2>1. p[k] \in I /\ p[l] \in I /\ r[p[k]] = k /\ r[p[l]] = l
    BY <1>4
  <2> HIDE DEF p, r
  <2>2. p[k] # p[l]
    BY <2>1
  <2>3. ~(<<p[l], p[k]>> \in R)
    BY <1>1, <2>1
  <2> QED BY <2>1, <2>2, <2>3 DEF TotalOn
<1>7. \A i \in I : \E k \in I : p[k] = i
  <2> SUFFICES ASSUME NEW i \in I PROVE p[r[i]] = i /\ r[i] \in I
    OBVIOUS
  <2>1. r[i] \in I
    BY <1>1
  <2>2. p[r[i]] \in I /\ r[p[r[i]]] = r[i]
    BY <1>4, <2>1
  <2> HIDE DEF p, r
  <2> QED BY <1>2, <2>1, <2>2
<1>8. \A k, l \in I : p[k] = p[l] => k = l
  BY <1>4
<1> HIDE DEF p
<1>9. IsPermutation(p, n)
  BY <1>5, <1>7, <1>8 DEF IsPermutation
<1>10. ByRank(R, n) = p
  BY DEF ByRank, p
<1> QED BY <1>6, <1>9, <1>10

\* Arrange moves the elements of a list to where R wants them.
LEMMA ArrangePermutes ==
  ASSUME NEW s, Len(s) \in Nat, NEW R, TotalOn(R, Len(s)), NEW p, p = ByRank(R, Len(s))
  PROVE  /\ IsPermutation(p, Len(s))
         /\ \A k, l \in 1 .. Len(s) : k < l => <<p[k], p[l]>> \in R
         /\ Arrange(s, R) = [k \in 1 .. Len(s) |-> s[p[k]]]
<1>1. PICK n : n = Len(s)
  OBVIOUS
<1>2. p = ByRank(R, n)
  BY <1>1
<1>3. IsPermutation(p, n) /\ \A k, l \in 1 .. n : k < l => <<p[k], p[l]>> \in R
  BY <1>1, <1>2, SortPermutes
<1>4. \A k \in 1 .. n : p[k] = CHOOSE i \in 1 .. n : RankIn(R, n, i) = k
  BY <1>2 DEF ByRank
<1>5. Arrange(s, R) = [k \in 1 .. n |-> s[CHOOSE i \in 1 .. n : RankIn(R, n, i) = k]]
  BY <1>1 DEF Arrange
<1>6. Arrange(s, R) = [k \in 1 .. n |-> s[p[k]]]
  BY <1>4, <1>5
<1> QED BY <1>1, <1>3, <1>6

-----------------------------------------------------------------------------
(* The order of paths                                                      *)

\* Path p comes before q at component k: they agree so far, and p ends or is less there.
BeforeAt(p, q, k) ==
  /\ k \in 1 .. Len(q) /\ k - 1 <= Len(p)
  /\ \A i \in 1 .. k - 1 : p[i] = q[i]
  /\ Len(p) = k - 1 \/ (k <= Len(p) /\ p[k] < q[k])

LEMMA SameHeads ==
  ASSUME NEW p \in Seq(Nat), NEW q \in Seq(Nat), NEW k \in Nat, k <= Len(p), k <= Len(q)
  PROVE  SubSeq(p, 1, k) = SubSeq(q, 1, k) <=> \A i \in 1 .. k : p[i] = q[i]
<1>1. Len(p) \in Nat /\ Len(q) \in Nat /\ DOMAIN p = 1 .. Len(p) /\ DOMAIN q = 1 .. Len(q)
  BY LenProperties
<1>2. \A i \in 1 .. k : p[i] \in Nat /\ q[i] \in Nat
  BY <1>1
<1>3. /\ SubSeq(p, 1, k) \in Seq(Nat) /\ SubSeq(q, 1, k) \in Seq(Nat)
      /\ Len(SubSeq(p, 1, k)) = k /\ Len(SubSeq(q, 1, k)) = k
      /\ \A i \in 1 .. k : SubSeq(p, 1, k)[i] = p[i] /\ SubSeq(q, 1, k)[i] = q[i]
  <2>1. /\ SubSeq(p, 1, k) \in Seq(Nat) /\ Len(SubSeq(p, 1, k)) = (IF 1 <= k THEN k - 1 + 1 ELSE 0)
        /\ \A i \in 1 .. k - 1 + 1 : SubSeq(p, 1, k)[i] = p[1 + i - 1]
    BY <1>2, SubSeqProperties, SMTT(30)
  <2>2. /\ SubSeq(q, 1, k) \in Seq(Nat) /\ Len(SubSeq(q, 1, k)) = (IF 1 <= k THEN k - 1 + 1 ELSE 0)
        /\ \A i \in 1 .. k - 1 + 1 : SubSeq(q, 1, k)[i] = q[1 + i - 1]
    BY <1>2, SubSeqProperties
  <2> QED BY <2>1, <2>2
<1>4. ASSUME \A i \in 1 .. k : p[i] = q[i]
      PROVE  SubSeq(p, 1, k) = SubSeq(q, 1, k)
  <2>1. PICK a, b : a = SubSeq(p, 1, k) /\ b = SubSeq(q, 1, k)
    OBVIOUS
  <2>2. a \in Seq(Nat) /\ b \in Seq(Nat) /\ Len(a) = Len(b) /\ \A i \in 1 .. Len(a) : a[i] = b[i]
    BY <1>3, <1>4, <2>1
  <2> QED BY <2>1, <2>2, SeqEqual
<1> QED BY <1>3, <1>4

LEMMA BeforeSomewhere ==
  ASSUME NEW p \in Seq(Nat), NEW q \in Seq(Nat)
  PROVE  PathBefore(p, q) <=> \E k \in Nat : BeforeAt(p, q, k)
<1>1. Len(p) \in Nat /\ Len(q) \in Nat /\ DOMAIN p = 1 .. Len(p) /\ DOMAIN q = 1 .. Len(q)
  BY LenProperties
<1>2. ASSUME IsStrictPrefix(p, q) PROVE BeforeAt(p, q, Len(p) + 1)
  <2>1. p # q /\ Len(p) <= Len(q) /\ \A i \in 1 .. Len(p) : p[i] = q[i]
    BY <1>2, PrefixElements DEF IsStrictPrefix
  <2>2. Len(p) # Len(q)
    BY <2>1, SeqEqual
  <2>3. Len(p) + 1 \in 1 .. Len(q) /\ Len(p) + 1 - 1 = Len(p)
    <3>1. \A m, n \in Nat : m <= n /\ m # n => m + 1 \in 1 .. n /\ m + 1 - 1 = m
      OBVIOUS
    <3>2. Len(p) \in Nat /\ Len(q) \in Nat /\ Len(p) <= Len(q) /\ Len(p) # Len(q)
      BY <1>1, <2>1, <2>2
    <3> QED BY <3>1, <3>2
  <2> QED BY <1>1, <2>1, <2>3 DEF BeforeAt
<1>3. ASSUME NEW k \in DOMAIN p \cap DOMAIN q, SubSeq(p, 1, k - 1) = SubSeq(q, 1, k - 1), p[k] < q[k]
      PROVE  BeforeAt(p, q, k)
  <2>1. k - 1 \in Nat /\ k - 1 <= Len(p) /\ k - 1 <= Len(q)
    BY <1>1
  <2>2. \A i \in 1 .. k - 1 : p[i] = q[i]
    BY <1>3, <2>1, SameHeads
  <2> QED BY <1>1, <1>3, <2>1, <2>2 DEF BeforeAt
<1>4. ASSUME NEW k \in Nat, BeforeAt(p, q, k) PROVE PathBefore(p, q)
  <2>1. CASE Len(p) = k - 1
    <3>1. Len(p) <= Len(q) /\ Len(p) # Len(q) /\ \A i \in 1 .. Len(p) : p[i] = q[i]
      BY <1>1, <1>4, <2>1 DEF BeforeAt
    <3> QED BY <3>1, PrefixElements DEF IsStrictPrefix, PathBefore
  <2>2. CASE k <= Len(p) /\ p[k] < q[k]
    <3>1. k \in DOMAIN p \cap DOMAIN q /\ k - 1 \in Nat /\ k - 1 <= Len(p) /\ k - 1 <= Len(q)
      BY <1>1, <1>4, <2>2 DEF BeforeAt
    <3>2. SubSeq(p, 1, k - 1) = SubSeq(q, 1, k - 1)
      BY <1>4, <3>1, SameHeads DEF BeforeAt
    <3> QED BY <2>2, <3>1, <3>2 DEF PathBefore
  <2> QED BY <1>4, <2>1, <2>2 DEF BeforeAt
<1> QED BY <1>1, <1>2, <1>3, <1>4 DEF PathBefore

\* Different paths are one before the other.
LEMMA PathsOrdered ==
  /\ \A p \in Seq(Nat) : ~PathBefore(p, p)
  /\ \A p, q \in Seq(Nat) : p # q => PathBefore(p, q) \/ PathBefore(q, p)
  /\ \A p, q, r \in Seq(Nat) : PathBefore(p, q) /\ PathBefore(q, r) => PathBefore(p, r)
<1>1. \A p \in Seq(Nat) : /\ Len(p) \in Nat /\ \A i \in 1 .. Len(p) : p[i] \in Nat
  BY LenProperties
<1>2. ASSUME NEW p \in Seq(Nat), NEW k \in Nat, BeforeAt(p, p, k) PROVE FALSE
  BY <1>1, <1>2 DEF BeforeAt
<1>3. ASSUME NEW p \in Seq(Nat), NEW q \in Seq(Nat), p # q
      PROVE  PathBefore(p, q) \/ PathBefore(q, p)
  <2> DEFINE T == {k \in Nat : k >= 1 /\ (k > Len(p) \/ k > Len(q) \/ p[k] # q[k])}
  <2>1. Len(p) + 1 \in T
    BY <1>1
  <2>2. PICK k \in T : \A j \in T : k <= j
    <3>1. T \in SUBSET Nat /\ T # {}
      BY <2>1
    <3> HIDE DEF T
    <3> QED BY <3>1, LeastNumber
  <2>3. \A i \in 1 .. k - 1 : i <= Len(p) /\ i <= Len(q) /\ p[i] = q[i]
    <3> SUFFICES ASSUME NEW i \in 1 .. k - 1, i \notin T PROVE i <= Len(p) /\ i <= Len(q) /\ p[i] = q[i]
      <4>1. \A i \in 1 .. k - 1 : ~(k <= i)
        BY <2>2
      <4>2. \A i \in 1 .. k - 1 : i \notin T
        BY <2>2, <4>1
      <4> QED BY <4>2
    <3>1. i \in Nat /\ i >= 1 /\ Len(p) \in Nat /\ Len(q) \in Nat
      BY <1>1
    <3> QED BY <3>1, SMTT(30)
  <2>4. k \in Nat /\ k >= 1 /\ (k > Len(p) \/ k > Len(q) \/ p[k] # q[k])
    OBVIOUS
  <2> HIDE DEF T
  <2>5. k - 1 <= Len(p) /\ k - 1 <= Len(q)
    BY <1>1, <2>3, <2>4
  <2>6. ~(k > Len(p) /\ k > Len(q))
    <3> SUFFICES ASSUME k > Len(p), k > Len(q) PROVE FALSE
      OBVIOUS
    <3>1. Len(p) = k - 1 /\ Len(q) = k - 1
      BY <1>1, <2>4, <2>5
    <3> QED BY <1>3, <2>3, <3>1, SeqEqual
  <2>7. BeforeAt(p, q, k) \/ BeforeAt(q, p, k)
    <3>1. CASE k > Len(p)
      BY <1>1, <2>3, <2>4, <2>5, <2>6, <3>1 DEF BeforeAt
    <3>2. CASE k > Len(q)
      BY <1>1, <2>3, <2>4, <2>5, <2>6, <3>2 DEF BeforeAt
    <3>3. CASE k <= Len(p) /\ k <= Len(q)
      <4>1. p[k] \in Nat /\ q[k] \in Nat /\ (p[k] < q[k] \/ q[k] < p[k])
        BY <1>1, <2>4, <3>3
      <4> QED BY <2>3, <2>4, <2>5, <3>3, <4>1 DEF BeforeAt
    <3> QED BY <1>1, <2>4, <3>1, <3>2, <3>3
  <2> QED BY <2>4, <2>7, BeforeSomewhere
<1>4. ASSUME NEW p \in Seq(Nat), NEW q \in Seq(Nat), NEW r \in Seq(Nat),
             NEW k \in Nat, NEW l \in Nat, BeforeAt(p, q, k), BeforeAt(q, r, l)
      PROVE  PathBefore(p, r)
  <2>1. CASE k < l
    <3>1. k \in 1 .. Len(r) /\ q[k] = r[k] /\ \A i \in 1 .. k - 1 : p[i] = r[i]
      BY <1>1, <1>4, <2>1, SMTT(30) DEF BeforeAt
    <3>2. BeforeAt(p, r, k)
      BY <1>4, <3>1 DEF BeforeAt
    <3> QED BY <3>2, BeforeSomewhere
  <2>2. CASE k = l
    <3>1. \A i \in 1 .. k - 1 : p[i] = r[i]
      BY <1>4, <2>2 DEF BeforeAt
    <3>2. k <= Len(q) /\ k <= Len(r) /\ q[k] < r[k] /\ k >= 1
      BY <1>1, <1>4, <2>2 DEF BeforeAt
    <3>3. k <= Len(p) => p[k] \in Nat /\ q[k] \in Nat /\ r[k] \in Nat
      BY <1>1, <3>2
    <3>4. Len(p) = k - 1 \/ (k <= Len(p) /\ p[k] < q[k])
      BY <1>4 DEF BeforeAt
    <3>5. Len(p) = k - 1 \/ (k <= Len(p) /\ p[k] < r[k])
      BY <3>2, <3>3, <3>4, SMTT(30)
    <3>6. BeforeAt(p, r, k)
      BY <1>1, <1>4, <3>1, <3>2, <3>5 DEF BeforeAt
    <3> QED BY <3>6, BeforeSomewhere
  <2>3. CASE l < k
    <3>1. l \in 1 .. Len(r) /\ p[l] = q[l] /\ \A i \in 1 .. l - 1 : p[i] = r[i]
      BY <1>1, <1>4, <2>3 DEF BeforeAt
    <3>2. l <= Len(p) /\ l <= Len(q) /\ q[l] < r[l]
      BY <1>1, <1>4, <2>3, SMTT(30) DEF BeforeAt
    <3>3. BeforeAt(p, r, l)
      BY <1>1, <3>1, <3>2 DEF BeforeAt
    <3> QED BY <3>3, BeforeSomewhere
  <2> QED BY <2>1, <2>2, <2>3
<1> QED BY <1>2, <1>3, <1>4, BeforeSomewhere

\* Sorting by path moves the entries of a list and leaves them in order.
LEMMA SortedByPath ==
  ASSUME NEW E, \A e \in E : e.path \in Seq(Nat), NEW s \in Seq(E)
  PROVE  /\ SortByPath(s) \in Seq(E) /\ Len(SortByPath(s)) = Len(s)
         /\ \E p : /\ IsPermutation(p, Len(s))
                   /\ \A k \in 1 .. Len(s) : SortByPath(s)[k] = s[p[k]]
                   /\ \A k, l \in 1 .. Len(s) :
                        k < l => \/ PathBefore(s[p[k]].path, s[p[l]].path)
                                 \/ s[p[k]].path = s[p[l]].path
<1> DEFINE n == Len(s)
           before == {x \in Pairs(s) : PathBefore(s[x[1]].path, s[x[2]].path)}
           R == {x \in Pairs(s) : x \in before \/ (<<x[2], x[1]>> \notin before /\ x[1] < x[2])}
<1>1. n \in Nat /\ DOMAIN s = 1 .. n /\ \A i \in 1 .. n : s[i] \in E /\ s[i].path \in Seq(Nat)
  BY LenProperties, ElementOfSeq
<1>2. \A i, j \in 1 .. n :
        <<i, j>> \in R <=> \/ PathBefore(s[i].path, s[j].path)
                           \/ s[i].path = s[j].path /\ i < j
  <2>1. \A i, j \in 1 .. n : <<i, j>> \in before <=> PathBefore(s[i].path, s[j].path)
    BY DEF Pairs
  <2>2. \A i, j \in 1 .. n :
          <<i, j>> \in R <=> <<i, j>> \in before \/ (<<j, i>> \notin before /\ i < j)
    <3> HIDE DEF before
    <3> QED BY DEF Pairs
  <2> HIDE DEF before, R
  <2> QED BY <1>1, <2>1, <2>2, PathsOrdered
<1>3. TotalOn(R, n)
  <2> HIDE DEF n, R
  <2>1. \A i \in 1 .. n : <<i, i>> \notin R
    BY <1>1, <1>2, PathsOrdered
  <2>2. \A i, j \in 1 .. n : i # j => <<i, j>> \in R \/ <<j, i>> \in R
    BY <1>1, <1>2, PathsOrdered, SMTT(30)
  <2>3. ASSUME NEW i \in 1 .. n, NEW j \in 1 .. n, NEW k \in 1 .. n,
               <<i, j>> \in R, <<j, k>> \in R
        PROVE  <<i, k>> \in R
    <3>1. \/ PathBefore(s[i].path, s[j].path)
          \/ s[i].path = s[j].path /\ i < j
      BY <1>2, <2>3
    <3>2. \/ PathBefore(s[j].path, s[k].path)
          \/ s[j].path = s[k].path /\ j < k
      BY <1>2, <2>3
    <3>3. \/ PathBefore(s[i].path, s[k].path)
          \/ s[i].path = s[k].path /\ i < k
      BY <1>1, <3>1, <3>2, PathsOrdered
    <3> QED BY <1>2, <3>3
  <2> QED BY <2>1, <2>2, <2>3 DEF TotalOn
<1>4. SortByPath(s) = Arrange(s, R)
  BY DEF SortByPath, StableSort
<1>5. PICK p : /\ IsPermutation(p, n) /\ \A k, l \in 1 .. n : k < l => <<p[k], p[l]>> \in R
               /\ SortByPath(s) = [k \in 1 .. n |-> s[p[k]]]
  <2>1. n = Len(s)
    OBVIOUS
  <2> HIDE DEF R, n
  <2>2. PICK p : p = ByRank(R, Len(s))
    OBVIOUS
  <2>3. Len(s) \in Nat /\ TotalOn(R, Len(s))
    BY <1>1, <1>3, <2>1
  <2>4. /\ IsPermutation(p, Len(s))
        /\ \A k, l \in 1 .. Len(s) : k < l => <<p[k], p[l]>> \in R
        /\ Arrange(s, R) = [k \in 1 .. Len(s) |-> s[p[k]]]
    BY <2>2, <2>3, ArrangePermutes
  <2> QED BY <1>4, <2>1, <2>4
<1>6. \A k \in 1 .. n : p[k] \in 1 .. n
  BY <1>5 DEF IsPermutation
<1>7. SortByPath(s) \in Seq(E) /\ Len(SortByPath(s)) = n
  <2> HIDE DEF n
  <2>1. \A k \in 1 .. n : s[p[k]] \in E
    BY <1>1, <1>6
  <2> QED BY <1>1, <1>5, <2>1, SMT
<1>8. \A k, l \in 1 .. n : k < l => \/ PathBefore(s[p[k]].path, s[p[l]].path)
                                    \/ s[p[k]].path = s[p[l]].path
  <2> HIDE DEF n, R
  <2> QED BY <1>2, <1>5, <1>6
<1> QED BY <1>5, <1>7, <1>8

-----------------------------------------------------------------------------
(* Folds                                                                   *)

Chooses(ch, S) == \A s \in SUBSET S : s # {} => ch[s] \in s

\* The function inside MapThenFoldSet, with F for the operation and ch for the choice.
IsFold(g, F, base, ch, S) ==
  g = [s \in SUBSET S |-> IF s = {} THEN base ELSE F[<<ch[s], g[s \ {ch[s]}]>>]]

LEMMA FoldStep ==
  ASSUME NEW g, NEW F, NEW base, NEW ch, NEW S, IsFold(g, F, base, ch, S), NEW s \in SUBSET S
  PROVE  g[s] = IF s = {} THEN base ELSE F[<<ch[s], g[s \ {ch[s]}]>>]
BY Zenon DEF IsFold

LEMMA SameFolds ==
  ASSUME NEW F, NEW base, NEW ch, NEW S, NEW T, NEW g, NEW h,
         IsFold(g, F, base, ch, S), IsFold(h, F, base, ch, T),
         NEW R, R \subseteq S, R \subseteq T, IsFiniteSet(R), Chooses(ch, R)
  PROVE  g[R] = h[R]
<1> DEFINE B == {r \in SUBSET R : g[r] # h[r]}
<1> SUFFICES ASSUME B # {} PROVE FALSE
  OBVIOUS
<1>1. PICK r \in B : \A c \in B : c \subseteq r => c = r
  <2>1. B \in SUBSET (SUBSET R)
    OBVIOUS
  <2> HIDE DEF B
  <2> QED BY <2>1, SmallestSet
<1>2. /\ g[r] = IF r = {} THEN base ELSE F[<<ch[r], g[r \ {ch[r]}]>>]
      /\ h[r] = IF r = {} THEN base ELSE F[<<ch[r], h[r \ {ch[r]}]>>]
  <2>1. r \in SUBSET S /\ r \in SUBSET T
    OBVIOUS
  <2> QED BY <2>1, FoldStep
<1>3. r # {}
  BY <1>2
<1>4. ch[r] \in r
  BY <1>3 DEF Chooses
<1>5. g[r \ {ch[r]}] = h[r \ {ch[r]}]
  BY <1>1, <1>4
<1> QED BY <1>2, <1>3, <1>5

LEMMA FoldExists ==
  ASSUME NEW F, NEW base, NEW ch, NEW S, IsFiniteSet(S), Chooses(ch, S)
  PROVE  \E g : IsFold(g, F, base, ch, S)
<1> DEFINE B == {s \in SUBSET S : ~ \E g : IsFold(g, F, base, ch, s)}
<1> SUFFICES ASSUME B # {} PROVE FALSE
  OBVIOUS
<1>1. PICK s \in B : \A c \in B : c \subseteq s => c = s
  <2>1. B \in SUBSET (SUBSET S)
    OBVIOUS
  <2> HIDE DEF B
  <2> QED BY <2>1, SmallestSet
<1> DEFINE Below(t) == CHOOSE g : IsFold(g, F, base, ch, t)
           Rest(t) == t \ {ch[t]}
           G == [t \in SUBSET s |->
                   IF t = {} THEN base ELSE F[<<ch[t], Below(Rest(t))[Rest(t)]>>]]
<1>2. \A t \in SUBSET s : t # s => IsFold(Below(t), F, base, ch, t)
  BY <1>1
<1>3. \A t \in SUBSET s : t # {} => Rest(t) \in SUBSET s /\ Rest(t) # s /\ Rest(t) # t
  BY DEF Chooses
<1>4. ASSUME NEW u \in SUBSET s, u # s PROVE G[u] = Below(u)[u]
  <2>1. IsFold(Below(u), F, base, ch, u)
    BY <1>2, <1>4
  <2>2. Below(u)[u] = IF u = {} THEN base ELSE F[<<ch[u], Below(u)[Rest(u)]>>]
    <3> HIDE DEF Below
    <3>1. u \in SUBSET u
      OBVIOUS
    <3> QED BY <2>1, <3>1, FoldStep
  <2>3. ASSUME u # {} PROVE Below(u)[Rest(u)] = Below(Rest(u))[Rest(u)]
    <3>1. IsFiniteSet(Rest(u)) /\ Chooses(ch, Rest(u))
      BY FS_Subset DEF Chooses
    <3>2. IsFold(Below(Rest(u)), F, base, ch, Rest(u))
      BY <1>2, <1>3, <2>3
    <3> HIDE DEF Below, Rest
    <3>3. Rest(u) \subseteq u
      BY DEF Rest
    <3> QED BY <2>1, <3>1, <3>2, <3>3, SameFolds
  <2> QED BY <2>2, <2>3
<1>5. G = [t \in SUBSET s |-> IF t = {} THEN base ELSE F[<<ch[t], Below(Rest(t))[Rest(t)]>>]]
  OBVIOUS
<1> HIDE DEF G, Below, Rest
<1>6. G = [t \in SUBSET s |-> IF t = {} THEN base ELSE F[<<ch[t], G[Rest(t)]>>]]
  BY <1>3, <1>4, <1>5
<1> USE DEF Rest
<1>7. IsFold(G, F, base, ch, s)
  BY <1>6 DEF IsFold
<1> QED BY <1>7

\* A fold stays where its operation stays.
LEMMA FoldStays ==
  ASSUME NEW F, NEW base, NEW ch, NEW S, IsFiniteSet(S), Chooses(ch, S),
         NEW A, base \in A, \A x \in S : \A a \in A : F[<<x, a>>] \in A,
         NEW g, IsFold(g, F, base, ch, S)
  PROVE  \A s \in SUBSET S : g[s] \in A
<1> DEFINE B == {s \in SUBSET S : g[s] \notin A}
<1> SUFFICES ASSUME B # {} PROVE FALSE
  OBVIOUS
<1>1. PICK s \in B : \A c \in B : c \subseteq s => c = s
  <2>1. B \in SUBSET (SUBSET S)
    OBVIOUS
  <2> HIDE DEF B
  <2> QED BY <2>1, SmallestSet
<1>2. g[s] = IF s = {} THEN base ELSE F[<<ch[s], g[s \ {ch[s]}]>>]
  BY FoldStep
<1>3. s # {} /\ ch[s] \in s /\ ch[s] \in S
  BY <1>2 DEF Chooses
<1>4. g[s \ {ch[s]}] \in A
  BY <1>1, <1>3
<1> QED BY <1>2, <1>3, <1>4

\* FoldLeft takes the largest index off: its stages are the folds of 1 .. k.
Largest(n) == [s \in SUBSET (1 .. n) |-> Max(s)]

LEMMA MaxOfInterval ==
  ASSUME NEW n \in Nat
  PROVE  /\ Chooses(Largest(n), 1 .. n)
         /\ \A k \in 1 .. n : Max(1 .. k) = k /\ (1 .. k) \ {k} = 1 .. k - 1
<1>1. ASSUME NEW s \in SUBSET (1 .. n), s # {} PROVE Max(s) \in s /\ \A y \in s : Max(s) >= y
  <2> DEFINE T == {n - x : x \in s}
  <2>1. T \in SUBSET Nat /\ T # {}
    BY <1>1
  <2> HIDE DEF T
  <2>2. PICK m \in T : \A k \in T : m <= k
    BY <2>1, LeastNumber
  <2> USE DEF T
  <2>3. PICK x \in s : m = n - x
    OBVIOUS
  <2>4. \A y \in s : x >= y
    BY <2>2, <2>3
  <2>5. \E z \in s : \A y \in s : z >= y
    BY <2>4
  <2> HIDE DEF T
  <2> QED BY <2>5 DEF Max
<1>2. Chooses(Largest(n), 1 .. n)
  BY <1>1 DEF Chooses, Largest
<1>3. ASSUME NEW k \in 1 .. n PROVE Max(1 .. k) = k /\ (1 .. k) \ {k} = 1 .. k - 1
  <2>1. (1 .. k) \in SUBSET (1 .. n) /\ k \in 1 .. k
    OBVIOUS
  <2>2. Max(1 .. k) \in 1 .. k /\ Max(1 .. k) >= k
    BY <1>1, <2>1
  <2>3. (1 .. k) \ {k} = 1 .. k - 1
    OBVIOUS
  <2> QED BY <2>2, <2>3
<1> QED BY <1>2, <1>3

-----------------------------------------------------------------------------
(* Concatenation of a list of lists                                        *)

\* The function inside FlattenSeq, up to the n-th list.
IsConcat(g, s, n) == g = [i \in 1 .. n |-> IF i = 1 THEN s[i] ELSE g[i - 1] \o s[i]]

LEMMA ConcatStep ==
  ASSUME NEW g, NEW s, NEW n, IsConcat(g, s, n), NEW i \in 1 .. n
  PROVE  g[i] = IF i = 1 THEN s[i] ELSE g[i - 1] \o s[i]
BY Zenon DEF IsConcat

LEMMA ConcatExists ==
  ASSUME NEW s, NEW N \in Nat
  PROVE  \E g : IsConcat(g, s, N)
<1> DEFINE T == {n \in 0 .. N : ~ \E g : IsConcat(g, s, n)}
<1> SUFFICES ASSUME T # {} PROVE FALSE
  OBVIOUS
<1>1. PICK n \in T : \A k \in T : n <= k
  <2>1. T \in SUBSET Nat
    OBVIOUS
  <2> HIDE DEF T
  <2> QED BY <2>1, LeastNumber
<1>2. n \in 0 .. N /\ ~ \E g : IsConcat(g, s, n)
  OBVIOUS
<1>3. n # 0
  <2> SUFFICES IsConcat(<<>>, s, 0)
    BY <1>2
  <2>1. <<>> = [i \in 1 .. 0 |-> IF i = 1 THEN s[i] ELSE <<>>[i - 1] \o s[i]]
    OBVIOUS
  <2> QED BY <2>1 DEF IsConcat
<1>4. PICK g : IsConcat(g, s, n - 1)
  <2>1. n - 1 \in 0 .. N /\ ~ (n <= n - 1)
    BY <1>2, <1>3
  <2> QED BY <1>1, <2>1
<1> HIDE DEF T
<1> DEFINE h == [i \in 1 .. n |-> IF i < n THEN g[i] ELSE IF n = 1 THEN s[1] ELSE g[n - 1] \o s[n]]
<1>5. \A i \in 1 .. n - 1 : g[i] = IF i = 1 THEN s[i] ELSE g[i - 1] \o s[i]
  BY <1>4, ConcatStep
<1>6. \A i \in 1 .. n : i # 1 => i - 1 \in 1 .. n /\ h[i - 1] = g[i - 1]
  BY <1>2, <1>3
<1>7. \A i \in 1 .. n : h[i] = IF i = 1 THEN s[i] ELSE h[i - 1] \o s[i]
  <2> SUFFICES ASSUME NEW i \in 1 .. n PROVE h[i] = IF i = 1 THEN s[i] ELSE h[i - 1] \o s[i]
    OBVIOUS
  <2>1. CASE i = n
    BY <1>2, <1>3, <1>6, <2>1
  <2>2. CASE i # n
    <3>1. i \in 1 .. n - 1 /\ h[i] = g[i]
      BY <1>2, <2>2
    <3> HIDE DEF h
    <3> QED BY <1>5, <1>6, <3>1
  <2> QED BY <2>1, <2>2
<1>8. h = [i \in 1 .. n |-> h[i]]
  OBVIOUS
<1> HIDE DEF h
<1>9. IsConcat(h, s, n)
  BY <1>7, <1>8 DEF IsConcat
<1> QED BY <1>2, <1>9

LEMMA FlattenStages ==
  ASSUME NEW E, NEW s \in Seq(Seq(E)), s # <<>>
  PROVE  \E g : /\ IsConcat(g, s, Len(s)) /\ FlattenSeq(s) = g[Len(s)]
                /\ \A i \in 1 .. Len(s) : g[i] \in Seq(E)
<1>1. Len(s) \in Nat \ {0} /\ \A i \in 1 .. Len(s) : s[i] \in Seq(E)
  BY EmptySeq, ElementOfSeq
<1> DEFINE g == CHOOSE g : IsConcat(g, s, Len(s))
<1>2. IsConcat(g, s, Len(s))
  BY <1>1, ConcatExists
<1>3. FlattenSeq(s) = g[Len(s)]
  BY <1>1 DEF FlattenSeq, IsConcat
<1> HIDE DEF g
<1>4. \A i \in 1 .. Len(s) : g[i] = IF i = 1 THEN s[i] ELSE g[i - 1] \o s[i]
  BY <1>2, ConcatStep
<1> DEFINE B == {i \in 1 .. Len(s) : g[i] \notin Seq(E)}
<1>5. B = {}
  <2> SUFFICES ASSUME B # {} PROVE FALSE
    OBVIOUS
  <2>1. PICK i \in B : \A j \in B : i <= j
    <3>1. B \in SUBSET Nat
      OBVIOUS
    <3> HIDE DEF B
    <3> QED BY <3>1, LeastNumber
  <2>2. i \in 1 .. Len(s) /\ g[i] \notin Seq(E)
    OBVIOUS
  <2>3. i # 1
    BY <1>1, <1>4, <2>2
  <2>4. i - 1 \in 1 .. Len(s) /\ ~(i <= i - 1)
    BY <1>1, <2>2, <2>3
  <2>5. g[i - 1] \in Seq(E)
    BY <2>1, <2>4
  <2>6. g[i] = g[i - 1] \o s[i] /\ s[i] \in Seq(E)
    BY <1>1, <1>4, <2>2, <2>3
  <2> QED BY <2>2, <2>5, <2>6, ConcatProperties
<1> QED BY <1>2, <1>3, <1>5

LEMMA FlattenEmpty == FlattenSeq(<<>>) = <<>>
<1>1. Len(<<>>) = 0
  BY EmptySeq
<1> QED BY <1>1 DEF FlattenSeq

LEMMA FlattenAppend ==
  ASSUME NEW E, NEW s \in Seq(Seq(E)), NEW x \in Seq(E)
  PROVE  /\ FlattenSeq(s) \in Seq(E)
         /\ FlattenSeq(Append(s, x)) = FlattenSeq(s) \o x
<1> DEFINE t == Append(s, x)
<1>1. /\ t \in Seq(Seq(E)) /\ t # <<>> /\ Len(t) = Len(s) + 1 /\ Len(s) \in Nat
      /\ t[Len(s) + 1] = x /\ \A i \in 1 .. Len(s) : t[i] = s[i]
  BY AppendProperties, LenProperties
<1> HIDE DEF t
<1>2. PICK h : IsConcat(h, t, Len(t)) /\ FlattenSeq(t) = h[Len(t)]
  BY <1>1, FlattenStages
<1>3. \A i \in 1 .. Len(t) : h[i] = IF i = 1 THEN t[i] ELSE h[i - 1] \o t[i]
  BY <1>2, ConcatStep
<1>4. CASE s = <<>>
  <2>1. Len(s) = 0 /\ FlattenSeq(s) = <<>> /\ FlattenSeq(t) = x
    BY <1>1, <1>2, <1>3, <1>4, EmptySeq, FlattenEmpty
  <2>2. <<>> \in Seq(E) /\ <<>> \o x = x
    BY EmptySeq, ConcatEmptySeq
  <2> QED BY <2>1, <2>2 DEF t
<1>5. CASE s # <<>>
  <2>1. PICK g : /\ IsConcat(g, s, Len(s)) /\ FlattenSeq(s) = g[Len(s)]
                 /\ \A i \in 1 .. Len(s) : g[i] \in Seq(E)
    BY <1>5, FlattenStages
  <2>2. \A i \in 1 .. Len(s) : g[i] = IF i = 1 THEN s[i] ELSE g[i - 1] \o s[i]
    BY <2>1, ConcatStep
  <2>3. Len(s) \in 1 .. Len(s) /\ Len(s) + 1 # 1
    BY <1>1, <1>5, EmptySeq
  <2> DEFINE B == {i \in 1 .. Len(s) : g[i] # h[i]}
  <2>4. B = {}
    <3> SUFFICES ASSUME B # {} PROVE FALSE
      OBVIOUS
    <3>1. PICK i \in B : \A j \in B : i <= j
      <4>1. B \in SUBSET Nat
        OBVIOUS
      <4> HIDE DEF B
      <4> QED BY <4>1, LeastNumber
    <3>2. i \in 1 .. Len(s) /\ i \in 1 .. Len(t) /\ g[i] # h[i]
      BY <1>1
    <3>3. i # 1
      BY <1>1, <1>3, <2>2, <3>2
    <3>4. i - 1 \in 1 .. Len(s) /\ ~(i <= i - 1)
      BY <1>1, <3>2, <3>3, SMTT(30)
    <3>5. g[i - 1] = h[i - 1]
      BY <3>1, <3>4
    <3> QED BY <1>1, <1>3, <2>2, <3>2, <3>3, <3>5
  <2>5. h[Len(s)] = g[Len(s)]
    BY <2>3, <2>4
  <2>6. h[Len(s) + 1] = h[Len(s)] \o x
    <3>1. PICK n : n = Len(s) + 1
      OBVIOUS
    <3>2. n \in 1 .. Len(t) /\ n - 1 = Len(s) /\ n # 1 /\ t[n] = x
      BY <1>1, <2>3, <3>1
    <3>3. h[n] = h[n - 1] \o t[n]
      BY <1>3, <3>2
    <3> QED BY <3>1, <3>2, <3>3
  <2> QED BY <1>1, <1>2, <2>1, <2>3, <2>5, <2>6 DEF t
<1> QED BY <1>4, <1>5

\* What joining keeps, concatenation keeps.
LEMMA FlattenStays ==
  ASSUME NEW E, NEW A \in SUBSET Seq(E), <<>> \in A, \A a, b \in A : a \o b \in A,
         NEW s \in Seq(A)
  PROVE  FlattenSeq(s) \in A
<1>1. s \in Seq(Seq(E)) /\ \A i \in 1 .. Len(s) : s[i] \in A
  BY ElementOfSeq
<1>2. CASE s = <<>>
  BY <1>2, FlattenEmpty
<1>3. CASE s # <<>>
  <2>1. PICK g : IsConcat(g, s, Len(s)) /\ FlattenSeq(s) = g[Len(s)]
    BY <1>1, <1>3, FlattenStages
  <2>2. \A i \in 1 .. Len(s) : g[i] = IF i = 1 THEN s[i] ELSE g[i - 1] \o s[i]
    BY <2>1, ConcatStep
  <2> DEFINE B == {i \in 1 .. Len(s) : g[i] \notin A}
  <2>3. B = {}
    <3> SUFFICES ASSUME B # {} PROVE FALSE
      OBVIOUS
    <3>1. PICK i \in B : \A j \in B : i <= j
      <4>1. B \in SUBSET Nat
        OBVIOUS
      <4> HIDE DEF B
      <4> QED BY <4>1, LeastNumber
    <3>2. i \in 1 .. Len(s) /\ g[i] \notin A
      OBVIOUS
    <3>3. i # 1
      BY <1>1, <2>2, <3>2
    <3>4. i - 1 \in 1 .. Len(s) /\ ~(i <= i - 1)
      BY <3>2, <3>3
    <3>5. g[i - 1] \in A
      BY <3>1, <3>4
    <3> QED BY <1>1, <2>2, <3>2, <3>3, <3>5
  <2>4. Len(s) \in 1 .. Len(s)
    BY <1>3, EmptySeq
  <2> QED BY <2>1, <2>3, <2>4
<1> QED BY <1>2, <1>3

-----------------------------------------------------------------------------
(* Lists of records with different paths                                   *)

\* No two records of a list have the same path.
Distinct(s) == \A i, j \in 1 .. Len(s) : s[i].path = s[j].path => i = j

\* What a concatenation holds.
LEMMA ConcatToSet ==
  ASSUME NEW E, NEW s \in Seq(E), NEW t \in Seq(E)
  PROVE  ToSet(s \o t) = ToSet(s) \cup ToSet(t)
<1>1. /\ DOMAIN s = 1 .. Len(s) /\ DOMAIN t = 1 .. Len(t) /\ Len(s) \in Nat /\ Len(t) \in Nat
      /\ DOMAIN (s \o t) = 1 .. Len(s) + Len(t)
      /\ \A i \in 1 .. Len(s) + Len(t) : (s \o t)[i] = IF i <= Len(s) THEN s[i] ELSE t[i - Len(s)]
  BY LenProperties, ConcatProperties
<1>2. PICK u : u = s \o t
  OBVIOUS
<1>3. \A i \in 1 .. Len(s) : i \in DOMAIN u /\ u[i] = s[i]
  BY <1>1, <1>2
<1>4. \A i \in 1 .. Len(t) : i + Len(s) \in DOMAIN u /\ u[i + Len(s)] = t[i]
  BY <1>1, <1>2
<1>5. \A i \in DOMAIN u : \/ i \in 1 .. Len(s) /\ u[i] = s[i]
                          \/ i - Len(s) \in 1 .. Len(t) /\ u[i] = t[i - Len(s)]
  BY <1>1, <1>2
<1>6. ToSet(u) \subseteq ToSet(s) \cup ToSet(t)
  BY <1>1, <1>5 DEF ToSet
<1>7. ToSet(s) \subseteq ToSet(u)
  BY <1>1, <1>3 DEF ToSet
<1>8. ToSet(t) \subseteq ToSet(u)
  BY <1>1, <1>4 DEF ToSet
<1> QED BY <1>2, <1>6, <1>7, <1>8

\* Records with different paths, sorted by path.
LEMMA SortDistinct ==
  ASSUME NEW E, \A e \in E : e.path \in Seq(Nat), NEW s \in Seq(E), Distinct(s),
         NEW t, t = SortByPath(s)
  PROVE  /\ t \in Seq(E) /\ Len(t) = Len(s) /\ ToSet(t) = ToSet(s)
         /\ \A i, j \in 1 .. Len(t) : i < j => PathBefore(t[i].path, t[j].path)
<1>1. PICK n : n = Len(s)
  OBVIOUS
<1>2. n \in Nat /\ DOMAIN s = 1 .. n
  BY <1>1, LenProperties
<1>3. t \in Seq(E) /\ Len(t) = n
  BY <1>1, SortedByPath
<1>4. PICK p : /\ IsPermutation(p, n)
               /\ \A k \in 1 .. n : t[k] = s[p[k]]
               /\ \A k, l \in 1 .. n :
                    k < l => \/ PathBefore(s[p[k]].path, s[p[l]].path)
                             \/ s[p[k]].path = s[p[l]].path
  <2>1. PICK p : /\ IsPermutation(p, Len(s))
                 /\ \A k \in 1 .. Len(s) : SortByPath(s)[k] = s[p[k]]
                 /\ \A k, l \in 1 .. Len(s) :
                      k < l => \/ PathBefore(s[p[k]].path, s[p[l]].path)
                               \/ s[p[k]].path = s[p[l]].path
    BY SortedByPath
  <2> QED BY <1>1, <2>1
<1>5. /\ \A k \in 1 .. n : p[k] \in 1 .. n
      /\ \A k, l \in 1 .. n : p[k] = p[l] => k = l
      /\ \A i \in 1 .. n : \E k \in 1 .. n : p[k] = i
  BY <1>4 DEF IsPermutation
<1>6. DOMAIN t = 1 .. n
  BY <1>3, LenProperties
<1>7. ToSet(t) = ToSet(s)
  <2>1. ToSet(t) \subseteq ToSet(s)
    <3>1. \A k \in 1 .. n : t[k] = s[p[k]] /\ p[k] \in DOMAIN s
      BY <1>2, <1>4, <1>5
    <3> QED BY <1>6, <3>1 DEF ToSet
  <2>2. ASSUME NEW i \in 1 .. n PROVE s[i] \in ToSet(t)
    <3>1. PICK k \in 1 .. n : p[k] = i
      BY <1>5
    <3> QED BY <1>4, <1>6, <3>1 DEF ToSet
  <2>3. ToSet(s) \subseteq ToSet(t)
    BY <1>2, <2>2 DEF ToSet
  <2> QED BY <2>1, <2>3
<1>8. ASSUME NEW i \in 1 .. n, NEW j \in 1 .. n, i < j
      PROVE  PathBefore(t[i].path, t[j].path)
  <2>1. i # j /\ p[i] \in 1 .. n /\ p[j] \in 1 .. n
    BY <1>2, <1>5, <1>8, SMTT(30)
  <2>2. p[i] # p[j]
    BY <1>5, <2>1
  <2>3. s[p[i]].path # s[p[j]].path
    BY <1>1, <2>1, <2>2 DEF Distinct
  <2> QED BY <1>4, <1>8, <2>3
<1> QED BY <1>1, <1>3, <1>7, <1>8

\* The first n records of a list.
LEMMA HeadOfList ==
  ASSUME NEW E, NEW s \in Seq(E), Distinct(s), NEW n \in Nat, n <= Len(s), NEW t, t = SubSeq(s, 1, n)
  PROVE  t \in Seq(E) /\ Len(t) = n /\ ToSet(t) \subseteq ToSet(s) /\ Distinct(t)
<1>1. DOMAIN s = 1 .. Len(s) /\ Len(s) \in Nat /\ \A i \in 1 .. n : s[i] \in E
  BY LenProperties
<1>2. t \in Seq(E) /\ Len(t) = (IF 1 <= n THEN n - 1 + 1 ELSE 0)
      /\ \A i \in 1 .. n - 1 + 1 : t[i] = s[1 + i - 1]
  BY <1>1, SubSeqProperties
<1>3. Len(t) = n /\ DOMAIN t = 1 .. n /\ \A i \in 1 .. n : i \in DOMAIN s /\ t[i] = s[i]
  BY <1>1, <1>2, LenProperties
<1>4. ToSet(t) \subseteq ToSet(s)
  BY <1>3 DEF ToSet
<1>5. Distinct(t)
  BY <1>1, <1>3 DEF Distinct
<1> QED BY <1>2, <1>3, <1>4, <1>5

\* A list of records with different paths in S is no longer than S is large, and if it
\* is as long it has them all.
LEMMA ListInSet ==
  ASSUME NEW s, Len(s) \in Nat, Distinct(s), NEW S, IsFiniteSet(S),
         \A i \in 1 .. Len(s) : s[i].path \in S
  PROVE  /\ Len(s) <= Cardinality(S)
         /\ Len(s) = Cardinality(S) => \A x \in S : \E i \in 1 .. Len(s) : s[i].path = x
<1>1. PICK n \in Nat : n = Len(s)
  OBVIOUS
<1> DEFINE f == [i \in 1 .. n |-> s[i].path]
<1>2. f \in Injection(1 .. n, S)
  BY <1>1 DEF Distinct, Injection, IsInjective
<1>3. \A i \in 1 .. n : f[i] = s[i].path
  OBVIOUS
<1> HIDE DEF f
<1>4. Cardinality(1 .. n) = n
  BY FS_Interval
<1>5. n <= Cardinality(S) /\ (n = Cardinality(S) => f \in Surjection(1 .. n, S))
  BY <1>2, <1>4, FS_Injection
<1> QED BY <1>1, <1>3, <1>5 DEF Surjection

=============================================================================
