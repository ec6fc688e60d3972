-------------------------- MODULE Pipeline_proofs --------------------------
(***************************************************************************)
(* Proofs about Pipeline: for every scan that has not been cut and every   *)
(* result of the size walk, the sizes of the tree add up, each junk        *)
(* directory has the size of its own hit, and the index of the interface   *)
(* shows each entry in one place, biggest first.                           *)
(***************************************************************************)
EXTENDS Pipeline, DataTheorems

-----------------------------------------------------------------------------
(* Sums over parts                                                         *)

LEMMA SumUnion ==
  ASSUME NEW f, NEW S, NEW T, IsFiniteSet(S), IsFiniteSet(T), S \cap T = {},
         \A x \in S \cup T : f[x] \in Nat
  PROVE  SumFunctionOnSet(f, S \cup T) = SumFunctionOnSet(f, S) + SumFunctionOnSet(f, T)
<1> DEFINE Sum(s) == SumFunctionOnSet(f, s)
           B == {t \in SUBSET T : Sum(S \cup t) # Sum(S) + Sum(t)}
<1> SUFFICES ASSUME B # {} PROVE FALSE
  OBVIOUS
<1>1. PICK t \in B : \A c \in B : c \subseteq t => c = t
  <2>1. B \in SUBSET (SUBSET T)
    OBVIOUS
  <2> HIDE DEF B
  <2> QED BY <2>1, SmallestSet
<1>2. t \in SUBSET T /\ IsFiniteSet(t) /\ Sum(S \cup t) # Sum(S) + Sum(t)
  BY FS_Subset
<1>3. Sum(S) \in Nat
  BY SumType
<1>4. CASE t = {}
  <2>1. S \cup t = S /\ Sum(t) = 0
    BY <1>4, SumEmpty
  <2> HIDE DEF Sum
  <2> QED BY <1>2, <1>3, <2>1
<1>5. CASE t # {}
  <2>1. PICK x \in t : TRUE
    BY <1>5
  <2>2. PICK r : r = t \ {x}
    OBVIOUS
  <2>3. /\ r \in SUBSET T /\ r \subseteq t /\ r # t /\ x \notin r /\ x \notin S \cup r
        /\ IsFiniteSet(r) /\ IsFiniteSet(S \cup r)
        /\ t = r \cup {x} /\ S \cup t = (S \cup r) \cup {x}
    <3>1. IsFiniteSet(r)
      BY <1>2, <2>2, FS_Subset
    <3>2. IsFiniteSet(S \cup r)
      BY <3>1, FS_Union
    <3>3. /\ r \in SUBSET T /\ r \subseteq t /\ r # t /\ x \notin r /\ x \notin S \cup r
          /\ t = r \cup {x} /\ S \cup t = (S \cup r) \cup {x}
      <4> HIDE DEF Sum, B
      <4> QED BY <1>2, <2>1, <2>2
    <3> QED BY <3>1, <3>2, <3>3
  <2>4. Sum(S \cup r) = Sum(S) + Sum(r)
    BY <1>1, <2>3
  <2>5. \A y \in r \cup {x} : f[y] \in Nat
    BY <2>1, <2>3
  <2>6. Sum(t) = Sum(r) + f[x] /\ Sum(r) \in Nat
    BY <2>3, <2>5, SumAdd, SumType
  <2>7. \A y \in (S \cup r) \cup {x} : f[y] \in Nat
    BY <2>1, <2>3
  <2>8. Sum(S \cup t) = Sum(S \cup r) + f[x]
    BY <2>3, <2>7, SumAdd, ZenonT(30)
  <2> HIDE DEF Sum, B
  <2> QED BY <1>2, <1>3, <2>1, <2>4, <2>5, <2>6, <2>8
<1> QED BY <1>4, <1>5

\* The sets G[c] are the parts of U, a subset of D, and h[c] is the sum of f over G[c].
Parts(f, h, D, C, G, U) ==
  /\ IsFiniteSet(D) /\ IsFiniteSet(C) /\ \A x \in D : f[x] \in Nat
  /\ \A c \in C : G[c] \in SUBSET D /\ h[c] = SumFunctionOnSet(f, G[c])
  /\ \A b, c \in C : b # c => G[b] \cap G[c] = {}
  /\ U \in SUBSET D /\ \A x \in D : x \in U <=> \E c \in C : x \in G[c]

\* The sum over disjoint parts is the sum of their sums.
LEMMA SumPartition ==
  ASSUME NEW f, NEW h, NEW D, NEW C, NEW G, NEW U, Parts(f, h, D, C, G, U)
  PROVE  SumFunctionOnSet(f, U) = SumFunctionOnSet(h, C)
<1> DEFINE All(s) == UNION {G[c] : c \in s}
           B == {s \in SUBSET C : SumFunctionOnSet(f, All(s)) # SumFunctionOnSet(h, s)}
<1>6. /\ IsFiniteSet(D) /\ IsFiniteSet(C) /\ \A x \in D : f[x] \in Nat
      /\ \A c \in C : G[c] \in SUBSET D /\ h[c] = SumFunctionOnSet(f, G[c])
      /\ \A b, c \in C : b # c => G[b] \cap G[c] = {}
      /\ U \in SUBSET D /\ \A x \in D : x \in U <=> \E c \in C : x \in G[c]
  BY DEF Parts
<1>5. U = All(C)
  BY <1>6
<1> SUFFICES ASSUME B # {} PROVE FALSE
  <2>1. C \notin B => SumFunctionOnSet(f, All(C)) = SumFunctionOnSet(h, C)
    OBVIOUS
  <2> QED BY <1>5, <2>1
<1>1. PICK s \in B : \A c \in B : c \subseteq s => c = s
  <2>1. B \in SUBSET (SUBSET C)
    OBVIOUS
  <2> HIDE DEF B
  <2> QED BY <1>6, <2>1, SmallestSet
<1>2. s \in SUBSET C /\ SumFunctionOnSet(f, All(s)) # SumFunctionOnSet(h, s)
  OBVIOUS
<1>3. CASE s = {}
  <2>1. All(s) = {}
    BY <1>3
  <2> QED BY <1>2, <1>3, <2>1, SumEmpty
<1>4. CASE s # {}
  <2>1. PICK x \in s : TRUE
    BY <1>4
  <2>2. PICK r : r = s \ {x}
    OBVIOUS
  <2>3. r \in SUBSET C /\ r \subseteq s /\ r # s /\ x \notin r /\ s = r \cup {x} /\ IsFiniteSet(r)
    BY <1>2, <1>6, <2>1, <2>2, FS_Subset
  <2>4. SumFunctionOnSet(f, All(r)) = SumFunctionOnSet(h, r)
    BY <1>1, <2>3
  <2>5. All(s) = All(r) \cup G[x]
    BY <2>3
  <2>6. /\ All(r) \in SUBSET D /\ G[x] \in SUBSET D
        /\ IsFiniteSet(All(r)) /\ IsFiniteSet(G[x])
    BY <1>2, <1>6, <2>1, <2>3, FS_Subset
  <2>7. All(r) \cap G[x] = {}
    BY <1>2, <1>6, <2>1, <2>3
  <2>8. \A c \in r \cup {x} : h[c] \in Nat
    <3>1. ASSUME NEW c \in C PROVE h[c] \in Nat
      <4>1. G[c] \in SUBSET D /\ IsFiniteSet(G[c]) /\ h[c] = SumFunctionOnSet(f, G[c])
        BY <1>6, FS_Subset
      <4>2. \A y \in G[c] : f[y] \in Nat
        BY <1>6, <4>1
      <4> QED BY <4>1, <4>2, SumType
    <3> QED BY <1>2, <2>3, <3>1
  <2>9. SumFunctionOnSet(h, s) = SumFunctionOnSet(h, r) + h[x]
    BY <2>3, <2>8, SumAdd
  <2> HIDE DEF All
  <2>10. \A y \in All(r) \cup G[x] : f[y] \in Nat
    BY <1>6, <2>6
  <2>11. SumFunctionOnSet(f, All(s)) = SumFunctionOnSet(f, All(r)) + SumFunctionOnSet(f, G[x])
    BY <2>5, <2>6, <2>7, <2>10, SumUnion
  <2> QED BY <1>2, <1>6, <2>1, <2>4, <2>9, <2>11
<1> QED BY <1>3, <1>4

-----------------------------------------------------------------------------
(* The paths of a scan                                                     *)

\* A directory between r and something below r is below r as well.
LEMMA BetweenIsBelow ==
  ASSUME NEW r \in Seq(Nat), NEW p \in Seq(Nat), NEW q \in Seq(Nat),
         IsStrictPrefix(r, q), PathBefore(p, q), r = p \/ PathBefore(r, p)
  PROVE  IsPrefix(r, p)
<1>1. /\ Len(r) \in Nat /\ Len(p) \in Nat /\ Len(q) \in Nat
      /\ Len(r) <= Len(q) /\ \A i \in 1 .. Len(r) : r[i] = q[i]
  BY LenProperties, PrefixElements DEF IsStrictPrefix
<1>2. CASE r = p
  BY <1>1, <1>2, PrefixElements
<1>3. CASE PathBefore(r, p)
  <2>1. PICK k \in Nat : BeforeAt(r, p, k)
    BY <1>3, BeforeSomewhere
  <2>2. /\ k \in 1 .. Len(p) /\ k - 1 <= Len(r) /\ \A i \in 1 .. k - 1 : r[i] = p[i]
        /\ Len(r) = k - 1 \/ (k <= Len(r) /\ r[k] < p[k])
    BY <2>1 DEF BeforeAt
  <2>3. CASE Len(r) = k - 1
    BY <1>1, <2>2, <2>3, PrefixElements
  <2>4. CASE k <= Len(r) /\ r[k] < p[k]
    <3>1. \A i \in 1 .. k - 1 : q[i] = p[i]
      BY <1>1, <2>2, <2>4
    <3>2. q[k] = r[k] /\ k \in 1 .. Len(q)
      BY <1>1, <2>2, <2>4
    <3>3. BeforeAt(q, p, k)
      BY <1>1, <2>2, <2>4, <3>1, <3>2 DEF BeforeAt
    <3>4. PathBefore(q, p)
      BY <3>3, BeforeSomewhere
    <3>5. PathBefore(p, p)
      BY <3>4, PathsOrdered
    <3> QED BY <3>5, PathsOrdered
  <2> QED BY <2>2, <2>3, <2>4
<1> QED BY <1>2, <1>3

\* The tree as run finds it, and keeps it but for the sizes.
Shape(t) == t \in Seq(EntryRecord) /\ InPathOrder(t) /\ DepthsMatch(t) /\ OpenParents(t)

LEMMA ShapeFacts ==
  ASSUME NEW t, Shape(t)
  PROVE  /\ Len(t) \in Nat /\ DOMAIN t = 1 .. Len(t)
         /\ IsFiniteSet(1 .. Len(t)) /\ Cardinality(1 .. Len(t)) = Len(t)
         /\ \A i \in 1 .. Len(t) :
              /\ t[i] \in EntryRecord /\ t[i].path \in Seq(Nat) /\ t[i].path # <<>>
              /\ t[i].depth = Len(t[i].path) /\ Len(t[i].path) \in Nat \ {0}
              /\ t[i].size \in Nat /\ t[i].is_junk \in BOOLEAN
         /\ \A i, j \in 1 .. Len(t) : i < j => PathBefore(t[i].path, t[j].path)
         /\ \A i, j \in 1 .. Len(t) : PathBefore(t[i].path, t[j].path) => i < j
         /\ \A i, j \in 1 .. Len(t) : t[i].path = t[j].path => i = j
<1>1. Len(t) \in Nat /\ DOMAIN t = 1 .. Len(t) /\ \A i \in 1 .. Len(t) : t[i] \in EntryRecord
  BY LenProperties, ElementOfSeq DEF Shape
<1>2. IsFiniteSet(1 .. Len(t)) /\ Cardinality(1 .. Len(t)) = Len(t)
  BY <1>1, FS_Interval, SMTT(30)
<1>3. \A e \in EntryRecord : /\ e.path \in Seq(Nat) /\ e.path # <<>>
                             /\ e.size \in Nat /\ e.is_junk \in BOOLEAN
  BY DEF EntryRecord
<1>4. \A p \in Seq(Nat) : p # <<>> => Len(p) \in Nat \ {0}
  BY LenProperties, EmptySeq
<1>5. \A i \in 1 .. Len(t) : t[i].depth = Len(t[i].path)
  BY <1>1 DEF Shape, DepthsMatch
<1>6. \A i, j \in 1 .. Len(t) : i < j => PathBefore(t[i].path, t[j].path)
  BY <1>1 DEF Shape, InPathOrder
<1>7. \A i, j \in 1 .. Len(t) : t[i].path = t[j].path => i = j
  <2> SUFFICES ASSUME NEW i \in 1 .. Len(t), NEW j \in 1 .. Len(t), t[i].path = t[j].path, i < j
               PROVE  FALSE
    BY <1>1
  <2>1. PathBefore(t[i].path, t[i].path)
    BY <1>6
  <2> QED BY <1>1, <1>3, <2>1, PathsOrdered
<1>8. \A i, j \in 1 .. Len(t) : PathBefore(t[i].path, t[j].path) => i < j
  <2> SUFFICES ASSUME NEW i \in 1 .. Len(t), NEW j \in 1 .. Len(t),
                      PathBefore(t[i].path, t[j].path), ~(i < j)
               PROVE  FALSE
    OBVIOUS
  <2>1. t[i].path \in Seq(Nat) /\ t[j].path \in Seq(Nat)
    BY <1>1, <1>3
  <2>2. CASE i = j
    BY <2>1, <2>2, PathsOrdered
  <2>3. CASE j < i
    <3>1. PathBefore(t[j].path, t[i].path)
      BY <1>6, <2>3
    <3>2. PathBefore(t[j].path, t[j].path)
      BY <2>1, <3>1, PathsOrdered
    <3> QED BY <2>1, <3>2, PathsOrdered
  <2> QED BY <1>1, <2>2, <2>3
<1> QED BY <1>1, <1>2, <1>3, <1>4, <1>5, <1>6, <1>7, <1>8

\* The directory an entry is in stands before it.
LEMMA ParentEntry ==
  ASSUME NEW t, Shape(t), NEW i \in 1 .. Len(t), Len(t[i].path) > 1
  PROVE  \E j \in 1 .. Len(t) :
           /\ t[j].path = Parent(t[i].path) /\ t[j].kind = "Dir" /\ ~t[j].is_junk
           /\ j < i /\ IsStrictPrefix(t[j].path, t[i].path)
           /\ Len(t[i].path) = Len(t[j].path) + 1
<1>1. PICK j \in 1 .. Len(t) :
        t[j].path = Parent(t[i].path) /\ t[j].kind = "Dir" /\ ~t[j].is_junk
  <2>1. DOMAIN t = 1 .. Len(t)
    BY ShapeFacts
  <2>2. \A k \in DOMAIN t : Len(t[k].path) > 1 =>
          \E j \in DOMAIN t : t[j].path = Parent(t[k].path) /\ t[j].kind = "Dir" /\ ~t[j].is_junk
    BY DEF Shape, OpenParents
  <2> QED BY <2>1, <2>2
<1>2. PICK p, q : p = t[i].path /\ q = t[j].path
  OBVIOUS
<1>3. p \in Seq(Nat) /\ q \in Seq(Nat) /\ p # <<>>
  BY <1>2, ShapeFacts
<1>4. Len(q) \in Nat /\ Len(p) = Len(q) + 1 /\ \A k \in 1 .. Len(q) : q[k] = p[k]
  BY <1>1, <1>2, <1>3, ParentBelowRoot, LenProperties, SMTT(30)
<1>5. IsStrictPrefix(q, p)
  <2>1. Len(q) <= Len(p) /\ Len(q) # Len(p)
    BY <1>4
  <2>2. IsPrefix(q, p)
    BY <1>3, <1>4, <2>1, PrefixElements
  <2> QED BY <2>1, <2>2 DEF IsStrictPrefix
<1>6. PathBefore(q, p)
  BY <1>5 DEF PathBefore
<1>7. j < i
  BY <1>2, <1>6, ShapeFacts
<1> QED BY <1>1, <1>2, <1>4, <1>5, <1>7

\* So all directories above an entry are in the tree, and none of them is junk.
LEMMA AncestorEntries ==
  ASSUME NEW t, Shape(t), NEW r \in Seq(Nat), r # <<>>, NEW i \in 1 .. Len(t),
         IsStrictPrefix(r, t[i].path)
  PROVE  \E j \in 1 .. Len(t) : t[j].path = r /\ t[j].kind = "Dir" /\ ~t[j].is_junk
<1> DEFINE B == {k \in 1 .. Len(t) : IsStrictPrefix(r, t[k].path)}
<1>1. PICK k \in B : \A l \in B : k <= l
  <2>1. B \in SUBSET Nat /\ B # {}
    OBVIOUS
  <2> HIDE DEF B
  <2> QED BY <2>1, LeastNumber
<1>2. k \in 1 .. Len(t) /\ IsStrictPrefix(r, t[k].path)
  OBVIOUS
<1>3. t[k].path \in Seq(Nat) /\ t[k].path # <<>>
  BY <1>2, ShapeFacts
<1>4. Len(r) \in Nat \ {0} /\ Len(t[k].path) > 1
  <2>1. Len(r) \in Nat \ {0} /\ Len(t[k].path) \in Nat
    BY <1>3, LenProperties, EmptySeq
  <2>2. Len(r) <= Len(t[k].path) /\ \A x \in 1 .. Len(r) : r[x] = t[k].path[x]
    BY <1>2, <1>3, PrefixElements DEF IsStrictPrefix
  <2>3. Len(r) # Len(t[k].path)
    <3> SUFFICES ASSUME Len(r) = Len(t[k].path) PROVE FALSE
      OBVIOUS
    <3>1. r = t[k].path
      BY <1>3, <2>2, SeqEqual
    <3> QED BY <1>2, <3>1 DEF IsStrictPrefix
  <2> QED BY <2>1, <2>2, <2>3
<1>5. PICK j \in 1 .. Len(t) :
        /\ t[j].path = Parent(t[k].path) /\ t[j].kind = "Dir" /\ ~t[j].is_junk /\ j < k
  BY <1>2, <1>4, ParentEntry
<1>6. r = Parent(t[k].path) \/ IsStrictPrefix(r, Parent(t[k].path))
  BY <1>2, <1>3, PrefixOfParent
<1>7. ~IsStrictPrefix(r, t[j].path)
  <2>1. k \in Nat /\ j \in Nat /\ ~(k <= j)
    BY <1>2, <1>5
  <2> QED BY <1>1, <1>5, <2>1
<1> QED BY <1>5, <1>6, <1>7

-----------------------------------------------------------------------------
(* The index of the children                                               *)

LEMMA MaxOfSet ==
  ASSUME NEW n \in Nat, NEW s \in SUBSET (0 .. n), s # {}
  PROVE  Max(s) \in s /\ \A y \in s : Max(s) >= y
<1> DEFINE T == {n - x : x \in s}
<1>1. \A x \in s : x \in Nat /\ x <= n
  OBVIOUS
<1>2. T \in SUBSET Nat /\ T # {}
  <2>1. \A x \in s : n - x \in Nat
    BY <1>1
  <2>2. T # {}
    OBVIOUS
  <2> QED BY <2>1, <2>2
<1> HIDE DEF T
<1>3. PICK m \in T : \A k \in T : m <= k
  BY <1>2, LeastNumber
<1> USE DEF T
<1>5. PICK x \in s : m = n - x
  OBVIOUS
<1>4. \E z \in s : \A y \in s : z >= y
  <2>1. ASSUME NEW y \in s PROVE x >= y
    <3>1. n - y \in T
      OBVIOUS
    <3> HIDE DEF T
    <3>2. m <= n - y
      BY <1>3, <3>1
    <3> QED BY <1>1, <1>5, <3>2
  <2> QED BY <2>1
<1> HIDE DEF T
<1> QED BY <1>4 DEF Max

\* The first elements of a list.
LEMMA FirstElements ==
  ASSUME NEW E, NEW s \in Seq(E), NEW m \in 0 .. Len(s), NEW t, t = SubSeq(s, 1, m)
  PROVE  t \in Seq(E) /\ Len(t) = m /\ \A i \in 1 .. m : t[i] = s[i]
<1>1. Len(s) \in Nat /\ m \in Nat /\ \A i \in 1 .. m : s[i] \in E
  BY LenProperties, ElementOfSeq
<1>2. /\ t \in Seq(E) /\ Len(t) = (IF 1 <= m THEN m - 1 + 1 ELSE 0)
      /\ \A i \in 1 .. m - 1 + 1 : t[i] = s[1 + i - 1]
  BY <1>1, SubSeqProperties
<1> QED BY <1>1, <1>2

Acc(t) == [stack : Seq(1 .. Len(t)), children : [1 .. Len(t) -> Seq(1 .. Len(t))]]

\* The children of entry i among the first k entries.
ChildrenUpTo(t, i, k) ==
  {c \in 1 .. k : Len(t[c].path) > 1 /\ Parent(t[c].path) = t[i].path}

\* The directories above and including entry k, one for each depth.
StackOf(t, k, stack) ==
  IF k = 0 THEN stack = <<>>
  ELSE /\ Len(stack) = IF t[k].kind = "Dir" THEN Len(t[k].path) ELSE Len(t[k].path) - 1
       /\ \A m \in 1 .. Len(stack) :
            IsPrefix(t[stack[m]].path, t[k].path) /\ Len(t[stack[m]].path) = m

\* What build_children_index has made of the first k entries.
Indexed(t, k, acc) ==
  /\ acc \in Acc(t) /\ StackOf(t, k, acc.stack)
  /\ \A i \in 1 .. Len(t) : /\ ToSet(acc.children[i]) = ChildrenUpTo(t, i, k)
                            /\ IsInjective(acc.children[i])

LEMMA PopKeepsSome ==
  ASSUME NEW t, Len(t) \in Nat, NEW stack \in Seq(1 .. Len(t)), NEW depth
  PROVE  \E m \in 0 .. Len(stack) :
           /\ PopSiblings(t, stack, depth) = SubSeq(stack, 1, m)
           /\ m = 0 \/ t[stack[m]].depth < depth
           /\ \A k \in 1 .. Len(stack) : t[stack[k]].depth < depth => k <= m
<1> DEFINE kept == {k \in 0 .. Len(stack) : k = 0 \/ t[stack[k]].depth < depth}
<1>1. Len(stack) \in Nat
  BY LenProperties
<1>2. kept \in SUBSET (0 .. Len(stack)) /\ kept # {}
  <2>1. 0 \in kept
    BY <1>1
  <2> QED BY <2>1
<1>3. PopSiblings(t, stack, depth) = SubSeq(stack, 1, Max(kept))
  BY DEF PopSiblings
<1> HIDE DEF kept
<1>4. Max(kept) \in kept /\ \A y \in kept : Max(kept) >= y
  BY <1>1, <1>2, MaxOfSet
<1>5. /\ Max(kept) \in 0 .. Len(stack)
      /\ Max(kept) = 0 \/ t[stack[Max(kept)]].depth < depth
  BY <1>4 DEF kept
<1>6. ASSUME NEW k \in 1 .. Len(stack), t[stack[k]].depth < depth PROVE k <= Max(kept)
  <2>1. k \in kept
    BY <1>1, <1>6 DEF kept
  <2> QED BY <1>1, <1>4, <1>5, <2>1
<1> QED BY <1>3, <1>5, <1>6

\* The lists of children with entry i in the one of the top of stack s, if it is its child.
ListsWith(t, acc, s, i) ==
  IF s # <<>> /\ t[i].depth = t[s[Len(s)]].depth + 1
  THEN [acc.children EXCEPT ![s[Len(s)]] = Append(@, i)] ELSE acc.children

\* Entry i, with what is left of the stack.
LEMMA EntryIndexed ==
  ASSUME NEW t, Len(t) \in Nat, NEW acc \in Acc(t), NEW i \in 1 .. Len(t),
         NEW s, s = PopSiblings(t, acc.stack, t[i].depth), NEW next, next = IndexEntry(t, acc, i)
  PROVE  /\ s \in Seq(1 .. Len(t)) /\ next \in Acc(t)
         /\ next.stack = IF t[i].kind = "Dir" THEN Append(s, i) ELSE s
         /\ next.children = ListsWith(t, acc, s, i)
<1>1. acc.stack \in Seq(1 .. Len(t)) /\ acc.children \in [1 .. Len(t) -> Seq(1 .. Len(t))]
  BY DEF Acc
<1>2. s \in Seq(1 .. Len(t))
  <2>1. PICK m \in 0 .. Len(acc.stack) : s = SubSeq(acc.stack, 1, m)
    BY <1>1, PopKeepsSome
  <2> QED BY <1>1, <2>1, FirstElements
<1>3. /\ next.stack = IF t[i].kind = "Dir" THEN Append(s, i) ELSE s
      /\ next.children = ListsWith(t, acc, s, i)
      /\ next = [stack |-> next.stack, children |-> next.children]
  BY DEF IndexEntry, Last, ListsWith
<1>4. next.stack \in Seq(1 .. Len(t))
  <2>1. Append(s, i) \in Seq(1 .. Len(t))
    BY <1>2, AppendProperties
  <2> QED BY <1>2, <1>3, <2>1
<1>5. next.children \in [1 .. Len(t) -> Seq(1 .. Len(t))]
  <2>1. CASE s # <<>> /\ t[i].depth = t[s[Len(s)]].depth + 1
    <3>1. Len(s) \in 1 .. Len(s)
      <4>1. Len(s) \in Nat /\ Len(s) # 0
        BY <1>2, <2>1, LenProperties, EmptySeq
      <4> QED BY <4>1
    <3>2. s[Len(s)] \in 1 .. Len(t)
      BY <1>2, <3>1, ElementOfSeq
    <3>3. Append(acc.children[s[Len(s)]], i) \in Seq(1 .. Len(t))
      BY <1>1, <3>2, AppendProperties
    <3>4. PICK top, list : top = s[Len(s)] /\ list = Append(acc.children[top], i)
      OBVIOUS
    <3>5. next.children = [acc.children EXCEPT ![top] = list]
      BY <1>3, <2>1, <3>4 DEF ListsWith
    <3>6. top \in 1 .. Len(t) /\ list \in Seq(1 .. Len(t))
      BY <3>2, <3>3, <3>4
    <3> QED BY <1>1, <3>5, <3>6
  <2>2. CASE ~(s # <<>> /\ t[i].depth = t[s[Len(s)]].depth + 1)
    BY <1>1, <1>3, <2>2 DEF ListsWith
  <2> QED BY <2>1, <2>2
<1>6. next \in Acc(t)
  BY <1>3, <1>4, <1>5 DEF Acc
<1> QED BY <1>2, <1>3, <1>6

LEMMA IndexStays ==
  ASSUME NEW t, Len(t) \in Nat, NEW acc \in Acc(t), NEW i \in 1 .. Len(t)
  PROVE  IndexEntry(t, acc, i) \in Acc(t)
<1>1. PICK s, next : s = PopSiblings(t, acc.stack, t[i].depth) /\ next = IndexEntry(t, acc, i)
  OBVIOUS
<1>2. next \in Acc(t)
  BY <1>1, EntryIndexed
<1> QED BY <1>1, <1>2

\* The stack after k - 1 entries, popped for entry k, holds the directories above it.
LEMMA PoppedForEntry ==
  ASSUME NEW t, Shape(t), NEW k \in 1 .. Len(t), NEW stack \in Seq(1 .. Len(t)),
         StackOf(t, k - 1, stack), NEW s, s = PopSiblings(t, stack, t[k].depth)
  PROVE  /\ Len(s) = Len(t[k].path) - 1
         /\ \A m \in 1 .. Len(s) :
              /\ s[m] = stack[m] /\ IsPrefix(t[s[m]].path, t[k].path)
              /\ Len(t[s[m]].path) = m
<1>1. PICK n : n = Len(t)
  OBVIOUS
<1>2. n \in Nat /\ k \in 1 .. n /\ stack \in Seq(1 .. n)
  BY <1>1, ShapeFacts
<1>3. \A i \in 1 .. n : /\ t[i].path \in Seq(Nat) /\ t[i].depth = Len(t[i].path)
                        /\ Len(t[i].path) \in Nat \ {0}
  BY <1>1, ShapeFacts
<1>4. Len(stack) \in Nat /\ \A m \in 1 .. Len(stack) : stack[m] \in 1 .. n
  BY <1>2, LenProperties, ElementOfSeq
<1>5. PICK top \in 0 .. Len(stack) :
        /\ s = SubSeq(stack, 1, top)
        /\ top = 0 \/ t[stack[top]].depth < t[k].depth
        /\ \A m \in 1 .. Len(stack) : t[stack[m]].depth < t[k].depth => m <= top
  <2>1. \E m \in 0 .. Len(stack) :
           /\ PopSiblings(t, stack, t[k].depth) = SubSeq(stack, 1, m)
           /\ m = 0 \/ t[stack[m]].depth < t[k].depth
           /\ \A l \in 1 .. Len(stack) : t[stack[l]].depth < t[k].depth => l <= m
    BY <1>1, <1>2, PopKeepsSome
  <2> QED BY <2>1
<1>6. Len(s) = top /\ \A m \in 1 .. top : s[m] = stack[m]
  BY <1>2, <1>5, FirstElements, SMTT(30)
<1>7. CASE k = 1
  <2>1. stack = <<>> /\ Len(stack) = 0
    BY <1>7, EmptySeq DEF StackOf
  <2>2. ~(Len(t[k].path) > 1)
    <3> SUFFICES ASSUME Len(t[k].path) > 1 PROVE FALSE
      OBVIOUS
    <3>1. PICK j \in 1 .. n : j < k
      BY <1>1, ParentEntry
    <3> QED BY <1>2, <1>7, <3>1
  <2> QED BY <1>2, <1>3, <1>4, <1>5, <1>6, <2>1, <2>2
<1>8. CASE k # 1
  <2>1. PICK l : l = k - 1
    OBVIOUS
  <2>2. l \in 1 .. n /\ l < k /\ l # 0
    BY <1>2, <1>8, <2>1
  <2>3. PICK p, q : p = t[l].path /\ q = t[k].path
    OBVIOUS
  <2>4. /\ p \in Seq(Nat) /\ q \in Seq(Nat) /\ Len(p) \in Nat \ {0} /\ Len(q) \in Nat \ {0}
        /\ PathBefore(p, q)
    BY <1>1, <1>2, <1>3, <2>2, <2>3, ShapeFacts
  <2>5. /\ Len(stack) = IF t[l].kind = "Dir" THEN Len(p) ELSE Len(p) - 1
        /\ \A m \in 1 .. Len(stack) : IsPrefix(t[stack[m]].path, p) /\ Len(t[stack[m]].path) = m
    BY <2>1, <2>2, <2>3 DEF StackOf
  <2>6. Len(stack) >= Len(q) - 1 /\ \A i \in 1 .. Len(q) - 1 : p[i] = q[i]
    <3>1. CASE Len(q) > 1
      <4>1. PICK j \in 1 .. n :
              /\ t[j].kind = "Dir" /\ j < k /\ IsStrictPrefix(t[j].path, q)
              /\ Len(q) = Len(t[j].path) + 1
        BY <1>1, <2>3, <3>1, ParentEntry
      <4>2. PICK r : r = t[j].path
        OBVIOUS
      <4>3. r \in Seq(Nat) /\ Len(r) \in Nat /\ Len(q) = Len(r) + 1
        BY <1>3, <4>1, <4>2, LenProperties
      <4>4. r = p \/ PathBefore(r, p)
        <5>1. j = l \/ j < l
          BY <1>2, <2>1, <4>1
        <5> QED BY <1>1, <2>2, <2>3, <4>2, <5>1, ShapeFacts
      <4>5. IsPrefix(r, p)
        BY <2>4, <4>1, <4>2, <4>3, <4>4, BetweenIsBelow
      <4>6. /\ Len(r) <= Len(p) /\ \A i \in 1 .. Len(r) : r[i] = p[i]
            /\ \A i \in 1 .. Len(r) : r[i] = q[i]
        BY <2>4, <4>1, <4>2, <4>3, <4>5, PrefixElements DEF IsStrictPrefix
      <4>7. Len(p) = Len(r) => t[l].kind = "Dir"
        <5> SUFFICES ASSUME Len(p) = Len(r) PROVE t[l].kind = "Dir"
          OBVIOUS
        <5>1. p = r
          BY <2>4, <4>3, <4>6, SeqEqual
        <5>2. j = l
          <6>1. t[j].path = t[l].path
            BY <2>3, <4>2, <5>1
          <6>2. j \in 1 .. Len(t) /\ l \in 1 .. Len(t)
            BY <1>1, <2>2
          <6> QED BY <6>1, <6>2, ShapeFacts
        <5> QED BY <4>1, <5>2
      <4>8. Len(stack) >= Len(r)
        BY <2>4, <2>5, <4>3, <4>6, <4>7
      <4> QED BY <4>3, <4>6, <4>8
    <3>2. CASE ~(Len(q) > 1)
      <4>1. PICK d \in Nat \ {0} : d = Len(q)
        BY <2>4
      <4>2. d = 1
        BY <3>2, <4>1
      <4>3. Len(stack) >= 0
        BY <1>4
      <4> QED BY <4>1, <4>2, <4>3
    <3> QED BY <3>1, <3>2
  <2>7. \A m \in 1 .. Len(stack) : t[stack[m]].depth = m
    BY <1>3, <1>4, <2>5
  <2>8. t[k].depth = Len(q)
    BY <1>2, <1>3, <2>3
  <2>9. top = Len(q) - 1
    <3>1. top = 0 \/ top < Len(q)
      BY <1>4, <1>5, <2>7, <2>8
    <3>2. Len(q) - 1 > 0 => Len(q) - 1 <= top
      <4> SUFFICES ASSUME Len(q) - 1 > 0 PROVE Len(q) - 1 <= top
        OBVIOUS
      <4>5. PICK w \in Nat \ {0} : w = Len(q)
        BY <2>4
      <4>1. PICK d \in Nat : d = w - 1 /\ d = Len(q) - 1 /\ d + 1 = Len(q)
        <5>1. w - 1 \in Nat /\ (w - 1) + 1 = w
          OBVIOUS
        <5> QED BY <4>5, <5>1
      <4>2. d \in 1 .. Len(stack)
        BY <1>4, <2>6, <4>1
      <4>3. t[stack[d]].depth < t[k].depth
        <5>1. t[stack[d]].depth = d /\ t[k].depth = w
          BY <2>7, <2>8, <4>2, <4>5
        <5>2. d < w
          BY <4>1
        <5> QED BY <5>1, <5>2
      <4>4. d <= top
        BY <1>5, <4>2, <4>3
      <4> QED BY <4>1, <4>4
    <3> QED BY <1>4, <2>4, <3>1, <3>2, SMTT(30)
  <2>10. ASSUME NEW m \in 1 .. top
         PROVE  IsPrefix(t[s[m]].path, q) /\ Len(t[s[m]].path) = m
    <3>1. PICK r : r = t[s[m]].path
      OBVIOUS
    <3>2. m \in 1 .. Len(stack) /\ s[m] = stack[m] /\ s[m] \in 1 .. n
      BY <1>4, <1>5, <1>6
    <3>3. r \in Seq(Nat) /\ IsPrefix(r, p) /\ Len(r) = m
      BY <1>3, <2>5, <3>1, <3>2
    <3>4. \A i \in 1 .. Len(r) : r[i] = p[i]
      BY <2>4, <3>3, PrefixElements
    <3>5. Len(r) <= Len(q) /\ \A i \in 1 .. Len(r) : r[i] = q[i]
      <4>1. PICK w \in Nat \ {0} : w = Len(q)
        BY <2>4
      <4>2. m \in 1 .. w - 1
        BY <2>9, <4>1
      <4>3. m < w /\ \A i \in 1 .. m : i \in 1 .. w - 1
        BY <4>2
      <4>4. \A i \in 1 .. m : r[i] = q[i]
        BY <2>6, <3>3, <3>4, <4>1, <4>3
      <4> QED BY <3>3, <4>1, <4>2, <4>3, <4>4
    <3>6. IsPrefix(r, q)
      BY <2>4, <3>3, <3>5, PrefixElements
    <3> QED BY <3>1, <3>3, <3>6
  <2> QED BY <1>6, <2>3, <2>9, <2>10
<1> QED BY <1>7, <1>8

LEMMA AppendOther ==
  ASSUME NEW S, NEW s \in Seq(S), IsInjective(s), NEW x \in S, x \notin ToSet(s)
  PROVE  IsInjective(Append(s, x)) /\ ToSet(Append(s, x)) = ToSet(s) \cup {x}
<1>1. PICK f : f = Append(s, x)
  OBVIOUS
<1>2. /\ Len(s) \in Nat /\ DOMAIN s = 1 .. Len(s) /\ DOMAIN f = 1 .. Len(s) + 1
      /\ \A i \in 1 .. Len(s) : f[i] = s[i] /\ s[i] \in ToSet(s)
      /\ f[Len(s) + 1] = x
  <2>1. f \in Seq(S) /\ Len(f) = Len(s) + 1
    BY <1>1, AppendProperties
  <2>2. /\ Len(s) \in Nat /\ DOMAIN s = 1 .. Len(s) /\ DOMAIN f = 1 .. Len(f)
    BY <2>1, LenProperties
  <2>3. \A i \in 1 .. Len(s) : f[i] = s[i] /\ f[Len(s) + 1] = x
    BY <1>1, AppendProperties
  <2>4. f[Len(s) + 1] = x
    BY <1>1, AppendProperties
  <2>5. \A i \in DOMAIN s : s[i] \in ToSet(s)
    BY DEF ToSet
  <2> QED BY <2>1, <2>2, <2>3, <2>4, <2>5
<1>3. IsInjective(f)
  <2> SUFFICES ASSUME NEW a \in 1 .. Len(s) + 1, NEW b \in 1 .. Len(s) + 1, f[a] = f[b]
               PROVE  a = b
    BY <1>2 DEF IsInjective
  <2>1. (a \in 1 .. Len(s) \/ a = Len(s) + 1) /\ (b \in 1 .. Len(s) \/ b = Len(s) + 1)
    BY <1>2
  <2>2. \A i, j \in 1 .. Len(s) : s[i] = s[j] => i = j
    BY <1>2 DEF IsInjective
  <2> QED BY <1>2, <2>1, <2>2
<1>4. ToSet(Append(s, x)) = ToSet(s) \cup {x}
  BY AppendedToSet
<1>5. IsInjective(Append(s, x))
  BY <1>1, <1>3
<1> QED BY <1>4, <1>5

LEMMA NextIndexed ==
  ASSUME NEW t, Shape(t), NEW k \in 1 .. Len(t), NEW acc, Indexed(t, k - 1, acc)
  PROVE  Indexed(t, k, IndexEntry(t, acc, k))
<1>1. PICK n : n = Len(t)
  OBVIOUS
<1>2. PICK next, s : next = IndexEntry(t, acc, k) /\ s = PopSiblings(t, acc.stack, t[k].depth)
  OBVIOUS
<1>3. n \in Nat /\ k \in 1 .. n
  BY <1>1, ShapeFacts
<1>4. \A i \in 1 .. n : /\ t[i].path \in Seq(Nat) /\ t[i].depth = Len(t[i].path)
                        /\ t[i].path # <<>> /\ Len(t[i].path) \in Nat \ {0}
  BY <1>1, ShapeFacts
<1>5. /\ acc \in Acc(t) /\ StackOf(t, k - 1, acc.stack)
      /\ acc.stack \in Seq(1 .. n) /\ acc.children \in [1 .. n -> Seq(1 .. n)]
      /\ \A i \in 1 .. n : /\ ToSet(acc.children[i]) = ChildrenUpTo(t, i, k - 1)
                           /\ IsInjective(acc.children[i])
  BY <1>1 DEF Indexed, Acc
<1>6. /\ s \in Seq(1 .. n) /\ next \in Acc(t)
      /\ next.stack = IF t[k].kind = "Dir" THEN Append(s, k) ELSE s
      /\ next.children =
           IF s # <<>> /\ t[k].depth = t[s[Len(s)]].depth + 1
           THEN [acc.children EXCEPT ![s[Len(s)]] = Append(@, k)] ELSE acc.children
  <2>1. Len(t) \in Nat /\ acc \in Acc(t)
    BY <1>1, <1>3, <1>5
  <2>2. /\ s \in Seq(1 .. Len(t)) /\ next \in Acc(t)
        /\ next.stack = IF t[k].kind = "Dir" THEN Append(s, k) ELSE s
        /\ next.children = ListsWith(t, acc, s, k)
    BY <1>2, <2>1, EntryIndexed
  <2> QED BY <1>1, <2>2 DEF ListsWith
<1>7. /\ Len(s) = Len(t[k].path) - 1
      /\ \A m \in 1 .. Len(s) : IsPrefix(t[s[m]].path, t[k].path) /\ Len(t[s[m]].path) = m
  <2>1. acc.stack \in Seq(1 .. Len(t)) /\ StackOf(t, k - 1, acc.stack)
    BY <1>1, <1>5
  <2>2. PICK old : old = acc.stack
    OBVIOUS
  <2>3. /\ old \in Seq(1 .. Len(t)) /\ StackOf(t, k - 1, old)
        /\ s = PopSiblings(t, old, t[k].depth)
    BY <1>2, <2>1, <2>2
  <2> QED BY <2>3, PoppedForEntry, SMTT(30)
<1>8. Len(s) \in Nat /\ \A m \in 1 .. Len(s) : s[m] \in 1 .. n
  BY <1>6, LenProperties, ElementOfSeq
<1>9. PICK q, d : q = t[k].path /\ d = Len(q)
  OBVIOUS
<1>10. q \in Seq(Nat) /\ q # <<>> /\ d \in Nat \ {0} /\ Len(s) = d - 1
  BY <1>3, <1>4, <1>7, <1>9
<1>11. StackOf(t, k, next.stack)
  <2>1. CASE t[k].kind = "Dir"
    <3>1. PICK u : u = Append(s, k)
      OBVIOUS
    <3>2. Len(u) = d /\ u[d] = k /\ \A m \in 1 .. d - 1 : u[m] = s[m]
      BY <1>3, <1>6, <1>10, <3>1, AppendProperties
    <3>3. ASSUME NEW m \in 1 .. d
          PROVE  IsPrefix(t[u[m]].path, q) /\ Len(t[u[m]].path) = m
      <4>1. CASE m = d
        <5>1. IsPrefix(q, q)
          BY <1>10, PrefixElements, LenProperties
        <5> QED BY <1>9, <3>2, <4>1, <5>1
      <4>2. CASE m # d
        <5>1. m \in 1 .. d - 1
          BY <1>10, <4>2
        <5> QED BY <1>7, <1>9, <1>10, <3>2, <5>1
      <4> QED BY <4>1, <4>2
    <3>4. next.stack = u
      BY <1>6, <2>1, <3>1
    <3>5. k # 0
      BY <1>3
    <3> QED BY <1>9, <2>1, <3>2, <3>3, <3>4, <3>5 DEF StackOf
  <2>2. CASE t[k].kind # "Dir"
    <3>1. next.stack = s /\ k # 0
      BY <1>3, <1>6, <2>2
    <3> QED BY <1>7, <2>2, <3>1 DEF StackOf
  <2> QED BY <2>1, <2>2
<1>12. ASSUME NEW i \in 1 .. n
       PROVE  /\ ToSet(next.children[i]) = ChildrenUpTo(t, i, k)
              /\ IsInjective(next.children[i])
  <2>1. k \notin ChildrenUpTo(t, i, k - 1)
    BY <1>3 DEF ChildrenUpTo
  <2>2. ChildrenUpTo(t, i, k) = ChildrenUpTo(t, i, k - 1) \cup
          (IF d > 1 /\ Parent(q) = t[i].path THEN {k} ELSE {})
    <3>1. \A c : c \in 1 .. k <=> c \in 1 .. k - 1 \/ c = k
      BY <1>3
    <3> QED BY <1>9, <3>1 DEF ChildrenUpTo
  <2>3. acc.children[i] \in Seq(1 .. n)
    BY <1>5
  <2>4. CASE d = 1
    <3>1. s = <<>>
      BY <1>6, <1>10, <2>4, EmptySeq
    <3>2. ChildrenUpTo(t, i, k) = ChildrenUpTo(t, i, k - 1)
      BY <2>2, <2>4
    <3> QED BY <1>5, <1>6, <3>1, <3>2
  <2>5. CASE d # 1
    <3>1. d > 1 /\ Len(s) \in 1 .. Len(s) /\ s # <<>>
      <4>1. d - 1 \in 1 .. d - 1 /\ d > 1
        BY <1>10, <2>5
      <4> QED BY <1>10, <4>1, EmptySeq
    <3>2. PICK top : top = s[Len(s)]
      OBVIOUS
    <3>3. /\ top \in 1 .. n /\ IsPrefix(t[top].path, q) /\ Len(t[top].path) = d - 1
          /\ t[top].path \in Seq(Nat)
      BY <1>4, <1>7, <1>8, <1>9, <1>10, <3>1, <3>2
    <3>4. t[top].path = Parent(q)
      <4>1. \A m \in 1 .. d - 1 : t[top].path[m] = q[m]
        BY <1>10, <3>3, PrefixElements, ZenonT(30)
      <4>2. /\ Parent(q) \in Seq(Nat) /\ d = Len(Parent(q)) + 1
            /\ \A m \in 1 .. Len(Parent(q)) : Parent(q)[m] = q[m]
        BY <1>9, <1>10, ParentBelowRoot
      <4>3. Len(Parent(q)) = d - 1
        BY <4>2, LenProperties
      <4> QED BY <3>3, <4>1, <4>2, <4>3, SeqEqual
    <3>5. t[k].depth = t[top].depth + 1
      <4>1. t[k].depth = d
        BY <1>3, <1>4, <1>9
      <4>2. t[top].depth = d - 1
        BY <1>4, <3>3
      <4> QED BY <1>10, <4>1, <4>2
    <3>6. next.children = [acc.children EXCEPT ![top] = Append(@, k)]
      BY <1>6, <3>1, <3>2, <3>5
    <3>7. CASE i = top
      <4>1. next.children[i] = Append(acc.children[i], k)
        BY <1>5, <3>6, <3>7
      <4>2. k \notin ToSet(acc.children[i]) /\ IsInjective(acc.children[i])
        BY <1>5, <2>1
      <4>3. /\ IsInjective(Append(acc.children[i], k))
            /\ ToSet(Append(acc.children[i], k)) = ToSet(acc.children[i]) \cup {k}
        <5>1. PICK l : l = acc.children[i]
          OBVIOUS
        <5>2. l \in Seq(1 .. n) /\ IsInjective(l) /\ k \notin ToSet(l)
          BY <2>3, <4>2, <5>1
        <5>3. IsInjective(Append(l, k)) /\ ToSet(Append(l, k)) = ToSet(l) \cup {k}
          BY <1>3, <5>2, AppendOther
        <5> QED BY <5>1, <5>3
      <4>4. ChildrenUpTo(t, i, k) = ChildrenUpTo(t, i, k - 1) \cup {k}
        BY <2>2, <3>1, <3>4, <3>7
      <4> QED BY <1>5, <4>1, <4>3, <4>4
    <3>8. CASE i # top
      <4>1. next.children[i] = acc.children[i]
        BY <1>5, <3>6, <3>8
      <4>2. t[i].path # t[top].path
        BY <1>1, <3>3, <3>8, ShapeFacts
      <4>3. ChildrenUpTo(t, i, k) = ChildrenUpTo(t, i, k - 1)
        BY <2>2, <3>4, <4>2
      <4> QED BY <1>5, <4>1, <4>3
    <3> QED BY <3>7, <3>8
  <2> QED BY <2>4, <2>5
<1> QED BY <1>1, <1>2, <1>6, <1>11, <1>12 DEF Indexed

\* build_children_index finds the children of each entry, each of them once.
LEMMA ChildListsRight ==
  ASSUME NEW t, Shape(t)
  PROVE  /\ ChildLists(t) \in [1 .. Len(t) -> Seq(1 .. Len(t))]
         /\ \A i \in 1 .. Len(t) : /\ ToSet(ChildLists(t)[i]) = ChildrenUpTo(t, i, Len(t))
                                   /\ IsInjective(ChildLists(t)[i])
<1> DEFINE D == 1 .. Len(t)
           A == Acc(t)
           start == [stack |-> <<>>, children |-> [i \in DOMAIN t |-> <<>>]]
           ids == [i \in DOMAIN t |-> i]
           F == [x \in D \X A |-> IndexEntry(t, x[2], x[1])]
           ch == Largest(Len(t))
           Copies(g) == g = [s \in SUBSET (DOMAIN ids) |->
                               IF s = {} THEN start
                               ELSE IndexEntry(t, g[s \ {Max(s)}], ids[Max(s)])]
           g == CHOOSE g : Copies(g)
<1>1. Len(t) \in Nat /\ DOMAIN t = D /\ DOMAIN ids = D /\ \A i \in D : ids[i] = i
  BY ShapeFacts
<1>2. IsFiniteSet(D) /\ Chooses(ch, D)
  BY <1>1, FS_Interval, MaxOfInterval
<1>3. PICK h : IsFold(h, F, start, ch, D)
  <2> HIDE DEF F, ch, D, start
  <2> QED BY <1>2, FoldExists
<1>4. /\ start \in A /\ start.stack = <<>>
      /\ \A i \in D : start.children[i] = <<>>
  <2>1. <<>> \in Seq(D)
    BY EmptySeq
  <2> QED BY <1>1, <2>1 DEF Acc
<1>5. \A x \in D : \A a \in A : F[<<x, a>>] \in A
  <2>1. ASSUME NEW x \in D, NEW a \in A PROVE IndexEntry(t, a, x) \in A
    BY <1>1, IndexStays
  <2> HIDE DEF A, D
  <2> QED BY <2>1
<1>6. \A s \in SUBSET D : h[s] \in A
  <2> HIDE DEF F, ch, D, A, start
  <2> QED BY <1>2, <1>3, <1>4, <1>5, FoldStays
<1>7. \A s \in SUBSET D : s # {} => Max(s) \in s /\ ch[s] = Max(s)
  BY <1>2 DEF Chooses, Largest
<1>8. Copies(h)
  <2>1. h = [s \in SUBSET D |-> IF s = {} THEN start ELSE F[<<ch[s], h[s \ {ch[s]}]>>]]
    BY <1>3 DEF IsFold
  <2>2. ASSUME NEW s \in SUBSET D, s # {}
        PROVE  F[<<ch[s], h[s \ {ch[s]}]>>] = IndexEntry(t, h[s \ {Max(s)}], ids[Max(s)])
    <3>1. Max(s) \in D /\ ch[s] = Max(s) /\ h[s \ {Max(s)}] \in A
      BY <1>6, <1>7, <2>2
    <3>2. \A i \in D : \A a \in A : F[<<i, a>>] = IndexEntry(t, a, i)
      OBVIOUS
    <3>3. ids[Max(s)] = Max(s)
      BY <1>1, <3>1
    <3> HIDE DEF F, A, D, ids, ch
    <3> QED BY <3>1, <3>2, <3>3
  <2> HIDE DEF F, ch, D, ids, start
  <2>3. h = [s \in SUBSET D |-> IF s = {} THEN start
                               ELSE IndexEntry(t, h[s \ {Max(s)}], ids[Max(s)])]
    BY <2>1, <2>2
  <2> QED BY <1>1, <2>3
<1>9. Copies(g)
  <2> HIDE DEF Copies
  <2> QED BY <1>8
<1>10. ChildLists(t) = g[DOMAIN ids].children
  BY Zenon DEF ChildLists, FoldLeft, MapThenFoldSet
<1> HIDE DEF g, F, ch, ids, start, A
<1>11. /\ g[{}] = start
       /\ \A s \in SUBSET D : s # {} => g[s] = IndexEntry(t, g[s \ {Max(s)}], Max(s))
  <2>1. \A s \in SUBSET D : s # {} => ids[Max(s)] = Max(s)
    BY <1>1, <1>7
  <2> QED BY <1>1, <1>9, <2>1, ZenonT(30)
<1> DEFINE T == {k \in 0 .. Len(t) : ~Indexed(t, k, g[1 .. k])}
<1>12. T = {}
  <2> SUFFICES ASSUME T # {} PROVE FALSE
    OBVIOUS
  <2>1. PICK k \in T : \A l \in T : k <= l
    <3>1. T \in SUBSET Nat
      OBVIOUS
    <3> HIDE DEF T
    <3> QED BY <3>1, LeastNumber
  <2>2. k \in 0 .. Len(t) /\ ~Indexed(t, k, g[1 .. k])
    OBVIOUS
  <2>3. CASE k = 0
    <3>1. g[1 .. k] = start
      <4>1. (1 .. k) = {}
        BY <2>3
      <4> QED BY <1>11, <4>1
    <3>2. \A i \in D : ToSet(start.children[i]) = ChildrenUpTo(t, i, k) /\ IsInjective(start.children[i])
      <4>1. ToSet(<<>>) = {} /\ IsInjective(<<>>)
        BY DEF ToSet, IsInjective
      <4>2. \A i \in D : ChildrenUpTo(t, i, k) = {}
        BY <2>3 DEF ChildrenUpTo
      <4> QED BY <1>4, <4>1, <4>2
    <3>3. StackOf(t, k, start.stack)
      BY <1>4, <2>3 DEF StackOf
    <3>4. Indexed(t, k, start)
      BY <1>4, <3>2, <3>3 DEF Indexed, A
    <3> QED BY <2>2, <3>1, <3>4
  <2>4. CASE k # 0
    <3>1. k - 1 \in 0 .. Len(t) /\ ~(k <= k - 1) /\ k \in D
      BY <1>1, <2>2, <2>4
    <3>2. Indexed(t, k - 1, g[1 .. k - 1])
      BY <2>1, <3>1
    <3>3. Max(1 .. k) = k /\ (1 .. k) \ {k} = 1 .. k - 1
      BY <1>1, <3>1, MaxOfInterval
    <3>4. (1 .. k) \in SUBSET D /\ (1 .. k) # {}
      BY <1>1, <3>1
    <3>5. g[1 .. k] = IndexEntry(t, g[1 .. k - 1], k)
      BY <1>11, <3>3, <3>4
    <3>6. PICK acc : acc = g[1 .. k - 1]
      OBVIOUS
    <3>7. Indexed(t, k - 1, acc)
      BY <3>2, <3>6
    <3>8. Indexed(t, k, IndexEntry(t, acc, k))
      BY <3>1, <3>7, NextIndexed
    <3> QED BY <2>2, <3>5, <3>6, <3>8
  <2> QED BY <2>3, <2>4
<1>13. Indexed(t, Len(t), g[D])
  <2>1. Len(t) \in 0 .. Len(t)
    BY <1>1
  <2> QED BY <1>12, <2>1
<1> QED BY <1>1, <1>10, <1>13 DEF Indexed, Acc

-----------------------------------------------------------------------------
(* The orders of an unstable sort                                          *)

LEMMA InsertedAt ==
  ASSUME NEW S, NEW s \in Seq(S), NEW k \in 1 .. Len(s) + 1, NEW x \in S,
         NEW t, t = InsertAt(s, k, x)
  PROVE  /\ t \in Seq(S) /\ Len(t) = Len(s) + 1 /\ t[k] = x
         /\ \A i \in 1 .. Len(s) + 1 : t[i] = IF i < k THEN s[i] ELSE IF i = k THEN x ELSE s[i - 1]
<1>1. PICK n \in Nat : n = Len(s) /\ \A i \in 1 .. n : s[i] \in S
  BY LenProperties, ElementOfSeq
<1>2. k \in Nat /\ 1 <= k /\ k <= n + 1
  BY <1>1
<1>3. PICK a, b, c : a = SubSeq(s, 1, k - 1) /\ b = <<x>> /\ c = SubSeq(s, k, n)
  OBVIOUS
<1>4. t = (a \o b) \o c
  BY <1>1, <1>3 DEF InsertAt
<1>5. a \in Seq(S) /\ Len(a) = k - 1 /\ \A i \in 1 .. k - 1 : a[i] = s[i]
  <2>1. k - 1 \in 0 .. Len(s)
    BY <1>1, <1>2
  <2> QED BY <1>3, <2>1, FirstElements
<1>6. b \in Seq(S) /\ Len(b) = 1 /\ b[1] = x
  BY <1>3
<1>7. c \in Seq(S) /\ Len(c) = n - k + 1 /\ \A i \in 1 .. n - k + 1 : c[i] = s[k + i - 1]
  <2>1. \A i \in k .. n : s[i] \in S
    BY <1>1, <1>2
  <2>2. /\ c \in Seq(S) /\ Len(c) = (IF k <= n THEN n - k + 1 ELSE 0)
        /\ \A i \in 1 .. n - k + 1 : c[i] = s[k + i - 1]
    BY <1>2, <1>3, <2>1, SubSeqProperties
  <2> QED BY <1>1, <1>2, <2>2
<1>8. PICK d : d = a \o b
  OBVIOUS
<1>9. /\ d \in Seq(S) /\ Len(d) = k
      /\ \A i \in 1 .. k : d[i] = IF i < k THEN s[i] ELSE x
  <2>1. /\ d \in Seq(S) /\ Len(d) = Len(a) + Len(b)
        /\ \A i \in 1 .. Len(a) + Len(b) : d[i] = IF i <= Len(a) THEN a[i] ELSE b[i - Len(a)]
    BY <1>5, <1>6, <1>8, ConcatProperties
  <2> QED BY <1>2, <1>5, <1>6, <2>1
<1>10. /\ t \in Seq(S) /\ Len(t) = Len(d) + Len(c)
       /\ \A i \in 1 .. Len(d) + Len(c) : t[i] = IF i <= Len(d) THEN d[i] ELSE c[i - Len(d)]
  <2>1. t = d \o c
    BY <1>4, <1>8
  <2>2. d \in Seq(S) /\ c \in Seq(S)
    BY <1>7, <1>9
  <2> QED BY <2>1, <2>2, ConcatProperties
<1>11. Len(t) = n + 1
  BY <1>1, <1>2, <1>7, <1>9, <1>10
<1>12. ASSUME NEW i \in 1 .. n + 1
       PROVE  t[i] = IF i < k THEN s[i] ELSE IF i = k THEN x ELSE s[i - 1]
  <2>1. i \in 1 .. Len(d) + Len(c)
    BY <1>2, <1>7, <1>9
  <2>2. CASE i <= k
    BY <1>2, <1>9, <1>10, <2>1, <2>2
  <2>3. CASE i > k
    <3>1. i - k \in 1 .. n - k + 1 /\ k + (i - k) - 1 = i - 1
      BY <1>2, <2>3
    <3>2. t[i] = c[i - k]
      BY <1>2, <1>9, <1>10, <2>1, <2>3
    <3> QED BY <1>2, <1>7, <2>3, <3>1, <3>2, SMTT(30)
  <2> QED BY <1>2, <2>2, <2>3
<1> QED BY <1>1, <1>2, <1>10, <1>11, <1>12

\* Something new, put into a list somewhere.
LEMMA InsertedOnce ==
  ASSUME NEW S, NEW s \in Seq(S), IsInjective(s), NEW k \in 1 .. Len(s) + 1,
         NEW x \in S, x \notin ToSet(s), NEW t, t = InsertAt(s, k, x)
  PROVE  /\ t \in Seq(S) /\ Len(t) = Len(s) + 1
         /\ IsInjective(t) /\ ToSet(t) = ToSet(s) \cup {x}
<1>1. PICK n \in Nat : n = Len(s) /\ DOMAIN s = 1 .. n
  BY LenProperties
<1>2. /\ t \in Seq(S) /\ Len(t) = n + 1 /\ t[k] = x
      /\ \A i \in 1 .. n + 1 : t[i] = IF i < k THEN s[i] ELSE IF i = k THEN x ELSE s[i - 1]
  BY <1>1, InsertedAt
<1>3. DOMAIN t = 1 .. n + 1 /\ k \in 1 .. n + 1
  BY <1>1, <1>2, LenProperties
<1>4. /\ \A i \in 1 .. n : s[i] # x
      /\ \A i, j \in 1 .. n : s[i] = s[j] => i = j
  BY <1>1 DEF ToSet, IsInjective
<1>5. ASSUME NEW i \in 1 .. n + 1, i # k
      PROVE  \E j \in 1 .. n : t[i] = s[j] /\ j = IF i < k THEN i ELSE i - 1
  <2>1. CASE i < k
    <3>1. i \in 1 .. n
      BY <1>3, <2>1
    <3> QED BY <1>2, <2>1, <3>1
  <2>2. CASE ~(i < k)
    <3>1. i - 1 \in 1 .. n
      BY <1>3, <1>5, <2>2
    <3> QED BY <1>2, <1>5, <2>2, <3>1
  <2> QED BY <2>1, <2>2
<1>6. IsInjective(t)
  <2> SUFFICES ASSUME NEW a \in 1 .. n + 1, NEW b \in 1 .. n + 1, t[a] = t[b] PROVE a = b
    BY <1>3 DEF IsInjective
  <2>1. CASE a = k \/ b = k
    <3>1. \A i \in 1 .. n + 1 : i # k => t[i] # x
      BY <1>4, <1>5
    <3> QED BY <1>2, <2>1, <3>1
  <2>2. CASE a # k /\ b # k
    <3>1. PICK i \in 1 .. n : t[a] = s[i] /\ i = IF a < k THEN a ELSE a - 1
      BY <1>5, <2>2
    <3>2. PICK j \in 1 .. n : t[b] = s[j] /\ j = IF b < k THEN b ELSE b - 1
      BY <1>5, <2>2
    <3>3. i = j
      BY <1>4, <3>1, <3>2
    <3> QED BY <1>3, <2>2, <3>1, <3>2, <3>3
  <2> QED BY <2>1, <2>2
<1>7. ToSet(t) = ToSet(s) \cup {x}
  <2>1. ASSUME NEW j \in 1 .. n PROVE \E i \in 1 .. n + 1 : t[i] = s[j]
    <3>1. CASE j < k
      <4>1. j \in 1 .. n + 1
        OBVIOUS
      <4> QED BY <1>2, <3>1, <4>1
    <3>2. CASE ~(j < k)
      <4>1. j + 1 \in 1 .. n + 1 /\ ~(j + 1 < k) /\ j + 1 # k /\ (j + 1) - 1 = j
        BY <1>3, <3>2
      <4> QED BY <1>2, <4>1
    <3> QED BY <3>1, <3>2
  <2>2. ToSet(s) = {s[j] : j \in 1 .. n} /\ ToSet(t) = {t[i] : i \in 1 .. n + 1}
    BY <1>1, <1>3 DEF ToSet
  <2>3. \A i \in 1 .. n + 1 : t[i] = x \/ \E j \in 1 .. n : t[i] = s[j]
    BY <1>2, <1>5
  <2>4. k \in 1 .. n + 1 /\ t[k] = x
    BY <1>2, <1>3
  <2>5. ToSet(t) \subseteq ToSet(s) \cup {x}
    BY <2>2, <2>3
  <2>6. ToSet(s) \cup {x} \subseteq ToSet(t)
    BY <2>1, <2>2, <2>4
  <2> QED BY <2>5, <2>6
<1> QED BY <1>1, <1>2, <1>6, <1>7

\* In a list where no entry is followed by a bigger one, none is by any bigger one.
LEMMA SortedThroughout ==
  ASSUME NEW v, NEW n \in Nat, \A k \in 1 .. n : v[k] \in Nat,
         \A k \in (1 .. n) \ {1} : v[k - 1] >= v[k]
  PROVE  \A k, l \in 1 .. n : k < l => v[k] >= v[l]
<1> SUFFICES ASSUME NEW k \in 1 .. n PROVE \A l \in 1 .. n : k < l => v[k] >= v[l]
  OBVIOUS
<1> DEFINE B == {l \in 1 .. n : k < l /\ ~(v[k] >= v[l])}
<1> SUFFICES ASSUME B # {} PROVE FALSE
  OBVIOUS
<1>1. PICK l \in B : \A m \in B : l <= m
  <2>1. B \in SUBSET Nat
    OBVIOUS
  <2> HIDE DEF B
  <2> QED BY <2>1, LeastNumber
<1>2. l \in 1 .. n /\ k < l /\ ~(v[k] >= v[l])
  OBVIOUS
<1>3. l - 1 \in 1 .. n /\ k <= l - 1 /\ ~(l <= l - 1) /\ l \in (1 .. n) \ {1}
  BY <1>2
<1>4. v[l - 1] >= v[l]
  BY <1>3
<1>5. v[k] >= v[l - 1]
  <2>1. l - 1 \notin B
    <3> HIDE DEF B
    <3> QED BY <1>1, <1>3
  <2>2. CASE k = l - 1
    BY <1>3, <2>2
  <2>3. CASE k # l - 1
    <3>1. k < l - 1
      BY <1>3, <2>3
    <3> QED BY <1>3, <2>1, <3>1
  <2> QED BY <2>2, <2>3
<1>6. v[k] \in Nat /\ v[l] \in Nat /\ v[l - 1] \in Nat
  BY <1>2, <1>3
<1> QED BY <1>2, <1>4, <1>5, <1>6

\* The elements of S in a list, each once, no entry of the tree before a bigger one.
Descending(s) == \A k \in DOMAIN s \ {1} : tree[s[k - 1]].size >= tree[s[k]].size

Lists(S, s) == {o \in Seq(S) : /\ IsInjective(o) /\ ToSet(o) = s
                               /\ Len(o) = Cardinality(s) /\ Descending(o)}

LEMMA OrdersAreLists ==
  ASSUME NEW S, IsFiniteSet(S)
  PROVE  Orders(S) \subseteq Lists(S, S)
<1> DEFINE Inserted(i, orders) == UNION {{InsertAt(o, k, i) : k \in 1 .. Len(o) + 1} : o \in orders}
           Place(i, orders) == {s \in Inserted(i, orders) : Descending(s)}
           A == SUBSET Seq(S)
           F == [x \in S \X A |-> Place(x[1], x[2])]
           ch == [s \in SUBSET S |-> CHOOSE x \in s : TRUE]
           Copies(g) == g = [s \in SUBSET S |->
                               IF s = {} THEN {<<>>}
                               ELSE Place(CHOOSE x \in s : TRUE, g[s \ {CHOOSE x \in s : TRUE}])]
           g == CHOOSE g : Copies(g)
<1>1. /\ \A s \in SUBSET S : s # {} => (CHOOSE x \in s : TRUE) \in s
      /\ Chooses(ch, S)
  BY DEF Chooses
<1>2. PICK h : IsFold(h, F, {<<>>}, ch, S)
  <2> HIDE DEF F, ch
  <2> QED BY <1>1, FoldExists
<1>3. \A x \in S : \A a \in A : Place(x, a) \in A
  <2>1. ASSUME NEW x \in S, NEW a \in A, NEW o \in a, NEW k \in 1 .. Len(o) + 1
        PROVE  InsertAt(o, k, x) \in Seq(S)
    <3>1. o \in Seq(S)
      OBVIOUS
    <3> QED BY <3>1, InsertedAt
  <2> QED BY <2>1
<1>4. \A s \in SUBSET S : h[s] \in A
  <2>1. {<<>>} \in A
    BY EmptySeq
  <2>2. \A x \in S : \A a \in A : F[<<x, a>>] \in A
    <3> HIDE DEF Place, A
    <3> QED BY <1>3
  <2> HIDE DEF F, ch, A
  <2> QED BY <1>1, <1>2, <2>1, <2>2, FoldStays
<1>5. Copies(h)
  <2>1. h = [s \in SUBSET S |-> IF s = {} THEN {<<>>} ELSE F[<<ch[s], h[s \ {ch[s]}]>>]]
    BY <1>2 DEF IsFold
  <2>2. ASSUME NEW s \in SUBSET S, s # {}
        PROVE  F[<<ch[s], h[s \ {ch[s]}]>>] =
                 Place(CHOOSE x \in s : TRUE, h[s \ {CHOOSE x \in s : TRUE}])
    <3>1. PICK c : c = CHOOSE x \in s : TRUE
      OBVIOUS
    <3>2. c \in S /\ ch[s] = c /\ h[s \ {c}] \in A
      BY <1>1, <1>4, <2>2, <3>1
    <3>3. \A i \in S : \A a \in A : F[<<i, a>>] = Place(i, a)
      OBVIOUS
    <3> HIDE DEF F, A, Place, ch
    <3>4. F[<<ch[s], h[s \ {ch[s]}]>>] = Place(c, h[s \ {c}])
      BY <3>2, <3>3
    <3> QED BY <3>1, <3>4
  <2> HIDE DEF F, ch, Place
  <2>3. h = [s \in SUBSET S |-> IF s = {} THEN {<<>>}
                               ELSE Place(CHOOSE x \in s : TRUE, h[s \ {CHOOSE x \in s : TRUE}])]
    BY <2>1, <2>2
  <2> QED BY <2>3
<1>6. Copies(g)
  <2> HIDE DEF Copies
  <2> QED BY <1>5
<1>7. Orders(S) = g[S]
  BY Zenon DEF Orders, FoldSet, MapThenFoldSet, Descending
<1> HIDE DEF g, F, ch, A
<1>8. /\ g[{}] = {<<>>}
      /\ \A s \in SUBSET S : s # {} =>
           \E x \in s : g[s] = Place(x, g[s \ {x}])
  <2> HIDE DEF Place
  <2> QED BY <1>1, <1>6
<1> DEFINE B == {s \in SUBSET S : ~(g[s] \subseteq Lists(S, s))}
<1>9. B = {}
  <2> SUFFICES ASSUME B # {} PROVE FALSE
    OBVIOUS
  <2>1. PICK s \in B : \A c \in B : c \subseteq s => c = s
    <3>1. B \in SUBSET (SUBSET S)
      OBVIOUS
    <3> HIDE DEF B
    <3> QED BY <3>1, SmallestSet
  <2>2. s \in SUBSET S /\ ~(g[s] \subseteq Lists(S, s)) /\ IsFiniteSet(s)
    BY FS_Subset
  <2>3. CASE s = {}
    <3>1. <<>> \in Seq(S) /\ Len(<<>>) = 0 /\ ToSet(<<>>) = {} /\ IsInjective(<<>>) /\ Descending(<<>>)
      BY EmptySeq DEF ToSet, IsInjective, Descending
    <3>2. Cardinality(s) = 0
      BY <2>3, FS_EmptySet
    <3> QED BY <1>8, <2>2, <2>3, <3>1, <3>2 DEF Lists
  <2>4. CASE s # {}
    <3>1. PICK x \in s : g[s] = Place(x, g[s \ {x}])
      BY <1>8, <2>2, <2>4
    <3>2. PICK r : r = s \ {x}
      OBVIOUS
    <3>3. /\ r \in SUBSET S /\ r \subseteq s /\ r # s /\ x \notin r /\ s = r \cup {x} /\ x \in S
      BY <2>2, <3>1, <3>2
    <3>4. g[r] \subseteq Lists(S, r)
      BY <2>1, <3>3
    <3>5. IsFiniteSet(r) /\ Cardinality(s) = Cardinality(r) + 1
      BY <2>2, <3>3, FS_Subset, FS_AddElement
    <3>6. ASSUME NEW t \in g[s] PROVE t \in Lists(S, s)
      <4>1. PICK o \in g[r] : \E k \in 1 .. Len(o) + 1 : t = InsertAt(o, k, x) /\ Descending(t)
        <5>1. t \in Place(x, g[r])
          BY <3>1, <3>2, <3>6
        <5> HIDE DEF B
        <5> QED BY <5>1
      <4>2. PICK k \in 1 .. Len(o) + 1 : t = InsertAt(o, k, x) /\ Descending(t)
        BY <4>1
      <4>3. o \in Seq(S) /\ IsInjective(o) /\ ToSet(o) = r /\ Len(o) = Cardinality(r)
        BY <3>4 DEF Lists
      <4>4. /\ t \in Seq(S) /\ Len(t) = Len(o) + 1
            /\ IsInjective(t) /\ ToSet(t) = ToSet(o) \cup {x}
        BY <3>3, <4>2, <4>3, InsertedOnce
      <4> QED BY <3>3, <3>5, <4>2, <4>3, <4>4 DEF Lists
    <3> QED BY <2>2, <3>6
  <2> QED BY <2>3, <2>4
<1> QED BY <1>7, <1>9

\* A stable sort by a number leaves the same elements, the lowest numbers first.
LEMMA SortedByNumber ==
  ASSUME NEW s, Len(s) \in Nat, NEW v, \A i \in 1 .. Len(s) : v[i] \in Int,
         NEW before, \A i, j \in 1 .. Len(s) : <<i, j>> \in before <=> v[i] < v[j]
  PROVE  \E p : /\ IsPermutation(p, Len(s))
                /\ StableSort(s, before) = [k \in 1 .. Len(s) |-> s[p[k]]]
                /\ \A k, l \in 1 .. Len(s) : k < l => v[p[k]] <= v[p[l]]
<1> DEFINE R == {x \in Pairs(s) : x \in before \/ (<<x[2], x[1]>> \notin before /\ x[1] < x[2])}
<1>1. \A i, j \in 1 .. Len(s) :
        <<i, j>> \in R <=> v[i] < v[j] \/ (v[i] = v[j] /\ i < j)
  <2> SUFFICES ASSUME NEW i \in 1 .. Len(s), NEW j \in 1 .. Len(s)
               PROVE  <<i, j>> \in R <=> v[i] < v[j] \/ (v[i] = v[j] /\ i < j)
    OBVIOUS
  <2>1. <<i, j>> \in Pairs(s) /\ v[i] \in Int /\ v[j] \in Int
    BY DEF Pairs
  <2>2. <<i, j>> \in R <=> <<i, j>> \in before \/ (<<j, i>> \notin before /\ i < j)
    BY <2>1
  <2>3. <<i, j>> \in R <=> v[i] < v[j] \/ (~(v[j] < v[i]) /\ i < j)
    <3> HIDE DEF R
    <3> QED BY <2>2
  <2> HIDE DEF R
  <2> QED BY <2>1, <2>3
<1>2. StableSort(s, before) = Arrange(s, R)
  BY DEF StableSort
<1> HIDE DEF R
<1>3. TotalOn(R, Len(s))
  <2>1. \A i \in 1 .. Len(s) : <<i, i>> \notin R
    BY <1>1
  <2>2. \A i, j, k \in 1 .. Len(s) : <<i, j>> \in R /\ <<j, k>> \in R => <<i, k>> \in R
    BY <1>1
  <2>3. \A i, j \in 1 .. Len(s) : i # j => <<i, j>> \in R \/ <<j, i>> \in R
    BY <1>1
  <2> QED BY <2>1, <2>2, <2>3 DEF TotalOn
<1>4. PICK p : p = ByRank(R, Len(s))
  OBVIOUS
<1>5. /\ IsPermutation(p, Len(s))
      /\ \A k, l \in 1 .. Len(s) : k < l => <<p[k], p[l]>> \in R
      /\ Arrange(s, R) = [k \in 1 .. Len(s) |-> s[p[k]]]
  BY <1>3, <1>4, ArrangePermutes
<1>6. \A k \in 1 .. Len(s) : p[k] \in 1 .. Len(s)
  BY <1>5 DEF IsPermutation
<1>7. \A k, l \in 1 .. Len(s) : k < l => v[p[k]] <= v[p[l]]
  <2> SUFFICES ASSUME NEW k \in 1 .. Len(s), NEW l \in 1 .. Len(s), k < l
               PROVE  v[p[k]] <= v[p[l]]
    OBVIOUS
  <2>1. PICK i, j : i = p[k] /\ j = p[l]
    OBVIOUS
  <2>2. i \in 1 .. Len(s) /\ j \in 1 .. Len(s) /\ <<i, j>> \in R
    BY <1>5, <1>6, <2>1
  <2>3. v[i] \in Int /\ v[j] \in Int /\ (v[i] < v[j] \/ v[i] = v[j])
    BY <1>1, <2>2
  <2> QED BY <2>1, <2>3
<1> QED BY <1>2, <1>5, <1>7

\* The same elements in another order.
LEMMA Permuted ==
  ASSUME NEW E, NEW s \in Seq(E), NEW p, IsPermutation(p, Len(s)),
         NEW t, t = [k \in 1 .. Len(s) |-> s[p[k]]]
  PROVE  /\ t \in Seq(E) /\ Len(t) = Len(s) /\ ToSet(t) = ToSet(s)
         /\ IsInjective(s) => IsInjective(t)
<1>1. PICK n \in Nat : n = Len(s) /\ DOMAIN s = 1 .. n /\ \A i \in 1 .. n : s[i] \in E
  BY LenProperties, ElementOfSeq
<1>2. /\ \A k \in 1 .. n : p[k] \in 1 .. n
      /\ \A k, l \in 1 .. n : p[k] = p[l] => k = l
      /\ \A i \in 1 .. n : \E k \in 1 .. n : p[k] = i
  BY <1>1 DEF IsPermutation
<1>3. t = [k \in 1 .. n |-> s[p[k]]] /\ DOMAIN t = 1 .. n /\ \A k \in 1 .. n : t[k] = s[p[k]]
  BY <1>1
<1>4. t \in Seq(E) /\ Len(t) = n
  <2>1. \A k \in 1 .. n : s[p[k]] \in E
    BY <1>1, <1>2
  <2> QED BY <1>1, <1>3, <2>1, SMT
<1>5. ToSet(t) = ToSet(s)
  <2>1. ToSet(s) = {s[i] : i \in 1 .. n} /\ ToSet(t) = {t[k] : k \in 1 .. n}
    BY <1>1, <1>3 DEF ToSet
  <2>2. ASSUME NEW k \in 1 .. n PROVE t[k] \in ToSet(s)
    <3>1. PICK i \in 1 .. n : i = p[k]
      BY <1>2
    <3>2. t[k] = s[i]
      BY <1>3, <3>1
    <3> QED BY <2>1, <3>2
  <2>3. ASSUME NEW i \in 1 .. n PROVE s[i] \in ToSet(t)
    <3>1. PICK k \in 1 .. n : p[k] = i
      BY <1>2
    <3>2. t[k] = s[i]
      BY <1>3, <3>1
    <3> QED BY <2>1, <3>2
  <2>4. ToSet(t) \subseteq ToSet(s)
    BY <2>1, <2>2
  <2>5. ToSet(s) \subseteq ToSet(t)
    BY <2>1, <2>3
  <2> QED BY <2>4, <2>5
<1>6. IsInjective(s) => IsInjective(t)
  <2> SUFFICES ASSUME IsInjective(s), NEW k \in 1 .. n, NEW l \in 1 .. n, t[k] = t[l] PROVE k = l
    BY <1>3 DEF IsInjective
  <2>1. s[p[k]] = s[p[l]] /\ p[k] \in 1 .. n /\ p[l] \in 1 .. n
    BY <1>2, <1>3
  <2>2. p[k] = p[l]
    BY <1>1, <2>1 DEF IsInjective
  <2> QED BY <1>2, <2>2
<1> QED BY <1>1, <1>4, <1>5, <1>6

-----------------------------------------------------------------------------
(* The sizes add up                                                        *)

LEMMA PrefixChain ==
  ASSUME NEW p \in Seq(Nat), NEW q \in Seq(Nat), NEW r \in Seq(Nat), IsPrefix(q, r)
  PROVE  /\ IsPrefix(p, q) => IsPrefix(p, r)
         /\ IsStrictPrefix(p, q) => IsStrictPrefix(p, r)
<1>1. Len(p) \in Nat /\ Len(q) \in Nat /\ Len(r) \in Nat
  BY LenProperties
<1>2. Len(q) <= Len(r) /\ \A i \in 1 .. Len(q) : q[i] = r[i]
  BY PrefixElements
<1>3. ASSUME IsPrefix(p, q) PROVE IsPrefix(p, r)
  <2>1. Len(p) <= Len(q) /\ \A i \in 1 .. Len(p) : p[i] = q[i]
    BY <1>3, PrefixElements
  <2>2. Len(p) <= Len(r) /\ \A i \in 1 .. Len(p) : p[i] = r[i]
    BY <1>1, <1>2, <2>1
  <2> QED BY <2>2, PrefixElements
<1>4. ASSUME IsStrictPrefix(p, q) PROVE IsStrictPrefix(p, r)
  <2>1. IsPrefix(p, r) /\ IsPrefix(p, q) /\ p # q
    BY <1>3, <1>4 DEF IsStrictPrefix
  <2>2. ASSUME p = r PROVE FALSE
    <3>1. /\ Len(p) <= Len(q) /\ Len(q) <= Len(p) /\ \A i \in 1 .. Len(p) : p[i] = q[i]
      BY <1>2, <2>1, <2>2, PrefixElements
    <3>2. p = q
      BY <1>1, <3>1, SeqEqual
    <3> QED BY <2>1, <3>2
  <2> QED BY <2>1, <2>2 DEF IsStrictPrefix
<1> QED BY <1>3, <1>4

\* The entries below entry i, and with entry i.
Below(t, i) == {j \in DOMAIN t : IsStrictPrefix(t[i].path, t[j].path)}

Subtree(t, i) == Below(t, i) \cup {i}

Sizes(t) == [i \in DOMAIN t |-> t[i].size]

\* Nothing is below a file, and nothing below a directory of junk.
LEMMA NothingBelow ==
  ASSUME NEW t, Shape(t), NEW i \in 1 .. Len(t), t[i].kind # "Dir" \/ t[i].is_junk
  PROVE  Below(t, i) = {}
<1> SUFFICES ASSUME NEW j \in 1 .. Len(t), IsStrictPrefix(t[i].path, t[j].path) PROVE FALSE
  BY ShapeFacts DEF Below
<1>1. PICK r : r = t[i].path
  OBVIOUS
<1>2. r \in Seq(Nat) /\ r # <<>> /\ IsStrictPrefix(r, t[j].path)
  BY <1>1, ShapeFacts
<1>3. PICK k \in 1 .. Len(t) : t[k].path = r /\ t[k].kind = "Dir" /\ ~t[k].is_junk
  BY <1>2, AncestorEntries
<1>4. k = i
  BY <1>1, <1>3, ShapeFacts
<1> QED BY <1>3, <1>4

\* The subtrees of its children are all that is below a directory.
LEMMA ChildSubtrees ==
  ASSUME NEW t, Shape(t), NEW d \in 1 .. Len(t)
  PROVE  Below(t, d) = UNION {Subtree(t, c) : c \in ChildrenUpTo(t, d, Len(t))}
<1> DEFINE C == ChildrenUpTo(t, d, Len(t))
<1>1. /\ Len(t) \in Nat /\ DOMAIN t = 1 .. Len(t)
      /\ \A i \in 1 .. Len(t) : t[i].path \in Seq(Nat) /\ t[i].path # <<>> /\ Len(t[i].path) \in Nat \ {0}
  BY ShapeFacts
<1>2. \A c \in C : c \in 1 .. Len(t) /\ IsStrictPrefix(t[d].path, t[c].path)
  <2> SUFFICES ASSUME NEW c \in C PROVE c \in 1 .. Len(t) /\ IsStrictPrefix(t[d].path, t[c].path)
    OBVIOUS
  <2>1. c \in 1 .. Len(t) /\ Len(t[c].path) > 1 /\ Parent(t[c].path) = t[d].path
    BY DEF ChildrenUpTo
  <2>2. PICK j \in 1 .. Len(t) :
          t[j].path = Parent(t[c].path) /\ IsStrictPrefix(t[j].path, t[c].path)
    BY <2>1, ParentEntry
  <2> QED BY <2>1, <2>2
<1>3. ASSUME NEW c \in C, NEW j \in Subtree(t, c) PROVE j \in Below(t, d)
  <2>1. c \in 1 .. Len(t) /\ IsStrictPrefix(t[d].path, t[c].path)
    BY <1>2
  <2>2. CASE j = c
    BY <1>1, <2>1, <2>2 DEF Below
  <2>3. CASE j # c
    <3>1. j \in 1 .. Len(t) /\ IsStrictPrefix(t[c].path, t[j].path)
      BY <1>1, <1>3, <2>3 DEF Subtree, Below
    <3>2. PICK p, q, r : p = t[d].path /\ q = t[c].path /\ r = t[j].path
      OBVIOUS
    <3>3. /\ p \in Seq(Nat) /\ q \in Seq(Nat) /\ r \in Seq(Nat)
          /\ IsStrictPrefix(p, q) /\ IsPrefix(q, r)
      BY <1>1, <2>1, <3>1, <3>2 DEF IsStrictPrefix
    <3>4. IsStrictPrefix(p, r)
      BY <3>3, PrefixChain
    <3> QED BY <1>1, <3>1, <3>2, <3>4 DEF Below
  <2> QED BY <2>2, <2>3
<1>4. ASSUME NEW j \in Below(t, d) PROVE \E c \in C : j \in Subtree(t, c)
  <2>1. j \in 1 .. Len(t) /\ IsStrictPrefix(t[d].path, t[j].path)
    BY <1>1 DEF Below
  <2> DEFINE B == {c \in 1 .. Len(t) : /\ IsStrictPrefix(t[d].path, t[c].path)
                                       /\ IsPrefix(t[c].path, t[j].path)}
  <2>2. j \in B
    <3>1. IsPrefix(t[j].path, t[j].path)
      <4>1. PICK r \in Seq(Nat) : r = t[j].path
        BY <1>1, <2>1
      <4>2. IsPrefix(r, r)
        BY PrefixElements, LenProperties
      <4> QED BY <4>1, <4>2
    <3> QED BY <2>1, <3>1
  <2>3. PICK c \in B : \A l \in B : c <= l
    <3>1. B \in SUBSET Nat /\ B # {}
      BY <2>2
    <3> HIDE DEF B
    <3> QED BY <3>1, LeastNumber
  <2>4. /\ c \in 1 .. Len(t) /\ IsStrictPrefix(t[d].path, t[c].path)
        /\ IsPrefix(t[c].path, t[j].path)
    OBVIOUS
  <2>5. PICK p, q, r : p = t[d].path /\ q = t[c].path /\ r = t[j].path
    OBVIOUS
  <2>6. /\ p \in Seq(Nat) /\ q \in Seq(Nat) /\ r \in Seq(Nat) /\ p # <<>> /\ q # <<>>
        /\ IsStrictPrefix(p, q) /\ IsPrefix(q, r)
    BY <1>1, <2>1, <2>4, <2>5
  <2>7. Len(q) > 1
    <3>1. PICK a, b \in Nat : a = Len(p) /\ b = Len(q) /\ a # 0
      BY <1>1, <2>4, <2>5
    <3>2. IsPrefix(p, q) /\ p # q
      BY <2>6 DEF IsStrictPrefix
    <3>3. a <= b /\ \A i \in 1 .. a : p[i] = q[i]
      BY <2>6, <3>1, <3>2, PrefixElements
    <3>4. a # b
      BY <2>6, <3>1, <3>2, <3>3, SeqEqual
    <3>5. b > 1
      BY <3>1, <3>3, <3>4
    <3> QED BY <3>1, <3>5
  <2>8. p = Parent(q) \/ IsStrictPrefix(p, Parent(q))
    BY <2>6, PrefixOfParent
  <2>9. ~IsStrictPrefix(p, Parent(q))
    <3> SUFFICES ASSUME IsStrictPrefix(p, Parent(q)) PROVE FALSE
      OBVIOUS
    <3>1. PICK l \in 1 .. Len(t) :
            t[l].path = Parent(t[c].path) /\ l < c /\ IsStrictPrefix(t[l].path, t[c].path)
      BY <2>4, <2>5, <2>7, ParentEntry
    <3>2. PICK w : w = t[l].path
      OBVIOUS
    <3>3. w \in Seq(Nat) /\ IsPrefix(w, q) /\ IsStrictPrefix(p, w)
      BY <1>1, <2>5, <3>1, <3>2 DEF IsStrictPrefix
    <3>4. IsPrefix(w, r)
      BY <2>6, <3>3, PrefixChain
    <3>5. l \in B
      BY <2>5, <3>2, <3>3, <3>4
    <3>6. c <= l /\ l \in Nat /\ c \in Nat
      <4> HIDE DEF B
      <4> QED BY <2>3, <2>4, <3>5
    <3> QED BY <3>1, <3>6
  <2>10. c \in C
    BY <2>4, <2>5, <2>7, <2>8, <2>9 DEF ChildrenUpTo
  <2>11. j \in Subtree(t, c)
    <3>1. CASE q = r
      <4>1. j = c
        BY <2>1, <2>4, <2>5, <3>1, ShapeFacts
      <4> QED BY <4>1 DEF Subtree
    <3>2. CASE q # r
      BY <1>1, <2>1, <2>5, <2>6, <3>2 DEF Subtree, Below, IsStrictPrefix
    <3> QED BY <3>1, <3>2
  <2> QED BY <2>10, <2>11
<1> HIDE DEF C
<1> QED BY <1>3, <1>4 DEF C

\* The subtrees of two children of a directory have nothing in common.
LEMMA SubtreesApart ==
  ASSUME NEW t, Shape(t), NEW d \in 1 .. Len(t), NEW b \in ChildrenUpTo(t, d, Len(t)),
         NEW c \in ChildrenUpTo(t, d, Len(t)), b # c
  PROVE  Subtree(t, b) \cap Subtree(t, c) = {}
<1> SUFFICES ASSUME NEW j, j \in Subtree(t, b), j \in Subtree(t, c) PROVE FALSE
  OBVIOUS
<1>1. /\ DOMAIN t = 1 .. Len(t)
      /\ \A i \in 1 .. Len(t) : t[i].path \in Seq(Nat) /\ t[i].path # <<>>
  BY ShapeFacts
<1>2. /\ b \in 1 .. Len(t) /\ Parent(t[b].path) = t[d].path
      /\ c \in 1 .. Len(t) /\ Parent(t[c].path) = t[d].path
  BY DEF ChildrenUpTo
<1>3. ASSUME NEW i \in 1 .. Len(t), j \in Subtree(t, i)
      PROVE  j \in 1 .. Len(t) /\ IsPrefix(t[i].path, t[j].path)
  <2>1. CASE j = i
    <3>1. PICK r \in Seq(Nat) : r = t[i].path
      BY <1>1
    <3>2. IsPrefix(r, r)
      BY PrefixElements, LenProperties
    <3> QED BY <2>1, <3>1, <3>2
  <2>2. CASE j # i
    BY <1>1, <1>3, <2>2 DEF Subtree, Below, IsStrictPrefix
  <2> QED BY <2>1, <2>2
<1>4. PICK p, q, r : p = t[b].path /\ q = t[c].path /\ r = t[j].path
  OBVIOUS
<1>5. /\ p \in Seq(Nat) /\ q \in Seq(Nat) /\ r \in Seq(Nat) /\ p # <<>> /\ q # <<>>
      /\ IsPrefix(p, r) /\ IsPrefix(q, r) /\ Parent(p) = Parent(q)
  BY <1>1, <1>2, <1>3, <1>4
<1>6. Len(p) = Len(q)
  BY <1>5, ParentBelowRoot
<1>7. /\ Len(p) <= Len(r) /\ \A i \in 1 .. Len(p) : p[i] = r[i]
      /\ Len(q) <= Len(r) /\ \A i \in 1 .. Len(q) : q[i] = r[i]
  BY <1>5, PrefixElements
<1>8. \A i \in 1 .. Len(p) : p[i] = q[i]
  BY <1>6, <1>7
<1>9. p = q
  BY <1>5, <1>6, <1>8, SeqEqual
<1> QED BY <1>2, <1>4, <1>9, ShapeFacts

\* What accumulate_dir_sizes gives entry i.
Rolled(t, i) ==
  IF t[i].kind = "Dir" THEN t[i].size + SumFunctionOnSet(Sizes(t), Below(t, i)) ELSE t[i].size

\* It is the size of everything in the subtree of i.
LEMMA RolledSubtree ==
  ASSUME NEW t, Shape(t), NEW i \in 1 .. Len(t)
  PROVE  /\ Rolled(t, i) = SumFunctionOnSet(Sizes(t), Subtree(t, i)) /\ Rolled(t, i) \in Nat
         /\ Subtree(t, i) \in SUBSET (1 .. Len(t))
         /\ SumFunctionOnSet(Sizes(t), Below(t, i)) \in Nat
<1>1. /\ DOMAIN t = 1 .. Len(t) /\ IsFiniteSet(1 .. Len(t))
      /\ \A j \in 1 .. Len(t) : t[j].size \in Nat /\ t[j].path \in Seq(Nat)
  BY ShapeFacts
<1>2. Below(t, i) \in SUBSET (1 .. Len(t)) /\ i \notin Below(t, i)
  BY <1>1 DEF Below, IsStrictPrefix
<1>3. IsFiniteSet(Below(t, i))
  BY <1>1, <1>2, FS_Subset
<1>4. \A j \in Below(t, i) \cup {i} : Sizes(t)[j] \in Nat
  BY <1>1, <1>2 DEF Sizes
<1>5. SumFunctionOnSet(Sizes(t), Below(t, i)) \in Nat
  BY <1>3, <1>4, SumType
<1>6. SumFunctionOnSet(Sizes(t), Below(t, i) \cup {i})
        = SumFunctionOnSet(Sizes(t), Below(t, i)) + Sizes(t)[i]
  BY <1>2, <1>3, <1>4, SumAdd
<1>7. Sizes(t)[i] = t[i].size /\ t[i].size \in Nat
  BY <1>1 DEF Sizes
<1>8. t[i].kind # "Dir" => SumFunctionOnSet(Sizes(t), Below(t, i)) = 0
  <2> SUFFICES ASSUME t[i].kind # "Dir" PROVE SumFunctionOnSet(Sizes(t), Below(t, i)) = 0
    OBVIOUS
  <2>1. Below(t, i) = {}
    BY NothingBelow
  <2> QED BY <2>1, SumEmpty
<1>9. Rolled(t, i) = SumFunctionOnSet(Sizes(t), Below(t, i)) + t[i].size
  BY <1>5, <1>7, <1>8 DEF Rolled
<1>10. Subtree(t, i) \in SUBSET (1 .. Len(t))
  BY <1>2 DEF Subtree
<1>11. Rolled(t, i) = SumFunctionOnSet(Sizes(t), Subtree(t, i))
  BY <1>6, <1>7, <1>9 DEF Subtree
<1>12. Rolled(t, i) \in Nat
  BY <1>5, <1>7, <1>9
<1> QED BY <1>5, <1>10, <1>11, <1>12

\* What its children are given adds up to what is below a directory.
LEMMA ChildrenAddUp ==
  ASSUME NEW t, Shape(t), NEW h, \A i \in 1 .. Len(t) : h[i] = Rolled(t, i), NEW d \in 1 .. Len(t)
  PROVE  SumFunctionOnSet(h, ChildrenUpTo(t, d, Len(t))) = SumFunctionOnSet(Sizes(t), Below(t, d))
<1> DEFINE C == ChildrenUpTo(t, d, Len(t))
           G == [c \in C |-> Subtree(t, c)]
           D == 1 .. Len(t)
           f == Sizes(t)
<1>1. /\ DOMAIN t = D /\ IsFiniteSet(D) /\ \A j \in D : f[j] \in Nat
  BY ShapeFacts DEF Sizes
<1>2. C \in SUBSET D
  BY DEF ChildrenUpTo
<1>3. IsFiniteSet(C)
  BY <1>1, <1>2, FS_Subset
<1>4. \A c \in C : G[c] \in SUBSET D /\ h[c] = SumFunctionOnSet(f, G[c])
  <2> SUFFICES ASSUME NEW c \in C PROVE G[c] \in SUBSET D /\ h[c] = SumFunctionOnSet(f, G[c])
    OBVIOUS
  <2>1. c \in D /\ G[c] = Subtree(t, c)
    BY <1>2
  <2> HIDE DEF G, C
  <2> QED BY <2>1, RolledSubtree
<1>5. \A b, c \in C : b # c => G[b] \cap G[c] = {}
  BY SubtreesApart
<1> DEFINE U == Below(t, d)
<1>6. U \in SUBSET D /\ \A x \in D : x \in U <=> \E c \in C : x \in G[c]
  <2>1. U = UNION {Subtree(t, c) : c \in C}
    BY ChildSubtrees
  <2>2. U \in SUBSET D
    BY <1>1 DEF Below
  <2>3. \A c \in C : G[c] = Subtree(t, c)
    OBVIOUS
  <2> HIDE DEF C, G, D, U
  <2> QED BY <2>1, <2>2, <2>3
<1> HIDE DEF C, G, D, f, U
<1>7. SumFunctionOnSet(f, U) = SumFunctionOnSet(h, C)
  <2>1. Parts(f, h, D, C, G, U)
    BY <1>1, <1>3, <1>4, <1>5, <1>6 DEF Parts
  <2> QED BY <2>1, SumPartition
<1> QED BY <1>7 DEF C, f, U

-----------------------------------------------------------------------------
(* Lists whose sizes change                                                *)

\* The same entries, some of them with another size.
Resized(t, u) ==
  /\ u \in Seq(EntryRecord) /\ Len(u) = Len(t)
  /\ \A i \in 1 .. Len(t) : /\ u[i].path = t[i].path /\ u[i].kind = t[i].kind
                            /\ u[i].depth = t[i].depth /\ u[i].is_junk = t[i].is_junk

DefinedOn(u, D) == u = [i \in D |-> u[i]]

LEMMA SizesChanged ==
  ASSUME NEW t, Shape(t), NEW u, DefinedOn(u, DOMAIN t),
         \A i \in 1 .. Len(t) : u[i] = t[i] \/ \E w \in Nat : u[i] = [t[i] EXCEPT !.size = w]
  PROVE  Resized(t, u)
<1>1. PICK n \in Nat : n = Len(t) /\ DOMAIN t = 1 .. n /\ \A i \in 1 .. n : t[i] \in EntryRecord
  BY ShapeFacts
<1>2. ASSUME NEW e \in EntryRecord, NEW w \in Nat, NEW f, f = [e EXCEPT !.size = w]
      PROVE  /\ f \in EntryRecord /\ f.path = e.path /\ f.kind = e.kind
             /\ f.depth = e.depth /\ f.is_junk = e.is_junk /\ f.size = w
  BY <1>2 DEF EntryRecord
<1>3. ASSUME NEW i \in 1 .. n
      PROVE  /\ u[i] \in EntryRecord /\ u[i].path = t[i].path /\ u[i].kind = t[i].kind
             /\ u[i].depth = t[i].depth /\ u[i].is_junk = t[i].is_junk
  <2>1. PICK e, f : e = t[i] /\ f = u[i]
    OBVIOUS
  <2>2. e \in EntryRecord /\ (f = e \/ \E w \in Nat : f = [e EXCEPT !.size = w])
    BY <1>1, <2>1
  <2>3. /\ f \in EntryRecord /\ f.path = e.path /\ f.kind = e.kind
        /\ f.depth = e.depth /\ f.is_junk = e.is_junk
    <3>1. CASE f = e
      BY <2>2, <3>1
    <3>2. CASE f # e
      <4>1. PICK w \in Nat : f = [e EXCEPT !.size = w]
        BY <2>2, <3>2
      <4> QED BY <1>2, <2>2, <4>1
    <3> QED BY <3>1, <3>2
  <2> QED BY <2>1, <2>3
<1>4. u = [i \in 1 .. n |-> u[i]]
  BY <1>1 DEF DefinedOn
<1>5. u \in Seq(EntryRecord) /\ Len(u) = n
  <2>1. \A i \in 1 .. n : u[i] \in EntryRecord
    BY <1>3
  <2>2. u \in [1 .. n -> EntryRecord]
    BY <1>4, <2>1
  <2> QED BY <2>2, SMT
<1> QED BY <1>1, <1>3, <1>5 DEF Resized

LEMMA SameShape ==
  ASSUME NEW t, Shape(t), NEW u, Resized(t, u)
  PROVE  /\ Shape(u)
         /\ \A i \in 1 .. Len(t) : Below(u, i) = Below(t, i)
         /\ \A i, k \in 1 .. Len(t) : ChildrenUpTo(u, i, k) = ChildrenUpTo(t, i, k)
<1>1. PICK n \in Nat : n = Len(t) /\ DOMAIN t = 1 .. n
  BY ShapeFacts
<1>2. /\ u \in Seq(EntryRecord) /\ DOMAIN u = 1 .. n /\ Len(u) = n
      /\ \A i \in 1 .. n : /\ u[i].path = t[i].path /\ u[i].kind = t[i].kind
                           /\ u[i].depth = t[i].depth /\ u[i].is_junk = t[i].is_junk
  BY <1>1, LenProperties DEF Resized
<1>3. InPathOrder(u)
  BY <1>1, <1>2 DEF Shape, InPathOrder
<1>4. DepthsMatch(u)
  BY <1>1, <1>2 DEF Shape, DepthsMatch
<1>5. OpenParents(u)
  BY <1>1, <1>2 DEF Shape, OpenParents
<1>6. \A i \in 1 .. n : Below(u, i) = Below(t, i)
  BY <1>1, <1>2 DEF Below
<1>7. \A i, k \in 1 .. n : ChildrenUpTo(u, i, k) = ChildrenUpTo(t, i, k)
  <2> SUFFICES ASSUME NEW i \in 1 .. n, NEW k \in 1 .. n
               PROVE  ChildrenUpTo(u, i, k) = ChildrenUpTo(t, i, k)
    OBVIOUS
  <2>1. \A c \in 1 .. k : c \in 1 .. n /\ u[c].path = t[c].path
    BY <1>2
  <2>2. u[i].path = t[i].path
    BY <1>2
  <2> QED BY <2>1, <2>2 DEF ChildrenUpTo
<1> QED BY <1>1, <1>2, <1>3, <1>4, <1>5, <1>6, <1>7 DEF Shape

-----------------------------------------------------------------------------
(* The invariant                                                           *)

Unapplied == {"measure", "sortHits", "apply"}

\* Each hit has a path of its own and, once measured, the size measured for it.
HitsRight ==
  /\ hits \in Seq(HitRecord) /\ OneHitEach(hits)
  /\ \A i \in DOMAIN hits : /\ bytes[hits[i].path] \in Nat
                            /\ stage # "measure" => hits[i].size_bytes = bytes[hits[i].path]

\* Directories have no size until the junk is applied and the rest is added up.
TreeRight ==
  /\ Shape(tree) /\ JunkIsHit(hits, tree)
  /\ stage \in Unapplied => DirsUnsized(tree)
  /\ stage = "accumulate" =>
       \A i \in DOMAIN tree : tree[i].kind = "Dir" /\ ~tree[i].is_junk => tree[i].size = 0
  /\ stage \notin Unapplied =>
       \A i \in DOMAIN tree : tree[i].is_junk => tree[i].size = bytes[tree[i].path]

AddedUp ==
  Accumulated =>
    \A i \in DOMAIN tree : tree[i].kind = "Dir" /\ ~tree[i].is_junk =>
      tree[i].size = SumFunctionOnSet(Sizes(tree), ChildrenUpTo(tree, i, Len(tree)))

IndexRight ==
  /\ bySize # NoIndex => Indices(bySize) /\ Len(bySize) = Len(tree)
  /\ children # NoIndex => \A i \in DOMAIN tree : Indices(children[i])
  /\ stage = "launched" =>
       \A i \in DOMAIN tree : ToSet(children[i]) = ChildrenUpTo(tree, i, Len(tree))
                             /\ Descending(children[i])

PipelineInv ==
  stage \in Stage /\ isatty \in BOOLEAN /\ HitsRight /\ TreeRight /\ AddedUp /\ IndexRight

LEMMA InitRight == Init => PipelineInv
<1> SUFFICES ASSUME Init PROVE PipelineInv
  OBVIOUS
<1>1. PICK scan \in Scans : hits = scan.hits /\ tree = scan.tree
  BY DEF Init
<1>2. stage = "measure" /\ isatty \in BOOLEAN /\ bytes \in JunkBytes /\ bySize = NoIndex /\ children = NoIndex
  BY DEF Init
<1>3. WholeScan(hits, tree)
  BY <1>1, ScanAssumption
<1>4. \A i \in DOMAIN hits : bytes[hits[i].path] \in Nat
  BY <1>1, <1>2, JunkAssumption
<1>5. HitsRight
  BY <1>2, <1>3, <1>4 DEF HitsRight, WholeScan
<1>6. TreeRight
  BY <1>2, <1>3 DEF TreeRight, WholeScan, Shape, Unapplied
<1> QED BY <1>2, <1>5, <1>6 DEF PipelineInv, AddedUp, Accumulated, IndexRight, Stage

LEMMA HitFacts ==
  ASSUME HitsRight
  PROVE  /\ Len(hits) \in Nat /\ DOMAIN hits = 1 .. Len(hits)
         /\ \A i \in 1 .. Len(hits) : hits[i] \in HitRecord /\ hits[i].size_bytes \in Nat
<1>1. hits \in Seq(HitRecord)
  BY DEF HitsRight
<1>2. Len(hits) \in Nat /\ DOMAIN hits = 1 .. Len(hits) /\ \A i \in 1 .. Len(hits) : hits[i] \in HitRecord
  BY <1>1, LenProperties, ElementOfSeq
<1>3. \A h \in HitRecord : h.size_bytes \in Nat
  BY DEF HitRecord
<1> QED BY <1>2, <1>3

\* compute_sizes changes nothing of a hit but its size.
LEMMA MeasureStep == PipelineInv /\ ComputeSizes => PipelineInv'
<1> SUFFICES ASSUME PipelineInv, ComputeSizes PROVE PipelineInv'
  OBVIOUS
<1>1. /\ stage = "measure" /\ stage' = "sortHits"
      /\ hits' = [i \in DOMAIN hits |-> [hits[i] EXCEPT !.size_bytes = bytes[hits[i].path]]]
      /\ UNCHANGED <<isatty, bytes, tree, bySize, children>>
  BY DEF ComputeSizes, Advance
<1>2. HitsRight /\ TreeRight /\ IndexRight /\ isatty \in BOOLEAN
  BY DEF PipelineInv
<1>3. PICK n \in Nat : n = Len(hits) /\ DOMAIN hits = 1 .. n /\ \A i \in 1 .. n : hits[i] \in HitRecord
  BY <1>2, HitFacts
<1>4. \A i \in 1 .. n : bytes[hits[i].path] \in Nat
  <2>1. \A i \in DOMAIN hits : bytes[hits[i].path] \in Nat
    BY <1>2, Zenon DEF HitsRight
  <2> QED BY <1>3, <2>1
<1>5. ASSUME NEW h \in HitRecord, NEW w \in Nat, NEW f, f = [h EXCEPT !.size_bytes = w]
      PROVE  f \in HitRecord /\ f.path = h.path /\ f.size_bytes = w
  BY <1>5 DEF HitRecord
<1>6. ASSUME NEW i \in 1 .. n
      PROVE  /\ hits'[i] \in HitRecord /\ hits'[i].path = hits[i].path
             /\ hits'[i].size_bytes = bytes[hits[i].path]
  <2>1. PICK h, w, f : h = hits[i] /\ w = bytes[hits[i].path] /\ f = [h EXCEPT !.size_bytes = w]
    OBVIOUS
  <2>2. h \in HitRecord /\ w \in Nat /\ hits'[i] = f
    BY <1>1, <1>3, <1>4, <2>1
  <2>3. f \in HitRecord /\ f.path = h.path /\ f.size_bytes = w
    BY <1>5, <2>1, <2>2
  <2> QED BY <2>1, <2>2, <2>3
<1>7. hits' \in Seq(HitRecord) /\ Len(hits') = n /\ DOMAIN hits' = 1 .. n
  <2>1. hits' \in [1 .. n -> HitRecord]
    BY <1>1, <1>3, <1>6
  <2> QED BY <2>1, SMT
<1>8. OneHitEach(hits')
  BY <1>2, <1>3, <1>6, <1>7 DEF HitsRight, OneHitEach
<1>9. HitsRight'
  BY <1>1, <1>4, <1>6, <1>7, <1>8 DEF HitsRight
<1>10. JunkIsHit(hits', tree)
  BY <1>2, <1>3, <1>6, <1>7 DEF TreeRight, JunkIsHit
<1>11. TreeRight'
  BY <1>1, <1>2, <1>10 DEF TreeRight, Unapplied
<1>12. AddedUp' /\ IndexRight'
  BY <1>1, <1>2 DEF AddedUp, Accumulated, IndexRight, Indices
<1> QED BY <1>1, <1>2, <1>9, <1>11, <1>12 DEF PipelineInv, Stage

\* The sort by size moves the hits, each with its path and its size.
LEMMA SortStep == PipelineInv /\ SortHits => PipelineInv'
<1> SUFFICES ASSUME PipelineInv, SortHits PROVE PipelineInv'
  OBVIOUS
<1> DEFINE bigger == {x \in Pairs(hits) : hits[x[1]].size_bytes > hits[x[2]].size_bytes}
<1>1. /\ stage = "sortHits" /\ stage' = "apply" /\ hits' = StableSort(hits, bigger)
      /\ UNCHANGED <<isatty, bytes, tree, bySize, children>>
  BY DEF SortHits, Advance
<1>2. HitsRight /\ TreeRight /\ IndexRight /\ isatty \in BOOLEAN
  BY DEF PipelineInv
<1>3. /\ Len(hits) \in Nat /\ DOMAIN hits = 1 .. Len(hits) /\ hits \in Seq(HitRecord)
      /\ \A i \in 1 .. Len(hits) : hits[i].size_bytes \in Nat
  BY <1>2, HitFacts DEF HitsRight
<1>4. PICK p : IsPermutation(p, Len(hits)) /\ hits' = [k \in 1 .. Len(hits) |-> hits[p[k]]]
  <2> DEFINE v == [i \in 1 .. Len(hits) |-> 0 - hits[i].size_bytes]
  <2>1. \A i \in 1 .. Len(hits) : v[i] \in Int
    BY <1>3
  <2>2. \A i, j \in 1 .. Len(hits) : <<i, j>> \in bigger <=> v[i] < v[j]
    BY <1>3 DEF Pairs
  <2> HIDE DEF v, bigger
  <2>3. \E q : /\ IsPermutation(q, Len(hits))
               /\ StableSort(hits, bigger) = [k \in 1 .. Len(hits) |-> hits[q[k]]]
               /\ \A k, l \in 1 .. Len(hits) : k < l => v[q[k]] <= v[q[l]]
    BY <1>3, <2>1, <2>2, SortedByNumber
  <2> QED BY <1>1, <2>3
<1>5. hits' \in Seq(HitRecord) /\ Len(hits') = Len(hits)
  BY <1>3, <1>4, Permuted
<1>6. DOMAIN hits' = 1 .. Len(hits) /\ \A k \in 1 .. Len(hits) : hits'[k] = hits[p[k]]
  BY <1>4
<1>7. /\ \A k \in 1 .. Len(hits) : p[k] \in 1 .. Len(hits)
      /\ \A k, l \in 1 .. Len(hits) : p[k] = p[l] => k = l
      /\ \A i \in 1 .. Len(hits) : \E k \in 1 .. Len(hits) : p[k] = i
  BY <1>4 DEF IsPermutation
<1>8. OneHitEach(hits')
  <2>1. \A i, j \in 1 .. Len(hits) : hits[i].path = hits[j].path => i = j
    BY <1>2, <1>3 DEF HitsRight, OneHitEach
  <2>2. \A k, l \in 1 .. Len(hits) : hits'[k].path = hits'[l].path => k = l
    <3> SUFFICES ASSUME NEW k \in 1 .. Len(hits), NEW l \in 1 .. Len(hits),
                        hits'[k].path = hits'[l].path
                 PROVE  k = l
      OBVIOUS
    <3>1. PICK i, j \in 1 .. Len(hits) : i = p[k] /\ j = p[l]
      BY <1>7
    <3>2. hits[i].path = hits[j].path
      BY <1>6, <3>1
    <3>3. p[k] = p[l]
      BY <2>1, <3>1, <3>2
    <3> QED BY <1>7, <3>3
  <2> QED BY <1>6, <2>2 DEF OneHitEach
<1>9. \A i \in 1 .. Len(hits) :
        bytes[hits[i].path] \in Nat /\ hits[i].size_bytes = bytes[hits[i].path]
  <2>1. \A i \in DOMAIN hits :
          bytes[hits[i].path] \in Nat /\ (stage # "measure" => hits[i].size_bytes = bytes[hits[i].path])
    BY <1>2, Zenon DEF HitsRight
  <2> QED BY <1>1, <1>3, <2>1
<1>10. HitsRight'
  <2>1. \A k \in DOMAIN hits' :
          bytes[hits'[k].path] \in Nat /\ hits'[k].size_bytes = bytes[hits'[k].path]
    <3> SUFFICES ASSUME NEW k \in 1 .. Len(hits)
                 PROVE  bytes[hits'[k].path] \in Nat /\ hits'[k].size_bytes = bytes[hits'[k].path]
      BY <1>6
    <3>1. PICK i \in 1 .. Len(hits) : i = p[k]
      BY <1>7
    <3>2. hits'[k] = hits[i]
      BY <1>6, <3>1
    <3> QED BY <1>9, <3>2
  <2> QED BY <1>1, <1>5, <1>8, <2>1 DEF HitsRight
<1>11. JunkIsHit(hits', tree)
  <2>1. \A i \in DOMAIN tree : tree[i].is_junk =>
          tree[i].kind = "Dir" /\ \E k \in 1 .. Len(hits) : hits[k].path = tree[i].path
    BY <1>2, <1>3 DEF TreeRight, JunkIsHit
  <2>2. ASSUME NEW k \in 1 .. Len(hits) PROVE \E l \in DOMAIN hits' : hits'[l].path = hits[k].path
    BY <1>6, <1>7
  <2>3. ASSUME NEW i \in DOMAIN tree, tree[i].is_junk
        PROVE  tree[i].kind = "Dir" /\ \E l \in DOMAIN hits' : hits'[l].path = tree[i].path
    <3>1. PICK k \in 1 .. Len(hits) : hits[k].path = tree[i].path
      BY <2>1, <2>3
    <3> QED BY <2>1, <2>2, <2>3, <3>1
  <2> QED BY <2>3 DEF JunkIsHit
<1>12. TreeRight'
  BY <1>1, <1>2, <1>11 DEF TreeRight, Unapplied
<1>13. AddedUp' /\ IndexRight'
  BY <1>1, <1>2 DEF AddedUp, Accumulated, IndexRight, Indices
<1> QED BY <1>1, <1>2, <1>10, <1>12, <1>13 DEF PipelineInv, Stage

\* One hit has the path of a junk entry, so the entry takes the size of that hit.
LEMMA ApplyStep == PipelineInv /\ ApplyJunkSizes => PipelineInv'
<1> SUFFICES ASSUME PipelineInv, ApplyJunkSizes PROVE PipelineInv'
  OBVIOUS
<1> DEFINE sizes(e) == {h.size_bytes : h \in {x \in ToSet(hits) : x.path = e.path}}
<1>1. /\ stage = "apply" /\ stage' = "accumulate"
      /\ tree' = [i \in DOMAIN tree |->
                    IF tree[i].is_junk /\ tree[i].size = 0 /\ sizes(tree[i]) # {}
                    THEN [tree[i] EXCEPT !.size = Max(sizes(tree[i]))] ELSE tree[i]]
      /\ UNCHANGED <<isatty, bytes, hits, bySize, children>>
  BY DEF ApplyJunkSizes, Advance
<1>2. /\ HitsRight /\ TreeRight /\ IndexRight /\ isatty \in BOOLEAN /\ Shape(tree) /\ DirsUnsized(tree)
      /\ JunkIsHit(hits, tree)
  BY <1>1 DEF PipelineInv, TreeRight, Unapplied
<1>3. /\ Len(hits) \in Nat /\ DOMAIN hits = 1 .. Len(hits)
      /\ Len(tree) \in Nat /\ DOMAIN tree = 1 .. Len(tree)
      /\ \A i \in 1 .. Len(tree) : tree[i] \in EntryRecord
  BY <1>2, HitFacts, ShapeFacts
<1>4. \A k \in 1 .. Len(hits) :
        bytes[hits[k].path] \in Nat /\ hits[k].size_bytes = bytes[hits[k].path]
  <2>1. \A i \in DOMAIN hits :
          bytes[hits[i].path] \in Nat /\ (stage # "measure" => hits[i].size_bytes = bytes[hits[i].path])
    BY <1>2, Zenon DEF HitsRight
  <2> QED BY <1>1, <1>3, <2>1
<1>5. ASSUME NEW i \in 1 .. Len(tree), tree[i].is_junk
      PROVE  /\ tree[i].kind = "Dir" /\ tree[i].size = 0 /\ bytes[tree[i].path] \in Nat
             /\ sizes(tree[i]) = {bytes[tree[i].path]}
  <2>1. tree[i].kind = "Dir" /\ \E k \in 1 .. Len(hits) : hits[k].path = tree[i].path
    BY <1>2, <1>3, <1>5 DEF JunkIsHit
  <2>2. tree[i].size = 0
    BY <1>2, <1>3, <2>1 DEF DirsUnsized
  <2>3. PICK k \in 1 .. Len(hits) : hits[k].path = tree[i].path
    BY <2>1
  <2>4. \A x \in ToSet(hits) : x.path = tree[i].path => x.size_bytes = bytes[tree[i].path]
    BY <1>3, <1>4 DEF ToSet
  <2>5. hits[k] \in ToSet(hits)
    BY <1>3 DEF ToSet
  <2>6. sizes(tree[i]) = {bytes[tree[i].path]}
    BY <2>3, <2>4, <2>5
  <2> QED BY <1>4, <2>1, <2>2, <2>3, <2>6
<1>6. \A w \in Nat : Max({w}) = w
  <2> SUFFICES ASSUME NEW w \in Nat PROVE Max({w}) = w
    OBVIOUS
  <2>1. Max({w}) \in {w}
    <3>1. {w} \in SUBSET (0 .. w) /\ {w} # {}
      OBVIOUS
    <3> QED BY <3>1, MaxOfSet
  <2> QED BY <2>1
<1> HIDE DEF sizes
<1>7. ASSUME NEW i \in 1 .. Len(tree)
      PROVE  /\ tree[i].is_junk => /\ tree'[i] = [tree[i] EXCEPT !.size = bytes[tree[i].path]]
                                   /\ bytes[tree[i].path] \in Nat
             /\ ~tree[i].is_junk => tree'[i] = tree[i]
  <2>1. CASE tree[i].is_junk
    <3>1. Max(sizes(tree[i])) = bytes[tree[i].path] /\ sizes(tree[i]) # {} /\ tree[i].size = 0
      BY <1>5, <1>6, <2>1
    <3> QED BY <1>1, <1>3, <1>5, <2>1, <3>1
  <2>2. CASE ~tree[i].is_junk
    BY <1>1, <1>3, <2>2
  <2> QED BY <2>1, <2>2
<1>8. Resized(tree, tree')
  <2>1. tree' = [i \in DOMAIN tree |-> tree'[i]]
    BY <1>1
  <2>2. PICK u : u = tree'
    OBVIOUS
  <2>3. DefinedOn(u, DOMAIN tree)
    BY <2>1, <2>2 DEF DefinedOn
  <2>4. \A i \in 1 .. Len(tree) : u[i] = tree[i] \/ \E w \in Nat : u[i] = [tree[i] EXCEPT !.size = w]
    BY <1>7, <2>2
  <2>5. Resized(tree, u)
    BY <1>2, <2>3, <2>4, SizesChanged
  <2> QED BY <2>2, <2>5
<1>9. Shape(tree')
  BY <1>2, <1>8, SameShape
<1>10. /\ DOMAIN tree' = 1 .. Len(tree)
       /\ \A i \in 1 .. Len(tree) : /\ tree'[i].path = tree[i].path /\ tree'[i].kind = tree[i].kind
                                    /\ tree'[i].is_junk = tree[i].is_junk
  BY <1>1, <1>3, <1>8 DEF Resized
<1>11. JunkIsHit(hits, tree')
  BY <1>2, <1>3, <1>10 DEF JunkIsHit
<1>12. \A i \in 1 .. Len(tree) :
         tree'[i].size = IF tree[i].is_junk THEN bytes[tree[i].path] ELSE tree[i].size
  BY <1>3, <1>7, ZenonT(30) DEF EntryRecord
<1>13. \A i \in DOMAIN tree' : tree'[i].kind = "Dir" /\ ~tree'[i].is_junk => tree'[i].size = 0
  BY <1>2, <1>3, <1>10, <1>12 DEF DirsUnsized
<1>14. \A i \in DOMAIN tree' : tree'[i].is_junk => tree'[i].size = bytes[tree'[i].path]
  BY <1>10, <1>12
<1>15. TreeRight'
  BY <1>1, <1>9, <1>11, <1>13, <1>14 DEF TreeRight, Unapplied
<1>16. HitsRight'
  BY <1>1, <1>2 DEF HitsRight
<1>17. AddedUp'
  BY <1>1 DEF AddedUp, Accumulated
<1>18. IndexRight'
  <2>1. Len(tree') = Len(tree) /\ DOMAIN tree' = DOMAIN tree
    BY <1>3, <1>8, <1>10 DEF Resized
  <2>2. (bySize # NoIndex => Indices(bySize) /\ Len(bySize) = Len(tree))'
    BY <1>1, <1>2, <2>1 DEF IndexRight, Indices
  <2>3. (children # NoIndex => \A i \in DOMAIN tree : Indices(children[i]))'
    BY <1>1, <1>2, <2>1 DEF IndexRight, Indices
  <2> QED BY <1>1, <2>2, <2>3 DEF IndexRight
<1> QED BY <1>1, <1>2, <1>15, <1>16, <1>17, <1>18 DEF PipelineInv, Stage

\* A directory without a size of its own is given what its children are given together.
LEMMA AccumulateStep == PipelineInv /\ Accumulate => PipelineInv'
<1> SUFFICES ASSUME PipelineInv, Accumulate PROVE PipelineInv'
  OBVIOUS
<1>1. /\ stage = "accumulate" /\ stage' = IF isatty THEN "order" ELSE "listed"
      /\ tree' = [i \in DOMAIN tree |->
                    IF tree[i].kind = "Dir" THEN [tree[i] EXCEPT !.size = @ + SizeBelow(tree[i])]
                    ELSE tree[i]]
      /\ UNCHANGED <<isatty, bytes, hits, bySize, children>>
  BY DEF Accumulate
<1>2. /\ HitsRight /\ TreeRight /\ IndexRight /\ isatty \in BOOLEAN
      /\ Shape(tree) /\ JunkIsHit(hits, tree)
  BY DEF PipelineInv, TreeRight
<1>3. /\ Len(tree) \in Nat /\ DOMAIN tree = 1 .. Len(tree)
      /\ \A i \in 1 .. Len(tree) : tree[i] \in EntryRecord /\ tree[i].size \in Nat
  BY <1>2, ShapeFacts
<1>4. /\ \A i \in 1 .. Len(tree) : tree[i].kind = "Dir" /\ ~tree[i].is_junk => tree[i].size = 0
      /\ \A i \in 1 .. Len(tree) : tree[i].is_junk => tree[i].size = bytes[tree[i].path]
  <2>1. /\ \A i \in DOMAIN tree : tree[i].kind = "Dir" /\ ~tree[i].is_junk => tree[i].size = 0
        /\ \A i \in DOMAIN tree : tree[i].is_junk => tree[i].size = bytes[tree[i].path]
    BY <1>1, <1>2 DEF TreeRight, Unapplied
  <2> QED BY <1>3, <2>1
<1>5. ASSUME NEW i \in 1 .. Len(tree)
      PROVE  SizeBelow(tree[i]) = SumFunctionOnSet(Sizes(tree), Below(tree, i))
  BY DEF SizeBelow, Sizes, Below
<1>6. ASSUME NEW i \in 1 .. Len(tree)
      PROVE  /\ Rolled(tree, i) \in Nat
             /\ tree'[i] = tree[i] \/ tree'[i] = [tree[i] EXCEPT !.size = Rolled(tree, i)]
             /\ tree'[i].size = Rolled(tree, i)
  <2>1. PICK e, w, f : e = tree[i] /\ w = Rolled(tree, i) /\ f = [e EXCEPT !.size = w]
    OBVIOUS
  <2>2. e \in EntryRecord /\ w \in Nat
    BY <1>2, <1>3, <2>1, RolledSubtree
  <2>3. f.size = w
    BY <2>1, <2>2 DEF EntryRecord
  <2>4. CASE e.kind = "Dir"
    <3>1. w = e.size + SizeBelow(tree[i])
      BY <1>5, <2>1, <2>4 DEF Rolled
    <3>2. tree'[i] = f
      BY <1>1, <1>3, <2>1, <2>4, <3>1
    <3> QED BY <2>1, <2>2, <2>3, <3>2
  <2>5. CASE e.kind # "Dir"
    <3>1. tree'[i] = e /\ w = e.size
      BY <1>1, <1>3, <2>1, <2>5 DEF Rolled
    <3> QED BY <2>1, <2>2, <3>1
  <2> QED BY <2>4, <2>5
<1>7. Resized(tree, tree')
  <2>1. PICK u : u = tree'
    OBVIOUS
  <2>2. DefinedOn(u, DOMAIN tree)
    BY <1>1, <2>1 DEF DefinedOn
  <2>3. \A i \in 1 .. Len(tree) : u[i] = tree[i] \/ \E w \in Nat : u[i] = [tree[i] EXCEPT !.size = w]
    BY <1>6, <2>1
  <2>4. Resized(tree, u)
    BY <1>2, <2>2, <2>3, SizesChanged
  <2> QED BY <2>1, <2>4
<1>8. /\ Shape(tree')
      /\ \A i, k \in 1 .. Len(tree) : ChildrenUpTo(tree', i, k) = ChildrenUpTo(tree, i, k)
  BY <1>2, <1>7, SameShape
<1>9. /\ DOMAIN tree' = 1 .. Len(tree) /\ Len(tree') = Len(tree)
      /\ \A i \in 1 .. Len(tree) : /\ tree'[i].path = tree[i].path /\ tree'[i].kind = tree[i].kind
                                   /\ tree'[i].is_junk = tree[i].is_junk
  BY <1>1, <1>3, <1>7 DEF Resized
<1>10. JunkIsHit(hits, tree')
  BY <1>2, <1>3, <1>9 DEF JunkIsHit
<1>11. ASSUME NEW i \in 1 .. Len(tree), tree[i].is_junk PROVE tree'[i].size = bytes[tree[i].path]
  <2>1. Below(tree, i) = {}
    BY <1>2, <1>11, NothingBelow
  <2>2. SumFunctionOnSet(Sizes(tree), Below(tree, i)) = 0
    BY <2>1, SumEmpty
  <2>3. Rolled(tree, i) = tree[i].size
    BY <1>3, <2>2 DEF Rolled
  <2> QED BY <1>4, <1>6, <1>11, <2>3
<1>12. TreeRight'
  <2>1. stage' # "accumulate" /\ stage' \notin Unapplied
    BY <1>1 DEF Unapplied
  <2>2. \A i \in DOMAIN tree' : tree'[i].is_junk => tree'[i].size = bytes[tree'[i].path]
    BY <1>9, <1>11
  <2> QED BY <1>1, <1>8, <1>10, <2>1, <2>2 DEF TreeRight
<1>13. ASSUME NEW i \in 1 .. Len(tree), tree[i].kind = "Dir", ~tree[i].is_junk
       PROVE  tree'[i].size = SumFunctionOnSet(Sizes(tree'), ChildrenUpTo(tree', i, Len(tree')))
  <2>1. PICK h : h = Sizes(tree')
    OBVIOUS
  <2>2. \A j \in 1 .. Len(tree) : h[j] = Rolled(tree, j)
    BY <1>6, <1>9, <2>1 DEF Sizes
  <2>3. SumFunctionOnSet(h, ChildrenUpTo(tree, i, Len(tree))) = SumFunctionOnSet(Sizes(tree), Below(tree, i))
    BY <1>2, <2>2, ChildrenAddUp
  <2>4. Len(tree) \in 1 .. Len(tree)
    BY <1>3
  <2>5. ChildrenUpTo(tree', i, Len(tree')) = ChildrenUpTo(tree, i, Len(tree))
    BY <1>8, <1>9, <2>4
  <2>6. Rolled(tree, i) = SumFunctionOnSet(Sizes(tree), Below(tree, i))
    <3>1. SumFunctionOnSet(Sizes(tree), Below(tree, i)) \in Nat
      BY <1>2, RolledSubtree
    <3> QED BY <1>4, <1>13, <3>1 DEF Rolled
  <2> QED BY <1>6, <2>1, <2>3, <2>5, <2>6
<1>14. AddedUp'
  BY <1>9, <1>13 DEF AddedUp
<1>15. HitsRight'
  BY <1>1, <1>2 DEF HitsRight
<1>16. IndexRight'
  <2>1. DOMAIN tree' = DOMAIN tree
    BY <1>3, <1>9
  <2>2. (bySize # NoIndex => Indices(bySize) /\ Len(bySize) = Len(tree))'
    BY <1>1, <1>2, <1>9, <2>1 DEF IndexRight, Indices
  <2>3. (children # NoIndex => \A i \in DOMAIN tree : Indices(children[i]))'
    BY <1>1, <1>2, <2>1 DEF IndexRight, Indices
  <2> QED BY <1>1, <2>2, <2>3 DEF IndexRight
<1> QED BY <1>1, <1>2, <1>12, <1>14, <1>15, <1>16 DEF PipelineInv, Stage

LEMMA OrderStep == PipelineInv /\ OrderBySize => PipelineInv'
<1> SUFFICES ASSUME PipelineInv, OrderBySize PROVE PipelineInv'
  OBVIOUS
<1>1. /\ stage = "order" /\ stage' = "index" /\ bySize' \in Orders(DOMAIN tree)
      /\ UNCHANGED <<isatty, bytes, hits, tree, children>>
  BY DEF OrderBySize, Advance
<1>2. HitsRight /\ TreeRight /\ AddedUp /\ IndexRight /\ isatty \in BOOLEAN /\ Shape(tree)
  BY DEF PipelineInv, TreeRight
<1>3. /\ DOMAIN tree = 1 .. Len(tree) /\ IsFiniteSet(DOMAIN tree)
      /\ Cardinality(DOMAIN tree) = Len(tree)
  BY <1>2, ShapeFacts
<1>4. IsInjective(bySize') /\ ToSet(bySize') = DOMAIN tree /\ Len(bySize') = Len(tree)
  <2>1. bySize' \in Lists(DOMAIN tree, DOMAIN tree)
    BY <1>1, <1>3, OrdersAreLists
  <2> QED BY <1>3, <2>1 DEF Lists
<1>5. IndexRight'
  <2>1. (bySize # NoIndex => Indices(bySize) /\ Len(bySize) = Len(tree))'
    BY <1>1, <1>4 DEF Indices
  <2>2. (children # NoIndex => \A i \in DOMAIN tree : Indices(children[i]))'
    BY <1>1, <1>2 DEF IndexRight, Indices
  <2> QED BY <1>1, <2>1, <2>2 DEF IndexRight
<1>6. HitsRight' /\ TreeRight' /\ AddedUp'
  BY <1>1, <1>2 DEF HitsRight, TreeRight, AddedUp, Accumulated, Unapplied
<1> QED BY <1>1, <1>2, <1>5, <1>6 DEF PipelineInv, Stage

\* A list in the places its elements have in an order by size has the biggest first.
LEMMA PlacedBySize ==
  ASSUME NEW n \in Nat, \A i \in 1 .. n : tree[i].size \in Nat,
         NEW order \in Lists(1 .. n, 1 .. n), NEW l \in Seq(1 .. n),
         NEW place, \A c \in 1 .. n : place[c] = CHOOSE k \in DOMAIN order : order[k] = c,
         NEW before, before = {x \in Pairs(l) : place[l[x[1]]] < place[l[x[2]]]},
         NEW t, t = StableSort(l, before)
  PROVE  /\ t \in Seq(1 .. n) /\ ToSet(t) = ToSet(l) /\ Descending(t)
         /\ IsInjective(l) => IsInjective(t)
<1>1. /\ order \in Seq(1 .. n) /\ IsInjective(order) /\ ToSet(order) = 1 .. n /\ Descending(order)
      /\ Len(order) \in Nat /\ DOMAIN order = 1 .. Len(order)
      /\ \A k \in 1 .. Len(order) : order[k] \in 1 .. n
  BY LenProperties, ElementOfSeq DEF Lists
<1>2. \A c \in 1 .. n : place[c] \in 1 .. Len(order) /\ order[place[c]] = c
  <2> SUFFICES ASSUME NEW c \in 1 .. n
               PROVE  place[c] \in 1 .. Len(order) /\ order[place[c]] = c
    OBVIOUS
  <2>1. \E k \in DOMAIN order : order[k] = c
    BY <1>1 DEF ToSet
  <2> QED BY <1>1, <2>1
<1>3. \A k, m \in 1 .. Len(order) : k <= m => tree[order[k]].size >= tree[order[m]].size
  <2> DEFINE v == [k \in 1 .. Len(order) |-> tree[order[k]].size]
  <2>1. \A k \in 1 .. Len(order) : v[k] \in Nat
    BY <1>1
  <2>2. \A k \in (1 .. Len(order)) \ {1} : v[k - 1] >= v[k]
    <3> SUFFICES ASSUME NEW k \in (1 .. Len(order)) \ {1} PROVE v[k - 1] >= v[k]
      OBVIOUS
    <3>1. k - 1 \in 1 .. Len(order) /\ k \in DOMAIN order \ {1}
      BY <1>1
    <3>2. tree[order[k - 1]].size >= tree[order[k]].size
      BY <1>1, <3>1 DEF Descending
    <3> QED BY <3>1, <3>2
  <2>3. \A k \in 1 .. Len(order) : v[k] = tree[order[k]].size
    OBVIOUS
  <2> HIDE DEF v
  <2>4. \A k, m \in 1 .. Len(order) : k < m => v[k] >= v[m]
    BY <1>1, <2>1, <2>2, SortedThroughout
  <2> SUFFICES ASSUME NEW k \in 1 .. Len(order), NEW m \in 1 .. Len(order), k <= m
               PROVE  v[k] >= v[m]
    BY <2>3
  <2>5. v[k] \in Nat /\ (k = m \/ k < m)
    BY <1>1, <2>1
  <2> QED BY <2>4, <2>5
<1>4. Len(l) \in Nat /\ DOMAIN l = 1 .. Len(l) /\ \A i \in 1 .. Len(l) : l[i] \in 1 .. n
  BY LenProperties, ElementOfSeq
<1> DEFINE v == [i \in 1 .. Len(l) |-> place[l[i]]]
<1>5. \A i \in 1 .. Len(l) : v[i] \in Int /\ v[i] = place[l[i]]
  BY <1>1, <1>2, <1>4
<1>6. \A i, j \in 1 .. Len(l) : <<i, j>> \in before <=> v[i] < v[j]
  BY DEF Pairs
<1> HIDE DEF v
<1>7. PICK p : /\ IsPermutation(p, Len(l))
               /\ StableSort(l, before) = [k \in 1 .. Len(l) |-> l[p[k]]]
               /\ \A a, b \in 1 .. Len(l) : a < b => v[p[a]] <= v[p[b]]
  <2>1. \A i \in 1 .. Len(l) : v[i] \in Int
    BY <1>5
  <2>2. Len(l) \in Nat
    BY <1>4
  <2>3. \E p : /\ IsPermutation(p, Len(l))
               /\ StableSort(l, before) = [k \in 1 .. Len(l) |-> l[p[k]]]
               /\ \A k, m \in 1 .. Len(l) : k < m => v[p[k]] <= v[p[m]]
    BY ONLY <1>6, <2>1, <2>2, SortedByNumber
  <2> QED BY <2>3
<1>8. t \in Seq(1 .. n) /\ Len(t) = Len(l) /\ ToSet(t) = ToSet(l) /\ (IsInjective(l) => IsInjective(t))
  BY <1>7, Permuted
<1>9. /\ DOMAIN t = 1 .. Len(l) /\ \A k \in 1 .. Len(l) : t[k] = l[p[k]]
      /\ \A k \in 1 .. Len(l) : p[k] \in 1 .. Len(l)
  BY <1>7 DEF IsPermutation
<1>10. Descending(t)
  <2> SUFFICES ASSUME NEW k \in (1 .. Len(l)) \ {1} PROVE tree[t[k - 1]].size >= tree[t[k]].size
    BY <1>9 DEF Descending
  <2>1. k - 1 \in 1 .. Len(l) /\ k \in 1 .. Len(l) /\ k - 1 < k
    BY <1>4
  <2>2. v[p[k - 1]] <= v[p[k]]
    BY <1>7, <2>1
  <2>3. PICK a, b : a = t[k - 1] /\ b = t[k]
    OBVIOUS
  <2>4. a \in 1 .. n /\ b \in 1 .. n /\ place[a] <= place[b]
    <3>1. PICK i, j \in 1 .. Len(l) : i = p[k - 1] /\ j = p[k]
      BY <1>9, <2>1
    <3>2. a = l[i] /\ b = l[j] /\ v[i] <= v[j]
      BY <1>9, <2>1, <2>2, <2>3, <3>1
    <3>3. v[i] = place[a] /\ v[j] = place[b]
      BY <1>5, <3>2
    <3> QED BY <1>4, <3>2, <3>3
  <2>5. tree[order[place[a]]].size >= tree[order[place[b]]].size
    BY <1>2, <1>3, <2>4
  <2> QED BY <1>2, <2>3, <2>4, <2>5
<1> QED BY <1>8, <1>10

LEMMA IndexStep == PipelineInv /\ IndexChildren => PipelineInv'
<1> SUFFICES ASSUME PipelineInv, IndexChildren PROVE PipelineInv'
  OBVIOUS
<1> DEFINE lists == ChildLists(tree)
<1>1. /\ stage = "index" /\ stage' = "launched"
      /\ UNCHANGED <<isatty, bytes, hits, tree, bySize>>
  BY DEF IndexChildren, Advance
<1>2. PICK order \in Orders(DOMAIN tree) :
        children' = [i \in DOMAIN tree |->
          StableSort(lists[i], {x \in Pairs(lists[i]) :
            (CHOOSE k \in DOMAIN order : order[k] = lists[i][x[1]])
              < (CHOOSE k \in DOMAIN order : order[k] = lists[i][x[2]])})]
  BY DEF IndexChildren
<1>3. HitsRight /\ TreeRight /\ AddedUp /\ IndexRight /\ isatty \in BOOLEAN /\ Shape(tree)
  BY DEF PipelineInv, TreeRight
<1>4. PICK n \in Nat : /\ n = Len(tree) /\ DOMAIN tree = 1 .. n /\ IsFiniteSet(1 .. n)
                       /\ \A i \in 1 .. n : tree[i].size \in Nat
  BY <1>3, ShapeFacts
<1>5. order \in Lists(1 .. n, 1 .. n)
  BY <1>2, <1>4, OrdersAreLists
<1>6. \A i \in 1 .. n : /\ lists[i] \in Seq(1 .. n) /\ IsInjective(lists[i])
                        /\ ToSet(lists[i]) = ChildrenUpTo(tree, i, n)
  BY <1>3, <1>4, ChildListsRight
<1> DEFINE place == [c \in 1 .. n |-> CHOOSE k \in DOMAIN order : order[k] = c]
<1> HIDE DEF lists
<1>7. ASSUME NEW i \in 1 .. n
      PROVE  /\ children'[i] \in Seq(1 .. n) /\ IsInjective(children'[i])
             /\ ToSet(children'[i]) = ChildrenUpTo(tree, i, n) /\ Descending(children'[i])
  <2>1. PICK l : l = lists[i]
    OBVIOUS
  <2>2. l \in Seq(1 .. n) /\ IsInjective(l) /\ ToSet(l) = ChildrenUpTo(tree, i, n)
    BY <1>6, <2>1
  <2>3. Len(l) \in Nat /\ \A k \in 1 .. Len(l) : l[k] \in 1 .. n
    BY <2>2, LenProperties, ElementOfSeq
  <2> DEFINE before == {x \in Pairs(l) : place[l[x[1]]] < place[l[x[2]]]}
             chosen == {x \in Pairs(l) : (CHOOSE k \in DOMAIN order : order[k] = l[x[1]])
                                           < (CHOOSE k \in DOMAIN order : order[k] = l[x[2]])}
  <2>4. before = chosen
    <3>1. \A x \in Pairs(l) : l[x[1]] \in 1 .. n /\ l[x[2]] \in 1 .. n
      BY <2>3 DEF Pairs
    <3>2. \A x \in Pairs(l) : /\ place[l[x[1]]] = CHOOSE k \in DOMAIN order : order[k] = l[x[1]]
                              /\ place[l[x[2]]] = CHOOSE k \in DOMAIN order : order[k] = l[x[2]]
      BY <3>1
    <3> HIDE DEF place
    <3> QED BY <3>2
  <2>5. children'[i] = StableSort(l, chosen)
    BY <1>2, <1>4, <2>1
  <2>6. \A c \in 1 .. n : place[c] = CHOOSE k \in DOMAIN order : order[k] = c
    OBVIOUS
  <2> HIDE DEF place, chosen
  <2>7. PICK t, b : t = StableSort(l, b) /\ b = before /\ t = children'[i]
    BY <2>4, <2>5
  <2>8. b = {x \in Pairs(l) : place[l[x[1]]] < place[l[x[2]]]}
    BY <2>7
  <2> HIDE DEF before
  <2>9. /\ t \in Seq(1 .. n) /\ ToSet(t) = ToSet(l) /\ Descending(t)
        /\ IsInjective(l) => IsInjective(t)
    BY <1>4, <1>5, <2>2, <2>6, <2>7, <2>8, PlacedBySize
  <2> QED BY <2>2, <2>7, <2>9
<1>8. IndexRight'
  <2>1. (bySize # NoIndex => Indices(bySize) /\ Len(bySize) = Len(tree))'
    BY <1>1, <1>3 DEF IndexRight, Indices
  <2>2. \A i \in 1 .. n : ToSet(children'[i]) \subseteq 1 .. n
    BY <1>7 DEF ChildrenUpTo
  <2>3. (children # NoIndex => \A i \in DOMAIN tree : Indices(children[i]))'
    BY <1>1, <1>4, <1>7, <2>2 DEF Indices
  <2>4. (\A i \in DOMAIN tree : ToSet(children[i]) = ChildrenUpTo(tree, i, Len(tree))
                                /\ Descending(children[i]))'
    BY <1>1, <1>4, <1>7 DEF Descending
  <2> QED BY <2>1, <2>3, <2>4 DEF IndexRight
<1>9. HitsRight' /\ TreeRight' /\ AddedUp'
  BY <1>1, <1>3 DEF HitsRight, TreeRight, AddedUp, Accumulated, Unapplied
<1> QED BY <1>1, <1>3, <1>8, <1>9 DEF PipelineInv, Stage

-----------------------------------------------------------------------------
(* Theorems                                                                *)

\* run goes through its steps in order: what each step relies on holds when it begins.
THEOREM PipelineIsInvariant == Spec => []PipelineInv
<1>1. Init => PipelineInv
  BY InitRight
<1>2. PipelineInv /\ [Next]_vars => PipelineInv'
  <2> SUFFICES ASSUME PipelineInv, [Next]_vars PROVE PipelineInv'
    OBVIOUS
  <2>1. CASE ComputeSizes
    BY <2>1, MeasureStep
  <2>2. CASE SortHits
    BY <2>2, SortStep
  <2>3. CASE ApplyJunkSizes
    BY <2>3, ApplyStep
  <2>4. CASE Accumulate
    BY <2>4, AccumulateStep
  <2>5. CASE OrderBySize
    BY <2>5, OrderStep
  <2>6. CASE IndexChildren
    BY <2>6, IndexStep
  <2>7. CASE UNCHANGED vars
    BY <2>7 DEF vars, PipelineInv, HitsRight, TreeRight, AddedUp, IndexRight, Accumulated,
                Indices, Descending, Unapplied
  <2> QED BY <2>1, <2>2, <2>3, <2>4, <2>5, <2>6, <2>7 DEF Next, Finished
<1> QED BY <1>1, <1>2, PTL DEF Spec

\* TypeOK: sizes stay numbers, and the lists of the interface hold indices of the tree,
\* none twice.
THEOREM TypesKept == Spec => []TypeOK
<1>1. PipelineInv => TypeOK
  <2> SUFFICES ASSUME PipelineInv PROVE TypeOK
    OBVIOUS
  <2>1. HitsRight /\ Shape(tree) /\ IndexRight /\ stage \in Stage /\ isatty \in BOOLEAN
    BY DEF PipelineInv, TreeRight
  <2>2. \A i \in DOMAIN hits : hits[i].size_bytes \in Nat
    BY <2>1, HitFacts
  <2>3. \A i \in DOMAIN tree : tree[i].size \in Nat /\ tree[i].is_junk \in BOOLEAN
    BY <2>1, ShapeFacts
  <2> QED BY <2>1, <2>2, <2>3 DEF TypeOK, IndexRight
<1> QED BY <1>1, PipelineIsInvariant, PTL

\* JunkSizesMatch: each junk directory shows the size measured for its own hit, although
\* the hits are put in another order before they are looked up.
THEOREM JunkSizesAreMeasured == Spec => []JunkSizesMatch
<1>1. PipelineInv => JunkSizesMatch
  <2> SUFFICES ASSUME PipelineInv, Accumulated PROVE /\ \A h \in ToSet(hits) : h.size_bytes = bytes[h.path]
                                                     /\ \A t \in ToSet(tree) : t.is_junk => t.size = bytes[t.path]
    BY DEF JunkSizesMatch
  <2>1. HitsRight /\ TreeRight /\ stage # "measure" /\ stage \notin Unapplied
    BY DEF PipelineInv, Accumulated, Unapplied
  <2>2. \A i \in DOMAIN hits : hits[i].size_bytes = bytes[hits[i].path]
    BY <2>1, Zenon DEF HitsRight
  <2>3. \A i \in DOMAIN tree : tree[i].is_junk => tree[i].size = bytes[tree[i].path]
    BY <2>1, Zenon DEF TreeRight
  <2> QED BY <2>2, <2>3 DEF ToSet
<1> QED BY <1>1, PipelineIsInvariant, PTL

\* DirsAddUp: what a directory shows is what the children that build_children_index finds
\* for it show together.
THEOREM SizesAddUp == Spec => []DirsAddUp
<1>1. PipelineInv => DirsAddUp
  <2> SUFFICES ASSUME PipelineInv, Accumulated,
                      NEW i \in DOMAIN tree, tree[i].kind = "Dir", ~tree[i].is_junk
               PROVE  tree[i].size = SizeSum(ToSet(ChildLists(tree)[i]))
    BY DEF DirsAddUp
  <2>1. Shape(tree) /\ i \in 1 .. Len(tree)
    BY ShapeFacts DEF PipelineInv, TreeRight
  <2>2. ToSet(ChildLists(tree)[i]) = ChildrenUpTo(tree, i, Len(tree))
    BY <2>1, ChildListsRight
  <2>3. tree[i].size = SumFunctionOnSet(Sizes(tree), ChildrenUpTo(tree, i, Len(tree)))
    BY DEF PipelineInv, AddedUp
  <2> QED BY <2>2, <2>3 DEF SizeSum, Sizes
<1> QED BY <1>1, PipelineIsInvariant, PTL

\* IndexPartitionsTree: every entry below the first level is in the list of its parent and
\* in no other, and no entry of a list is followed by a bigger one.
THEOREM IndexIsPartition == Spec => []IndexPartitionsTree
<1>1. PipelineInv => IndexPartitionsTree
  <2> SUFFICES ASSUME PipelineInv, stage = "launched", NEW i \in DOMAIN tree
               PROVE  /\ ToSet(children[i]) = {c \in DOMAIN tree : Len(tree[c].path) > 1
                                                 /\ Parent(tree[c].path) = tree[i].path}
                      /\ \A k \in DOMAIN children[i] \ {1} :
                           tree[children[i][k - 1]].size >= tree[children[i][k]].size
    BY DEF IndexPartitionsTree
  <2>1. Shape(tree) /\ IndexRight
    BY DEF PipelineInv, TreeRight
  <2>2. DOMAIN tree = 1 .. Len(tree)
    BY <2>1, ShapeFacts
  <2>3. ToSet(children[i]) = ChildrenUpTo(tree, i, Len(tree)) /\ Descending(children[i])
    BY <2>1 DEF IndexRight
  <2> QED BY <2>2, <2>3 DEF ChildrenUpTo, Descending
<1> QED BY <1>1, PipelineIsInvariant, PTL
=============================================================================
