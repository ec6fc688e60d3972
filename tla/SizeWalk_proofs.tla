--------------------------- MODULE SizeWalk_proofs ---------------------------
(***************************************************************************)
(* Proofs about SizeWalk, for any number of threads, any roots and any     *)
(* file system.  The walk is a run of the pool, so what is proved of       *)
(* WorkPool holds of it: an entry is visited once, by the worker that      *)
(* reads its directory, and before that worker leaves.                     *)
(***************************************************************************)
EXTENDS SizeWalk, DataTheorems

-----------------------------------------------------------------------------
(* The walk is a run of the pool                                           *)

PP == INSTANCE WorkPool_proofs WITH
  Node      <- RootedDir,
  Kind      <- [task \in RootedDir |-> PathKind[task[2]]],
  RootTasks <- [i \in RootIdx |-> <<i, Roots[i]>>],
  Yields    <- {Rooted(listing) : listing \in Listings}

LEMMA PoolAssumptions ==
  PP!ConfigOK /\ PP!PathsOK /\ PP!RootsOK /\ PP!ReaderOK /\ PP!TreeOK
BY PoolAssumption, ZenonT(30)
DEF Pool!ConfigOK, Pool!PathsOK, Pool!RootsOK, Pool!ReaderOK, Pool!TreeOK, Pool!IsFiniteSet,
    Pool!EntryKind, PP!ConfigOK, PP!PathsOK, PP!RootsOK, PP!ReaderOK, PP!TreeOK,
    PP!IsFiniteSet, PP!EntryKind

LEMMA SameWorkers ==
  /\ Workers = PP!Workers /\ Workers = 0 .. PP!NumThreads - 1
  /\ IsFiniteSet(Workers)
<1>1. Workers = 0 .. PP!NumThreads - 1 /\ Workers = PP!Workers
  BY DEF Workers, Pool!Workers, PP!Workers, Pool!NumThreads, PP!NumThreads
<1>2. PP!NumThreads - 1 \in Int
  BY PoolAssumptions DEF PP!ConfigOK, PP!NumThreads
<1> QED BY <1>1, <1>2, FS_Interval

LEMMA SameInit == Pool!Init => PP!Init
BY Zenon DEF Pool!Init, PP!Init, Pool!Workers, PP!Workers, Pool!NumThreads, PP!NumThreads

LEMMA SameSteps ==
  /\ \A w \in Workers :
       /\ Pool!FindTask(w) => PP!FindTask(w)
       /\ Pool!CheckDone(w) => PP!CheckDone(w)
       /\ Pool!OpenDir(w) => PP!OpenDir(w)
       /\ Pool!FinishLeaf(w) => PP!FinishLeaf(w)
       /\ Pool!AddChildren(w) => PP!AddChildren(w)
       /\ Pool!StoreDone(w) => PP!StoreDone(w)
       /\ \A e \in pending[w] : Pool!VisitEntry(w, e, FALSE) => PP!VisitEntry(w, e, FALSE)
       /\ \A c \in subDirs[w] : Pool!PushChild(w, c) => PP!PushChild(w, c)
  /\ Pool!Return => PP!Return
<1>1. ASSUME NEW w \in Workers PROVE Pool!FindTask(w) => PP!FindTask(w)
  <2>1. Pool!PopOwn(w) => PP!PopOwn(w)
    BY Zenon DEF Pool!PopOwn, Pool!Hold, Pool!sweepVars, Pool!Goto, PP!PopOwn, PP!Hold,
                 PP!sweepVars, PP!Goto
  <2>2. Pool!OwnEmpty(w) => PP!OwnEmpty(w)
    BY Zenon DEF Pool!OwnEmpty, Pool!Goto, Pool!sharedVars, Pool!sweepVars, Pool!readVars,
                 PP!OwnEmpty, PP!Goto, PP!sharedVars, PP!sweepVars, PP!readVars
  <2>3. Pool!StealInjected(w) => PP!StealInjected(w)
    BY Zenon DEF Pool!StealInjected, Pool!Hold, Pool!sweepVars, Pool!Goto, PP!StealInjected,
                 PP!Hold, PP!sweepVars, PP!Goto
  <2>4. Pool!InjectorEmpty(w) => PP!InjectorEmpty(w)
    BY Zenon DEF Pool!InjectorEmpty, Pool!Goto, Pool!sharedVars, Pool!sweepVars, Pool!readVars,
                 Pool!NumThreads, PP!InjectorEmpty, PP!Goto, PP!sharedVars, PP!sweepVars,
                 PP!readVars, PP!NumThreads
  <2>5. Pool!StealFrom(w) => PP!StealFrom(w)
    BY Zenon DEF Pool!StealFrom, Pool!Hold, Pool!Victim, Pool!Goto, Pool!NumThreads,
                 PP!StealFrom, PP!Hold, PP!Victim, PP!Goto, PP!NumThreads
  <2>6. Pool!StealMissed(w) => PP!StealMissed(w)
    BY Zenon DEF Pool!StealMissed, Pool!Goto, Pool!Victim, Pool!sharedVars, Pool!readVars,
                 Pool!NumThreads, PP!StealMissed, PP!Goto, PP!Victim, PP!sharedVars,
                 PP!readVars, PP!NumThreads
  <2> QED BY <2>1, <2>2, <2>3, <2>4, <2>5, <2>6, Zenon DEF Pool!FindTask, PP!FindTask
<1>2. ASSUME NEW w \in Workers PROVE Pool!CheckDone(w) => PP!CheckDone(w)
  BY Zenon DEF Pool!CheckDone, Pool!Goto, Pool!sharedVars, Pool!sweepVars, Pool!readVars,
               PP!CheckDone, PP!Goto, PP!sharedVars, PP!sweepVars, PP!readVars
<1>3. ASSUME NEW w \in Workers PROVE Pool!OpenDir(w) => PP!OpenDir(w)
  BY Zenon DEF Pool!OpenDir, Pool!Goto, Pool!sharedVars, Pool!sweepVars, PP!OpenDir, PP!Goto,
               PP!sharedVars, PP!sweepVars
<1>4. ASSUME NEW w \in Workers PROVE Pool!FinishLeaf(w) => PP!FinishLeaf(w)
  BY Zenon DEF Pool!FinishLeaf, Pool!Goto, Pool!Release, Pool!sweepVars, PP!FinishLeaf, PP!Goto,
               PP!Release, PP!sweepVars
<1>5. ASSUME NEW w \in Workers PROVE Pool!AddChildren(w) => PP!AddChildren(w)
  BY Zenon DEF Pool!AddChildren, Pool!Goto, Pool!Release, Pool!Cardinality, Pool!sweepVars,
               PP!AddChildren, PP!Goto, PP!Release, PP!Cardinality, PP!sweepVars
<1>6. ASSUME NEW w \in Workers PROVE Pool!StoreDone(w) => PP!StoreDone(w)
  BY Zenon DEF Pool!StoreDone, Pool!Goto, Pool!sweepVars, Pool!readVars, PP!StoreDone, PP!Goto,
               PP!sweepVars, PP!readVars
<1>7. ASSUME NEW w \in Workers, NEW e \in pending[w]
      PROVE  Pool!VisitEntry(w, e, FALSE) => PP!VisitEntry(w, e, FALSE)
  BY Zenon DEF Pool!VisitEntry, Pool!Descendable, Pool!sharedVars, Pool!sweepVars,
               PP!VisitEntry, PP!Descendable, PP!sharedVars, PP!sweepVars
<1>8. ASSUME NEW w \in Workers, NEW c \in subDirs[w]
      PROVE  Pool!PushChild(w, c) => PP!PushChild(w, c)
  BY Zenon DEF Pool!PushChild, Pool!Goto, Pool!sweepVars, PP!PushChild, PP!Goto, PP!sweepVars
<1>9. Pool!Return => PP!Return
  BY Zenon DEF Pool!Return, Pool!sharedVars, Pool!sweepVars, Pool!readVars, Pool!Workers,
               Pool!NumThreads, PP!Return, PP!sharedVars, PP!sweepVars, PP!readVars, PP!Workers,
               PP!NumThreads
<1> QED BY <1>1, <1>2, <1>3, <1>4, <1>5, <1>6, <1>7, <1>8, <1>9, Zenon

LEMMA SameDescendable == \A e : Pool!Descendable(e) <=> PP!Descendable(e)
BY DEF Pool!Descendable, PP!Descendable

LEMMA SameTypes == PP!TypeOK => Pool!TypeOK
BY Zenon DEF Pool!TypeOK, PP!TypeOK, Pool!Phase, PP!Phase, Pool!Workers, PP!Workers,
             Pool!NumThreads, PP!NumThreads

\* A step of the size walk is a step of a pool that skips nothing, or the pool does
\* not notice it.
LEMMA PoolSteps == [Next]_vars => [PP!FullNext]_(PP!vars) /\ [PP!Next]_(PP!vars)
<1> SUFFICES ASSUME [Next]_vars PROVE PP!FullNext \/ UNCHANGED poolVars
  BY PP!FullIsNext, PoolAssumptions
  DEF poolVars, PP!vars, PP!sharedVars, PP!sweepVars, PP!readVars
<1>1. ASSUME NEW w \in Workers, PoolStep(w) PROVE PP!FullNext
  BY <1>1, SameSteps, SameWorkers, Zenon DEF PoolStep, PP!FullNext
<1>2. ASSUME NEW w \in Workers, NEW e \in pending[w], SizeEntry(w, e) PROVE PP!FullNext
  BY <1>2, SameSteps, SameWorkers, Zenon DEF SizeEntry, PP!FullNext
<1>3. ASSUME NEW w \in Workers, FlushSlot(w) PROVE UNCHANGED poolVars
  BY <1>3 DEF FlushSlot
<1>4. CASE Return
  BY <1>4, SameSteps, Zenon DEF Return, PP!FullNext
<1>5. CASE Finished \/ UNCHANGED vars
  BY <1>5 DEF Finished, vars
<1> QED BY <1>1, <1>2, <1>3, <1>4, <1>5 DEF Next, RunSizeWorker

\* What is proved of the pool, and of one that skips nothing, holds of the size walk.
LEMMA PoolFacts == Spec => []PP!PoolInv /\ []PP!TaskInv /\ []PP!WholeTree
<1>1. Init => PP!Init
  BY SameInit DEF Init
<1>2. Spec => PP!Spec
  BY <1>1, PoolSteps, PTL DEF Spec, PP!Spec
<1>3. Spec => PP!FullSpec
  BY <1>1, PoolSteps, PTL DEF Spec, PP!FullSpec
<1>4. PP!Spec => []PP!PoolInv
  BY PP!PoolInvariant, PoolAssumptions, Zenon
<1>5. PP!Spec => []PP!TaskInv
  BY PP!TasksOwned, PoolAssumptions, Zenon
<1>6. PP!FullSpec => []PP!WholeTree
  BY PP!WholeTreeVisited, PoolAssumptions, Zenon
<1> QED BY <1>2, <1>3, <1>4, <1>5, <1>6, PTL

\* The entry a worker is called with is new, and carries the root index of its task.
LEMMA VisitsNew ==
  ASSUME PP!PoolInv, PP!TaskInv, NEW w \in Workers, pc[w] = "visit", NEW e \in pending[w]
  PROVE  /\ e \in RootedDir /\ e \notin visited
         /\ dir[w][1] \in RootIdx /\ e[1] = dir[w][1]
<1>1. w \in PP!Visiting
  BY SameWorkers DEF PP!Visiting
<1>2. dir[w] \in RootedDir
  BY <1>1, SameWorkers DEF PP!PoolInv, PP!LocalsMatchPhase, PP!Reading
<1>3. e \in yields[dir[w]] /\ e \notin visited
  BY <1>1 DEF PP!TaskInv, PP!EntriesOwned
<1>4. PICK listing \in Listings : yields = Rooted(listing)
  BY DEF PP!PoolInv, PP!TypeOK
<1>5. PICK c \in listing[dir[w][2]] : e = <<dir[w][1], c>>
  BY <1>2, <1>3, <1>4 DEF Rooted
<1>6. pending[w] \subseteq RootedDir
  BY SameWorkers DEF PP!PoolInv, PP!TypeOK
<1> QED BY <1>2, <1>3, <1>5, <1>6 DEF RootedDir

\* A worker that has left stays away, and only SizeEntry visits.
LEMMA PoolStepLeaves ==
  ASSUME PP!PoolInv, NEW w \in Workers, PoolStep(w)
  PROVE  /\ UNCHANGED <<visited, returned>>
         /\ \A v \in Workers : pc[v] = "exit" => pc'[v] = "exit"
<1>1. pc \in [Workers -> PP!Phase]
  BY SameWorkers DEF PP!PoolInv, PP!TypeOK
<1>2. CASE Pool!FindTask(w)
  BY <1>1, <1>2
  DEF Pool!FindTask, Pool!PopOwn, Pool!OwnEmpty, Pool!StealInjected, Pool!InjectorEmpty,
      Pool!StealFrom, Pool!StealMissed, Pool!Hold, Pool!Goto, Pool!readVars
<1>3. CASE Pool!CheckDone(w) \/ Pool!OpenDir(w) \/ Pool!StoreDone(w)
  BY <1>1, <1>3 DEF Pool!CheckDone, Pool!OpenDir, Pool!StoreDone, Pool!Goto, Pool!readVars
<1>4. CASE Pool!FinishLeaf(w) \/ Pool!AddChildren(w)
  BY <1>1, <1>4 DEF Pool!FinishLeaf, Pool!AddChildren, Pool!Release, Pool!Goto
<1>5. ASSUME NEW child \in subDirs[w], Pool!PushChild(w, child)
      PROVE  UNCHANGED <<visited, returned>> /\ \A v \in Workers : pc[v] = "exit" => pc'[v] = "exit"
  BY <1>1, <1>5 DEF Pool!PushChild, Pool!Goto
<1> QED BY <1>2, <1>3, <1>4, <1>5 DEF PoolStep

-----------------------------------------------------------------------------
(* The sums                                                                *)

\* A worker has flushed nothing before it leaves; the invariant of the sums.
SizeInv ==
  /\ local \in [Workers -> [RootIdx -> Nat]]
  /\ slot \in [Workers -> 1 .. Len(Roots) + 1]
  /\ totals \in [RootIdx -> Nat]
  /\ result \in {<<>>} \cup [RootIdx -> Nat]
  /\ IsFiniteSet(visited)
  /\ \A w \in Workers : pc[w] # "exit" => slot[w] = 1
  /\ BytesConserved

LEMMA RootsAreIndexed == Len(Roots) \in Nat /\ RootIdx = 1 .. Len(Roots)
<1> DEFINE tasks == [i \in RootIdx |-> <<i, Roots[i]>>]
<1>1. tasks \in Seq(RootedDir)
  BY PoolAssumptions DEF PP!RootsOK
<1>2. PICK n \in Nat : DOMAIN tasks = 1 .. n
  BY <1>1
<1>3. DOMAIN Roots = 1 .. n
  BY <1>2 DEF RootIdx
<1> QED BY <1>2, <1>3 DEF RootIdx

LEMMA BytesType ==
  ASSUME NEW e \in RootedDir
  PROVE  Bytes(e) \in Nat
BY SizeAssumption DEF Bytes, RootedDir

\* A new entry adds its bytes.
LEMMA SizeGrows ==
  ASSUME NEW S \in SUBSET RootedDir, IsFiniteSet(S), NEW e \in RootedDir, e \notin S
  PROVE  SizeOf(S \cup {e}) = SizeOf(S) + Bytes(e) /\ SizeOf(S) \in Nat
<1> DEFINE f == [x \in S |-> Bytes(x)]
           g == [x \in S \cup {e} |-> Bytes(x)]
<1>1. /\ \A x \in S : f[x] \in Nat /\ g[x] = f[x]
      /\ \A x \in S \cup {e} : g[x] \in Nat
      /\ g[e] = Bytes(e)
  BY BytesType
<1> HIDE DEF f, g
<1>2. SumFunctionOnSet(g, S \cup {e}) = SumFunctionOnSet(g, S) + g[e]
  BY <1>1, SumAdd
<1>3. SumFunctionOnSet(g, S) = SumFunctionOnSet(f, S)
  BY <1>1, SumCongruence
<1>4. SumFunctionOnSet(f, S) \in Nat
  BY <1>1, SumType
<1> QED BY <1>1, <1>2, <1>3, <1>4 DEF SizeOf, f, g

LEMMA UnflushedType ==
  ASSUME SizeInv, NEW i \in RootIdx
  PROVE  Unflushed(i) \in Nat
<1> DEFINE f == [w \in Workers |-> local[w][i]]
           S == {w \in Workers : slot[w] <= i}
<1>1. \A w \in S : f[w] \in Nat
  BY DEF SizeInv
<1>2. IsFiniteSet(S)
  BY SameWorkers, FS_Subset
<1> HIDE DEF f, S
<1>3. SumFunctionOnSet(f, S) \in Nat
  BY <1>1, <1>2, SumType
<1> QED BY <1>3 DEF Unflushed, f, S

LEMMA InitialSizes == Init => SizeInv
<1> SUFFICES ASSUME Init PROVE SizeInv
  OBVIOUS
<1>1. visited = {} /\ IsFiniteSet(visited)
  BY FS_EmptySet DEF Init, Pool!Init
<1>2. /\ local = [w \in Workers |-> [i \in RootIdx |-> 0]]
      /\ slot = [w \in Workers |-> 1]
      /\ totals = [i \in RootIdx |-> 0]
      /\ result = <<>>
  BY DEF Init
<1>3. ASSUME NEW i \in RootIdx PROVE Unflushed(i) = 0
  <2> DEFINE f == [w \in Workers |-> local[w][i]]
             S == {w \in Workers : slot[w] <= i}
  <2>1. \A w \in S : f[w] = 0
    BY <1>2
  <2>2. IsFiniteSet(S)
    BY SameWorkers, FS_Subset
  <2> HIDE DEF f, S
  <2>3. SumFunctionOnSet(f, S) = 0
    BY <2>1, <2>2, SumZero
  <2> QED BY <2>3 DEF Unflushed, f, S
<1>4. ASSUME NEW i \in RootIdx PROVE SizeOf({e \in visited : e[1] = i}) = 0
  <2>1. {e \in visited : e[1] = i} = {}
    BY <1>1
  <2> QED BY <2>1, SumEmpty DEF SizeOf
<1>5. BytesConserved
  BY <1>2, <1>3, <1>4 DEF BytesConserved
<1> QED BY <1>1, <1>2, <1>5, RootsAreIndexed DEF SizeInv

\* The bytes of an entry go to the slot of its root, which is still to be flushed.
LEMMA EntrySizes ==
  ASSUME PP!PoolInv, PP!TaskInv, SizeInv, NEW w \in Workers, NEW e \in pending[w],
         SizeEntry(w, e)
  PROVE  SizeInv'
<1> DEFINE r == dir[w][1]
           Of(entries, i) == {x \in entries : x[1] = i}
<1>1. /\ pc[w] = "visit" /\ visited' = visited \cup {e}
      /\ UNCHANGED <<pc, slot, totals, result>>
      /\ local' = [local EXCEPT ![w][r] = @ + Bytes(e)]
  BY DEF SizeEntry, Pool!VisitEntry
<1>2. e \in RootedDir /\ e \notin visited /\ r \in RootIdx /\ e[1] = r
  BY <1>1, VisitsNew
<1>3. Bytes(e) \in Nat
  BY <1>2, BytesType
<1> HIDE DEF r
<1>4. /\ local' \in [Workers -> [RootIdx -> Nat]]
      /\ local'[w][r] = local[w][r] + Bytes(e) /\ local[w][r] \in Nat
      /\ \A v \in Workers : \A i \in RootIdx : v # w \/ i # r => local'[v][i] = local[v][i]
  BY <1>1, <1>2, <1>3 DEF SizeInv
<1>5. visited \subseteq RootedDir
  BY DEF PP!PoolInv, PP!TypeOK
<1>6. slot[w] = 1 /\ slot \in [Workers -> 1 .. Len(Roots) + 1]
  BY <1>1 DEF SizeInv
<1>7. ASSUME NEW i \in RootIdx
      PROVE  totals'[i] + Unflushed(i)' = SizeOf(Of(visited', i))
  <2> DEFINE f == [v \in Workers |-> local[v][i]]
             g == [v \in Workers |-> local'[v][i]]
             S == {v \in Workers : slot[v] <= i}
  <2>1. /\ \A v \in S : f[v] \in Nat /\ g[v] \in Nat
        /\ IsFiniteSet(S)
    BY <1>4, SameWorkers, FS_Subset DEF SizeInv
  <2>2. /\ Unflushed(i) = SumFunctionOnSet(f, S)
        /\ Unflushed(i)' = SumFunctionOnSet(g, S)
    BY <1>1 DEF Unflushed
  <2>3. totals[i] + Unflushed(i) = SizeOf(Of(visited, i))
    BY DEF SizeInv, BytesConserved
  <2>4. Unflushed(i) \in Nat /\ totals[i] \in Nat
    BY UnflushedType DEF SizeInv
  <2>5. CASE i = r
    <3>1. w \in S /\ g[w] = f[w] + Bytes(e) /\ f[w] \in Nat /\ \A v \in S \ {w} : g[v] = f[v]
      BY <1>4, <1>6, <2>5, RootsAreIndexed
    <3> HIDE DEF f, g, S
    <3>2. SumFunctionOnSet(g, S) + f[w] = SumFunctionOnSet(f, S) + g[w]
      BY <2>1, <3>1, SumChange
    <3>3. SumFunctionOnSet(f, S) \in Nat /\ SumFunctionOnSet(g, S) \in Nat
      BY <2>1, SumType
    <3>4. Unflushed(i)' = Unflushed(i) + Bytes(e)
      BY <1>3, <2>2, <3>1, <3>2, <3>3
    <3>5. Of(visited', i) = Of(visited, i) \cup {e} /\ e \notin Of(visited, i)
      BY <1>1, <1>2, <2>5
    <3>6. Of(visited, i) \in SUBSET RootedDir /\ IsFiniteSet(Of(visited, i))
      BY <1>5, FS_Subset DEF SizeInv
    <3>7. SizeOf(Of(visited', i)) = SizeOf(Of(visited, i)) + Bytes(e)
      BY <1>2, <3>5, <3>6, SizeGrows
    <3> QED BY <1>1, <1>3, <2>3, <2>4, <3>4, <3>7
  <2>6. CASE i # r
    <3>1. \A v \in S : f[v] = g[v]
      BY <1>4, <2>6
    <3> HIDE DEF f, g, S
    <3>2. Unflushed(i)' = Unflushed(i)
      BY <2>1, <2>2, <3>1, SumCongruence
    <3>3. Of(visited', i) = Of(visited, i)
      BY <1>1, <1>2, <2>6
    <3> QED BY <1>1, <2>3, <3>2, <3>3
  <2> QED BY <2>5, <2>6
<1>8. BytesConserved'
  BY <1>7 DEF BytesConserved
<1>9. IsFiniteSet(visited')
  BY <1>1, FS_AddElement DEF SizeInv
<1> QED BY <1>1, <1>4, <1>8, <1>9 DEF SizeInv

\* A flush moves bytes from the slot to the total.
LEMMA FlushSizes ==
  ASSUME SizeInv, NEW w \in Workers, FlushSlot(w)
  PROVE  SizeInv'
<1> DEFINE s == slot[w]
<1>1. /\ pc[w] = "exit" /\ s \in RootIdx
      /\ totals' = [totals EXCEPT ![s] = @ + local[w][s]]
      /\ slot' = [slot EXCEPT ![w] = @ + 1]
      /\ UNCHANGED <<pc, visited, local, result>>
  BY DEF FlushSlot, poolVars
<1>2. /\ slot \in [Workers -> 1 .. Len(Roots) + 1] /\ totals \in [RootIdx -> Nat]
      /\ local[w][s] \in Nat
  BY <1>1 DEF SizeInv
<1> HIDE DEF s
<1>3. /\ slot' \in [Workers -> 1 .. Len(Roots) + 1]
      /\ slot'[w] = s + 1 /\ \A v \in Workers : v # w => slot'[v] = slot[v]
  BY <1>1, <1>2, RootsAreIndexed DEF s
<1>4. /\ totals' \in [RootIdx -> Nat]
      /\ totals'[s] = totals[s] + local[w][s]
      /\ \A i \in RootIdx : i # s => totals'[i] = totals[i]
  BY <1>1, <1>2
<1>5. ASSUME NEW i \in RootIdx
      PROVE  totals'[i] + Unflushed(i)' = totals[i] + Unflushed(i)
  <2> DEFINE f == [v \in Workers |-> local[v][i]]
             S == {v \in Workers : slot[v] <= i}
             T == {v \in Workers : slot'[v] <= i}
  <2>1. /\ \A v \in S : f[v] \in Nat
        /\ IsFiniteSet(S)
    BY SameWorkers, FS_Subset DEF SizeInv
  <2>2. /\ Unflushed(i) = SumFunctionOnSet(f, S)
        /\ Unflushed(i)' = SumFunctionOnSet(f, T)
    BY <1>1 DEF Unflushed
  <2>3. CASE i = s
    <3>1. w \in S /\ T = S \ {w} /\ f[w] = local[w][s]
      BY <1>2, <1>3, <2>3, RootsAreIndexed DEF s
    <3> HIDE DEF f, S, T
    <3>2. SumFunctionOnSet(f, S) = f[w] + SumFunctionOnSet(f, T)
      BY <2>1, <3>1, SumRemove
    <3>3. SumFunctionOnSet(f, T) \in Nat
      <4>1. IsFiniteSet(T)
        BY <2>1, <3>1, FS_Subset
      <4> QED BY <2>1, <3>1, <4>1, SumType
    <3> QED BY <1>2, <1>4, <2>2, <2>3, <3>1, <3>2, <3>3
  <2>4. CASE i # s
    <3>1. T = S
      BY <1>1, <1>2, <1>3, <2>4, RootsAreIndexed DEF s
    <3> QED BY <1>4, <2>2, <2>4, <3>1
  <2> QED BY <2>3, <2>4
<1>6. BytesConserved'
  BY <1>1, <1>5 DEF SizeInv, BytesConserved
<1> QED BY <1>1, <1>3, <1>4, <1>6 DEF SizeInv

LEMMA SizesStep == PP!PoolInv /\ PP!TaskInv /\ SizeInv /\ [Next]_vars => SizeInv'
<1> SUFFICES ASSUME PP!PoolInv, PP!TaskInv, SizeInv, [Next]_vars PROVE SizeInv'
  OBVIOUS
<1>1. ASSUME UNCHANGED <<visited, local, slot, totals>>,
             result' \in {<<>>} \cup [RootIdx -> Nat],
             \A w \in Workers : pc'[w] # "exit" => pc[w] # "exit"
      PROVE  SizeInv'
  BY <1>1 DEF SizeInv, BytesConserved, Unflushed
<1>2. ASSUME NEW w \in Workers, PoolStep(w) PROVE SizeInv'
  <2>1. UNCHANGED visited /\ \A v \in Workers : pc[v] = "exit" => pc'[v] = "exit"
    BY <1>2, PoolStepLeaves
  <2> QED BY <1>1, <1>2, <2>1 DEF PoolStep, sizeVars, SizeInv
<1>3. ASSUME NEW w \in Workers, NEW e \in pending[w], SizeEntry(w, e) PROVE SizeInv'
  BY <1>3, EntrySizes
<1>4. ASSUME NEW w \in Workers, FlushSlot(w) PROVE SizeInv'
  BY <1>4, FlushSizes
<1>5. CASE Return
  BY <1>1, <1>5 DEF Return, Pool!Return, Pool!readVars, SizeInv
<1>6. CASE Finished \/ UNCHANGED vars
  BY <1>1, <1>6 DEF Finished, vars, poolVars, sizeVars, SizeInv
<1> QED BY <1>2, <1>3, <1>4, <1>5, <1>6 DEF Next, RunSizeWorker

-----------------------------------------------------------------------------
(* The whole subtree                                                       *)

LEMMA SameBelow == \A d : Pool!Below(d) = PP!Below(d)
BY Zenon DEF Pool!Below, PP!Below, Pool!Descendable, PP!Descendable, Pool!Cardinality, PP!Cardinality

LEMMA RootIsTask == \A i \in RootIdx : <<i, Roots[i]>> \in RootedDir
<1> DEFINE tasks == [j \in RootIdx |-> <<j, Roots[j]>>]
<1> SUFFICES ASSUME NEW i \in RootIdx PROVE <<i, Roots[i]>> \in RootedDir
  OBVIOUS
<1>1. tasks \in Seq(RootedDir) /\ i \in DOMAIN tasks
  BY PoolAssumptions DEF PP!RootsOK
<1> HIDE DEF tasks
<1>2. tasks[i] \in RootedDir
  BY <1>1
<1> QED BY <1>2 DEF tasks

LEMMA FinitelyManyTasks == PP!IsFiniteSet(RootedDir)
<1>1. IsFiniteSet(RootIdx)
  BY RootsAreIndexed, FS_Interval
<1>2. IsFiniteSet(RootedDir)
  BY <1>1, PathAssumption, FS_Product DEF RootedDir
<1> QED BY <1>2, Zenon DEF IsFiniteSet, PP!IsFiniteSet

\* After a walk, what was visited with a root index is what lies below that root:
\* below another root everything carries the index of that one.
LEMMA VisitedBelow ==
  ASSUME PP!PoolInv, PP!WholeTree, returned, NEW i \in RootIdx
  PROVE  {e \in visited : e[1] = i} = Pool!Below(<<i, Roots[i]>>)
<1> DEFINE tasks == [j \in RootIdx |-> <<j, Roots[j]>>]
           Root(j) == <<j, Roots[j]>>
<1>1. PICK listing \in Listings : yields = Rooted(listing)
  BY DEF PP!PoolInv, PP!TypeOK
<1>2. PP!InSeq(tasks) = {Root(j) : j \in RootIdx} /\ \A j \in RootIdx : Root(j) \in RootedDir
  BY RootIsTask DEF PP!InSeq
<1>3. visited = UNION {PP!Below(t) : t \in PP!InSeq(tasks)}
  BY PoolAssumptions, FinitelyManyTasks, PP!VisitedBelow, Zenon DEF PP!PoolInv
<1>4. ASSUME NEW j \in RootIdx PROVE PP!Below(Root(j)) \subseteq {e \in RootedDir : e[1] = j}
  <2> DEFINE T == {e \in RootedDir : e[1] = j}
  <2>1. \A d \in RootedDir : yields[d] \subseteq RootedDir
    BY PoolAssumptions DEF PP!PoolInv, PP!TypeOK, PP!ReaderOK
  <2>2. \A d \in RootedDir : \A e \in yields[d] : e[1] = d[1]
    BY <1>1 DEF Rooted
  <2>3. T \in SUBSET RootedDir /\ yields[Root(j)] \subseteq T
        /\ \A e \in T : PP!Descendable(e) => yields[e] \subseteq T
    BY <1>2, <2>1, <2>2
  <2> HIDE DEF T
  <2>4. PP!Below(Root(j)) \subseteq T
    BY <1>2, <2>3, PoolAssumptions, FinitelyManyTasks, PP!BelowIsClosure, Zenon DEF PP!PoolInv
  <2> QED BY <2>4 DEF T
<1>5. {e \in visited : e[1] = i} = PP!Below(Root(i))
  <2> DEFINE B(j) == PP!Below(Root(j))
  <2>1. visited = UNION {B(j) : j \in RootIdx}
    BY <1>2, <1>3
  <2>2. \A j \in RootIdx : \A e \in B(j) : e[1] = j
    BY <1>4
  <2> HIDE DEF B
  <2>3. \A e \in visited : e[1] = i => e \in B(i)
    BY <2>1, <2>2
  <2>4. \A e \in B(i) : e \in visited /\ e[1] = i
    BY <2>1, <2>2
  <2>5. {e \in visited : e[1] = i} = B(i)
    BY <2>3, <2>4
  <2> QED BY <2>5 DEF B
<1> QED BY <1>5, SameBelow

-----------------------------------------------------------------------------
(* The answer                                                              *)

\* The caller reads the totals when no slot is left to be added to them.
ReturnInv == returned => result = totals /\ \A w \in Workers : slot[w] = Len(Roots) + 1

LEMMA ReturnStep == PP!PoolInv /\ SizeInv /\ ReturnInv /\ [Next]_vars => ReturnInv'
<1> SUFFICES ASSUME PP!PoolInv, SizeInv, ReturnInv, [Next]_vars PROVE ReturnInv'
  OBVIOUS
<1>1. ASSUME UNCHANGED <<returned, slot, totals, result>> PROVE ReturnInv'
  BY <1>1 DEF ReturnInv
<1>2. ASSUME NEW w \in Workers, PoolStep(w) PROVE ReturnInv'
  <2>1. UNCHANGED returned
    BY <1>2, PoolStepLeaves
  <2> QED BY <1>1, <1>2, <2>1 DEF PoolStep, sizeVars
<1>3. ASSUME NEW w \in Workers, NEW e \in pending[w], SizeEntry(w, e) PROVE ReturnInv'
  BY <1>1, <1>3 DEF SizeEntry, Pool!VisitEntry
<1>4. ASSUME NEW w \in Workers, FlushSlot(w) PROVE ReturnInv'
  <2>1. UNCHANGED returned /\ slot[w] \in 1 .. Len(Roots) /\ Len(Roots) \in Nat
    BY <1>4, RootsAreIndexed DEF FlushSlot, poolVars
  <2> QED BY <2>1 DEF ReturnInv
<1>5. CASE Return
  <2>1. result' = totals' /\ UNCHANGED slot /\ \A w \in Workers : slot[w] > Len(Roots)
    BY <1>5 DEF Return, Flushed
  <2> QED BY <2>1, RootsAreIndexed DEF ReturnInv, SizeInv
<1>6. CASE Finished \/ UNCHANGED vars
  BY <1>1, <1>6 DEF Finished, vars, poolVars, sizeVars
<1> QED BY <1>2, <1>3, <1>4, <1>5, <1>6 DEF Next, RunSizeWorker

LEMMA Answer == Spec => [](PP!PoolInv /\ SizeInv /\ ReturnInv /\ PP!WholeTree)
<1>1. Init => ReturnInv
  <2>1. Init => ~ returned
    BY DEF Init, Pool!Init
  <2> QED BY <2>1 DEF ReturnInv
<1>2. Spec => []SizeInv
  BY InitialSizes, SizesStep, PoolFacts, PTL DEF Spec
<1> QED BY <1>1, <1>2, ReturnStep, PoolFacts, PTL DEF Spec

-----------------------------------------------------------------------------
(* The theorems                                                            *)

\* Every variable keeps its type: the slot of a root never goes out of range.
THEOREM SizeTypes == Spec => []TypeOK
<1>1. PP!PoolInv /\ SizeInv => TypeOK
  BY SameTypes DEF PP!PoolInv, SizeInv, TypeOK
<1> QED BY <1>1, Answer, PTL

\* However the threads share the subtrees, the bytes in the totals and in the slots
\* still to be flushed are those of the entries visited so far, root by root.
THEOREM NoByteLost == Spec => []BytesConserved
<1>1. SizeInv => BytesConserved
  BY DEF SizeInv
<1> QED BY <1>1, Answer, PTL

\* When walk_aggregated_sizes returns, each result is the sum of the sizes over the
\* whole subtree of its root.
THEOREM SizesOfSubtrees == Spec => []SizesAddUp
<1>1. PP!PoolInv /\ SizeInv /\ ReturnInv /\ PP!WholeTree => SizesAddUp
  <2> SUFFICES ASSUME PP!PoolInv, SizeInv, ReturnInv, PP!WholeTree, returned,
                      NEW i \in RootIdx
               PROVE  result[i] = SizeOf(Pool!Below(<<i, Roots[i]>>))
    BY DEF SizesAddUp
  <2> DEFINE here == {e \in visited : e[1] = i}
  <2>1. result[i] = SizeOf(here)
    <3>1. {w \in Workers : slot[w] <= i} = {}
      BY RootsAreIndexed DEF ReturnInv
    <3>2. Unflushed(i) = 0
      BY <3>1, SumEmpty DEF Unflushed
    <3>3. totals[i] + Unflushed(i) = SizeOf(here)
      BY DEF SizeInv, BytesConserved
    <3>4. result = totals /\ totals[i] \in Nat
      BY DEF ReturnInv, SizeInv
    <3> HIDE DEF here
    <3> QED BY <3>2, <3>3, <3>4
  <2>2. here = Pool!Below(<<i, Roots[i]>>)
    BY VisitedBelow
  <2> QED BY <2>1, <2>2
<1> QED BY <1>1, Answer, PTL

=============================================================================
