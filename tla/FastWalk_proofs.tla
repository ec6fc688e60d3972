--------------------------- MODULE FastWalk_proofs ---------------------------
(***************************************************************************)
(* Proofs about FastWalk, for any number of threads, any file system and   *)
(* any capacity of the buffer.  The walk is a run of a pool that skips     *)
(* nothing.  From it: an entry is visited once, by the worker that reads   *)
(* its directory and before that worker leaves; a directory is read only   *)
(* after it has been visited; and in the end the whole tree has been.      *)
(***************************************************************************)
EXTENDS FastWalk, DataTheorems, SequenceTheorems

-----------------------------------------------------------------------------
(* The walk is a run of the pool                                           *)

PP == INSTANCE WorkPool_proofs WITH
  Node      <- Path,
  RootTasks <- <<Root>>,
  Yields    <- Listings

LEMMA PoolAssumptions ==
  PP!ConfigOK /\ PP!PathsOK /\ PP!RootsOK /\ PP!ReaderOK /\ PP!TreeOK
BY PoolAssumption, ZenonT(30)
DEF Pool!ConfigOK, Pool!PathsOK, Pool!RootsOK, Pool!ReaderOK, Pool!TreeOK, Pool!IsFiniteSet,
    Pool!EntryKind, PP!ConfigOK, PP!PathsOK, PP!RootsOK, PP!ReaderOK, PP!TreeOK,
    PP!IsFiniteSet, PP!EntryKind

LEMMA SameWorkers ==
  /\ Workers = PP!Workers /\ Workers = 0 .. PP!NumThreads - 1
  /\ IsFiniteSet(Workers)
<1>1. Workers = 0 .. PP!NumThreads - 1 /\ Workers = PP!Workers
  BY DEF Workers, Pool!Workers, PP!Workers, Pool!NumThreads, PP!NumThreads
<1>2. PP!NumThreads - 1 \in Int
  BY PoolAssumptions DEF PP!ConfigOK, PP!NumThreads
<1> QED BY <1>1, <1>2, FS_Interval

LEMMA SameInit == Pool!Init => PP!Init
BY Zenon DEF Pool!Init, PP!Init, Pool!Workers, PP!Workers, Pool!NumThreads, PP!NumThreads

LEMMA SameSteps ==
  /\ \A w \in Workers :
       /\ Pool!FindTask(w) => PP!FindTask(w)
       /\ Pool!CheckDone(w) => PP!CheckDone(w)
       /\ Pool!OpenDir(w) => PP!OpenDir(w)
       /\ Pool!FinishLeaf(w) => PP!FinishLeaf(w)
       /\ Pool!AddChildren(w) => PP!AddChildren(w)
       /\ Pool!StoreDone(w) => PP!StoreDone(w)
       /\ \A e \in pending[w] : Pool!VisitEntry(w, e, FALSE) => PP!VisitEntry(w, e, FALSE)
       /\ \A c \in subDirs[w] : Pool!PushChild(w, c) => PP!PushChild(w, c)
  /\ Pool!Return => PP!Return
<1>1. ASSUME NEW w \in Workers PROVE Pool!FindTask(w) => PP!FindTask(w)
  <2>1. Pool!PopOwn(w) => PP!PopOwn(w)
    BY Zenon DEF Pool!PopOwn, Pool!Hold, Pool!sweepVars, Pool!Goto, PP!PopOwn, PP!Hold,
                 PP!sweepVars, PP!Goto
  <2>2. Pool!OwnEmpty(w) => PP!OwnEmpty(w)
    BY Zenon DEF Pool!OwnEmpty, Pool!Goto, Pool!sharedVars, Pool!sweepVars, Pool!readVars,
                 PP!OwnEmpty, PP!Goto, PP!sharedVars, PP!sweepVars, PP!readVars
  <2>3. Pool!StealInjected(w) => PP!StealInjected(w)
    BY Zenon DEF Pool!StealInjected, Pool!Hold, Pool!sweepVars, Pool!Goto, PP!StealInjected,
                 PP!Hold, PP!sweepVars, PP!Goto
  <2>4. Pool!InjectorEmpty(w) => PP!InjectorEmpty(w)
    BY Zenon DEF Pool!InjectorEmpty, Pool!Goto, Pool!sharedVars, Pool!sweepVars, Pool!readVars,
                 Pool!NumThreads, PP!InjectorEmpty, PP!Goto, PP!sharedVars, PP!sweepVars,
                 PP!readVars, PP!NumThreads
  <2>5. Pool!StealFrom(w) => PP!StealFrom(w)
    BY Zenon DEF Pool!StealFrom, Pool!Hold, Pool!Victim, Pool!Goto, Pool!NumThreads,
                 PP!StealFrom, PP!Hold, PP!Victim, PP!Goto, PP!NumThreads
  <2>6. Pool!StealMissed(w) => PP!StealMissed(w)
    BY Zenon DEF Pool!StealMissed, Pool!Goto, Pool!Victim, Pool!sharedVars, Pool!readVars,
                 Pool!NumThreads, PP!StealMissed, PP!Goto, PP!Victim, PP!sharedVars,
                 PP!readVars, PP!NumThreads
  <2> QED BY <2>1, <2>2, <2>3, <2>4, <2>5, <2>6, Zenon DEF Pool!FindTask, PP!FindTask
<1>2. ASSUME NEW w \in Workers PROVE Pool!CheckDone(w) => PP!CheckDone(w)
  BY Zenon DEF Pool!CheckDone, Pool!Goto, Pool!sharedVars, Pool!sweepVars, Pool!readVars,
               PP!CheckDone, PP!Goto, PP!sharedVars, PP!sweepVars, PP!readVars
<1>3. ASSUME NEW w \in Workers PROVE Pool!OpenDir(w) => PP!OpenDir(w)
  BY Zenon DEF Pool!OpenDir, Pool!Goto, Pool!sharedVars, Pool!sweepVars, PP!OpenDir, PP!Goto,
               PP!sharedVars, PP!sweepVars
<1>4. ASSUME NEW w \in Workers PROVE Pool!FinishLeaf(w) => PP!FinishLeaf(w)
  BY Zenon DEF Pool!FinishLeaf, Pool!Goto, Pool!Release, Pool!sweepVars, PP!FinishLeaf, PP!Goto,
               PP!Release, PP!sweepVars
<1>5. ASSUME NEW w \in Workers PROVE Pool!AddChildren(w) => PP!AddChildren(w)
  BY Zenon DEF Pool!AddChildren, Pool!Goto, Pool!Release, Pool!Cardinality, Pool!sweepVars,
               PP!AddChildren, PP!Goto, PP!Release, PP!Cardinality, PP!sweepVars
<1>6. ASSUME NEW w \in Workers PROVE Pool!StoreDone(w) => PP!StoreDone(w)
  BY Zenon DEF Pool!StoreDone, Pool!Goto, Pool!sweepVars, Pool!readVars, PP!StoreDone, PP!Goto,
               PP!sweepVars, PP!readVars
<1>7. ASSUME NEW w \in Workers, NEW e \in pending[w]
      PROVE  Pool!VisitEntry(w, e, FALSE) => PP!VisitEntry(w, e, FALSE)
  BY Zenon DEF Pool!VisitEntry, Pool!Descendable, Pool!sharedVars, Pool!sweepVars,
               PP!VisitEntry, PP!Descendable, PP!sharedVars, PP!sweepVars
<1>8. ASSUME NEW w \in Workers, NEW c \in subDirs[w]
      PROVE  Pool!PushChild(w, c) => PP!PushChild(w, c)
  BY Zenon DEF Pool!PushChild, Pool!Goto, Pool!sweepVars, PP!PushChild, PP!Goto, PP!sweepVars
<1>9. Pool!Return => PP!Return
  BY Zenon DEF Pool!Return, Pool!sharedVars, Pool!sweepVars, Pool!readVars, Pool!Workers,
               Pool!NumThreads, PP!Return, PP!sharedVars, PP!sweepVars, PP!readVars, PP!Workers,
               PP!NumThreads
<1> QED BY <1>1, <1>2, <1>3, <1>4, <1>5, <1>6, <1>7, <1>8, <1>9, Zenon

LEMMA SameDescendable == \A e : Pool!Descendable(e) <=> PP!Descendable(e)
BY DEF Pool!Descendable, PP!Descendable

LEMMA SameTypes == PP!TypeOK => Pool!TypeOK
BY Zenon DEF Pool!TypeOK, PP!TypeOK, Pool!Phase, PP!Phase, Pool!Workers, PP!Workers,
             Pool!NumThreads, PP!NumThreads

LEMMA SameBelow == Reachable = PP!Below(Root)
BY Zenon DEF Reachable, Pool!Below, PP!Below, Pool!Descendable, PP!Descendable,
             Pool!Cardinality, PP!Cardinality

\* A step of the fast walk is a step of a pool that skips nothing, or the pool does
\* not notice it.
LEMMA PoolSteps == [Next]_vars => [PP!FullNext]_(PP!vars) /\ [PP!Next]_(PP!vars)
<1> SUFFICES ASSUME [Next]_vars PROVE PP!FullNext \/ UNCHANGED poolVars
  BY PP!FullIsNext, PoolAssumptions
  DEF poolVars, PP!vars, PP!sharedVars, PP!sweepVars, PP!readVars
<1>1. ASSUME NEW w \in Workers, PoolStep(w) PROVE PP!FullNext
  BY <1>1, SameSteps, SameWorkers, Zenon DEF PoolStep, PP!FullNext
<1>2. ASSUME NEW w \in Workers, NEW e \in pending[w], Visit(w, e) PROVE PP!FullNext
  BY <1>2, SameSteps, SameWorkers, Zenon DEF Visit, PP!FullNext
<1>3. ASSUME NEW w \in Workers, MergeField(w) PROVE UNCHANGED poolVars
  BY <1>3 DEF MergeField
<1>4. CASE Return
  BY <1>4, SameSteps, Zenon DEF Return, PP!FullNext
<1>5. CASE Report \/ CloseStdout \/ Finished \/ UNCHANGED vars
  BY <1>5 DEF Report, CloseStdout, Finished, vars
<1> QED BY <1>1, <1>2, <1>3, <1>4, <1>5 DEF Next

\* What is proved of the pool, and of one that skips nothing, holds of the fast walk.
WalkFacts == PP!PoolInv /\ PP!TaskInv /\ PP!KnownInv

LEMMA PoolFacts == Spec => []WalkFacts /\ []PP!WholeTree
<1>1. Init => PP!Init
  BY SameInit DEF Init
<1>2. Spec => PP!FullSpec
  BY <1>1, PoolSteps, PTL DEF Spec, PP!FullSpec
<1>3. Spec => PP!Spec
  BY <1>1, PoolSteps, PTL DEF Spec, PP!Spec
<1>4. PP!Spec => []PP!PoolInv
  BY PP!PoolInvariant, PoolAssumptions, Zenon
<1>5. PP!Spec => []PP!TaskInv
  BY PP!TasksOwned, PoolAssumptions, Zenon
<1>6. PP!Spec => []PP!KnownInv
  BY PP!KnownIsVisited, PoolAssumptions, Zenon
<1>7. PP!FullSpec => []PP!WholeTree
  BY PP!WholeTreeVisited, PoolAssumptions, Zenon
<1>8. PP!PoolInv /\ PP!TaskInv /\ PP!KnownInv => WalkFacts
  BY DEF WalkFacts
<1> QED BY <1>2, <1>3, <1>4, <1>5, <1>6, <1>7, <1>8, PTL

\* The entry a visitor is called with is new; the directory it lies in is not.
LEMMA VisitsNew ==
  ASSUME WalkFacts, NEW w \in Workers, pc[w] = "visit", NEW e \in pending[w]
  PROVE  /\ e \in Path \ visited /\ e \in yields[dir[w]]
         /\ dir[w] = Root \/ dir[w] \in visited
<1>1. PP!PoolInv /\ PP!TaskInv
  BY DEF WalkFacts
<1>2. w \in PP!Visiting
  BY SameWorkers DEF PP!Visiting
<1>3. e \in yields[dir[w]] /\ e \notin visited /\ dir[w] \in opened
  BY <1>1, <1>2 DEF PP!TaskInv, PP!EntriesOwned, PP!OpenedOnce
<1>4. pending[w] \subseteq Path
  BY <1>1, SameWorkers DEF PP!PoolInv, PP!TypeOK
<1>5. PP!InSeq(<<Root>>) = {Root}
  BY DEF PP!InSeq
<1>6. dir[w] \notin {Root} => dir[w] \in visited
  BY <1>3, <1>5 DEF WalkFacts, PP!KnownInv
<1> QED BY <1>3, <1>4, <1>6

\* A worker that has left stays away, and only Visit visits.
LEMMA PoolStepLeaves ==
  ASSUME PP!PoolInv, NEW w \in Workers, PoolStep(w)
  PROVE  /\ UNCHANGED <<yields, visited, returned>>
         /\ \A v \in Workers : pc[v] = "exit" => pc'[v] = "exit"
<1>1. pc \in [Workers -> PP!Phase]
  BY SameWorkers DEF PP!PoolInv, PP!TypeOK
<1>2. CASE Pool!FindTask(w)
  BY <1>1, <1>2
  DEF Pool!FindTask, Pool!PopOwn, Pool!OwnEmpty, Pool!StealInjected, Pool!InjectorEmpty,
      Pool!StealFrom, Pool!StealMissed, Pool!Hold, Pool!Goto, Pool!readVars
<1>3. CASE Pool!CheckDone(w) \/ Pool!OpenDir(w) \/ Pool!StoreDone(w)
  BY <1>1, <1>3 DEF Pool!CheckDone, Pool!OpenDir, Pool!StoreDone, Pool!Goto, Pool!readVars
<1>4. CASE Pool!FinishLeaf(w) \/ Pool!AddChildren(w)
  BY <1>1, <1>4 DEF Pool!FinishLeaf, Pool!AddChildren, Pool!Release, Pool!Goto
<1>5. ASSUME NEW child \in subDirs[w], Pool!PushChild(w, child)
      PROVE  UNCHANGED <<yields, visited, returned>> /\ \A v \in Workers : pc[v] = "exit" => pc'[v] = "exit"
  BY <1>1, <1>5 DEF Pool!PushChild, Pool!Goto
<1> QED BY <1>2, <1>3, <1>4, <1>5 DEF PoolStep

-----------------------------------------------------------------------------
(* The counters                                                            *)

Names == ToSet(Fields)

\* The sum of one counter over a set of entries, and what the threads hold of it.
CountOf(entries, f) == SumFunctionOnSet([e \in entries |-> Count(e)[f]], entries)

InThreads(i) == SumFunction([w \in Workers |-> Unmerged(w, i)])

CountInv ==
  /\ counters \in [Workers -> Counters]
  /\ merged \in [Workers -> 0 .. Len(Fields)]
  /\ shared \in Counters
  /\ IsFiniteSet(visited)
  /\ \A w \in Workers : pc[w] # "exit" => merged[w] = 0
  /\ CountersConserved

LEMMA FieldNames ==
  /\ Len(Fields) = 5 /\ DOMAIN Fields = 1 .. 5
  /\ \A i \in 1 .. 5 : Fields[i] \in Names
  /\ \A i, j \in 1 .. 5 : Fields[i] = Fields[j] => i = j
  /\ \A f \in Names : \E i \in 1 .. 5 : f = Fields[i]
<1>1. Len(Fields) = 5 /\ DOMAIN Fields = 1 .. 5
  BY DEF Fields
<1>2. \A i, j \in 1 .. 5 : Fields[i] = Fields[j] => i = j
  BY DEF Fields
<1>3. Names = {Fields[i] : i \in 1 .. 5}
  BY <1>1 DEF Names, ToSet
<1> QED BY <1>1, <1>2, <1>3

LEMMA CountType ==
  ASSUME NEW e \in Path
  PROVE  Count(e) \in Counters /\ DOMAIN Count(e) = Names
<1>1. Names = {"entries", "dirs", "files", "symlinks", "total_size"}
  BY DEF Names, ToSet, Fields
<1>2. Size[e] \in Nat
  BY SizeAssumption
<1> QED BY <1>1, <1>2 DEF Count, Counters, Names

\* A new entry adds one to the counters of its kind, and its size.
LEMMA CountGrows ==
  ASSUME NEW S \in SUBSET Path, IsFiniteSet(S), NEW e \in Path, e \notin S, NEW n \in Names
  PROVE  CountOf(S \cup {e}, n) = CountOf(S, n) + Count(e)[n] /\ CountOf(S, n) \in Nat
<1> DEFINE f == [x \in S |-> Count(x)[n]]
           g == [x \in S \cup {e} |-> Count(x)[n]]
<1>1. \A x \in Path : Count(x)[n] \in Nat
  BY CountType DEF Counters, Names
<1>2. /\ \A x \in S : f[x] \in Nat /\ g[x] = f[x]
      /\ \A x \in S \cup {e} : g[x] \in Nat
      /\ g[e] = Count(e)[n]
  BY <1>1
<1> HIDE DEF f, g
<1>3. SumFunctionOnSet(g, S \cup {e}) = SumFunctionOnSet(g, S) + g[e]
  BY <1>2, SumAdd
<1>4. SumFunctionOnSet(g, S) = SumFunctionOnSet(f, S)
  BY <1>2, SumCongruence
<1>5. SumFunctionOnSet(f, S) \in Nat
  BY <1>2, SumType
<1> QED BY <1>2, <1>3, <1>4, <1>5 DEF CountOf, f, g

LEMMA Conserved ==
  CountersConserved <=> \A i \in 1 .. 5 : shared[Fields[i]] + InThreads(i) = CountOf(visited, Fields[i])
BY FieldNames DEF CountersConserved, InThreads, Counted, CountOf, Names

LEMMA UnmergedType ==
  ASSUME CountInv, NEW i \in 1 .. 5
  PROVE  (\A w \in Workers : Unmerged(w, i) \in Nat) /\ InThreads(i) \in Nat
<1> DEFINE f == [w \in Workers |-> Unmerged(w, i)]
<1>1. \A w \in Workers : Unmerged(w, i) \in Nat
  BY FieldNames DEF CountInv, Unmerged, Counters, Names
<1>2. InThreads(i) = SumFunctionOnSet(f, Workers) /\ \A w \in Workers : f[w] \in Nat
  BY <1>1 DEF InThreads, SumFunction
<1> HIDE DEF f
<1> QED BY <1>1, <1>2, SameWorkers, SumType
\* When one thread changes what it holds of a counter, the sum changes by as much.
LEMMA InThreadsChange ==
  ASSUME CountInv, NEW i \in 1 .. 5, NEW w \in Workers,
         \A v \in Workers : Unmerged(v, i)' \in Nat,
         \A v \in Workers : v # w => Unmerged(v, i)' = Unmerged(v, i)
  PROVE  /\ InThreads(i)' + Unmerged(w, i) = InThreads(i) + Unmerged(w, i)'
         /\ InThreads(i)' \in Nat
<1> DEFINE f == [v \in Workers |-> Unmerged(v, i)]
           g == [v \in Workers |-> Unmerged(v, i)']
<1>1. /\ InThreads(i) = SumFunctionOnSet(f, Workers)
      /\ InThreads(i)' = SumFunctionOnSet(g, Workers)
  BY DEF InThreads, SumFunction
<1>2. /\ \A v \in Workers : f[v] \in Nat /\ g[v] \in Nat
      /\ \A v \in Workers \ {w} : g[v] = f[v]
      /\ f[w] = Unmerged(w, i) /\ g[w] = Unmerged(w, i)'
  BY UnmergedType
<1> HIDE DEF f, g
<1>3. SumFunctionOnSet(g, Workers) + f[w] = SumFunctionOnSet(f, Workers) + g[w]
  <2>1. \A v \in Workers : f[v] \in Nat
    BY <1>2
  <2>2. \A v \in Workers : g[v] \in Nat
    BY <1>2
  <2>3. \A v \in Workers \ {w} : g[v] = f[v]
    BY <1>2
  <2>4. PICK S : S = Workers
    OBVIOUS
  <2>5. IsFiniteSet(S) /\ w \in S
    BY <2>4, SameWorkers
  <2>6. SumFunctionOnSet(g, S) + f[w] = SumFunctionOnSet(f, S) + g[w]
    BY <2>1, <2>2, <2>3, <2>4, <2>5, SumChange
  <2> QED BY <2>4, <2>6
<1>4. SumFunctionOnSet(g, Workers) \in Nat
  BY <1>2, SameWorkers, SumType
<1> QED BY <1>1, <1>2, <1>3, <1>4

LEMMA InitialCounts == Init => CountInv
<1> SUFFICES ASSUME Init PROVE CountInv
  OBVIOUS
<1>1. visited = {} /\ IsFiniteSet(visited)
  BY FS_EmptySet DEF Init, Pool!Init
<1>2. /\ counters = [w \in Workers |-> Zero] /\ merged = [w \in Workers |-> 0] /\ shared = Zero
      /\ Zero \in Counters /\ \A n \in Names : Zero[n] = 0
  BY DEF Init, Zero, Counters, Names
<1>3. ASSUME NEW i \in 1 .. 5 PROVE InThreads(i) = 0
  <2> DEFINE f == [w \in Workers |-> Unmerged(w, i)]
  <2>1. \A w \in Workers : f[w] = 0
    BY <1>2, FieldNames DEF Unmerged
  <2>2. InThreads(i) = SumFunctionOnSet(f, Workers)
    BY DEF InThreads, SumFunction
  <2> HIDE DEF f
  <2> QED BY <2>1, <2>2, SameWorkers, SumZero
<1>4. \A n \in Names : CountOf(visited, n) = 0
  BY <1>1, SumEmpty DEF CountOf
<1>5. CountersConserved
  BY <1>2, <1>3, <1>4, FieldNames, Conserved
<1> QED BY <1>1, <1>2, <1>5, FieldNames DEF CountInv

\* An entry is counted in the cells of a thread that has merged nothing yet.
LEMMA VisitCounts ==
  ASSUME WalkFacts, CountInv, NEW w \in Workers, NEW e \in pending[w], Visit(w, e)
  PROVE  CountInv'
<1>1. /\ pc[w] = "visit" /\ visited' = visited \cup {e} /\ UNCHANGED <<pc, merged, shared>>
      /\ counters' = [counters EXCEPT ![w] = Plus(@, Count(e))]
  BY DEF Visit, Pool!VisitEntry
<1>2. e \in Path \ visited
  BY <1>1, VisitsNew
<1>3. merged[w] = 0 /\ merged \in [Workers -> 0 .. 5]
  BY <1>1, FieldNames DEF CountInv
<1>4. /\ counters' \in [Workers -> Counters]
      /\ \A n \in Names : counters'[w][n] = counters[w][n] + Count(e)[n]
      /\ \A v \in Workers : v # w => counters'[v] = counters[v]
  <2>1. counters[w] \in [Names -> Nat] /\ Count(e) \in [Names -> Nat]
    BY <1>2, CountType DEF CountInv, Counters, Names
  <2>2. Plus(counters[w], Count(e)) = [n \in Names |-> counters[w][n] + Count(e)[n]]
    BY <2>1 DEF Plus
  <2>3. Plus(counters[w], Count(e)) \in Counters
    BY <2>1, <2>2 DEF Counters, Names
  <2>4. counters \in [Workers -> Counters]
    BY DEF CountInv
  <2>5. counters'[w] = Plus(counters[w], Count(e))
    BY <1>1, <2>4
  <2> QED BY <1>1, <2>2, <2>3, <2>4, <2>5
<1>5. ASSUME NEW i \in 1 .. 5
      PROVE  shared'[Fields[i]] + InThreads(i)' = CountOf(visited', Fields[i])
  <2> DEFINE n == Fields[i]
  <2>1. n \in Names
    BY FieldNames
  <2>2. /\ Unmerged(w, i) = counters[w][n] /\ Unmerged(w, i)' = counters[w][n] + Count(e)[n]
        /\ \A v \in Workers : v # w => Unmerged(v, i)' = Unmerged(v, i)
    BY <1>1, <1>3, <1>4, <2>1 DEF Unmerged
  <2>3. Count(e)[n] \in Nat /\ shared[n] \in Nat
    BY <1>2, <2>1, CountType DEF CountInv, Counters, Names
  <2>4. \A v \in Workers : Unmerged(v, i) \in Nat /\ Unmerged(v, i)' \in Nat
    BY <2>2, <2>3, UnmergedType
  <2> HIDE DEF n
  <2>5. InThreads(i)' = InThreads(i) + Count(e)[n]
    <3>1. InThreads(i)' + Unmerged(w, i) = InThreads(i) + Unmerged(w, i)' /\ InThreads(i)' \in Nat
      BY <2>2, <2>4, InThreadsChange
    <3>2. InThreads(i) \in Nat
      BY UnmergedType
    <3> QED BY <2>2, <2>3, <2>4, <3>1, <3>2
  <2>6. shared[n] + InThreads(i) = CountOf(visited, n)
    BY Conserved DEF n, CountInv
  <2>7. CountOf(visited', n) = CountOf(visited, n) + Count(e)[n]
    <3>1. visited \subseteq Path
      BY DEF WalkFacts, PP!PoolInv, PP!TypeOK
    <3> QED BY <1>1, <1>2, <2>1, <3>1, CountGrows DEF CountInv
  <2>8. InThreads(i) \in Nat
    BY UnmergedType
  <2> QED BY <1>1, <2>3, <2>5, <2>6, <2>7, <2>8 DEF n
<1>6. CountersConserved'
  BY <1>5, FieldNames DEF CountersConserved, InThreads, Counted, CountOf, Names
<1>7. IsFiniteSet(visited')
  BY <1>1, FS_AddElement DEF CountInv
<1> QED BY <1>1, <1>4, <1>6, <1>7 DEF CountInv

\* fetch_add moves one counter from the thread to the shared one.
LEMMA MergeCounts ==
  ASSUME CountInv, NEW w \in Workers, MergeField(w)
  PROVE  CountInv'
<1> DEFINE k == merged[w] + 1
           f == Fields[k]
<1>1. /\ pc[w] = "exit" /\ merged[w] < 5
      /\ shared' = [shared EXCEPT ![f] = @ + counters[w][f]]
      /\ merged' = [merged EXCEPT ![w] = k]
      /\ UNCHANGED <<pc, visited, counters>>
  BY FieldNames DEF MergeField, poolVars, CountInv
<1>2. merged \in [Workers -> 0 .. 5] /\ k \in 1 .. 5 /\ f \in Names
  <2>1. merged \in [Workers -> 0 .. 5] /\ k \in 1 .. 5
    BY <1>1, FieldNames DEF CountInv
  <2> QED BY <2>1, FieldNames
<1>3. shared \in [Names -> Nat] /\ counters \in [Workers -> [Names -> Nat]]
  BY DEF CountInv, Counters, Names
<1>4. merged'[w] = k /\ \A v \in Workers : v # w => merged'[v] = merged[v]
  BY <1>1, <1>2
<1> HIDE DEF f
<1>5. /\ shared' \in [Names -> Nat] /\ shared'[f] = shared[f] + counters[w][f]
      /\ \A n \in Names : n # f => shared'[n] = shared[n]
  BY <1>1, <1>2, <1>3
<1>6. ASSUME NEW i \in 1 .. 5
      PROVE  shared'[Fields[i]] + InThreads(i)' = shared[Fields[i]] + InThreads(i)
  <2>1. \A v \in Workers : v # w => Unmerged(v, i)' = Unmerged(v, i)
    BY <1>1, <1>4 DEF Unmerged
  <2>2. InThreads(i) \in Nat /\ \A v \in Workers : Unmerged(v, i) \in Nat
    BY UnmergedType
  <2>3. CASE i = k
    <3>1. Unmerged(w, i)' = 0 /\ Unmerged(w, i) = counters[w][f]
      BY <1>1, <1>2, <1>4, <2>3 DEF Unmerged, f
    <3>2. InThreads(i)' + Unmerged(w, i) = InThreads(i) + 0 /\ InThreads(i)' \in Nat
      <4>1. \A v \in Workers : Unmerged(v, i)' \in Nat
        BY <2>1, <2>2, <3>1
      <4> QED BY <2>1, <3>1, <4>1, InThreadsChange
    <3>3. shared[f] \in Nat /\ Fields[i] = f /\ counters[w][f] \in Nat
      BY <1>2, <1>3, <2>3 DEF f
    <3> QED BY <1>5, <2>2, <3>1, <3>2, <3>3
  <2>4. CASE i # k
    <3>1. Unmerged(w, i)' = Unmerged(w, i)
      BY <1>1, <1>2, <1>4, <2>4 DEF Unmerged
    <3>2. InThreads(i)' = InThreads(i)
      BY <2>1, <3>1 DEF InThreads
    <3>3. Fields[i] \in Names /\ Fields[i] # f
      BY <1>2, <2>4, FieldNames DEF f
    <3> QED BY <1>5, <3>2, <3>3
  <2> QED BY <2>3, <2>4
<1>7. CountersConserved'
  <2>1. \A i \in 1 .. 5 : shared'[Fields[i]] + InThreads(i)' = CountOf(visited', Fields[i])
    BY <1>1, <1>6, Conserved DEF CountInv
  <2> QED BY <2>1, FieldNames DEF CountersConserved, InThreads, Counted, CountOf, Names
<1>8. merged' \in [Workers -> 0 .. 5]
  BY <1>1, <1>2
<1> QED BY <1>1, <1>4, <1>5, <1>7, <1>8, FieldNames DEF CountInv, Counters, Names

LEMMA CountsStep == WalkFacts /\ CountInv /\ [Next]_vars => CountInv'
<1> SUFFICES ASSUME WalkFacts, CountInv, [Next]_vars PROVE CountInv'
  OBVIOUS
<1>1. ASSUME UNCHANGED <<visited, counters, merged, shared>>,
             \A w \in Workers : pc'[w] # "exit" => pc[w] # "exit"
      PROVE  CountInv'
  BY <1>1 DEF CountInv, CountersConserved, Unmerged
<1>2. ASSUME NEW w \in Workers, PoolStep(w) PROVE CountInv'
  <2>1. UNCHANGED visited /\ \A v \in Workers : pc[v] = "exit" => pc'[v] = "exit"
    BY <1>2, PoolStepLeaves DEF WalkFacts
  <2> QED BY <1>1, <1>2, <2>1 DEF PoolStep, counterVars
<1>3. ASSUME NEW w \in Workers, NEW e \in pending[w], Visit(w, e) PROVE CountInv'
  BY <1>3, VisitCounts
<1>4. ASSUME NEW w \in Workers, MergeField(w) PROVE CountInv'
  BY <1>4, MergeCounts
<1>5. CASE Return
  BY <1>1, <1>5 DEF Return, Pool!Return, Pool!readVars, counterVars
<1>6. CASE Report \/ CloseStdout \/ Finished \/ UNCHANGED vars
  BY <1>1, <1>6 DEF Report, CloseStdout, Finished, vars, poolVars, counterVars
<1> QED BY <1>2, <1>3, <1>4, <1>5, <1>6 DEF Next
-----------------------------------------------------------------------------
(* The lines                                                               *)

Lines == written \o buffer

\* While stdout is open no line is lost; once it has been closed it gets no more.  A
\* buffer that is empty while main is waiting for the walk has never held a line.
LineInv ==
  /\ buffer \in Seq(Path) /\ Len(buffer) <= BufLines
  /\ written \in Seq(Path)
  /\ open \in BOOLEAN
  /\ exit \in {"running", "success", "failure"}
  /\ exit # "running" => returned
  /\ ParentFirst(written)
  /\ ~ListPaths => written = <<>> /\ buffer = <<>>
  /\ ListPaths /\ exit = "running" /\ open => ParentFirst(Lines) /\ ToSet(Lines) = visited
  /\ ListPaths /\ exit = "running" /\ buffer = <<>> => written = <<>> /\ visited = {}
  /\ ListPaths /\ exit = "success" => ToSet(written) = visited

LEMMA AppendLine ==
  ASSUME NEW s \in Seq(Path), NEW e
  PROVE  /\ Len(Append(s, e)) = Len(s) + 1
         /\ \A i \in 1 .. Len(s) : Append(s, e)[i] = s[i]
         /\ Append(s, e)[Len(s) + 1] = e
         /\ ToSet(Append(s, e)) = ToSet(s) \cup {e}
<1>1. /\ DOMAIN s = 1 .. Len(s) /\ Len(s) \in Nat
      /\ Len(Append(s, e)) = Len(s) + 1 /\ DOMAIN Append(s, e) = 1 .. Len(s) + 1
      /\ \A i \in 1 .. Len(s) : Append(s, e)[i] = s[i]
      /\ Append(s, e)[Len(s) + 1] = e
  BY LenProperties, AppendProperties
<1>2. \A x : x \in ToSet(Append(s, e)) <=> x \in ToSet(s) \cup {e}
  BY <1>1 DEF ToSet
<1> QED BY <1>1, <1>2

\* A new path may follow once its directory has been listed.
LEMMA ParentFirstAppend ==
  ASSUME NEW s \in Seq(Path), ParentFirst(s), NEW e, e \notin ToSet(s),
         NEW d, e \in yields[d], d = Root \/ d \in ToSet(s)
  PROVE  ParentFirst(Append(s, e))
<1> DEFINE t == Append(s, e)
           n == Len(s)
<1>1. /\ n \in Nat /\ DOMAIN s = 1 .. n /\ DOMAIN t = 1 .. n + 1
      /\ \A i \in 1 .. n : t[i] = s[i]
      /\ t[n + 1] = e
  BY LenProperties, AppendProperties
<1> HIDE DEF t, n
<1>2. \A i \in 1 .. n : s[i] # e
  BY <1>1 DEF ToSet
<1>3. \A i, j \in 1 .. n + 1 : j # i => t[j] # t[i]
  <2> SUFFICES ASSUME NEW i \in 1 .. n + 1, NEW j \in 1 .. n + 1, j # i PROVE t[j] # t[i]
    OBVIOUS
  <2>1. \A k \in 1 .. n + 1 : k = n + 1 \/ k \in 1 .. n
    BY <1>1
  <2> QED BY <1>1, <1>2, <2>1 DEF ParentFirst
<1>4. ASSUME NEW i \in 1 .. n + 1, t[i] \notin yields[Root]
      PROVE  \E j \in 1 .. i - 1 : t[i] \in yields[t[j]]
  <2>1. CASE i = n + 1
    <3>1. d \in ToSet(s)
      BY <1>1, <1>4, <2>1
    <3>2. PICK j \in 1 .. n : d = s[j]
      BY <1>1, <3>1 DEF ToSet
    <3> QED BY <1>1, <2>1, <3>2
  <2>2. CASE i # n + 1
    <3>1. i \in 1 .. n
      BY <1>1, <2>2
    <3>2. PICK j \in 1 .. i - 1 : s[i] \in yields[s[j]]
      BY <1>1, <1>4, <3>1 DEF ParentFirst
    <3>3. j \in 1 .. n
      BY <1>1, <3>1, <3>2
    <3> QED BY <1>1, <3>1, <3>2, <3>3
  <2> QED BY <2>1, <2>2
<1> QED BY <1>1, <1>3, <1>4 DEF ParentFirst, t

LEMMA LinesAppend ==
  ASSUME NEW a \in Seq(Path), NEW b \in Seq(Path), NEW e \in Path
  PROVE  /\ a \o b \in Seq(Path) /\ a \o Append(b, e) = Append(a \o b, e)
         /\ (a \o b) \o <<e>> = Append(a \o b, e)
         /\ Append(b, e) \in Seq(Path) /\ <<e>> \in Seq(Path)
         /\ a \o <<>> = a /\ <<>> \o b = b
<1>1. a \o b \in Seq(Path) /\ <<e>> \in Seq(Path)
  BY ConcatProperties
<1>2. Append(b, e) = b \o <<e>> /\ Append(a \o b, e) = (a \o b) \o <<e>>
  BY <1>1, AppendIsConcat
<1>3. a \o (b \o <<e>>) = (a \o b) \o <<e>>
  BY <1>1, ConcatAssociative
<1>4. Append(b, e) \in Seq(Path)
  BY AppendProperties
<1>5. a \o <<>> = a /\ <<>> \o b = b
  BY ConcatEmptySeq
<1> QED BY <1>1, <1>2, <1>3, <1>4, <1>5
LEMMA InitialLines == Init => LineInv
<1> SUFFICES ASSUME Init PROVE LineInv
  OBVIOUS
<1>1. visited = {} /\ buffer = <<>> /\ written = <<>> /\ open = TRUE /\ exit = "running"
  BY DEF Init, Pool!Init
<1>2. Lines = <<>> /\ ToSet(<<>>) = {}
  BY <1>1, ConcatEmptySeq DEF Lines, ToSet
<1>3. ParentFirst(<<>>)
  BY DEF ParentFirst
<1> QED BY <1>1, <1>2, <1>3, WriterAssumption, EmptySeq DEF LineInv

LEMMA VisitLines ==
  ASSUME WalkFacts, LineInv, NEW w \in Workers, NEW e \in pending[w], Visit(w, e)
  PROVE  LineInv'
<1>1. /\ pc[w] = "visit" /\ visited' = visited \cup {e}
      /\ UNCHANGED <<yields, returned, exit>>
      /\ IF ListPaths THEN WriteLine(e) ELSE UNCHANGED outVars
  BY DEF Visit, Pool!VisitEntry
<1>2. exit = "running"
  <2>1. ~ returned
    BY <1>1, SameWorkers DEF WalkFacts, PP!PoolInv, PP!LeavesAfterDone
  <2> QED BY <2>1 DEF LineInv
<1>3. /\ e \in Path \ visited /\ e \in yields[dir[w]]
      /\ dir[w] = Root \/ dir[w] \in visited
  BY <1>1, VisitsNew
<1>4. CASE ~ListPaths
  BY <1>1, <1>2, <1>4 DEF LineInv, outVars, ParentFirst
<1>5. ASSUME ListPaths, open
      PROVE  ParentFirst(Append(Lines, e)) /\ ToSet(Append(Lines, e)) = visited'
  <2>1. ParentFirst(Lines) /\ ToSet(Lines) = visited
    BY <1>2, <1>5 DEF LineInv
  <2>2. Lines \in Seq(Path)
    BY ConcatProperties DEF LineInv, Lines
  <2> HIDE DEF Lines
  <2>3. ParentFirst(Append(Lines, e))
    BY <1>3, <2>1, <2>2, ParentFirstAppend
  <2> QED BY <1>1, <2>1, <2>2, <2>3, AppendLine
<1>6. ASSUME NEW s, ParentFirst(s) PROVE ParentFirst(s)'
  BY <1>1, <1>6 DEF ParentFirst
<1>7. buffer \in Seq(Path) /\ written \in Seq(Path) /\ Len(buffer) \in Nat
  BY LenProperties DEF LineInv
<1>8. CASE /\ ListPaths /\ Len(buffer) < BufLines
           /\ buffer' = Append(buffer, e) /\ UNCHANGED <<written, open>>
  <2>1. Lines' = Append(Lines, e) /\ buffer' \in Seq(Path)
    BY <1>3, <1>7, <1>8, LinesAppend DEF Lines
  <2>2. Len(buffer') = Len(buffer) + 1 /\ buffer' # <<>>
    BY <1>3, <1>7, <1>8, AppendProperties
  <2>3. Len(buffer') <= BufLines
    BY <1>7, <1>8, <2>2, WriterAssumption
  <2>4. ParentFirst(written)'
    BY <1>1, <1>8 DEF LineInv, ParentFirst
  <2>5. open => ParentFirst(Lines)' /\ ToSet(Lines') = visited'
    BY <1>1, <1>5, <1>8, <2>1 DEF ParentFirst
  <2> QED BY <1>1, <1>2, <1>8, <2>1, <2>2, <2>3, <2>4, <2>5 DEF LineInv
<1>9. CASE /\ ListPaths /\ open /\ written' = written \o buffer
           /\ buffer' = <<e>> /\ UNCHANGED open
  <2>1. Lines' = Append(Lines, e) /\ buffer' \in Seq(Path) /\ written' \in Seq(Path)
    BY <1>3, <1>7, <1>9, LinesAppend DEF Lines
  <2>2. buffer' # <<>> /\ Len(buffer') <= BufLines
    BY <1>9, WriterAssumption
  <2>3. ParentFirst(written)'
    BY <1>1, <1>2, <1>9 DEF LineInv, Lines, ParentFirst
  <2>4. ParentFirst(Lines)' /\ ToSet(Lines') = visited'
    BY <1>1, <1>5, <1>9, <2>1 DEF ParentFirst
  <2> QED BY <1>1, <1>2, <1>9, <2>1, <2>2, <2>3, <2>4 DEF LineInv
<1>10. CASE ListPaths /\ buffer # <<>> /\ ~open /\ UNCHANGED outVars
  <2>1. ParentFirst(written)'
    BY <1>1, <1>10 DEF LineInv, ParentFirst, outVars
  <2> QED BY <1>1, <1>2, <1>10, <2>1 DEF LineInv, outVars
<1> QED BY <1>1, <1>4, <1>8, <1>9, <1>10 DEF WriteLine

LEMMA ReportLines ==
  ASSUME LineInv, Report
  PROVE  LineInv'
<1>1. UNCHANGED <<yields, visited, returned, open>> /\ returned /\ exit = "running"
  BY DEF Report, poolVars
<1>2. CASE open
  <2>1. written' = Lines /\ buffer' = <<>> /\ exit' = "success"
    BY <1>2 DEF Report, Lines
  <2>2. buffer \in Seq(Path) /\ written \in Seq(Path) /\ Lines \in Seq(Path)
    BY ConcatProperties DEF LineInv, Lines
  <2>3. ~ListPaths => Lines = <<>>
    BY <2>2, ConcatEmptySeq DEF LineInv, Lines
  <2>4. ParentFirst(Lines)
    BY <1>1, <1>2, <2>3 DEF LineInv, ParentFirst
  <2>5. ParentFirst(written)'
    BY <1>1, <2>1, <2>4 DEF ParentFirst
  <2>6. <<>> \in Seq(Path) /\ Len(<<>>) <= BufLines
    BY WriterAssumption, EmptySeq
  <2> HIDE DEF Lines
  <2> QED BY <1>1, <1>2, <2>1, <2>2, <2>3, <2>5, <2>6 DEF LineInv
<1>3. CASE ~open
  <2>1. written' = written /\ buffer' = buffer /\ exit' \in {"success", "failure"}
        /\ (exit' = "success" => buffer = <<>>)
    BY <1>3 DEF Report
  <2>2. ParentFirst(written)'
    BY <1>1, <2>1 DEF LineInv, ParentFirst
  <2>3. ToSet(<<>>) = {}
    BY DEF ToSet
  <2> QED BY <1>1, <1>3, <2>1, <2>2, <2>3 DEF LineInv
<1> QED BY <1>2, <1>3 DEF LineInv

LEMMA LinesStep == WalkFacts /\ LineInv /\ [Next]_vars => LineInv'
<1> SUFFICES ASSUME WalkFacts, LineInv, [Next]_vars PROVE LineInv'
  OBVIOUS
<1>1. ASSUME UNCHANGED <<yields, visited, buffer, written, exit>>,
             open' \in BOOLEAN, open' => open, returned => returned'
      PROVE  LineInv'
  <2>1. Lines' = Lines
    BY <1>1 DEF Lines
  <2>2. (ParentFirst(written) => ParentFirst(written)') /\ (ParentFirst(Lines) => ParentFirst(Lines)')
    BY <1>1, <2>1 DEF ParentFirst
  <2> HIDE DEF Lines
  <2> QED BY <1>1, <2>1, <2>2 DEF LineInv
<1>2. ASSUME NEW w \in Workers, PoolStep(w) PROVE LineInv'
  <2>1. UNCHANGED <<yields, visited, returned>>
    BY <1>2, PoolStepLeaves DEF WalkFacts
  <2> QED BY <1>1, <1>2, <2>1 DEF PoolStep, outVars, LineInv
<1>3. ASSUME NEW w \in Workers, NEW e \in pending[w], Visit(w, e) PROVE LineInv'
  BY <1>3, VisitLines
<1>4. ASSUME NEW w \in Workers, MergeField(w) PROVE LineInv'
  BY <1>1, <1>4 DEF MergeField, poolVars, outVars, LineInv
<1>5. CASE Return
  BY <1>1, <1>5 DEF Return, Pool!Return, Pool!readVars, outVars, LineInv
<1>6. CASE Report
  BY <1>6, ReportLines
<1>7. CASE CloseStdout
  BY <1>1, <1>7 DEF CloseStdout, poolVars
<1>8. CASE Finished \/ UNCHANGED vars
  BY <1>1, <1>8 DEF Finished, vars, poolVars, outVars, LineInv
<1> QED BY <1>2, <1>3, <1>4, <1>5, <1>6, <1>7, <1>8 DEF Next
-----------------------------------------------------------------------------
(* The report                                                              *)

\* main goes on when no thread has a counter left to add.
ReturnInv == returned => \A w \in Workers : Merged(w)

LEMMA ReturnStep == WalkFacts /\ CountInv /\ ReturnInv /\ [Next]_vars => ReturnInv'
<1> SUFFICES ASSUME WalkFacts, CountInv, ReturnInv, [Next]_vars PROVE ReturnInv'
  OBVIOUS
<1>1. ASSUME UNCHANGED <<returned, merged>> PROVE ReturnInv'
  BY <1>1 DEF ReturnInv, Merged
<1>2. ASSUME NEW w \in Workers, PoolStep(w) PROVE ReturnInv'
  <2>1. UNCHANGED returned
    BY <1>2, PoolStepLeaves DEF WalkFacts
  <2> QED BY <1>1, <1>2, <2>1 DEF PoolStep, counterVars
<1>3. ASSUME NEW w \in Workers, NEW e \in pending[w], Visit(w, e) PROVE ReturnInv'
  BY <1>1, <1>3 DEF Visit, Pool!VisitEntry
<1>4. ASSUME NEW w \in Workers, MergeField(w) PROVE ReturnInv'
  <2>1. UNCHANGED returned /\ merged[w] < Len(Fields)
    BY <1>4 DEF MergeField, poolVars
  <2> QED BY <2>1, FieldNames DEF ReturnInv, Merged
<1>5. CASE Return
  BY <1>5 DEF Return, ReturnInv, Merged, counterVars
<1>6. CASE Report \/ CloseStdout \/ Finished \/ UNCHANGED vars
  BY <1>1, <1>6 DEF Report, CloseStdout, Finished, vars, poolVars, counterVars
<1> QED BY <1>2, <1>3, <1>4, <1>5, <1>6 DEF Next

FastInv == WalkFacts /\ PP!WholeTree /\ CountInv /\ LineInv /\ ReturnInv

LEMMA FastInvariant == Spec => []FastInv
<1>1. Init => ReturnInv
  <2>1. Init => ~ returned
    BY DEF Init, Pool!Init
  <2> QED BY <2>1 DEF ReturnInv
<1>2. Spec => []CountInv
  BY InitialCounts, CountsStep, PoolFacts, PTL DEF Spec
<1>3. Spec => []LineInv
  BY InitialLines, LinesStep, PoolFacts, PTL DEF Spec
<1>4. Spec => []ReturnInv
  BY <1>1, <1>2, ReturnStep, PoolFacts, PTL DEF Spec
<1>5. WalkFacts /\ PP!WholeTree /\ CountInv /\ LineInv /\ ReturnInv => FastInv
  BY DEF FastInv
<1> QED BY <1>2, <1>3, <1>4, <1>5, PoolFacts, PTL

\* When the walk has returned, all that can be reached has been visited.
LEMMA AllVisited == FastInv /\ returned => visited = Reachable
<1> SUFFICES ASSUME FastInv, returned PROVE visited = Reachable
  OBVIOUS
<1>1. PP!IsFiniteSet(Path)
  BY PathAssumption, Zenon DEF IsFiniteSet, PP!IsFiniteSet
<1>2. PP!TypeOK /\ PP!WholeTree
  BY DEF FastInv, WalkFacts, PP!PoolInv
<1>3. visited = UNION {PP!Below(t) : t \in PP!InSeq(<<Root>>)}
  BY <1>1, <1>2, PoolAssumptions, PP!VisitedBelow, Zenon
<1>4. PP!InSeq(<<Root>>) = {Root}
  BY DEF PP!InSeq
<1> QED BY <1>3, <1>4, SameBelow

-----------------------------------------------------------------------------
(* The theorems                                                            *)

\* Every variable keeps its type; the BufWriter never holds more than its capacity.
THEOREM FastTypes == Spec => []TypeOK
<1>1. FastInv => TypeOK
  BY SameTypes DEF FastInv, WalkFacts, PP!PoolInv, CountInv, LineInv, TypeOK
<1> QED BY <1>1, FastInvariant, PTL

\* Whatever moments the threads leave at, each counter plus what they still hold of
\* it is what has been visited.
THEOREM NoCountLost == Spec => []CountersConserved
<1>1. FastInv => CountersConserved
  BY DEF FastInv, CountInv
<1> QED BY <1>1, FastInvariant, PTL

\* The counters main prints are those of the whole tree.
THEOREM ReportIsExact == Spec => []ReportExact
<1>1. FastInv => ReportExact
  <2> SUFFICES ASSUME FastInv, returned PROVE shared = Counted(Reachable)
    BY DEF ReportExact
  <2>1. ASSUME NEW i \in 1 .. 5 PROVE InThreads(i) = 0
    <3> DEFINE f == [w \in Workers |-> Unmerged(w, i)]
    <3>1. \A w \in Workers : f[w] = 0
      BY FieldNames DEF FastInv, ReturnInv, Merged, Unmerged
    <3>2. InThreads(i) = SumFunctionOnSet(f, Workers)
      BY DEF InThreads, SumFunction
    <3> HIDE DEF f
    <3> QED BY <3>1, <3>2, SameWorkers, SumZero
  <2>2. shared \in [Names -> Nat]
    BY DEF FastInv, CountInv, Counters, Names
  <2>3. ASSUME NEW n \in Names PROVE shared[n] = CountOf(visited, n)
    <3>1. PICK i \in 1 .. 5 : n = Fields[i]
      BY FieldNames
    <3>2. shared[n] + 0 = CountOf(visited, n)
      BY <2>1, <3>1, Conserved DEF FastInv, CountInv
    <3> QED BY <2>2, <3>2
  <2>4. Counted(visited) = [n \in Names |-> CountOf(visited, n)]
    BY DEF Counted, CountOf, Names
  <2>5. shared = Counted(visited)
    BY <2>2, <2>3, <2>4
  <2> QED BY <2>5, AllVisited
<1> QED BY <1>1, FastInvariant, PTL

\* A line comes after that of its directory and never twice, whichever thread wrote it
\* and whenever the reader of stdout went away.
THEOREM ParentsFirst == Spec => []ParentListedFirst
<1>1. FastInv => ParentListedFirst
  BY DEF FastInv, LineInv, ParentListedFirst
<1> QED BY <1>1, FastInvariant, PTL

\* Success means that every path of the tree is on stdout, although the errors of
\* writeln! are ignored.
THEOREM SuccessIsComplete == Spec => []NoSilentLoss
<1>1. FastInv => NoSilentLoss
  BY AllVisited DEF FastInv, LineInv, NoSilentLoss
<1> QED BY <1>1, FastInvariant, PTL

=============================================================================
