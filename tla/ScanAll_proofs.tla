--------------------------- MODULE ScanAll_proofs ---------------------------
(***************************************************************************)
(* Proofs about ScanAll, for any number of threads, any tree, any patterns *)
(* and any cap.  The scan is a run of the pool, so an entry is visited by  *)
(* one worker and only once; between the first question of the visitor and *)
(* its answer to the pool the entry is still pending, and nobody else      *)
(* knows it.                                                               *)
(***************************************************************************)
EXTENDS ScanAll, DataTheorems, SequenceTheorems

-----------------------------------------------------------------------------
(* The scan is a run of the pool                                           *)

PP == INSTANCE WorkPool_proofs WITH
  FollowSymlinks <- FALSE,
  Node      <- Path,
  RootTasks <- << <<>> >>,
  Yields    <- Listings

LEMMA PoolAssumptions ==
  PP!ConfigOK /\ PP!PathsOK /\ PP!RootsOK /\ PP!ReaderOK /\ PP!TreeOK
BY PoolAssumption, ZenonT(30)
DEF Pool!ConfigOK, Pool!PathsOK, Pool!RootsOK, Pool!ReaderOK, Pool!TreeOK, Pool!IsFiniteSet,
    Pool!EntryKind, PP!ConfigOK, PP!PathsOK, PP!RootsOK, PP!ReaderOK, PP!TreeOK,
    PP!IsFiniteSet, PP!EntryKind

LEMMA SameWorkers ==
  /\ Workers = PP!Workers /\ Workers = 0 .. PP!NumThreads - 1
  /\ IsFiniteSet(Workers)
<1>1. Workers = 0 .. PP!NumThreads - 1 /\ Workers = PP!Workers
  BY DEF Workers, Pool!Workers, PP!Workers, Pool!NumThreads, PP!NumThreads
<1>2. PP!NumThreads - 1 \in Int
  BY PoolAssumptions DEF PP!ConfigOK, PP!NumThreads
<1> QED BY <1>1, <1>2, FS_Interval

LEMMA SameInit == Pool!Init => PP!Init
BY Zenon DEF Pool!Init, PP!Init, Pool!Workers, PP!Workers, Pool!NumThreads, PP!NumThreads

LEMMA SameSteps ==
  /\ \A w \in Workers :
       /\ Pool!FindTask(w) => PP!FindTask(w)
       /\ Pool!CheckDone(w) => PP!CheckDone(w)
       /\ Pool!OpenDir(w) => PP!OpenDir(w)
       /\ Pool!FinishLeaf(w) => PP!FinishLeaf(w)
       /\ Pool!AddChildren(w) => PP!AddChildren(w)
       /\ Pool!StoreDone(w) => PP!StoreDone(w)
       /\ \A e, skip : Pool!VisitEntry(w, e, skip) => PP!VisitEntry(w, e, skip)
       /\ \A c \in subDirs[w] : Pool!PushChild(w, c) => PP!PushChild(w, c)
  /\ Pool!Return => PP!Return
<1>1. ASSUME NEW w \in Workers PROVE Pool!FindTask(w) => PP!FindTask(w)
  <2>1. Pool!PopOwn(w) => PP!PopOwn(w)
    BY Zenon DEF Pool!PopOwn, Pool!Hold, Pool!sweepVars, Pool!Goto, PP!PopOwn, PP!Hold,
                 PP!sweepVars, PP!Goto
  <2>2. Pool!OwnEmpty(w) => PP!OwnEmpty(w)
    BY Zenon DEF Pool!OwnEmpty, Pool!Goto, Pool!sharedVars, Pool!sweepVars, Pool!readVars,
                 PP!OwnEmpty, PP!Goto, PP!sharedVars, PP!sweepVars, PP!readVars
  <2>3. Pool!StealInjected(w) => PP!StealInjected(w)
    BY Zenon DEF Pool!StealInjected, Pool!Hold, Pool!sweepVars, Pool!Goto, PP!StealInjected,
                 PP!Hold, PP!sweepVars, PP!Goto
  <2>4. Pool!InjectorEmpty(w) => PP!InjectorEmpty(w)
    BY Zenon DEF Pool!InjectorEmpty, Pool!Goto, Pool!sharedVars, Pool!sweepVars, Pool!readVars,
                 Pool!NumThreads, PP!InjectorEmpty, PP!Goto, PP!sharedVars, PP!sweepVars,
                 PP!readVars, PP!NumThreads
  <2>5. Pool!StealFrom(w) => PP!StealFrom(w)
    BY Zenon DEF Pool!StealFrom, Pool!Hold, Pool!Victim, Pool!Goto, Pool!NumThreads,
                 PP!StealFrom, PP!Hold, PP!Victim, PP!Goto, PP!NumThreads
  <2>6. Pool!StealMissed(w) => PP!StealMissed(w)
    BY Zenon DEF Pool!StealMissed, Pool!Goto, Pool!Victim, Pool!sharedVars, Pool!readVars,
                 Pool!NumThreads, PP!StealMissed, PP!Goto, PP!Victim, PP!sharedVars,
                 PP!readVars, PP!NumThreads
  <2> QED BY <2>1, <2>2, <2>3, <2>4, <2>5, <2>6, Zenon DEF Pool!FindTask, PP!FindTask
<1>2. ASSUME NEW w \in Workers PROVE Pool!CheckDone(w) => PP!CheckDone(w)
  BY Zenon DEF Pool!CheckDone, Pool!Goto, Pool!sharedVars, Pool!sweepVars, Pool!readVars,
               PP!CheckDone, PP!Goto, PP!sharedVars, PP!sweepVars, PP!readVars
<1>3. ASSUME NEW w \in Workers PROVE Pool!OpenDir(w) => PP!OpenDir(w)
  BY Zenon DEF Pool!OpenDir, Pool!Goto, Pool!sharedVars, Pool!sweepVars, PP!OpenDir, PP!Goto,
               PP!sharedVars, PP!sweepVars
<1>4. ASSUME NEW w \in Workers PROVE Pool!FinishLeaf(w) => PP!FinishLeaf(w)
  BY Zenon DEF Pool!FinishLeaf, Pool!Goto, Pool!Release, Pool!sweepVars, PP!FinishLeaf, PP!Goto,
               PP!Release, PP!sweepVars
<1>5. ASSUME NEW w \in Workers PROVE Pool!AddChildren(w) => PP!AddChildren(w)
  BY Zenon DEF Pool!AddChildren, Pool!Goto, Pool!Release, Pool!Cardinality, Pool!sweepVars,
               PP!AddChildren, PP!Goto, PP!Release, PP!Cardinality, PP!sweepVars
<1>6. ASSUME NEW w \in Workers PROVE Pool!StoreDone(w) => PP!StoreDone(w)
  BY Zenon DEF Pool!StoreDone, Pool!Goto, Pool!sweepVars, Pool!readVars, PP!StoreDone, PP!Goto,
               PP!sweepVars, PP!readVars
<1>7. ASSUME NEW w \in Workers, NEW e, NEW skip
      PROVE  Pool!VisitEntry(w, e, skip) => PP!VisitEntry(w, e, skip)
  BY Zenon DEF Pool!VisitEntry, Pool!Descendable, Pool!sharedVars, Pool!sweepVars,
               PP!VisitEntry, PP!Descendable, PP!sharedVars, PP!sweepVars
<1>8. ASSUME NEW w \in Workers, NEW c \in subDirs[w]
      PROVE  Pool!PushChild(w, c) => PP!PushChild(w, c)
  BY Zenon DEF Pool!PushChild, Pool!Goto, Pool!sweepVars, PP!PushChild, PP!Goto, PP!sweepVars
<1>9. Pool!Return => PP!Return
  BY Zenon DEF Pool!Return, Pool!sharedVars, Pool!sweepVars, Pool!readVars, Pool!Workers,
               Pool!NumThreads, PP!Return, PP!sharedVars, PP!sweepVars, PP!readVars, PP!Workers,
               PP!NumThreads
<1> QED BY <1>1, <1>2, <1>3, <1>4, <1>5, <1>6, <1>7, <1>8, <1>9, Zenon

LEMMA SameTypes == PP!TypeOK => Pool!TypeOK
BY Zenon DEF Pool!TypeOK, PP!TypeOK, Pool!Phase, PP!Phase, Pool!Workers, PP!Workers,
             Pool!NumThreads, PP!NumThreads

\* The answer of the visitor is a truth value.
JunkTyped == isJunk \in [Workers -> BOOLEAN]

LEMMA JunkIsBoolean == Spec => []JunkTyped
<1>1. Init => JunkTyped
  BY DEF Init, JunkTyped
<1>2. JunkTyped /\ [Next]_vars => JunkTyped'
  <2> SUFFICES ASSUME JunkTyped, [Next]_vars PROVE JunkTyped'
    OBVIOUS
  <2>1. ASSUME NEW w \in Workers, NEW e \in pending[w], CheckJunk(w, e) PROVE JunkTyped'
    BY <2>1 DEF CheckJunk, JunkTyped
  <2>2. ASSUME NEW w \in Workers, LeaveVisitor(w) PROVE JunkTyped'
    BY <2>2 DEF LeaveVisitor, JunkTyped
  <2>3. ASSUME UNCHANGED isJunk PROVE JunkTyped'
    BY <2>3 DEF JunkTyped
  <2> QED BY <2>1, <2>2, <2>3
      DEF Next, PoolStep, Visitor, RecordHit, RecordEntry, CountEntry, TreeFull, FlushOnDrop,
          Return, CreateMarker, DeleteMarker, Finished, visitVars, vars
<1> QED BY <1>1, <1>2, PTL DEF Spec

\* A step of the scan is a step of the pool, or the pool does not notice it.
LEMMA PoolSteps == JunkTyped /\ [Next]_vars => [PP!Next]_(PP!vars)
<1> SUFFICES ASSUME JunkTyped, [Next]_vars
             PROVE  PP!Next \/ UNCHANGED poolVars
  BY DEF poolVars, PP!vars, PP!sharedVars, PP!sweepVars, PP!readVars
<1>1. ASSUME NEW w \in Workers, PoolStep(w) PROVE PP!Next
  BY <1>1, SameSteps, SameWorkers, Zenon DEF PoolStep, PP!Next, PP!RunWorker, PP!ProcessDir
<1>2. ASSUME NEW w \in Workers, LeaveVisitor(w) PROVE PP!Next
  <2>1. /\ PP!VisitEntry(w, entry[w], isJunk[w]) /\ entry[w] \in pending[w]
        /\ isJunk[w] \in BOOLEAN
    BY <1>2, SameSteps DEF LeaveVisitor, Pool!VisitEntry, JunkTyped
  <2> QED BY <2>1, SameWorkers, Zenon DEF PP!Next, PP!RunWorker, PP!ProcessDir
<1>3. ASSUME NEW w \in Workers, Visitor(w) PROVE PP!Next \/ UNCHANGED poolVars
  BY <1>2, <1>3 DEF Visitor, CheckJunk, RecordHit, RecordEntry, CountEntry, TreeFull
<1>4. ASSUME NEW w \in Workers, FlushOnDrop(w) PROVE UNCHANGED poolVars
  BY <1>4 DEF FlushOnDrop
<1>5. CASE Return
  BY <1>5, SameSteps, Zenon DEF Return, PP!Next
<1>6. CASE CreateMarker \/ DeleteMarker \/ Finished \/ UNCHANGED vars
  BY <1>6 DEF CreateMarker, DeleteMarker, Finished, vars
<1> QED BY <1>1, <1>3, <1>4, <1>5, <1>6 DEF Next

WalkFacts == PP!PoolInv /\ PP!TaskInv /\ PP!KnownInv /\ PP!EnteredInv

LEMMA PoolFacts == Spec => []WalkFacts
<1>1. Init => PP!Init
  BY SameInit DEF Init
<1>2. Spec => PP!Spec
  BY <1>1, PoolSteps, JunkIsBoolean, PTL DEF Spec, PP!Spec
<1>3. PP!Spec => []PP!PoolInv
  BY PP!PoolInvariant, PoolAssumptions, Zenon
<1>4. PP!Spec => []PP!TaskInv
  BY PP!TasksOwned, PoolAssumptions, Zenon
<1>5. PP!Spec => []PP!KnownInv
  BY PP!KnownIsVisited, PoolAssumptions, Zenon
<1>6. PP!Spec => []PP!EnteredInv
  BY PP!EnteredAreDirs, PoolAssumptions, Zenon
<1>7. PP!PoolInv /\ PP!TaskInv /\ PP!KnownInv /\ PP!EnteredInv => WalkFacts
  BY DEF WalkFacts
<1> QED BY <1>2, <1>3, <1>4, <1>5, <1>6, <1>7, PTL

\* Outside the visitor a worker visits nothing, and it does nothing else meanwhile.
LEMMA PoolStepKeeps ==
  ASSUME WalkFacts, NEW w \in Workers, PoolStep(w)
  PROVE  /\ UNCHANGED <<yields, visited, returned>>
         /\ PP!Accepted' \subseteq PP!Accepted
         /\ \A v \in Workers : pc[v] = "visit" /\ pending[v] # {}
              => pc'[v] = "visit" /\ pending'[v] = pending[v]
         /\ \A v \in Workers : pc[v] = "exit" => pc'[v] = "exit"
<1> DEFINE Keeps ==
      /\ UNCHANGED <<yields, visited, returned>>
      /\ \A v \in Workers : pc[v] = "visit" /\ pending[v] # {}
           => pc'[v] = "visit" /\ pending'[v] = pending[v]
      /\ \A v \in Workers : pc[v] = "exit" => pc'[v] = "exit"
<1>1. pc \in [Workers -> PP!Phase] /\ pending \in [Workers -> SUBSET Path]
  BY SameWorkers DEF WalkFacts, PP!PoolInv, PP!TypeOK
<1>2. Keeps
  <2>1. CASE Pool!FindTask(w)
    BY <1>1, <2>1
    DEF Pool!FindTask, Pool!PopOwn, Pool!OwnEmpty, Pool!StealInjected, Pool!InjectorEmpty,
        Pool!StealFrom, Pool!StealMissed, Pool!Hold, Pool!Goto, Pool!readVars
  <2>2. CASE Pool!CheckDone(w) \/ Pool!OpenDir(w) \/ Pool!StoreDone(w)
    BY <1>1, <2>2 DEF Pool!CheckDone, Pool!OpenDir, Pool!StoreDone, Pool!Goto, Pool!readVars
  <2>3. CASE Pool!FinishLeaf(w) \/ Pool!AddChildren(w)
    BY <1>1, <2>3 DEF Pool!FinishLeaf, Pool!AddChildren, Pool!Release, Pool!Goto
  <2>4. ASSUME NEW child \in subDirs[w], Pool!PushChild(w, child) PROVE Keeps
    BY <1>1, <2>4 DEF Pool!PushChild, Pool!Goto
  <2> QED BY <2>1, <2>2, <2>3, <2>4 DEF PoolStep
<1>3. PP!RunWorker(w)
  BY SameSteps, SameWorkers, Zenon DEF PoolStep, PP!RunWorker, PP!ProcessDir
<1>4. ASSUME NEW e \in pending[w], NEW skip \in BOOLEAN, PP!VisitEntry(w, e, skip) PROVE FALSE
  <2>1. w \in PP!Visiting /\ visited' = visited \cup {e}
    BY <1>4, SameWorkers DEF PP!VisitEntry, PP!Visiting
  <2>2. e \notin visited
    BY <2>1, PoolAssumptions, PP!PendingFresh, Zenon DEF WalkFacts
  <2> QED BY <1>2, <2>1, <2>2
<1>5. PP!Accepted' \subseteq PP!Accepted
  <2>1. w \in PP!Workers
    BY SameWorkers
  <2>2. \A e \in pending[w] : \A skip \in BOOLEAN : ~PP!VisitEntry(w, e, skip)
    BY <1>4
  <2>3. PP!RunWorker(w) /\ (\A e \in pending[w] : \A skip \in BOOLEAN : ~PP!VisitEntry(w, e, skip))
          => PP!Accepted' \subseteq PP!Accepted
    BY <2>1, PoolAssumptions, PP!AcceptedGrows, Zenon DEF WalkFacts
  <2> QED BY <1>3, <2>2, <2>3
<1> QED BY <1>2, <1>5

\* The entry of a visitor is new and known to this worker only; its directory is known.
LEMMA PendingEntry ==
  ASSUME WalkFacts, NEW w \in Workers, pc[w] = "visit", NEW e \in pending[w]
  PROVE  /\ e \in Path \ visited /\ e \notin PP!Accepted
         /\ e # <<>> /\ Parent(e) = dir[w] /\ dir[w] \in Path
         /\ Parent(e) = <<>> \/ Parent(e) \in visited
         /\ \A v \in Workers : pc[v] = "visit" /\ e \in pending[v] => v = w
<1>1. w \in PP!Visiting /\ \A v \in Workers : pc[v] = "visit" => v \in PP!Visiting
  BY SameWorkers DEF PP!Visiting
<1>2. /\ e \in Path /\ e \notin visited /\ e \notin PP!Accepted
      /\ e \in yields[dir[w]] /\ dir[w] \in opened
      /\ \A v \in PP!Visiting : e \in pending[v] => v = w
  BY <1>1, PoolAssumptions, PP!PendingFresh, Zenon DEF WalkFacts
<1>3. opened \subseteq Path /\ yields \in Listings
  BY DEF WalkFacts, PP!PoolInv, PP!TypeOK
<1>4. e # <<>> /\ Parent(e) = dir[w]
  BY <1>2, <1>3, ListingAssumption
<1>5. PP!InSeq(<< <<>> >>) = {<<>>}
  BY DEF PP!InSeq
<1>6. dir[w] = <<>> \/ dir[w] \in visited
  BY <1>2, <1>5 DEF WalkFacts, PP!KnownInv
<1> QED BY <1>1, <1>2, <1>3, <1>4, <1>6

-----------------------------------------------------------------------------
(* Types                                                                   *)

Working(w) == step[w] \in {"hit", "tree", "count"}

\* A worker in its visitor still has the entry pending.
ScanTypeInv ==
  /\ present \subseteq existed /\ existed \subseteq Beside
  /\ calm \in BOOLEAN
  /\ step \in [Workers -> {"free", "hit", "tree", "count", "dropped"}]
  /\ entry \in [Workers -> Path \cup {NoDir}]
  /\ JunkTyped
  /\ hits \in [Workers -> Seq(Hit)]
  /\ tree \in [Workers -> Seq(Entry)]
  /\ treeCount \in Nat
  /\ allLocals \in Seq([hits : Seq(Hit), tree : Seq(Entry)])
  /\ DOMAIN result = {"hits", "tree"}
  /\ \A w \in Workers : Working(w) => pc[w] = "visit" /\ entry[w] \in pending[w]
  /\ \A w \in Workers : step[w] = "hit" => isJunk[w]

Labels == {Patterns[i].ecosystem : i \in DOMAIN Patterns} \cup {NoLabel}

\* The label is that of a pattern that matches and is not missed, and none if there is none.
LEMMA MatchType ==
  ASSUME NEW e, NEW missed
  PROVE  /\ MatchJunk(e, missed) \in Labels
         /\ MatchJunk(e, missed) = NoLabel => Matches(present, e) \ missed = {}
         /\ MatchJunk(e, missed) # NoLabel
              => \E i \in Matches(present, e) \ missed : MatchJunk(e, missed) = Patterns[i].ecosystem
<1> DEFINE found == Matches(present, e) \ missed
<1>1. MatchJunk(e, missed) = IF found = {} THEN NoLabel ELSE Patterns[Min(found)].ecosystem
  BY DEF MatchJunk
<1>2. found \subseteq DOMAIN Patterns /\ found \in SUBSET Nat
  BY PatternAssumption DEF Matches, Named
<1> HIDE DEF found
<1>3. ASSUME found # {} PROVE Min(found) \in found
  <2>1. \E n \in found : \A k \in found : n <= k
    BY <1>2, <1>3, LeastNumber
  <2> QED BY <2>1, Zenon DEF Min
<1>4. \A i \in DOMAIN Patterns : Patterns[i].ecosystem # NoLabel
  BY PatternAssumption
<1>5. /\ MatchJunk(e, missed) \in Labels
      /\ MatchJunk(e, missed) = NoLabel => found = {}
      /\ MatchJunk(e, missed) # NoLabel
           => \E i \in found : MatchJunk(e, missed) = Patterns[i].ecosystem
  BY <1>1, <1>2, <1>3, <1>4 DEF Labels
<1> QED BY <1>5 DEF found

\* The visitor records its entry with what the second question answers.
LEMMA HitStep ==
  ASSUME NEW w \in Workers, RecordHit(w)
  PROVE  /\ \E label \in Labels : hits' = [hits EXCEPT ![w] = Append(@, NewHit(entry[w], label))]
         /\ step[w] = "hit" /\ step' = [step EXCEPT ![w] = "tree"]
         /\ UNCHANGED <<poolVars, present, existed, entry, isJunk, tree, treeCount, allLocals, result>>
<1>1. PICK missed \in Misses(entry[w]) :
        hits' = [hits EXCEPT ![w] = Append(@, NewHit(entry[w], MatchJunk(entry[w], missed)))]
  BY DEF RecordHit
<1> QED BY <1>1, MatchType DEF RecordHit

LEMMA RecordTypes ==
  ASSUME NEW e \in Path, NEW junk \in BOOLEAN
  PROVE  (\A label \in Labels : NewHit(e, label) \in Hit) /\ TreeEntry(e, junk) \in Entry
<1>1. \A label \in Labels : NewHit(e, label) \in Hit
  BY DEF NewHit, Hit, Labels
<1>2. Kind[e] \in Pool!EntryKind /\ Size[e] \in Nat /\ Len(e) \in Nat
  BY PoolAssumption, SizeAssumption, LenProperties DEF Pool!PathsOK
<1> QED BY <1>1, <1>2 DEF TreeEntry, Entry

\* A worker in its visitor, and so not at any of the other steps of the pool.
LEMMA StillWorking ==
  ASSUME ScanTypeInv, UNCHANGED <<step, entry, isJunk>>,
         \A v \in Workers : pc[v] = "visit" /\ pending[v] # {}
           => pc'[v] = "visit" /\ pending'[v] = pending[v]
  PROVE  \A w \in Workers : Working(w)' => pc'[w] = "visit" /\ entry'[w] \in pending'[w]
BY DEF ScanTypeInv, Working

LEMMA InitialTypes == Init => ScanTypeInv
<1> SUFFICES ASSUME Init PROVE ScanTypeInv
  OBVIOUS
<1>1. <<>> \in Seq(Hit) /\ <<>> \in Seq(Entry) /\ <<>> \in Seq([hits : Seq(Hit), tree : Seq(Entry)])
  BY EmptySeq
<1>2. hits \in [Workers -> Seq(Hit)] /\ tree \in [Workers -> Seq(Entry)]
  BY <1>1 DEF Init
<1> QED BY <1>1, <1>2, MarkerAssumption DEF Init, ScanTypeInv, JunkTyped, Working

LEMMA TypesStep == WalkFacts /\ ScanTypeInv /\ [Next]_vars => ScanTypeInv'
<1> SUFFICES ASSUME WalkFacts, ScanTypeInv, [Next]_vars PROVE ScanTypeInv'
  OBVIOUS
<1>1. ASSUME NEW w \in Workers, PoolStep(w) PROVE ScanTypeInv'
  <2>1. \A v \in Workers : Working(v)' => pc'[v] = "visit" /\ entry'[v] \in pending'[v]
    BY <1>1, PoolStepKeeps, StillWorking DEF PoolStep, visitVars
  <2> QED BY <1>1, <2>1 DEF PoolStep, fileVars, visitVars, scanVars, ScanTypeInv, JunkTyped
<1>2. ASSUME NEW w \in Workers, NEW e \in pending[w], CheckJunk(w, e) PROVE ScanTypeInv'
  <2>1. e \in Path
    BY <1>2, PendingEntry DEF CheckJunk
  <2>2. PICK junk \in BOOLEAN : /\ isJunk' = [isJunk EXCEPT ![w] = junk]
                                /\ step' = [step EXCEPT ![w] = IF junk THEN "hit" ELSE "tree"]
    BY <1>2, Zenon DEF CheckJunk
  <2>3. /\ pc[w] = "visit" /\ entry' = [entry EXCEPT ![w] = e]
        /\ UNCHANGED <<poolVars, present, existed, scanVars>> /\ calm' \in BOOLEAN
    BY <1>2 DEF CheckJunk
  <2> QED BY <2>1, <2>2, <2>3 DEF poolVars, scanVars, ScanTypeInv, JunkTyped, Working
<1>3. ASSUME NEW w \in Workers, RecordHit(w) PROVE ScanTypeInv'
  <2>1. entry[w] \in Path
    BY <1>3, PendingEntry DEF RecordHit, ScanTypeInv, Working
  <2>2. PICK x \in Hit : hits' = [hits EXCEPT ![w] = Append(@, x)]
    BY <1>3, <2>1, HitStep, RecordTypes
  <2>3. Append(hits[w], x) \in Seq(Hit)
    BY <2>2, AppendProperties DEF ScanTypeInv
  <2>4. hits' \in [Workers -> Seq(Hit)]
    BY <2>2, <2>3 DEF ScanTypeInv
  <2>5. step' = [step EXCEPT ![w] = "tree"] /\ step[w] = "hit"
        /\ UNCHANGED <<poolVars, present, existed, entry, isJunk, tree, treeCount, allLocals, result>>
        /\ calm' \in BOOLEAN
    BY <1>3 DEF RecordHit
  <2> QED BY <2>4, <2>5 DEF poolVars, fileVars, ScanTypeInv, JunkTyped, Working
<1>4. ASSUME NEW w \in Workers, RecordEntry(w) PROVE ScanTypeInv'
  <2>1. entry[w] \in Path
    BY <1>4, PendingEntry DEF RecordEntry, ScanTypeInv, Working
  <2>2. PICK t \in Entry : tree' = [tree EXCEPT ![w] = Append(@, t)]
    BY <1>4, <2>1, RecordTypes DEF RecordEntry, ScanTypeInv, JunkTyped
  <2>3. Append(tree[w], t) \in Seq(Entry)
    BY <2>2, AppendProperties DEF ScanTypeInv
  <2>4. tree' \in [Workers -> Seq(Entry)]
    BY <2>2, <2>3 DEF ScanTypeInv
  <2>5. step' = [step EXCEPT ![w] = "count"] /\ step[w] = "tree"
        /\ UNCHANGED <<poolVars, fileVars, entry, isJunk, hits, treeCount, allLocals, result>>
    BY <1>4 DEF RecordEntry
  <2> QED BY <2>4, <2>5 DEF poolVars, fileVars, ScanTypeInv, JunkTyped, Working
<1>5. ASSUME NEW w \in Workers, CountEntry(w) \/ TreeFull(w) PROVE ScanTypeInv'
  <2>1. /\ Working(w) /\ treeCount' \in Nat
        /\ step' = [step EXCEPT ![w] = "free"] /\ entry' = [entry EXCEPT ![w] = NoDir]
        /\ isJunk' = [isJunk EXCEPT ![w] = FALSE]
        /\ UNCHANGED <<fileVars, hits, tree, allLocals, result, pc>>
        /\ pending' = [pending EXCEPT ![w] = @ \ {entry[w]}]
    BY <1>5 DEF CountEntry, TreeFull, LeaveVisitor, Pool!VisitEntry, Working, ScanTypeInv
  <2>2. \A v \in Workers : v # w => pending'[v] = pending[v]
    BY <2>1 DEF WalkFacts, PP!PoolInv, PP!TypeOK
  <2> QED BY <2>1, <2>2 DEF fileVars, ScanTypeInv, JunkTyped, Working
<1>6. ASSUME NEW w \in Workers, FlushOnDrop(w) PROVE ScanTypeInv'
  <2>1. allLocals' \in Seq([hits : Seq(Hit), tree : Seq(Entry)])
    <3>1. [hits |-> hits[w], tree |-> tree[w]] \in [hits : Seq(Hit), tree : Seq(Entry)]
      BY DEF ScanTypeInv
    <3> QED BY <1>6, <3>1, AppendProperties DEF FlushOnDrop, ScanTypeInv
  <2>2. /\ step' = [step EXCEPT ![w] = "dropped"]
        /\ UNCHANGED <<poolVars, fileVars, entry, isJunk, hits, tree, treeCount, result>>
    BY <1>6 DEF FlushOnDrop
  <2> QED BY <2>1, <2>2 DEF poolVars, fileVars, ScanTypeInv, JunkTyped, Working
<1>7. CASE Return
  <2>1. /\ UNCHANGED <<pc, pending, fileVars, visitVars, hits, tree, treeCount, allLocals>>
        /\ DOMAIN result' = {"hits", "tree"}
    BY <1>7 DEF Return, Pool!Return, Pool!readVars
  <2> QED BY <2>1 DEF fileVars, visitVars, ScanTypeInv, JunkTyped, Working
<1>8. CASE CreateMarker \/ DeleteMarker
  <2>1. present' \subseteq existed' /\ existed' \subseteq Beside /\ calm' \in BOOLEAN
    BY <1>8 DEF CreateMarker, DeleteMarker, ScanTypeInv
  <2>2. UNCHANGED <<poolVars, visitVars, scanVars>>
    BY <1>8 DEF CreateMarker, DeleteMarker
  <2> QED BY <2>1, <2>2 DEF poolVars, visitVars, scanVars, ScanTypeInv, JunkTyped, Working
<1>9. CASE Finished \/ UNCHANGED vars
  BY <1>9 DEF Finished, vars, poolVars, fileVars, visitVars, scanVars, ScanTypeInv, JunkTyped, Working
<1> QED BY <1>1, <1>2, <1>3, <1>4, <1>5, <1>6, <1>7, <1>8, <1>9 DEF Next, Visitor
-----------------------------------------------------------------------------
(* The records                                                             *)

Judged(w) == step[w] \in {"tree", "count"}

\* A hit has been visited, or its visitor has not answered yet; no hit is ever accepted
\* for descent.  The same for the tree; and until the cap is reached it has everything.
HitsKnown ==
  \A h \in Found :
    /\ h.path \notin PP!Accepted
    /\ h.path \in visited \/ \E w \in Workers : Judged(w) /\ isJunk[w] /\ entry[w] = h.path

TreeKnown ==
  \A t \in Recorded :
    t.path \in visited \/ \E w \in Workers : step[w] = "count" /\ entry[w] = t.path

VisitorRecords ==
  \A w \in Workers :
    /\ Judged(w) /\ isJunk[w] => \E h \in Found : h.path = entry[w]
    /\ step[w] = "count" => \E t \in Recorded : t.path = entry[w]

NoneLost == treeCount < TreeMaxEntries => \A e \in visited : \E t \in Recorded : t.path = e

MarksAgree == \A t \in Recorded : t.is_junk <=> \E h \in Found : h.path = t.path

RecordInv ==
  HitsKnown /\ TreeKnown /\ VisitorRecords /\ NoneLost /\ MarksAgree /\ AncestorsRecorded

LEMMA QuietAccepted == UNCHANGED poolVars => PP!Accepted' = PP!Accepted
BY DEF poolVars, PP!Accepted, PP!InFlight, PP!TasksOf, PP!Reading, PP!Visiting, PP!InSeq

\* In a step that records nothing and visits nothing, a visitor may be entered.
LEMMA RecordsKept ==
  ASSUME RecordInv, UNCHANGED <<visited, hits, tree, treeCount>>, PP!Accepted' \subseteq PP!Accepted,
         \A w \in Workers : \/ UNCHANGED <<step[w], entry[w], isJunk[w]>>
                            \/ /\ ~Judged(w) /\ step'[w] # "count"
                               /\ step'[w] = "tree" => ~isJunk'[w]
  PROVE  RecordInv'
<1>1. UNCHANGED <<Found, Recorded>>
  BY DEF Found, Recorded
<1>2. \A w \in Workers :
        /\ Judged(w) => UNCHANGED <<step[w], entry[w], isJunk[w], Judged(w)>>
        /\ Judged(w)' /\ isJunk'[w] => UNCHANGED <<step[w], entry[w], isJunk[w], Judged(w)>>
        /\ step'[w] = "count" => UNCHANGED <<step[w], entry[w]>>
  BY DEF Judged
<1>3. HitsKnown'
  BY <1>1, <1>2 DEF RecordInv, HitsKnown
<1>4. TreeKnown'
  BY <1>1, <1>2 DEF RecordInv, TreeKnown, Judged
<1>5. VisitorRecords'
  BY <1>1, <1>2 DEF RecordInv, VisitorRecords
<1>6. NoneLost' /\ MarksAgree' /\ AncestorsRecorded'
  BY <1>1 DEF RecordInv, NoneLost, MarksAgree, AncestorsRecorded
<1> QED BY <1>3, <1>4, <1>5, <1>6 DEF RecordInv

\* The entry of a visitor is not that of another one, and nobody has recorded it.
LEMMA VisitorEntry ==
  ASSUME WalkFacts, ScanTypeInv, NEW w \in Workers, Working(w)
  PROVE  /\ pc[w] = "visit" /\ entry[w] \in pending[w]
         /\ entry[w] \in Path \ visited /\ entry[w] \notin PP!Accepted
         /\ entry[w] # <<>>
         /\ Parent(entry[w]) = <<>> \/ Parent(entry[w]) \in visited
         /\ \A v \in Workers : Working(v) /\ entry[v] = entry[w] => v = w
<1>1. \A v \in Workers : Working(v) => pc[v] = "visit" /\ entry[v] \in pending[v]
  BY DEF ScanTypeInv
<1> QED BY <1>1, PendingEntry

LEMMA HitRecords ==
  ASSUME WalkFacts, ScanTypeInv, RecordInv, NEW w \in Workers, RecordHit(w)
  PROVE  RecordInv'
<1> DEFINE e == entry[w]
<1>0. PICK label \in Labels : hits' = [hits EXCEPT ![w] = Append(@, NewHit(e, label))]
  BY HitStep
<1>1. /\ step[w] = "hit" /\ step' = [step EXCEPT ![w] = "tree"] /\ isJunk[w]
      /\ UNCHANGED <<visited, entry, isJunk, tree, treeCount>> /\ UNCHANGED poolVars
  BY HitStep DEF poolVars, ScanTypeInv
<1>2. e \in Path \ visited /\ e \notin PP!Accepted /\ \A v \in Workers : Working(v) /\ entry[v] = e => v = w
  BY <1>1, VisitorEntry DEF Working
<1>3. Found' = Found \cup {NewHit(e, label)} /\ NewHit(e, label).path = e /\ Recorded' = Recorded
  <2>1. hits \in [Workers -> Seq(Hit)]
    BY DEF ScanTypeInv
  <2>2. PICK x : x = NewHit(e, label)
    OBVIOUS
  <2>3. hits' = [hits EXCEPT ![w] = Append(@, x)]
    BY <1>0, <2>2
  <2>4. Found' = Found \cup {x}
    <3>1. hits[w] \in Seq(Hit) /\ hits'[w] = Append(hits[w], x)
          /\ \A v \in Workers : v # w => hits'[v] = hits[v]
      BY <2>1, <2>3
    <3>2. ToSet(hits'[w]) = ToSet(hits[w]) \cup {x}
      BY <3>1, AppendedToSet
    <3>3. Found = UNION {ToSet(hits[v]) : v \in Workers} /\ Found' = UNION {ToSet(hits'[v]) : v \in Workers}
      BY DEF Found
    <3> QED BY <3>1, <3>2, <3>3
  <2>5. NewHit(e, label).path = e /\ Recorded' = Recorded
    BY <1>1 DEF NewHit, Recorded
  <2> QED BY <2>2, <2>4, <2>5
<1>4. /\ step'[w] = "tree" /\ Judged(w)' /\ ~Judged(w)
      /\ \A v \in Workers : v # w => step'[v] = step[v] /\ Judged(v)' = Judged(v)
  BY <1>1 DEF ScanTypeInv, Judged
<1>5. PP!Accepted' = PP!Accepted
  BY <1>1, QuietAccepted
<1> HIDE DEF e
<1>6. HitsKnown'
  BY <1>1, <1>2, <1>3, <1>4, <1>5 DEF RecordInv, HitsKnown, e
<1>7. TreeKnown' /\ NoneLost' /\ AncestorsRecorded'
  BY <1>1, <1>3, <1>4 DEF RecordInv, TreeKnown, NoneLost, AncestorsRecorded
<1>8. VisitorRecords'
  BY <1>1, <1>3, <1>4 DEF RecordInv, VisitorRecords, e
<1>9. \A t \in Recorded : t.path # e
  BY <1>1, <1>2 DEF RecordInv, TreeKnown, Working
<1>10. MarksAgree'
  BY <1>3, <1>9 DEF RecordInv, MarksAgree
<1> QED BY <1>6, <1>7, <1>8, <1>10 DEF RecordInv
LEMMA EntryRecords ==
  ASSUME WalkFacts, ScanTypeInv, RecordInv, NEW w \in Workers, RecordEntry(w)
  PROVE  RecordInv'
<1> DEFINE e == entry[w]
<1>1. /\ step[w] = "tree" /\ step' = [step EXCEPT ![w] = "count"] /\ treeCount < TreeMaxEntries
      /\ tree' = [tree EXCEPT ![w] = Append(@, TreeEntry(e, isJunk[w]))]
      /\ UNCHANGED <<visited, entry, isJunk, hits, treeCount>> /\ UNCHANGED poolVars
  BY DEF RecordEntry, poolVars
<1>2. /\ e \in Path \ visited /\ e # <<>>
      /\ \A v \in Workers : Working(v) /\ entry[v] = e => v = w
      /\ Parent(e) = <<>> \/ Parent(e) \in visited
  BY <1>1, VisitorEntry DEF Working
<1>3. PICK x : x = TreeEntry(e, isJunk[w])
  OBVIOUS
<1>4. x.path = e /\ x.is_junk = isJunk[w]
  BY <1>3 DEF TreeEntry
<1>5. Recorded' = Recorded \cup {x} /\ Found' = Found
  <2>1. tree \in [Workers -> Seq(Entry)] /\ tree' = [tree EXCEPT ![w] = Append(@, x)]
    BY <1>1, <1>3 DEF ScanTypeInv
  <2>2. Recorded' = Recorded \cup {x}
    <3>1. tree[w] \in Seq(Entry) /\ tree'[w] = Append(tree[w], x)
          /\ \A v \in Workers : v # w => tree'[v] = tree[v]
      BY <2>1
    <3>2. ToSet(tree'[w]) = ToSet(tree[w]) \cup {x}
      BY <3>1, AppendedToSet
    <3>3. Recorded = UNION {ToSet(tree[v]) : v \in Workers} /\ Recorded' = UNION {ToSet(tree'[v]) : v \in Workers}
      BY DEF Recorded
    <3> QED BY <3>1, <3>2, <3>3
  <2> QED BY <1>1, <2>2 DEF Found
<1>6. /\ step'[w] = "count" /\ Judged(w) /\ Judged(w)' /\ Working(w)
      /\ \A v \in Workers : v # w => step'[v] = step[v]
      /\ \A v \in Workers : Judged(v)' <=> Judged(v)
      /\ \A v \in Workers : Judged(v) => Working(v)
  BY <1>1 DEF ScanTypeInv, Judged, Working
<1>7. PP!Accepted' = PP!Accepted
  BY <1>1, QuietAccepted
<1> HIDE DEF e
<1>8. HitsKnown'
  BY <1>1, <1>5, <1>6, <1>7 DEF RecordInv, HitsKnown
<1>9. TreeKnown'
  BY <1>1, <1>4, <1>5, <1>6 DEF RecordInv, TreeKnown, e
<1>10. VisitorRecords'
  BY <1>1, <1>4, <1>5, <1>6 DEF RecordInv, VisitorRecords, e
<1>11. NoneLost'
  BY <1>1, <1>5 DEF RecordInv, NoneLost
<1>12. MarksAgree'
  <2>1. isJunk[w] <=> \E h \in Found : h.path = e
    <3>1. ASSUME isJunk[w] PROVE \E h \in Found : h.path = e
      BY <1>6, <3>1 DEF RecordInv, VisitorRecords, e
    <3>2. ASSUME NEW h \in Found, h.path = e PROVE isJunk[w]
      BY <1>2, <1>6, <3>2 DEF RecordInv, HitsKnown
    <3> QED BY <3>1, <3>2
  <2>2. x.is_junk <=> \E h \in Found : h.path = x.path
    BY <1>4, <2>1
  <2> QED BY <1>5, <2>2 DEF RecordInv, MarksAgree
<1>13. AncestorsRecorded'
  <2>1. Len(e) > 1 => \E d \in Recorded : d.path = Parent(e)
    <3> SUFFICES ASSUME Len(e) > 1 PROVE \E d \in Recorded : d.path = Parent(e)
      OBVIOUS
    <3>1. Len(Parent(e)) + 1 = Len(e) /\ Len(<<>>) = 0
      BY <1>2, SizeAssumption, ParentBelowRoot
    <3>2. Parent(e) \in visited
      BY <1>2, <3>1
    <3> QED BY <1>1, <3>2 DEF RecordInv, NoneLost
  <2> QED BY <1>4, <1>5, <2>1 DEF RecordInv, AncestorsRecorded
<1> QED BY <1>8, <1>9, <1>10, <1>11, <1>12, <1>13 DEF RecordInv

LEMMA LeaveRecords ==
  ASSUME WalkFacts, ScanTypeInv, RecordInv, NEW w \in Workers, CountEntry(w) \/ TreeFull(w)
  PROVE  RecordInv'
<1> DEFINE e == entry[w]
<1>1. /\ Judged(w) /\ Working(w)
      /\ step' = [step EXCEPT ![w] = "free"] /\ entry' = [entry EXCEPT ![w] = NoDir]
      /\ isJunk' = [isJunk EXCEPT ![w] = FALSE]
      /\ UNCHANGED <<hits, tree>> /\ visited' = visited \cup {e}
      /\ Pool!VisitEntry(w, e, isJunk[w])
  BY DEF CountEntry, TreeFull, LeaveVisitor, Pool!VisitEntry, Judged, Working
<1>2. e \in pending[w] /\ e \notin PP!Accepted
  BY <1>1, VisitorEntry
<1>3. PP!Accepted' \subseteq PP!Accepted \cup PP!Granted(e, isJunk[w])
  <2>1. PP!VisitEntry(w, e, isJunk[w]) /\ isJunk[w] \in BOOLEAN /\ w \in PP!Workers
    BY <1>1, SameSteps, SameWorkers, Zenon DEF ScanTypeInv, JunkTyped
  <2>2. \A x \in pending[w] : \A skip \in BOOLEAN : PP!VisitEntry(w, x, skip)
              => PP!Accepted' \subseteq PP!Accepted \cup PP!Granted(x, skip)
    BY <2>1, PoolAssumptions, PP!AcceptedGrows, Zenon DEF WalkFacts
  <2> QED BY <1>2, <2>1, <2>2
<1>4. UNCHANGED <<Found, Recorded>>
  BY <1>1 DEF Found, Recorded
<1>5. /\ ~Judged(w)' /\ step'[w] # "count"
      /\ \A v \in Workers : v # w => UNCHANGED <<step[v], entry[v], isJunk[v], Judged(v)>>
  BY <1>1 DEF ScanTypeInv, JunkTyped, Judged
<1>6. \A v \in Workers : Judged(v) /\ entry[v] = e => v = w
  BY <1>1, VisitorEntry DEF Judged, Working
<1>7. /\ \A v \in Workers : step[v] = "count" => Judged(v)
      /\ treeCount' < TreeMaxEntries => step[w] = "count" /\ treeCount < TreeMaxEntries
  BY CapAssumption DEF CountEntry, TreeFull, ScanTypeInv, Judged
<1>8. HitsKnown'
  <2> SUFFICES ASSUME NEW h \in Found
               PROVE  /\ h.path \notin PP!Accepted'
                      /\ \/ h.path \in visited'
                         \/ \E v \in Workers : Judged(v)' /\ isJunk'[v] /\ entry'[v] = h.path
    BY <1>4 DEF HitsKnown
  <2>1. /\ h.path \notin PP!Accepted
        /\ h.path \in visited \/ \E v \in Workers : Judged(v) /\ isJunk[v] /\ entry[v] = h.path
    BY DEF RecordInv, HitsKnown
  <2>2. h.path = e => isJunk[w]
    BY <1>1, <1>6, <2>1, VisitorEntry
  <2>3. h.path \notin PP!Accepted'
    BY <1>3, <2>1, <2>2 DEF PP!Granted
  <2>4. h.path \in visited' \/ \E v \in Workers : Judged(v)' /\ isJunk'[v] /\ entry'[v] = h.path
    BY <1>1, <1>5, <2>1
  <2> QED BY <2>3, <2>4
<1>9. TreeKnown'
  BY <1>1, <1>4, <1>5 DEF RecordInv, TreeKnown
<1>10. VisitorRecords'
  BY <1>4, <1>5 DEF RecordInv, VisitorRecords
<1>11. NoneLost'
  BY <1>1, <1>4, <1>7 DEF RecordInv, NoneLost, VisitorRecords
<1>12. MarksAgree' /\ AncestorsRecorded'
  BY <1>4 DEF RecordInv, MarksAgree, AncestorsRecorded
<1> QED BY <1>8, <1>9, <1>10, <1>11, <1>12 DEF RecordInv

LEMMA InitialRecords == Init => RecordInv
<1> SUFFICES ASSUME Init PROVE RecordInv
  OBVIOUS
<1>1. \A w \in Workers : hits[w] = <<>> /\ tree[w] = <<>> /\ step[w] = "free"
  BY DEF Init
<1>2. ToSet(<<>>) = {}
  BY DEF ToSet
<1>3. Found = {} /\ Recorded = {}
  BY <1>1, <1>2 DEF Found, Recorded
<1>4. visited = {}
  BY DEF Init, Pool!Init
<1> QED BY <1>1, <1>3, <1>4
    DEF RecordInv, HitsKnown, TreeKnown, VisitorRecords, NoneLost, MarksAgree,
        AncestorsRecorded, Judged

LEMMA RecordsStep == WalkFacts /\ ScanTypeInv /\ RecordInv /\ [Next]_vars => RecordInv'
<1> SUFFICES ASSUME WalkFacts, ScanTypeInv, RecordInv, [Next]_vars PROVE RecordInv'
  OBVIOUS
<1>1. ASSUME NEW w \in Workers, PoolStep(w) PROVE RecordInv'
  BY <1>1, PoolStepKeeps, RecordsKept DEF PoolStep, visitVars, scanVars
<1>2. ASSUME NEW w \in Workers, NEW e \in pending[w], CheckJunk(w, e) PROVE RecordInv'
  <2>1. UNCHANGED <<visited, hits, tree, treeCount>> /\ PP!Accepted' = PP!Accepted
    BY <1>2, QuietAccepted DEF CheckJunk, poolVars, scanVars
  <2>2. PICK junk \in BOOLEAN : /\ isJunk' = [isJunk EXCEPT ![w] = junk]
                                /\ step' = [step EXCEPT ![w] = IF junk THEN "hit" ELSE "tree"]
    BY <1>2, Zenon DEF CheckJunk
  <2>3. entry' = [entry EXCEPT ![w] = e] /\ step[w] = "free"
    BY <1>2 DEF CheckJunk
  <2>4. /\ ~Judged(w) /\ step'[w] # "count" /\ (step'[w] = "tree" => ~isJunk'[w])
        /\ \A v \in Workers : v # w => UNCHANGED <<step[v], entry[v], isJunk[v]>>
    BY <2>2, <2>3 DEF ScanTypeInv, JunkTyped, Judged
  <2>5. \A v \in Workers : \/ UNCHANGED <<step[v], entry[v], isJunk[v]>>
                           \/ /\ ~Judged(v) /\ step'[v] # "count"
                              /\ step'[v] = "tree" => ~isJunk'[v]
    BY <2>4, Zenon
  <2> QED BY <2>1, <2>5, RecordsKept
<1>3. ASSUME NEW w \in Workers, FlushOnDrop(w) PROVE RecordInv'
  <2>1. UNCHANGED <<visited, hits, tree, treeCount>> /\ PP!Accepted' = PP!Accepted
    BY <1>3, QuietAccepted DEF FlushOnDrop, poolVars
  <2>2. /\ pc[w] = "exit" /\ step' = [step EXCEPT ![w] = "dropped"]
        /\ UNCHANGED <<entry, isJunk>>
    BY <1>3 DEF FlushOnDrop
  <2>3. /\ ~Judged(w) /\ step'[w] = "dropped"
        /\ \A v \in Workers : v # w => UNCHANGED <<step[v], entry[v], isJunk[v]>>
    BY <2>2 DEF ScanTypeInv, Judged, Working
  <2> QED BY <2>1, <2>3, RecordsKept
<1>4. CASE Return
  <2>1. /\ UNCHANGED <<visited, hits, tree, treeCount, step, entry, isJunk>>
        /\ UNCHANGED <<injector, deque, pc, dir, subDirs, opened>>
    BY <1>4 DEF Return, Pool!Return, Pool!sharedVars, Pool!readVars, visitVars
  <2>2. PP!Accepted' = PP!Accepted
    BY <2>1 DEF PP!Accepted, PP!InFlight, PP!TasksOf, PP!Reading, PP!Visiting, PP!InSeq
  <2> QED BY <2>1, <2>2, RecordsKept
<1>5. CASE CreateMarker \/ DeleteMarker \/ Finished \/ UNCHANGED vars
  <2>1. UNCHANGED poolVars /\ UNCHANGED <<visited, hits, tree, treeCount, step, entry, isJunk>>
    BY <1>5 DEF CreateMarker, DeleteMarker, Finished, vars, poolVars, visitVars, scanVars
  <2> QED BY <2>1, QuietAccepted, RecordsKept
<1> QED BY <1>1, <1>2, <1>3, <1>4, <1>5, HitRecords, EntryRecords, LeaveRecords
    DEF Next, Visitor
-----------------------------------------------------------------------------
(* Labels, the cap, and what lies below a hit                              *)

\* A hit and its label are owed to a file of this or an earlier time, or to none.
Justified(h) ==
  /\ Matches(existed, h.path) # {}
  /\ IF h.ecosystem = NoLabel THEN Unmarked(h.path) = {}
     ELSE \E i \in Matches(existed, h.path) : h.ecosystem = Patterns[i].ecosystem

Labelled(h) ==
  /\ calm => h.ecosystem = MatchJunk(h.path, {}) /\ h.ecosystem # NoLabel
  /\ Justified(h)

\* The first question has found a pattern, and in a calm scan the second one finds it too.
LabelsRight ==
  /\ \A h \in Found : Labelled(h)
  /\ \A w \in Workers : step[w] = "hit" =>
       Matches(existed, entry[w]) # {} /\ (calm => Matches(present, entry[w]) # {})

\* More files satisfy more patterns.
LEMMA MoreMatches ==
  ASSUME NEW few, NEW many, few \subseteq many, NEW e
  PROVE  Matches(few, e) \subseteq Matches(many, e)
BY DEF Matches, MarkerExists

\* Files of the same past and, in a calm scan, of the same present explain the same labels.
LEMMA StillLabelled ==
  ASSUME NEW h, Labelled(h), existed \subseteq existed', calm' => calm /\ UNCHANGED present
  PROVE  Labelled(h)'
<1>1. /\ Unmarked(h.path)' = Unmarked(h.path)
      /\ Matches(existed, h.path)' = Matches(existed', h.path)
  BY DEF Matches, Unmarked, Named, MarkerExists
<1>2. Matches(existed, h.path) \subseteq Matches(existed', h.path)
  BY MoreMatches
<1>3. calm' => MatchJunk(h.path, {})' = MatchJunk(h.path, {})
  BY DEF MatchJunk, Matches, Unmarked, Named, MarkerExists
<1> QED BY <1>1, <1>2, <1>3 DEF Labelled, Justified

LEMMA LabelsKept ==
  ASSUME LabelsRight, UNCHANGED hits, existed \subseteq existed', calm' => calm /\ UNCHANGED present,
         \A w \in Workers : step'[w] = "hit" => UNCHANGED <<step[w], entry[w]>>
  PROVE  LabelsRight'
<1>1. \A h \in Found' : Labelled(h)'
  BY StillLabelled DEF LabelsRight, Found
<1>2. ASSUME NEW w \in Workers, step'[w] = "hit"
      PROVE  Matches(existed, entry[w])' # {} /\ (calm' => Matches(present, entry[w])' # {})
  <2>1. /\ Matches(existed, entry[w])' = Matches(existed', entry[w])
        /\ Matches(present, entry[w])' = Matches(present', entry[w])
    BY <1>2 DEF Matches, Unmarked, Named, MarkerExists
  <2>2. Matches(existed, entry[w]) \subseteq Matches(existed', entry[w])
    BY MoreMatches
  <2> QED BY <1>2, <2>1, <2>2 DEF LabelsRight
<1> QED BY <1>1, <1>2 DEF LabelsRight

LEMMA HitLabelled ==
  ASSUME ScanTypeInv, LabelsRight, NEW w \in Workers, RecordHit(w)
  PROVE  LabelsRight'
<1>0. PICK e : e = entry[w]
  OBVIOUS
<1>1. PICK missed \in Misses(e) :
        /\ hits' = [hits EXCEPT ![w] = Append(@, NewHit(e, MatchJunk(e, missed)))]
        /\ calm' = (calm /\ missed = {})
  BY <1>0 DEF RecordHit
<1>2. step[w] = "hit" /\ step' = [step EXCEPT ![w] = "tree"] /\ UNCHANGED <<present, existed, entry>>
  BY HitStep
<1>3. PICK x : x = NewHit(e, MatchJunk(e, missed))
  OBVIOUS
<1>4. x.path = e /\ x.ecosystem = MatchJunk(e, missed)
  BY <1>3 DEF NewHit
<1>5. Found' = Found \cup {x}
  <2>1. hits[w] \in Seq(Hit) /\ hits'[w] = Append(hits[w], x)
        /\ \A v \in Workers : v # w => hits'[v] = hits[v]
    BY <1>1, <1>3 DEF ScanTypeInv
  <2>2. ToSet(hits'[w]) = ToSet(hits[w]) \cup {x}
    BY <2>1, AppendedToSet
  <2>3. Found = UNION {ToSet(hits[v]) : v \in Workers} /\ Found' = UNION {ToSet(hits'[v]) : v \in Workers}
    BY DEF Found
  <2> QED BY <2>1, <2>2, <2>3
<1>6. Justified(x) /\ (calm /\ missed = {} => x.ecosystem # NoLabel)
  <2>1. Matches(existed, e) # {} /\ (calm => Matches(present, e) # {})
    BY <1>0, <1>2 DEF LabelsRight
  <2>2. Matches(present, e) \subseteq Matches(existed, e)
    BY MoreMatches DEF ScanTypeInv
  <2>3. Unmarked(e) \subseteq Matches(present, e) \ missed
    BY DEF Misses, Matches, Unmarked
  <2>4. CASE MatchJunk(e, missed) = NoLabel
    <3>1. Matches(present, e) \ missed = {}
      BY <2>4, MatchType
    <3> QED BY <1>4, <2>1, <2>3, <2>4, <3>1 DEF Justified
  <2>5. CASE MatchJunk(e, missed) # NoLabel
    <3>1. PICK i \in Matches(present, e) \ missed : MatchJunk(e, missed) = Patterns[i].ecosystem
      BY <2>5, MatchType
    <3> QED BY <1>4, <2>1, <2>2, <2>5, <3>1 DEF Justified
  <2> QED BY <2>4, <2>5
<1>7. Labelled(x)'
  <2>1. x.path = e /\ Unmarked(x.path)' = Unmarked(e) /\ Matches(existed, x.path)' = Matches(existed, e)
    BY <1>2, <1>4 DEF Matches, Unmarked, Named, MarkerExists
  <2>2. MatchJunk(x.path, {})' = MatchJunk(e, {})
    BY <1>2, <1>4 DEF MatchJunk, Matches, Unmarked, Named, MarkerExists
  <2>3. Justified(x)'
    BY <1>4, <1>6, <2>1 DEF Justified
  <2>4. calm' => x.ecosystem = MatchJunk(x.path, {})' /\ x.ecosystem # NoLabel
    BY <1>1, <1>4, <1>6, <2>2
  <2> QED BY <2>3, <2>4 DEF Labelled
<1>8. \A h \in Found' : Labelled(h)'
  <2>1. \A h \in Found : Labelled(h)'
    BY <1>1, <1>2, StillLabelled DEF LabelsRight
  <2> QED BY <1>5, <1>7, <2>1
<1>9. \A v \in Workers : step'[v] = "hit" =>
        Matches(existed, entry[v])' # {} /\ (calm' => Matches(present, entry[v])' # {})
  <2>1. \A v \in Workers : step'[v] = "hit" => step[v] = "hit"
    BY <1>2 DEF ScanTypeInv
  <2>2. \A v \in Workers : /\ Matches(existed, entry[v])' = Matches(existed, entry[v])
                           /\ Matches(present, entry[v])' = Matches(present, entry[v])
    BY <1>2 DEF Matches, Unmarked, Named, MarkerExists
  <2> QED BY <1>1, <2>1, <2>2 DEF LabelsRight
<1> QED BY <1>8, <1>9 DEF LabelsRight

LEMMA LabelsStep == ScanTypeInv /\ LabelsRight /\ [Next]_vars => LabelsRight'
<1> SUFFICES ASSUME ScanTypeInv, LabelsRight, [Next]_vars PROVE LabelsRight'
  OBVIOUS
<1>1. ASSUME NEW w \in Workers, NEW e \in pending[w], CheckJunk(w, e) PROVE LabelsRight'
  <2>1. PICK missed \in Misses(e) :
          /\ step' = [step EXCEPT ![w] =
                        IF Kind[e] = "Dir" /\ MatchJunk(e, missed) # NoLabel THEN "hit" ELSE "tree"]
          /\ calm' = (calm /\ missed = {})
    BY <1>1 DEF CheckJunk
  <2>2. entry' = [entry EXCEPT ![w] = e] /\ UNCHANGED <<present, existed, hits>>
    BY <1>1 DEF CheckJunk, scanVars
  <2>3. step'[w] = "hit" => Matches(present, e) # {}
    BY <2>1, MatchType DEF ScanTypeInv
  <2>4. Matches(present, e) \subseteq Matches(existed, e)
    BY MoreMatches DEF ScanTypeInv
  <2>5. \A h \in Found' : Labelled(h)'
    BY <2>1, <2>2, StillLabelled DEF LabelsRight, Found
  <2>6. ASSUME NEW v \in Workers, step'[v] = "hit"
        PROVE  Matches(existed, entry[v])' # {} /\ (calm' => Matches(present, entry[v])' # {})
    <3>1. /\ Matches(existed, entry[v])' = Matches(existed, entry'[v])
          /\ Matches(present, entry[v])' = Matches(present, entry'[v])
      BY <2>2 DEF Matches, Unmarked, Named, MarkerExists
    <3>2. CASE v = w
      <4>1. entry'[v] = e
        BY <2>2, <3>2 DEF ScanTypeInv
      <4> QED BY <2>3, <2>4, <2>6, <3>1, <3>2, <4>1
    <3>3. CASE v # w
      <4>1. entry'[v] = entry[v] /\ step[v] = "hit"
        BY <2>1, <2>2, <2>6, <3>3 DEF ScanTypeInv
      <4> QED BY <2>1, <3>1, <4>1 DEF LabelsRight
    <3> QED BY <3>2, <3>3
  <2> QED BY <2>5, <2>6 DEF LabelsRight
<1>2. CASE CreateMarker \/ DeleteMarker
  BY <1>2, LabelsKept DEF CreateMarker, DeleteMarker, visitVars, scanVars
<1>3. ASSUME NEW w \in Workers, RecordEntry(w) \/ CountEntry(w) \/ TreeFull(w) \/ FlushOnDrop(w)
      PROVE  LabelsRight'
  <2>1. \E s \in {"count", "free", "dropped"} : step' = [step EXCEPT ![w] = s]
    BY <1>3 DEF RecordEntry, CountEntry, TreeFull, LeaveVisitor, FlushOnDrop
  <2>2. \A v \in Workers : step'[v] = "hit" => v # w /\ step'[v] = step[v]
    BY <2>1 DEF ScanTypeInv
  <2>3. \A v \in Workers : v # w => entry'[v] = entry[v]
    BY <1>3 DEF RecordEntry, CountEntry, TreeFull, LeaveVisitor, FlushOnDrop, ScanTypeInv
  <2>4. UNCHANGED <<fileVars, hits>>
    BY <1>3 DEF RecordEntry, CountEntry, TreeFull, LeaveVisitor, FlushOnDrop
  <2> QED BY <2>2, <2>3, <2>4, LabelsKept DEF fileVars
<1>4. CASE UNCHANGED <<fileVars, visitVars, hits>>
  BY <1>4, LabelsKept DEF fileVars, visitVars
<1> QED BY <1>1, <1>2, <1>3, <1>4, HitLabelled
    DEF Next, PoolStep, Visitor, Return, Finished, scanVars, vars

Counting == {w \in Workers : step[w] = "count"}

\* What is below a path has been visited only if the path has been accepted: its
\* directory has been opened, and that is the path itself or lies below it too.
LEMMA ClosedBelow == WalkFacts /\ ScanTypeInv /\ RecordInv => JunkStaysClosed
<1> SUFFICES ASSUME WalkFacts, ScanTypeInv, RecordInv, NEW h \in Found,
                    NEW bad \in visited, IsStrictPrefix(h.path, bad)
             PROVE  FALSE
  BY DEF JunkStaysClosed
<1>1. h.path \in Path /\ h.path \notin PP!Accepted
  <2>1. PICK w \in Workers : h \in ToSet(hits[w])
    BY DEF Found
  <2>2. PICK i : i \in DOMAIN hits[w] /\ h = hits[w][i]
    BY <2>1 DEF ToSet
  <2>3. hits[w] \in Seq(Hit)
    BY DEF ScanTypeInv
  <2>4. h \in Hit
    BY <2>2, <2>3, LenProperties
  <2> QED BY <2>4 DEF Hit, RecordInv, HitsKnown
<1>2. PICK p : p = h.path
  OBVIOUS
<1>3. p \in Seq(Nat) /\ p \notin PP!Accepted
  BY <1>1, <1>2, SizeAssumption
<1>4. visited \subseteq Path /\ opened \subseteq Path /\ yields \in Listings /\ Path \subseteq Seq(Nat)
  BY SizeAssumption DEF WalkFacts, PP!PoolInv, PP!TypeOK
<1> DEFINE Inside(q) == IsStrictPrefix(p, q)
           T == {Len(q) : q \in {x \in visited : Inside(x)}}
<1>5. PICK m \in T : \A k \in T : m <= k
  <2>1. T \in SUBSET Nat
    BY <1>4, LenProperties
  <2>2. T # {}
    BY <1>2
  <2> HIDE DEF T
  <2> QED BY <2>1, <2>2, LeastNumber
<1>6. PICK q \in visited : Inside(q) /\ m = Len(q)
  OBVIOUS
<1>7. PICK d \in opened : q \in yields[d]
  BY <1>6 DEF WalkFacts, PP!TaskInv, PP!Discovered
<1>8. q # <<>> /\ Parent(q) = d /\ q \in Seq(Nat) /\ d \in Seq(Nat)
  BY <1>4, <1>6, <1>7, ListingAssumption
<1>9. p = d \/ Inside(d)
  BY <1>3, <1>6, <1>8, PrefixOfParent
<1>10. p # d
  BY <1>3, <1>7 DEF PP!Accepted
<1>11. Inside(d) => d # <<>>
  <2> SUFFICES ASSUME Inside(<<>>) PROVE FALSE
    OBVIOUS
  <2>1. <<>> \in Seq(Nat) /\ p # <<>> /\ Len(p) <= Len(<<>>)
    BY <1>3, EmptySeq DEF IsStrictPrefix, IsPrefix
  <2>2. Len(<<>>) = 0 /\ Len(p) \in Nat
    BY <1>3, LenProperties
  <2>3. Len(p) = 0
    BY <2>1, <2>2
  <2> QED BY <1>3, <2>1, <2>3, EmptySeq
<1>12. d \in visited \/ d = <<>>
  <2>1. PP!InSeq(<< <<>> >>) = {<<>>}
    BY DEF PP!InSeq
  <2> QED BY <1>7, <2>1 DEF WalkFacts, PP!KnownInv
<1>13. Len(d) \in T /\ Len(q) = Len(d) + 1 /\ Len(d) \in Nat
  <2>1. d \in visited /\ Inside(d)
    BY <1>9, <1>10, <1>11, <1>12
  <2> QED BY <1>8, <2>1, ParentBelowRoot, LenProperties
<1> HIDE DEF T
<1> QED BY <1>5, <1>6, <1>13

LEMMA InitialCap == Init => OvershootBounded
<1> SUFFICES ASSUME Init PROVE OvershootBounded
  OBVIOUS
<1>1. \A w \in Workers : [v \in Workers |-> Len(tree[v])][w] = 0
  BY DEF Init
<1>2. TotalEntries = 0
  <2>1. PICK f, S : f = [v \in Workers |-> Len(tree[v])] /\ S = Workers
    OBVIOUS
  <2>2. IsFiniteSet(S) /\ \A x \in S : f[x] = 0
    BY <1>1, <2>1, SameWorkers
  <2>3. SumFunctionOnSet(f, S) = 0
    BY <2>2, SumZero
  <2>4. DOMAIN f = S
    BY <2>1
  <2> QED BY <2>1, <2>3, <2>4, Zenon DEF TotalEntries, SumFunction
<1>3. Counting = {} /\ Cardinality(Counting) = 0 /\ treeCount = 0
  BY FS_EmptySet DEF Init, Counting
<1>4. TreeMaxEntries \in Nat /\ Pool!NumThreads >= 1 /\ Pool!NumThreads \in Nat
  BY CapAssumption, PoolAssumption DEF Pool!ConfigOK, Pool!NumThreads
<1> QED BY <1>2, <1>3, <1>4 DEF OvershootBounded, Counting
LEMMA CapKept ==
  ASSUME OvershootBounded, UNCHANGED <<tree, treeCount>>, Counting' = Counting
  PROVE  OvershootBounded'
<1>1. TotalEntries' = TotalEntries
  BY DEF TotalEntries
<1> QED BY <1>1 DEF OvershootBounded, Counting

\* A thread that is between the test and its count had seen a count below the cap.
LEMMA CapStep == ScanTypeInv /\ OvershootBounded /\ [Next]_vars => OvershootBounded'
<1> SUFFICES ASSUME ScanTypeInv, OvershootBounded, [Next]_vars PROVE OvershootBounded'
  OBVIOUS
<1>1. /\ TotalEntries = treeCount + Cardinality(Counting)
      /\ TotalEntries <= TreeMaxEntries + Pool!NumThreads - 1
      /\ treeCount \in Nat /\ TreeMaxEntries \in Nat
  BY CapAssumption DEF OvershootBounded, Counting, ScanTypeInv
<1>2. /\ Counting \subseteq Workers /\ IsFiniteSet(Workers)
      /\ Cardinality(Workers) = Pool!NumThreads /\ Pool!NumThreads \in Nat
  <2>1. Pool!NumThreads \in Nat /\ Pool!NumThreads >= 1 /\ Workers = 0 .. Pool!NumThreads - 1
    BY PoolAssumption DEF Pool!ConfigOK, Pool!NumThreads, Workers, Pool!Workers
  <2> HIDE DEF Workers
  <2> QED BY <2>1, FS_Interval DEF Counting
<1>3. ASSUME NEW w \in Workers, RecordEntry(w) PROVE OvershootBounded'
  <2>1. /\ treeCount < TreeMaxEntries /\ treeCount' = treeCount
        /\ step[w] = "tree" /\ step' = [step EXCEPT ![w] = "count"]
    BY <1>3 DEF RecordEntry
  <2>2. PICK x : tree' = [tree EXCEPT ![w] = Append(@, x)]
    BY <1>3 DEF RecordEntry
  <2>3. w \notin Counting /\ Counting' = Counting \cup {w}
    BY <2>1 DEF ScanTypeInv, Counting
  <2>4. Cardinality(Counting') = Cardinality(Counting) + 1 /\ Cardinality(Counting) \in Nat
    BY <1>2, <2>3, FS_Subset, FS_AddElement, FS_CardinalityType
  <2>5. Cardinality(Counting') <= Cardinality(Workers)
    <3>1. Counting' \subseteq Workers
      BY <1>2, <2>3
    <3> QED BY <1>2, <3>1, FS_Subset
  <2>6. TotalEntries' = TotalEntries + 1
    <3>1. PICK f, g, S : /\ f = [v \in Workers |-> Len(tree[v])]
                         /\ g = [v \in Workers |-> Len(tree'[v])] /\ S = Workers
      OBVIOUS
    <3>2. /\ IsFiniteSet(S) /\ w \in S /\ DOMAIN f = S /\ DOMAIN g = S
          /\ \A v \in S : f[v] \in Nat /\ g[v] \in Nat
          /\ \A v \in S \ {w} : g[v] = f[v]
          /\ g[w] = f[w] + 1
      <4>1. \A v \in Workers : tree[v] \in Seq(Entry) /\ f[v] = Len(tree[v]) /\ Len(tree[v]) \in Nat
        BY <3>1, LenProperties DEF ScanTypeInv
      <4>2. \A v \in Workers : g[v] = Len(tree'[v])
        BY <3>1
      <4>3. tree'[w] = Append(tree[w], x) /\ \A v \in Workers \ {w} : tree'[v] = tree[v]
        BY <2>2 DEF ScanTypeInv
      <4>4. Len(Append(tree[w], x)) = Len(tree[w]) + 1
        BY <4>1, AppendProperties
      <4>5. IsFiniteSet(S) /\ DOMAIN f = S /\ DOMAIN g = S
        BY <1>2, <3>1
      <4> QED BY <3>1, <4>1, <4>2, <4>3, <4>4, <4>5
    <3>3. SumFunctionOnSet(g, S) + f[w] = SumFunctionOnSet(f, S) + g[w]
      BY <3>2, SumChange
    <3>4. SumFunctionOnSet(f, S) \in Nat /\ SumFunctionOnSet(g, S) \in Nat
      BY <3>2, SumType
    <3>5. TotalEntries = SumFunctionOnSet(f, S)
      BY <3>1, <3>2, Zenon DEF TotalEntries, SumFunction
    <3>6. TotalEntries' = SumFunctionOnSet(g, S)
      BY <3>1, <3>2, Zenon DEF TotalEntries, SumFunction
    <3> QED BY <3>2, <3>3, <3>4, <3>5, <3>6
  <2> QED BY <1>1, <1>2, <2>1, <2>4, <2>5, <2>6 DEF OvershootBounded, Counting
<1>4. ASSUME NEW w \in Workers, CountEntry(w) PROVE OvershootBounded'
  <2>1. /\ treeCount' = treeCount + 1 /\ UNCHANGED tree
        /\ step[w] = "count" /\ step' = [step EXCEPT ![w] = "free"]
    BY <1>4 DEF CountEntry, LeaveVisitor
  <2>2. w \in Counting /\ Counting' = Counting \ {w}
    BY <2>1 DEF ScanTypeInv, Counting
  <2>3. Cardinality(Counting') = Cardinality(Counting) - 1 /\ Cardinality(Counting) \in Nat
    BY <1>2, <2>2, FS_Subset, FS_RemoveElement, FS_CardinalityType
  <2>4. TotalEntries' = TotalEntries
    BY <2>1 DEF TotalEntries
  <2> QED BY <1>1, <1>2, <2>1, <2>3, <2>4 DEF OvershootBounded, Counting
<1>5. ASSUME UNCHANGED <<tree, treeCount>>,
             UNCHANGED step \/ \E w \in Workers : \E s \in {"free", "hit", "tree", "dropped"} :
               step[w] # "count" /\ step' = [step EXCEPT ![w] = s]
      PROVE  OvershootBounded'
  <2>1. Counting' = Counting
    BY <1>5 DEF ScanTypeInv, Counting
  <2> QED BY <1>5, <2>1, CapKept
<1>6. ASSUME NEW w \in Workers,
             \/ \E e \in pending[w] : CheckJunk(w, e)
             \/ RecordHit(w) \/ TreeFull(w) \/ FlushOnDrop(w)
      PROVE  OvershootBounded'
  <2>1. UNCHANGED <<tree, treeCount>>
    BY <1>6 DEF CheckJunk, RecordHit, TreeFull, LeaveVisitor, FlushOnDrop, scanVars
  <2>2. \E s \in {"free", "hit", "tree", "dropped"} :
          step[w] # "count" /\ step' = [step EXCEPT ![w] = s]
    <3>1. CASE \E e \in pending[w] : CheckJunk(w, e)
      <4>1. PICK junk \in BOOLEAN : step' = [step EXCEPT ![w] = IF junk THEN "hit" ELSE "tree"]
        BY <3>1, Zenon DEF CheckJunk
      <4>2. step[w] = "free"
        BY <3>1 DEF CheckJunk
      <4> QED BY <4>1, <4>2
    <3>2. CASE FlushOnDrop(w)
      BY <3>2 DEF FlushOnDrop, ScanTypeInv, Working
    <3>3. CASE RecordHit(w) \/ TreeFull(w)
      BY <3>3 DEF RecordHit, TreeFull, LeaveVisitor
    <3> QED BY <1>6, <3>1, <3>2, <3>3
  <2> QED BY <1>5, <2>1, <2>2
<1>7. ASSUME \/ \E w \in Workers : PoolStep(w)
             \/ Return \/ CreateMarker \/ DeleteMarker \/ Finished \/ UNCHANGED vars
      PROVE  OvershootBounded'
  BY <1>5, <1>7 DEF PoolStep, Return, CreateMarker, DeleteMarker, Finished, visitVars, scanVars, vars
<1> QED BY <1>3, <1>4, <1>6, <1>7 DEF Next, Visitor

-----------------------------------------------------------------------------
(* The lists of the threads, merged                                        *)

\* No two records of the lists have the same path.
Apart(L, S) ==
  \A v, w \in S : \A i \in 1 .. Len(L[v]) : \A j \in 1 .. Len(L[w]) :
    L[v][i].path = L[w][j].path => v = w /\ i = j

Lengths(L) == [w \in DOMAIN L |-> Len(L[w])]

\* The list all is made of the lists L[w] with w in S.
Merges(all, L, S) ==
  /\ ToSet(all) = UNION {ToSet(L[w]) : w \in S}
  /\ Len(all) = SumFunctionOnSet(Lengths(L), S)
  /\ Distinct(all)

\* One more list.
LEMMA MergeOne ==
  ASSUME NEW E, NEW W, IsFiniteSet(W), NEW L \in [W -> Seq(E)], Apart(L, W),
         NEW S \in SUBSET W, NEW w \in W \ S, NEW all \in Seq(E), Merges(all, L, S)
  PROVE  all \o L[w] \in Seq(E) /\ Merges(all \o L[w], L, S \cup {w})
<1>1. PICK t : t = L[w]
  OBVIOUS
<1>2. t \in Seq(E) /\ Len(t) \in Nat /\ Len(all) \in Nat /\ DOMAIN t = 1 .. Len(t)
      /\ DOMAIN all = 1 .. Len(all)
  BY <1>1, LenProperties
<1>3. PICK u : u = all \o t
  OBVIOUS
<1>4. /\ u \in Seq(E) /\ Len(u) = Len(all) + Len(t)
      /\ \A i \in 1 .. Len(all) + Len(t) : u[i] = IF i <= Len(all) THEN all[i] ELSE t[i - Len(all)]
  BY <1>2, <1>3, ConcatProperties
<1>5. ToSet(u) = UNION {ToSet(L[v]) : v \in S \cup {w}}
  BY <1>1, <1>2, <1>3, ConcatToSet DEF Merges
<1>6. Len(u) = SumFunctionOnSet(Lengths(L), S \cup {w})
  <2>1. IsFiniteSet(S) /\ w \notin S
    BY FS_Subset
  <2>2. \A v \in W : Lengths(L)[v] = Len(L[v]) /\ Len(L[v]) \in Nat
    BY LenProperties DEF Lengths
  <2>3. \A v \in S \cup {w} : Lengths(L)[v] \in Nat
    BY <2>2
  <2>4. SumFunctionOnSet(Lengths(L), S \cup {w}) = SumFunctionOnSet(Lengths(L), S) + Len(L[w])
    BY <2>1, <2>2, <2>3, SumAdd
  <2> QED BY <1>1, <1>4, <2>4 DEF Merges
<1>7. \A i \in 1 .. Len(all) : \A j \in 1 .. Len(t) : all[i].path # t[j].path
  <2> SUFFICES ASSUME NEW i \in 1 .. Len(all), NEW j \in 1 .. Len(t), all[i].path = t[j].path
               PROVE  FALSE
    OBVIOUS
  <2>1. all[i] \in ToSet(all)
    BY <1>2 DEF ToSet
  <2>2. PICK v \in S : all[i] \in ToSet(L[v])
    BY <2>1 DEF Merges
  <2>3. PICK k \in DOMAIN L[v] : all[i] = L[v][k]
    BY <2>2 DEF ToSet
  <2>4. k \in 1 .. Len(L[v]) /\ L[v][k].path = L[w][j].path /\ j \in 1 .. Len(L[w])
    BY <1>1, <2>3, LenProperties
  <2> QED BY <2>4 DEF Apart
<1>8. \A i, j \in 1 .. Len(t) : t[i].path = t[j].path => i = j
  BY <1>1 DEF Apart
<1>9. Distinct(u)
  <2> SUFFICES ASSUME NEW i \in 1 .. Len(u), NEW j \in 1 .. Len(u), u[i].path = u[j].path
               PROVE  i = j
    BY DEF Distinct
  <2>1. \/ i \in 1 .. Len(all) /\ u[i] = all[i]
        \/ i - Len(all) \in 1 .. Len(t) /\ u[i] = t[i - Len(all)]
    BY <1>2, <1>4
  <2>2. \/ j \in 1 .. Len(all) /\ u[j] = all[j]
        \/ j - Len(all) \in 1 .. Len(t) /\ u[j] = t[j - Len(all)]
    BY <1>2, <1>4
  <2>3. \A a, b \in 1 .. Len(all) : all[a].path = all[b].path => a = b
    BY DEF Merges, Distinct
  <2>4. i \in Int /\ j \in Int /\ Len(all) \in Int
    BY <1>2
  <2>5. CASE i \in 1 .. Len(all) /\ j \in 1 .. Len(all) /\ u[i] = all[i] /\ u[j] = all[j]
    BY <2>3, <2>5
  <2>6. CASE i - Len(all) \in 1 .. Len(t) /\ j - Len(all) \in 1 .. Len(t)
             /\ u[i] = t[i - Len(all)] /\ u[j] = t[j - Len(all)]
    <3>1. i - Len(all) = j - Len(all)
      BY <1>8, <2>6
    <3> QED BY <2>4, <3>1
  <2> QED BY <1>7, <2>1, <2>2, <2>5, <2>6
<1> QED BY <1>1, <1>3, <1>4, <1>5, <1>6, <1>9 DEF Merges

\* A record with a new path at the end of one list.
LEMMA ApartAppend ==
  ASSUME NEW E, NEW W, NEW L \in [W -> Seq(E)], Apart(L, W), NEW w \in W, NEW x \in E,
         \A v \in W : \A r \in ToSet(L[v]) : r.path # x.path
  PROVE  Apart([L EXCEPT ![w] = Append(@, x)], W)
<1>1. PICK M : M = [L EXCEPT ![w] = Append(@, x)]
  OBVIOUS
<1>2. \A v \in W : L[v] \in Seq(E) /\ Len(L[v]) \in Nat /\ DOMAIN L[v] = 1 .. Len(L[v])
  BY LenProperties
<1>3. M[w] = Append(L[w], x) /\ \A v \in W : v # w => M[v] = L[v]
  BY <1>1
<1>4. /\ Len(M[w]) = Len(L[w]) + 1 /\ M[w][Len(L[w]) + 1] = x
      /\ \A i \in 1 .. Len(L[w]) : M[w][i] = L[w][i]
  BY <1>2, <1>3, AppendProperties
<1>5. \A v \in W : \A i \in 1 .. Len(M[v]) :
        \/ i \in 1 .. Len(L[v]) /\ M[v][i] = L[v][i]
        \/ v = w /\ i = Len(L[w]) + 1 /\ M[v][i] = x
  <2>1. \A i \in 1 .. Len(M[w]) : \/ i \in 1 .. Len(L[w]) /\ M[w][i] = L[w][i]
                                  \/ i = Len(L[w]) + 1 /\ M[w][i] = x
    <3>1. PICK n : n = Len(L[w])
      OBVIOUS
    <3>2. n \in Nat /\ \A i \in 1 .. n + 1 : i \in 1 .. n \/ i = n + 1
      BY <1>2, <3>1
    <3> QED BY <1>4, <3>1, <3>2
  <2> QED BY <1>3, <2>1
<1>6. \A v \in W : \A i \in 1 .. Len(L[v]) : L[v][i].path # x.path
  BY <1>2 DEF ToSet
<1>7. ASSUME NEW v \in W, NEW u \in W, NEW i \in 1 .. Len(M[v]), NEW j \in 1 .. Len(M[u]),
             M[v][i].path = M[u][j].path
      PROVE  v = u /\ i = j
  <2>1. CASE i \in 1 .. Len(L[v]) /\ M[v][i] = L[v][i] /\ j \in 1 .. Len(L[u]) /\ M[u][j] = L[u][j]
    BY <1>7, <2>1 DEF Apart
  <2>2. CASE i \in 1 .. Len(L[v]) /\ M[v][i] = L[v][i] /\ u = w /\ M[u][j] = x
    BY <1>6, <1>7, <2>2
  <2>3. CASE j \in 1 .. Len(L[u]) /\ M[u][j] = L[u][j] /\ v = w /\ M[v][i] = x
    BY <1>6, <1>7, <2>3
  <2> QED BY <1>5, <2>1, <2>2, <2>3
<1> QED BY <1>1, <1>7 DEF Apart

\* Lists outside S may change.
LEMMA MergesKept ==
  ASSUME NEW all, NEW W, NEW L, NEW M, DOMAIN L = W, DOMAIN M = W, IsFiniteSet(W),
         NEW S \in SUBSET W, \A w \in S : M[w] = L[w], Merges(all, L, S)
  PROVE  Merges(all, M, S)
<1>1. IsFiniteSet(S)
  BY FS_Subset
<1>2. \A w \in S : Lengths(M)[w] = Lengths(L)[w]
  BY DEF Lengths
<1>3. SumFunctionOnSet(Lengths(M), S) = SumFunctionOnSet(Lengths(L), S)
  BY <1>1, <1>2, SumCongruence
<1>4. {ToSet(M[w]) : w \in S} = {ToSet(L[w]) : w \in S}
  OBVIOUS
<1> QED BY <1>3, <1>4 DEF Merges

\* A list in path order loses nothing to dedup_by: its fold over the indices copies it.
LEMMA DedupKeeps ==
  ASSUME NEW E, \A e \in E : e.path \in Seq(Nat), NEW s \in Seq(E),
         \A i, j \in 1 .. Len(s) : i < j => PathBefore(s[i].path, s[j].path)
  PROVE  Dedup(s) = s
<1> DEFINE Keep(kept, h) == IF kept # <<>> /\ Last(kept).path = h.path THEN kept ELSE Append(kept, h)
           F == [x \in (1 .. Len(s)) \X Seq(E) |-> Keep(x[2], s[x[1]])]
           ch == Largest(Len(s))
           D == 1 .. Len(s)
           Copies(g) == g = [t \in SUBSET D |->
                               IF t = {} THEN <<>> ELSE Keep(g[t \ {Max(t)}], s[Max(t)])]
           g == CHOOSE g : Copies(g)
<1>1. Len(s) \in Nat /\ DOMAIN s = D /\ \A i \in D : s[i] \in E /\ s[i].path \in Seq(Nat)
  BY LenProperties
<1>2. IsFiniteSet(D) /\ Chooses(ch, D)
  BY <1>1, FS_Interval, MaxOfInterval
<1>3. PICK h : IsFold(h, F, <<>>, ch, D)
  <2> HIDE DEF F, ch, D
  <2> QED BY <1>2, FoldExists
<1>4. \A t \in SUBSET D : h[t] \in Seq(E)
  <2>1. <<>> \in Seq(E)
    BY EmptySeq
  <2>2. \A x \in D : \A a \in Seq(E) : F[<<x, a>>] \in Seq(E)
    BY <1>1, AppendProperties
  <2> HIDE DEF F, ch, D
  <2> QED BY <1>2, <1>3, <2>1, <2>2, FoldStays
<1>5. \A t \in SUBSET D : t # {} => Max(t) \in t /\ ch[t] = Max(t)
  BY <1>2 DEF Chooses, Largest
<1>6. Copies(h)
  <2>1. h = [t \in SUBSET D |-> IF t = {} THEN <<>> ELSE F[<<ch[t], h[t \ {ch[t]}]>>]]
    BY <1>3 DEF IsFold
  <2>2. ASSUME NEW t \in SUBSET D, t # {}
        PROVE  F[<<ch[t], h[t \ {ch[t]}]>>] = Keep(h[t \ {Max(t)}], s[Max(t)])
    <3>1. Max(t) \in D /\ ch[t] = Max(t) /\ h[t \ {Max(t)}] \in Seq(E)
      BY <1>4, <1>5, <2>2
    <3>2. \A i \in D : \A a \in Seq(E) : F[<<i, a>>] = Keep(a, s[i])
      OBVIOUS
    <3> HIDE DEF F, Keep
    <3> QED BY <3>1, <3>2
  <2> HIDE DEF F, Keep, ch
  <2>3. h = [t \in SUBSET D |-> IF t = {} THEN <<>> ELSE Keep(h[t \ {Max(t)}], s[Max(t)])]
    BY <2>1, <2>2
  <2> QED BY <2>3
<1>7. Copies(g)
  <2> HIDE DEF Copies
  <2> QED BY <1>6
<1>8. Dedup(s) = g[D]
  BY <1>1, Zenon DEF Dedup, FoldLeft, MapThenFoldSet
<1> HIDE DEF g, F, ch
<1>9. /\ g[{}] = <<>>
      /\ \A t \in SUBSET D : t # {} => g[t] = Keep(g[t \ {Max(t)}], s[Max(t)])
  BY <1>7
<1> DEFINE T == {k \in 0 .. Len(s) : g[1 .. k] # SubSeq(s, 1, k)}
<1>10. T = {}
  <2> SUFFICES ASSUME T # {} PROVE FALSE
    OBVIOUS
  <2>1. PICK k \in T : \A l \in T : k <= l
    <3>1. T \in SUBSET Nat
      OBVIOUS
    <3> HIDE DEF T
    <3> QED BY <3>1, LeastNumber
  <2>2. k \in 0 .. Len(s) /\ g[1 .. k] # SubSeq(s, 1, k)
    OBVIOUS
  <2>3. CASE k = 0
    <3>1. (1 .. k) = {} /\ SubSeq(s, 1, k) = <<>>
      BY <2>3, SubSeqEmpty
    <3> QED BY <1>9, <2>2, <3>1
  <2>4. CASE k # 0
    <3>1. k - 1 \in 0 .. Len(s) /\ ~(k <= k - 1) /\ k \in D
      BY <1>1, <2>2, <2>4
    <3>2. g[1 .. k - 1] = SubSeq(s, 1, k - 1)
      BY <2>1, <3>1
    <3>3. Max(1 .. k) = k /\ (1 .. k) \ {k} = 1 .. k - 1
      BY <1>1, <3>1, MaxOfInterval
    <3>4. (1 .. k) \in SUBSET D /\ (1 .. k) # {}
      BY <1>1, <3>1
    <3>5. g[1 .. k] = Keep(SubSeq(s, 1, k - 1), s[k])
      BY <1>9, <3>2, <3>3, <3>4
    <3>6. PICK a : a = SubSeq(s, 1, k - 1)
      OBVIOUS
    <3>7. /\ a \in Seq(E) /\ Len(a) = k - 1 /\ \A i \in 1 .. k - 1 : a[i] = s[i]
      <4>1. PICK m \in Nat : m = k - 1 /\ \A i \in 1 .. m : s[i] \in E
        BY <1>1, <3>1
      <4>2. /\ a \in Seq(E) /\ Len(a) = (IF 1 <= m THEN m - 1 + 1 ELSE 0)
            /\ \A i \in 1 .. m - 1 + 1 : a[i] = s[1 + i - 1]
        BY <3>6, <4>1, SubSeqProperties
      <4>3. /\ a \in Seq(E) /\ Len(a) = m /\ \A i \in 1 .. m : a[i] = s[i]
        BY <4>2
      <4> QED BY <4>1, <4>3
    <3>8. Append(a, s[k]) = SubSeq(s, 1, k)
      <4>1. \A i \in 1 .. k : s[i] \in E
        BY <1>1, <3>1
      <4>2. PICK b : b = SubSeq(s, 1, k)
        OBVIOUS
      <4>3. /\ b \in Seq(E) /\ Len(b) = k /\ \A i \in 1 .. k : b[i] = s[i]
        <5>1. /\ b \in Seq(E) /\ Len(b) = (IF 1 <= k THEN k - 1 + 1 ELSE 0)
              /\ \A i \in 1 .. k - 1 + 1 : b[i] = s[1 + i - 1]
          BY <3>1, <4>1, <4>2, SubSeqProperties
        <5> QED BY <3>1, <5>1
      <4>4. PICK c : c = Append(a, s[k])
        OBVIOUS
      <4>5. c \in Seq(E) /\ Len(c) = k /\ \A i \in 1 .. k : c[i] = s[i]
        <5>1. s[k] \in E
          BY <1>1, <3>1
        <5>2. /\ c \in Seq(E) /\ Len(c) = Len(a) + 1 /\ c[Len(a) + 1] = s[k]
              /\ \A i \in 1 .. Len(a) : c[i] = a[i]
          BY <3>7, <4>4, <5>1, AppendProperties
        <5> QED BY <3>1, <3>7, <5>2
      <4>6. b = c
        BY <4>3, <4>5, SeqEqual
      <4> QED BY <4>2, <4>4, <4>6
    <3>9. a # <<>> => Last(a).path # s[k].path
      <4> SUFFICES ASSUME a # <<>>, Last(a).path = s[k].path PROVE FALSE
        OBVIOUS
      <4>1. Last(a) = a[Len(a)] /\ Len(a) # 0
        BY <3>7, EmptySeq DEF Last
      <4>2. k - 1 \in 1 .. k - 1 /\ k - 1 \in D /\ k - 1 < k
        BY <1>1, <3>1, <3>7, <4>1
      <4>3. PathBefore(s[k].path, s[k].path)
        BY <3>1, <3>7, <4>1, <4>2
      <4> QED BY <1>1, <3>1, <4>3, PathsOrdered
    <3> QED BY <2>2, <3>5, <3>6, <3>8, <3>9
  <2> QED BY <2>3, <2>4
<1>11. Len(s) \in 0 .. Len(s)
  BY <1>1
<1>12. g[D] = SubSeq(s, 1, Len(s))
  BY <1>10, <1>11
<1> QED BY <1>8, <1>12, SubSeqFull

Dropped == {w \in Workers : Flushed(w)}

\* Both lists of the result are in path order as a whole, so nothing is in them twice.
ResultSorted ==
  returned => /\ result.hits \in Seq(Hit) /\ InPathOrder(result.hits)
              /\ result.tree \in Seq(Entry) /\ InPathOrder(result.tree)

\* What the threads that have left hold is what has been pushed, each list once; no path
\* is recorded twice, and with the last thread everything has been pushed.
MergeInv ==
  /\ IsFiniteSet(visited)
  /\ Apart(hits, Workers) /\ Apart(tree, Workers)
  /\ AllHits \in Seq(Hit) /\ Merges(AllHits, hits, Dropped)
  /\ AllTree \in Seq(Entry) /\ Merges(AllTree, tree, Dropped)
  /\ returned => Dropped = Workers
  /\ ResultComplete
  /\ ResultSorted

LEMMA PathsOfRecords ==
  /\ \A h \in Hit : h.path \in Path /\ h.path \in Seq(Nat)
  /\ \A t \in Entry : t.path \in Path /\ t.path \in Seq(Nat)
BY SizeAssumption DEF Hit, Entry

LEMMA NothingMerged ==
  ASSUME NEW L
  PROVE  Merges(<<>>, L, {})
<1>1. Len(<<>>) = 0 /\ ToSet(<<>>) = {}
  BY EmptySeq DEF ToSet
<1>2. SumFunctionOnSet(Lengths(L), {}) = 0
  BY SumEmpty
<1>3. Distinct(<<>>)
  BY <1>1 DEF Distinct
<1> QED BY <1>1, <1>2, <1>3 DEF Merges

LEMMA InitialMerge == Init => MergeInv
<1> SUFFICES ASSUME Init PROVE MergeInv
  OBVIOUS
<1>1. AllHits = <<>> /\ AllTree = <<>>
  <2>1. allLocals = <<>>
    BY DEF Init
  <2>2. [i \in DOMAIN allLocals |-> allLocals[i].hits] = <<>>
        /\ [i \in DOMAIN allLocals |-> allLocals[i].tree] = <<>>
    BY <2>1
  <2> QED BY <2>2, FlattenEmpty DEF AllHits, AllTree
<1>2. Dropped = {}
  BY DEF Init, Dropped, Flushed
<1>3. visited = {} /\ ~returned
  BY DEF Init, Pool!Init
<1>4. \A w \in Workers : Len(hits[w]) = 0 /\ Len(tree[w]) = 0
  BY EmptySeq DEF Init
<1>5. Apart(hits, Workers) /\ Apart(tree, Workers)
  BY <1>4 DEF Apart
<1>6. <<>> \in Seq(Hit) /\ <<>> \in Seq(Entry) /\ IsFiniteSet({})
  BY EmptySeq, FS_EmptySet
<1> QED BY <1>1, <1>2, <1>3, <1>5, <1>6, NothingMerged DEF MergeInv, ResultComplete, ResultSorted

\* Steps that neither record nor push.
LEMMA MergeKept ==
  ASSUME MergeInv, UNCHANGED <<hits, tree, allLocals, result, returned>>, Dropped' = Dropped,
         \/ UNCHANGED visited
         \/ ~returned /\ \E e : visited' = visited \cup {e}
  PROVE  MergeInv'
<1>1. IsFiniteSet(visited')
  BY FS_AddElement DEF MergeInv
<1>2. AllHits' = AllHits /\ AllTree' = AllTree
  BY DEF AllHits, AllTree
<1>3. returned => UNCHANGED visited
  OBVIOUS
<1>4. ResultComplete'
  BY <1>3 DEF MergeInv, ResultComplete, TotalEntries, Recorded, Found
<1>5. ResultSorted'
  BY DEF MergeInv, ResultSorted
<1> QED BY <1>1, <1>2, <1>4, <1>5 DEF MergeInv

LEMMA NotDropped ==
  ASSUME ScanTypeInv, MergeInv, NEW w \in Workers, ~Flushed(w)
  PROVE  ~returned /\ w \notin Dropped
BY DEF MergeInv, Dropped

LEMMA HitMerges ==
  ASSUME WalkFacts, ScanTypeInv, RecordInv, MergeInv, NEW w \in Workers, RecordHit(w)
  PROVE  MergeInv'
<1>1. /\ step[w] = "hit" /\ step' = [step EXCEPT ![w] = "tree"]
      /\ UNCHANGED <<visited, returned, tree, allLocals, result>>
  BY HitStep DEF poolVars
<1>2. /\ entry[w] \in Path \ visited
      /\ \A v \in Workers : Working(v) /\ entry[v] = entry[w] => v = w
  BY <1>1, VisitorEntry DEF Working
<1>3. PICK x \in Hit : hits' = [hits EXCEPT ![w] = Append(@, x)] /\ x.path = entry[w]
  <2>1. PICK label \in Labels : hits' = [hits EXCEPT ![w] = Append(@, NewHit(entry[w], label))]
    BY HitStep
  <2>2. PICK x : x = NewHit(entry[w], label)
    OBVIOUS
  <2>3. x \in Hit /\ x.path = entry[w]
    <3>1. NewHit(entry[w], label) \in Hit
      BY <1>2, RecordTypes
    <3> QED BY <2>2, <3>1 DEF NewHit
  <2>4. hits' = [hits EXCEPT ![w] = Append(@, x)]
    BY <2>1, <2>2
  <2> QED BY <2>3, <2>4
<1>4. \A v \in Workers : \A r \in ToSet(hits[v]) : r.path # x.path
  <2>1. ASSUME NEW v \in Workers, NEW r \in ToSet(hits[v]), r.path = entry[w] PROVE FALSE
    <3>1. r \in Found
      BY DEF Found
    <3>2. PICK u \in Workers : Judged(u) /\ entry[u] = entry[w]
      BY <1>2, <2>1, <3>1 DEF RecordInv, HitsKnown
    <3>3. Working(u)
      BY <3>2 DEF Judged, Working
    <3>4. u = w
      BY <1>2, <3>2, <3>3
    <3> QED BY <1>1, <3>2, <3>4 DEF Judged
  <2> QED BY <1>3, <2>1
<1>5. Apart(hits', Workers)
  <2>1. hits \in [Workers -> Seq(Hit)] /\ Apart(hits, Workers)
    BY DEF ScanTypeInv, MergeInv
  <2>2. hits' = [hits EXCEPT ![w] = Append(@, x)]
    BY <1>3
  <2> QED BY <1>4, <2>1, <2>2, ApartAppend
<1>6. ~returned /\ w \notin Dropped /\ Dropped' = Dropped
  <2>1. ~Flushed(w)
    BY <1>1 DEF Flushed
  <2>2. Dropped' = Dropped
    BY <1>1 DEF ScanTypeInv, Dropped, Flushed
  <2> QED BY <2>1, <2>2, NotDropped
<1>7. Merges(AllHits, hits', Dropped)
  <2>1. DOMAIN hits = Workers /\ DOMAIN hits' = Workers /\ \A v \in Dropped : hits'[v] = hits[v]
    BY <1>3, <1>6 DEF ScanTypeInv, Dropped
  <2>2. Dropped \in SUBSET Workers /\ Merges(AllHits, hits, Dropped) /\ IsFiniteSet(Workers)
    BY SameWorkers DEF Dropped, MergeInv
  <2> QED BY <2>1, <2>2, MergesKept
<1>8. AllHits' = AllHits /\ AllTree' = AllTree
  BY <1>1 DEF AllHits, AllTree
<1> QED BY <1>1, <1>5, <1>6, <1>7, <1>8 DEF MergeInv, ResultComplete, ResultSorted

LEMMA EntryMerges ==
  ASSUME WalkFacts, ScanTypeInv, RecordInv, MergeInv, NEW w \in Workers, RecordEntry(w)
  PROVE  MergeInv'
<1>1. /\ step[w] = "tree" /\ step' = [step EXCEPT ![w] = "count"]
      /\ UNCHANGED <<visited, returned, hits, allLocals, result>>
      /\ tree' = [tree EXCEPT ![w] = Append(@, TreeEntry(entry[w], isJunk[w]))]
  BY DEF RecordEntry, poolVars
<1>2. /\ entry[w] \in Path \ visited
      /\ \A v \in Workers : Working(v) /\ entry[v] = entry[w] => v = w
  BY <1>1, VisitorEntry DEF Working
<1>3. PICK x \in Entry : x = TreeEntry(entry[w], isJunk[w]) /\ x.path = entry[w]
  BY <1>2, RecordTypes DEF TreeEntry, ScanTypeInv, JunkTyped
<1>4. \A v \in Workers : \A r \in ToSet(tree[v]) : r.path # x.path
  BY <1>1, <1>2, <1>3 DEF RecordInv, TreeKnown, Recorded, Working
<1>5. Apart(tree', Workers)
  <2>1. tree \in [Workers -> Seq(Entry)] /\ Apart(tree, Workers)
    BY DEF ScanTypeInv, MergeInv
  <2>2. tree' = [tree EXCEPT ![w] = Append(@, x)]
    BY <1>1, <1>3
  <2> QED BY <1>4, <2>1, <2>2, ApartAppend
<1>6. ~returned /\ w \notin Dropped /\ Dropped' = Dropped
  <2>1. ~Flushed(w)
    BY <1>1 DEF Flushed
  <2>2. Dropped' = Dropped
    BY <1>1 DEF ScanTypeInv, Dropped, Flushed
  <2> QED BY <2>1, <2>2, NotDropped
<1>7. Merges(AllTree, tree', Dropped)
  <2>1. DOMAIN tree = Workers /\ DOMAIN tree' = Workers /\ \A v \in Dropped : tree'[v] = tree[v]
    BY <1>1, <1>6 DEF ScanTypeInv, Dropped
  <2>2. Dropped \in SUBSET Workers /\ Merges(AllTree, tree, Dropped) /\ IsFiniteSet(Workers)
    BY SameWorkers DEF Dropped, MergeInv
  <2> QED BY <2>1, <2>2, MergesKept
<1>8. AllHits' = AllHits /\ AllTree' = AllTree
  BY <1>1 DEF AllHits, AllTree
<1> QED BY <1>1, <1>5, <1>6, <1>7, <1>8 DEF MergeInv, ResultComplete, ResultSorted

\* The lists of a thread join those of the threads that have left before.
LEMMA FlushMerges ==
  ASSUME ScanTypeInv, MergeInv, NEW w \in Workers, FlushOnDrop(w)
  PROVE  MergeInv'
<1>1. /\ ~Flushed(w) /\ step' = [step EXCEPT ![w] = "dropped"]
      /\ UNCHANGED <<visited, returned, hits, tree, result>>
      /\ allLocals' = Append(allLocals, [hits |-> hits[w], tree |-> tree[w]])
  BY DEF FlushOnDrop, poolVars
<1>2. ~returned /\ w \in Workers \ Dropped /\ Dropped \in SUBSET Workers
  BY <1>1, NotDropped DEF Dropped
<1>3. Dropped' = Dropped \cup {w}
  BY <1>1 DEF ScanTypeInv, Dropped, Flushed
<1>4. /\ hits[w] \in Seq(Hit) /\ tree[w] \in Seq(Entry)
      /\ allLocals \in Seq([hits : Seq(Hit), tree : Seq(Entry)])
  BY DEF ScanTypeInv
<1>5. /\ DOMAIN allLocals = 1 .. Len(allLocals) /\ Len(allLocals) \in Nat
      /\ DOMAIN allLocals' = 1 .. Len(allLocals) + 1
      /\ \A i \in 1 .. Len(allLocals) : /\ allLocals[i].hits \in Seq(Hit)
                                        /\ allLocals[i].tree \in Seq(Entry)
                                        /\ allLocals'[i] = allLocals[i]
      /\ allLocals'[Len(allLocals) + 1].hits = hits[w]
      /\ allLocals'[Len(allLocals) + 1].tree = tree[w]
  <2>1. PICK r : r = [hits |-> hits[w], tree |-> tree[w]]
    OBVIOUS
  <2>2. r \in [hits : Seq(Hit), tree : Seq(Entry)] /\ allLocals' = Append(allLocals, r)
    BY <1>1, <1>4, <2>1
  <2>3. /\ Len(allLocals') = Len(allLocals) + 1 /\ allLocals'[Len(allLocals) + 1] = r
        /\ DOMAIN allLocals' = 1 .. Len(allLocals) + 1
        /\ \A i \in 1 .. Len(allLocals) : allLocals'[i] = allLocals[i]
    BY <1>4, <2>2, AppendProperties, LenProperties
  <2>4. /\ DOMAIN allLocals = 1 .. Len(allLocals) /\ Len(allLocals) \in Nat
        /\ \A i \in 1 .. Len(allLocals) : allLocals[i] \in [hits : Seq(Hit), tree : Seq(Entry)]
    BY <1>4, LenProperties
  <2> QED BY <2>1, <2>3, <2>4
<1>6. AllHits' = AllHits \o hits[w]
  <2>1. PICK n, s, x : /\ n = Len(allLocals) /\ s = [i \in 1 .. n |-> allLocals[i].hits]
                       /\ x = hits[w]
    OBVIOUS
  <2>2. n \in Nat /\ s \in Seq(Seq(Hit)) /\ Len(s) = n /\ x \in Seq(Hit)
    BY <1>4, <1>5, <2>1
  <2>3. PICK t : t = Append(s, x)
    OBVIOUS
  <2>4. /\ DOMAIN t = 1 .. n + 1 /\ t[n + 1] = x /\ \A i \in 1 .. n : t[i] = s[i]
        /\ t = [i \in 1 .. n + 1 |-> t[i]]
    <3>1. t \in Seq(Seq(Hit)) /\ Len(t) = n + 1 /\ t[n + 1] = x /\ \A i \in 1 .. n : t[i] = s[i]
      BY <2>2, <2>3, AppendProperties
    <3> QED BY <3>1, LenProperties
  <2>5. [i \in 1 .. n + 1 |-> allLocals'[i].hits] = t
    <3>1. \A i \in 1 .. n + 1 : i \in 1 .. n \/ i = n + 1
      BY <2>2
    <3>2. \A i \in 1 .. n + 1 : allLocals'[i].hits = t[i]
      BY <1>5, <2>1, <2>4, <3>1
    <3> QED BY <2>4, <3>2
  <2>6. AllHits' = FlattenSeq(t) /\ AllHits = FlattenSeq(s)
    BY <1>5, <2>1, <2>5 DEF AllHits
  <2> QED BY <2>1, <2>2, <2>3, <2>6, FlattenAppend
<1>7. AllTree' = AllTree \o tree[w]
  <2>1. PICK n, s, x : /\ n = Len(allLocals) /\ s = [i \in 1 .. n |-> allLocals[i].tree]
                       /\ x = tree[w]
    OBVIOUS
  <2>2. n \in Nat /\ s \in Seq(Seq(Entry)) /\ Len(s) = n /\ x \in Seq(Entry)
    BY <1>4, <1>5, <2>1
  <2>3. PICK t : t = Append(s, x)
    OBVIOUS
  <2>4. /\ DOMAIN t = 1 .. n + 1 /\ t[n + 1] = x /\ \A i \in 1 .. n : t[i] = s[i]
        /\ t = [i \in 1 .. n + 1 |-> t[i]]
    <3>1. t \in Seq(Seq(Entry)) /\ Len(t) = n + 1 /\ t[n + 1] = x /\ \A i \in 1 .. n : t[i] = s[i]
      BY <2>2, <2>3, AppendProperties
    <3> QED BY <3>1, LenProperties
  <2>5. [i \in 1 .. n + 1 |-> allLocals'[i].tree] = t
    <3>1. \A i \in 1 .. n + 1 : i \in 1 .. n \/ i = n + 1
      BY <2>2
    <3>2. \A i \in 1 .. n + 1 : allLocals'[i].tree = t[i]
      BY <1>5, <2>1, <2>4, <3>1
    <3> QED BY <2>4, <3>2
  <2>6. AllTree' = FlattenSeq(t) /\ AllTree = FlattenSeq(s)
    BY <1>5, <2>1, <2>5 DEF AllTree
  <2> QED BY <2>1, <2>2, <2>3, <2>6, FlattenAppend
<1>8. AllHits' \in Seq(Hit) /\ Merges(AllHits', hits, Dropped \cup {w})
  <2>1. hits \in [Workers -> Seq(Hit)] /\ IsFiniteSet(Workers) /\ Apart(hits, Workers)
        /\ AllHits \in Seq(Hit) /\ Merges(AllHits, hits, Dropped)
    BY SameWorkers DEF ScanTypeInv, MergeInv
  <2> HIDE DEF AllHits, Dropped
  <2> QED BY <1>2, <1>6, <2>1, MergeOne
<1>9. AllTree' \in Seq(Entry) /\ Merges(AllTree', tree, Dropped \cup {w})
  <2>1. tree \in [Workers -> Seq(Entry)] /\ IsFiniteSet(Workers) /\ Apart(tree, Workers)
        /\ AllTree \in Seq(Entry) /\ Merges(AllTree, tree, Dropped)
    BY SameWorkers DEF ScanTypeInv, MergeInv
  <2> HIDE DEF AllTree, Dropped
  <2> QED BY <1>2, <1>7, <2>1, MergeOne
<1> QED BY <1>1, <1>2, <1>3, <1>8, <1>9 DEF MergeInv, ResultComplete, ResultSorted

-----------------------------------------------------------------------------
(* The result                                                              *)

\* What the threads have recorded when the last of them has left.
LEMMA AllMerged ==
  ASSUME ScanTypeInv, RecordInv, OvershootBounded, MergeInv, \A w \in Workers : Flushed(w)
  PROVE  /\ ToSet(AllTree) = Recorded /\ Len(AllTree) = TotalEntries /\ Distinct(AllTree)
         /\ ToSet(AllHits) = Found /\ Distinct(AllHits)
         /\ TotalEntries = treeCount /\ \A t \in Recorded : t.path \in visited
<1>1. Dropped = Workers
  BY DEF Dropped
<1>2. Merges(AllTree, tree, Workers) /\ Merges(AllHits, hits, Workers)
  BY <1>1 DEF MergeInv
<1>3. TotalEntries = SumFunctionOnSet(Lengths(tree), Workers)
  <2>1. Lengths(tree) = [w \in Workers |-> Len(tree[w])] /\ DOMAIN Lengths(tree) = Workers
    BY DEF Lengths, ScanTypeInv
  <2>2. SumFunction(Lengths(tree)) = SumFunctionOnSet(Lengths(tree), Workers)
    BY <2>1, Zenon DEF SumFunction
  <2> QED BY <2>1, <2>2, Zenon DEF TotalEntries
<1>4. {w \in Workers : step[w] = "count"} = {}
  BY DEF Flushed
<1>5. TotalEntries = treeCount
  <2>1. TotalEntries = treeCount + Cardinality({w \in Workers : step[w] = "count"})
    BY DEF OvershootBounded
  <2>2. TotalEntries = treeCount + Cardinality({})
    BY <1>4, <2>1
  <2>3. Cardinality({}) = 0 /\ treeCount \in Nat
    BY FS_EmptySet DEF ScanTypeInv
  <2> QED BY <2>2, <2>3
<1>6. \A t \in Recorded : t.path \in visited
  BY <1>4 DEF RecordInv, TreeKnown
<1> QED BY <1>2, <1>3, <1>5, <1>6 DEF Merges, Recorded, Found

\* The tree of the result: cut to the cap, then sorted.
LEMMA TreeReturned ==
  ASSUME ScanTypeInv, RecordInv, OvershootBounded, MergeInv, \A w \in Workers : Flushed(w),
         NEW t, t = SortByPath(Truncate(AllTree, TreeMaxEntries))
  PROVE  /\ Len(t) = IF TotalEntries > TreeMaxEntries THEN TreeMaxEntries ELSE TotalEntries
         /\ Cardinality(visited) <= TreeMaxEntries => {x.path : x \in ToSet(t)} = visited
         /\ ToSet(t) \subseteq Recorded
         /\ \A i \in DOMAIN t \ {1} : PathBefore(t[i - 1].path, t[i].path)
         /\ t \in Seq(Entry) /\ InPathOrder(t)
<1>1. /\ ToSet(AllTree) = Recorded /\ Len(AllTree) = TotalEntries /\ Distinct(AllTree)
      /\ TotalEntries = treeCount /\ \A r \in Recorded : r.path \in visited
  BY AllMerged
<1>2. AllTree \in Seq(Entry) /\ IsFiniteSet(visited)
  BY DEF MergeInv
<1>3. TreeMaxEntries \in Nat /\ TotalEntries \in Nat
  BY <1>1, CapAssumption DEF ScanTypeInv
<1>4. PICK a, c, m : a = AllTree /\ c = Truncate(AllTree, TreeMaxEntries) /\ m = TreeMaxEntries
  OBVIOUS
<1>5. /\ a \in Seq(Entry) /\ Distinct(a) /\ Len(a) = TotalEntries /\ m \in Nat /\ Len(a) \in Nat
      /\ c = IF Len(a) > m THEN SubSeq(a, 1, m) ELSE a
  BY <1>1, <1>2, <1>3, <1>4 DEF Truncate
<1>6. /\ c \in Seq(Entry) /\ Distinct(c) /\ ToSet(c) \subseteq ToSet(a)
      /\ Len(c) = IF Len(a) > m THEN m ELSE Len(a)
  <2>1. CASE Len(a) > m
    <3>1. c = SubSeq(a, 1, m) /\ m <= Len(a)
      BY <1>5, <2>1
    <3> QED BY <1>5, <2>1, <3>1, HeadOfList
  <2>2. CASE ~(Len(a) > m)
    BY <1>5, <2>2
  <2> QED BY <2>1, <2>2
<1>7. /\ t \in Seq(Entry) /\ Len(t) = Len(c) /\ ToSet(t) = ToSet(c)
      /\ \A i, j \in 1 .. Len(t) : i < j => PathBefore(t[i].path, t[j].path)
  BY <1>4, <1>6, PathsOfRecords, SortDistinct
<1>8. ASSUME Cardinality(visited) <= m
      PROVE  {x.path : x \in ToSet(t)} = visited
  <2>1. DOMAIN a = 1 .. Len(a) /\ \A i \in 1 .. Len(a) : a[i] \in Recorded
    BY <1>1, <1>4, <1>5, LenProperties DEF ToSet
  <2>2. \A i \in 1 .. Len(a) : a[i].path \in visited
    BY <1>1, <2>1
  <2>3. /\ Len(a) <= Cardinality(visited)
        /\ Len(a) = Cardinality(visited) => \A x \in visited : \E i \in 1 .. Len(a) : a[i].path = x
    BY <1>2, <1>5, <2>2, ListInSet
  <2>4. Cardinality(visited) \in Nat
    BY <1>2, FS_CardinalityType
  <2>5. ToSet(t) = Recorded
    <3>1. ~(Len(a) > m)
      BY <1>5, <1>8, <2>3, <2>4
    <3>2. c = a
      BY <1>5, <3>1
    <3> QED BY <1>1, <1>4, <1>7, <3>2
  <2>6. \A x \in visited : \E r \in Recorded : r.path = x
    <3>1. CASE treeCount < TreeMaxEntries
      BY <3>1 DEF RecordInv, NoneLost
    <3>2. CASE ~(treeCount < TreeMaxEntries)
      <4>1. Len(a) >= m
        BY <1>1, <1>3, <1>4, <1>5, <3>2
      <4>2. Len(a) = Cardinality(visited)
        BY <1>5, <1>8, <2>3, <2>4, <4>1
      <4> QED BY <2>1, <2>3, <4>2
    <3> QED BY <3>1, <3>2
  <2> QED BY <1>1, <2>5, <2>6
<1>9. \A i \in DOMAIN t \ {1} : PathBefore(t[i - 1].path, t[i].path)
  <2>1. DOMAIN t = 1 .. Len(t) /\ Len(t) \in Nat
    BY <1>7, LenProperties
  <2>2. \A i \in DOMAIN t \ {1} : i - 1 \in 1 .. Len(t) /\ i \in 1 .. Len(t) /\ i - 1 < i
    BY <2>1
  <2> QED BY <1>7, <2>2
<1>10. Len(t) = IF TotalEntries > TreeMaxEntries THEN TreeMaxEntries ELSE TotalEntries
  BY <1>4, <1>5, <1>6, <1>7
<1>11. ToSet(t) \subseteq Recorded
  BY <1>1, <1>4, <1>6, <1>7
<1>12. InPathOrder(t)
  BY <1>7, LenProperties DEF InPathOrder
<1> QED BY <1>4, <1>7, <1>8, <1>9, <1>10, <1>11, <1>12

\* The hits of the result: sorted, with nothing for dedup_by to remove.
LEMMA HitsReturned ==
  ASSUME ScanTypeInv, RecordInv, OvershootBounded, MergeInv, \A w \in Workers : Flushed(w),
         NEW t, t = Dedup(SortByPath(AllHits))
  PROVE  /\ ToSet(t) = Found
         /\ \A i \in DOMAIN t \ {1} : PathBefore(t[i - 1].path, t[i].path)
         /\ t \in Seq(Hit) /\ InPathOrder(t)
<1>1. ToSet(AllHits) = Found /\ Distinct(AllHits)
  BY AllMerged
<1>2. PICK a, s : a = AllHits /\ s = SortByPath(AllHits)
  OBVIOUS
<1>3. a \in Seq(Hit)
  BY <1>2 DEF MergeInv
<1>4. /\ s \in Seq(Hit) /\ ToSet(s) = Found
      /\ \A i, j \in 1 .. Len(s) : i < j => PathBefore(s[i].path, s[j].path)
  BY <1>1, <1>2, <1>3, PathsOfRecords, SortDistinct
<1>5. t = s
  BY <1>2, <1>4, PathsOfRecords, DedupKeeps
<1>6. DOMAIN t = 1 .. Len(t) /\ Len(t) \in Nat
  BY <1>4, <1>5, LenProperties
<1>7. \A i \in DOMAIN t \ {1} : i - 1 \in 1 .. Len(t) /\ i \in 1 .. Len(t) /\ i - 1 < i
  BY <1>6
<1>8. InPathOrder(t)
  BY <1>4, <1>5, <1>6 DEF InPathOrder
<1> QED BY <1>4, <1>5, <1>7, <1>8

LEMMA ReturnMerges ==
  ASSUME ScanTypeInv, RecordInv, OvershootBounded, MergeInv, Return
  PROVE  MergeInv'
<1>1. /\ \A w \in Workers : Flushed(w)
      /\ UNCHANGED <<visited, step, hits, tree, treeCount, allLocals>>
  BY DEF Return, Pool!Return, Pool!readVars, visitVars
<1>2. PICK h, t : h = Dedup(SortByPath(AllHits)) /\ t = SortByPath(Truncate(AllTree, TreeMaxEntries))
  OBVIOUS
<1>3. result' = [hits |-> h, tree |-> t]
  BY <1>2 DEF Return
<1>4. /\ Len(t) = IF TotalEntries > TreeMaxEntries THEN TreeMaxEntries ELSE TotalEntries
      /\ Cardinality(visited) <= TreeMaxEntries => {x.path : x \in ToSet(t)} = visited
      /\ ToSet(t) \subseteq Recorded
      /\ \A i \in DOMAIN t \ {1} : PathBefore(t[i - 1].path, t[i].path)
      /\ t \in Seq(Entry) /\ InPathOrder(t)
  BY <1>1, <1>2, TreeReturned
<1>5. /\ ToSet(h) = Found
      /\ \A i \in DOMAIN h \ {1} : PathBefore(h[i - 1].path, h[i].path)
      /\ h \in Seq(Hit) /\ InPathOrder(h)
  BY <1>1, <1>2, HitsReturned
<1>6. UNCHANGED <<TotalEntries, Recorded, Found, AllHits, AllTree, Dropped>>
  BY <1>1 DEF TotalEntries, Recorded, Found, AllHits, AllTree, Dropped, Flushed
<1>7. result'.hits = h /\ result'.tree = t
  BY <1>3
<1>8. ResultComplete'
  BY <1>1, <1>4, <1>5, <1>6, <1>7 DEF ResultComplete
<1>9. ResultSorted'
  BY <1>4, <1>5, <1>7 DEF ResultSorted
<1>10. Dropped = Workers
  BY <1>1 DEF Dropped
<1> QED BY <1>1, <1>6, <1>8, <1>9, <1>10 DEF MergeInv

LEMMA MergeStep ==
  WalkFacts /\ ScanTypeInv /\ RecordInv /\ OvershootBounded /\ MergeInv /\ [Next]_vars => MergeInv'
<1> SUFFICES ASSUME WalkFacts, ScanTypeInv, RecordInv, OvershootBounded, MergeInv, [Next]_vars
             PROVE  MergeInv'
  OBVIOUS
<1>1. ASSUME NEW w \in Workers, PoolStep(w) PROVE MergeInv'
  <2>1. UNCHANGED <<hits, tree, allLocals, result, returned, visited, step>>
    BY <1>1, PoolStepKeeps DEF PoolStep, visitVars, scanVars
  <2>2. Dropped' = Dropped
    BY <2>1 DEF Dropped, Flushed
  <2> QED BY <2>1, <2>2, MergeKept
<1>2. ASSUME NEW w \in Workers, NEW e \in pending[w], CheckJunk(w, e) PROVE MergeInv'
  <2>1. UNCHANGED <<hits, tree, allLocals, result, returned, visited>>
    BY <1>2 DEF CheckJunk, poolVars, scanVars
  <2>2. PICK junk \in BOOLEAN : step' = [step EXCEPT ![w] = IF junk THEN "hit" ELSE "tree"]
    BY <1>2, Zenon DEF CheckJunk
  <2>3. Dropped' = Dropped
    BY <1>2, <2>2 DEF CheckJunk, ScanTypeInv, Dropped, Flushed
  <2> QED BY <2>1, <2>3, MergeKept
<1>3. ASSUME NEW w \in Workers, CountEntry(w) \/ TreeFull(w) PROVE MergeInv'
  <2>1. /\ step[w] \in {"count", "tree"} /\ step' = [step EXCEPT ![w] = "free"]
        /\ UNCHANGED <<hits, tree, allLocals, result, returned>>
        /\ visited' = visited \cup {entry[w]}
    BY <1>3 DEF CountEntry, TreeFull, LeaveVisitor, Pool!VisitEntry
  <2>2. ~Flushed(w) /\ Dropped' = Dropped
    BY <2>1 DEF ScanTypeInv, Dropped, Flushed
  <2>3. ~returned
    BY <2>2, NotDropped
  <2> QED BY <2>1, <2>2, <2>3, MergeKept
<1>4. CASE CreateMarker \/ DeleteMarker \/ Finished \/ UNCHANGED vars
  <2>1. UNCHANGED <<hits, tree, allLocals, result, returned, visited, step>>
    BY <1>4 DEF CreateMarker, DeleteMarker, Finished, vars, poolVars, visitVars, scanVars
  <2>2. Dropped' = Dropped
    BY <2>1 DEF Dropped, Flushed
  <2> QED BY <2>1, <2>2, MergeKept
<1> QED BY <1>1, <1>2, <1>3, <1>4, HitMerges, EntryMerges, FlushMerges, ReturnMerges
    DEF Next, Visitor

-----------------------------------------------------------------------------
(* What the pipeline can rely on                                           *)

\* An entry of the tree is what the reader has told of its path, and only a directory
\* is marked as junk.
Told(t) ==
  /\ t.path \in Path \ {<<>>} /\ t = TreeEntry(t.path, t.is_junk)
  /\ t.is_junk \in BOOLEAN /\ (t.is_junk => Kind[t.path] = "Dir")

EntriesTold ==
  /\ \A t \in Recorded : Told(t)
  /\ \A w \in Workers : Working(w) /\ isJunk[w] => Kind[entry[w]] = "Dir"

LEMMA InitiallyTold == Init => EntriesTold
<1> SUFFICES ASSUME Init PROVE EntriesTold
  OBVIOUS
<1>1. \A w \in Workers : ToSet(tree[w]) = {} /\ step[w] = "free"
  BY DEF Init, ToSet
<1> QED BY <1>1 DEF EntriesTold, Recorded, Working

LEMMA ToldStep == WalkFacts /\ ScanTypeInv /\ EntriesTold /\ [Next]_vars => EntriesTold'
<1> SUFFICES ASSUME WalkFacts, ScanTypeInv, EntriesTold, [Next]_vars PROVE EntriesTold'
  OBVIOUS
<1>1. ASSUME NEW w \in Workers, NEW e \in pending[w], CheckJunk(w, e) PROVE EntriesTold'
  <2>1. PICK junk \in BOOLEAN : /\ isJunk' = [isJunk EXCEPT ![w] = junk]
                                /\ junk => Kind[e] = "Dir"
                                /\ step' = [step EXCEPT ![w] = IF junk THEN "hit" ELSE "tree"]
    BY <1>1, Zenon DEF CheckJunk
  <2>2. entry' = [entry EXCEPT ![w] = e] /\ UNCHANGED tree
    BY <1>1 DEF CheckJunk, scanVars
  <2> QED BY <2>1, <2>2 DEF ScanTypeInv, JunkTyped, EntriesTold, Recorded, Working
<1>2. ASSUME NEW w \in Workers, RecordEntry(w) PROVE EntriesTold'
  <2>1. /\ step[w] = "tree" /\ step' = [step EXCEPT ![w] = "count"]
        /\ tree' = [tree EXCEPT ![w] = Append(@, TreeEntry(entry[w], isJunk[w]))]
        /\ UNCHANGED <<entry, isJunk>>
    BY <1>2 DEF RecordEntry
  <2>2. entry[w] \in Path /\ entry[w] # <<>> /\ Working(w)
    BY <2>1, VisitorEntry DEF Working
  <2>3. PICK x : x = TreeEntry(entry[w], isJunk[w])
    OBVIOUS
  <2>4. x.path = entry[w] /\ x.is_junk = isJunk[w] /\ isJunk[w] \in BOOLEAN
    BY <2>3 DEF TreeEntry, ScanTypeInv, JunkTyped
  <2>5. Told(x)
    BY <2>2, <2>3, <2>4 DEF Told, EntriesTold
  <2>6. Recorded' = Recorded \cup {x}
    <3>1. /\ tree[w] \in Seq(Entry) /\ tree'[w] = Append(tree[w], x)
          /\ \A v \in Workers : v # w => tree'[v] = tree[v]
      BY <2>1, <2>3 DEF ScanTypeInv
    <3>2. ToSet(tree'[w]) = ToSet(tree[w]) \cup {x}
      BY <3>1, AppendedToSet
    <3>3. /\ Recorded = UNION {ToSet(tree[v]) : v \in Workers}
          /\ Recorded' = UNION {ToSet(tree'[v]) : v \in Workers}
      BY DEF Recorded
    <3> QED BY <3>1, <3>2, <3>3
  <2>7. \A v \in Workers : Working(v)' => Working(v)
    BY <2>1, <2>2 DEF Working, ScanTypeInv
  <2> QED BY <2>1, <2>5, <2>6, <2>7 DEF EntriesTold
<1>3. ASSUME NEW w \in Workers, RecordHit(w) \/ CountEntry(w) \/ TreeFull(w) \/ FlushOnDrop(w)
      PROVE  EntriesTold'
  <2>1. /\ UNCHANGED tree
        /\ \A v \in Workers : Working(v)' => UNCHANGED <<entry[v], isJunk[v], Working(v)>>
    BY <1>3 DEF RecordHit, CountEntry, TreeFull, LeaveVisitor, FlushOnDrop, ScanTypeInv, JunkTyped, Working
  <2> QED BY <2>1 DEF EntriesTold, Recorded
<1>4. CASE UNCHANGED <<tree, step, entry, isJunk>>
  BY <1>4 DEF EntriesTold, Recorded, Working
<1> QED BY <1>1, <1>2, <1>3, <1>4
    DEF Next, PoolStep, Visitor, Return, CreateMarker, DeleteMarker, Finished, visitVars, scanVars,
        vars

\* Below the cap scan_all returns a whole scan.
ResultWhole ==
  returned /\ Cardinality(visited) <= TreeMaxEntries => WholeScan(result.hits, result.tree)

LEMMA HitsWhole ==
  ASSUME MergeInv, returned
  PROVE  result.hits \in Seq(HitRecord) /\ OneHitEach(result.hits)
<1>1. PICK h, n : h = result.hits /\ n = Len(h)
  OBVIOUS
<1>2. h \in Seq(Hit) /\ InPathOrder(h)
  BY <1>1 DEF MergeInv, ResultSorted
<1>3. DOMAIN h = 1 .. n /\ n \in Nat /\ \A i \in 1 .. n : h[i] \in Hit /\ h[i].path \in Seq(Nat)
  BY <1>1, <1>2, LenProperties, PathsOfRecords
<1>4. \A x \in Hit : x \in HitRecord
  <2>1. {Patterns[i].ecosystem : i \in DOMAIN Patterns} \cup {NoLabel} \subseteq STRING
    BY PatternAssumption
  <2> QED BY <2>1, SizeAssumption DEF Hit, HitRecord
<1>5. h \in Seq(HitRecord)
  BY <1>2, <1>4, SeqDef
<1>6. OneHitEach(h)
  <2> SUFFICES ASSUME NEW i \in 1 .. n, NEW j \in 1 .. n, h[i].path = h[j].path, i # j
               PROVE  FALSE
    BY <1>3 DEF OneHitEach
  <2>1. i < j \/ j < i
    BY <1>3
  <2>2. PathBefore(h[i].path, h[i].path)
    BY <1>2, <1>3, <2>1 DEF InPathOrder
  <2> QED BY <1>3, <2>2, PathsOrdered
<1> QED BY <1>1, <1>5, <1>6

\* The directory of an entry below the first level has been entered, so it is in the
\* list, is a directory, and is no hit.
LEMMA ParentsOpen ==
  ASSUME WalkFacts, RecordInv, NEW q \in visited, q \in Seq(Nat), Len(q) > 1
  PROVE  /\ Parent(q) \in visited /\ Kind[Parent(q)] = "Dir"
         /\ \A h \in Found : h.path # Parent(q)
<1>1. PICK d \in opened : q \in yields[d]
  BY DEF WalkFacts, PP!TaskInv, PP!Discovered
<1>2. opened \subseteq Path /\ yields \in Listings
  BY DEF WalkFacts, PP!PoolInv, PP!TypeOK
<1>3. Parent(q) = d /\ q # <<>>
  BY <1>1, <1>2, ListingAssumption
<1>4. d # <<>>
  <2>1. Len(Parent(q)) + 1 = Len(q) /\ Len(<<>>) = 0
    BY <1>3, ParentBelowRoot
  <2> QED BY <1>3, <2>1
<1>5. PP!InSeq(<< <<>> >>) = {<<>>}
  BY DEF PP!InSeq
<1>6. d \in visited
  BY <1>1, <1>4, <1>5 DEF WalkFacts, PP!KnownInv
<1>7. d \in PP!Accepted
  BY <1>1 DEF PP!Accepted
<1>8. Kind[d] = "Dir"
  BY <1>4, <1>5, <1>7 DEF WalkFacts, PP!EnteredInv, PP!Descendable
<1>9. \A h \in Found : h.path # d
  BY <1>7 DEF RecordInv, HitsKnown
<1> QED BY <1>3, <1>6, <1>8, <1>9

LEMMA TreeWhole ==
  ASSUME WalkFacts, ScanTypeInv, RecordInv, EntriesTold, MergeInv, returned,
         Cardinality(visited) <= TreeMaxEntries
  PROVE  /\ result.tree \in Seq(EntryRecord) /\ InPathOrder(result.tree)
         /\ DepthsMatch(result.tree) /\ OpenParents(result.tree)
         /\ JunkIsHit(result.hits, result.tree) /\ DirsUnsized(result.tree)
<1>1. PICK t, h, n : t = result.tree /\ h = result.hits /\ n = Len(t)
  OBVIOUS
<1>2. t \in Seq(Entry) /\ InPathOrder(t) /\ h \in Seq(Hit)
  BY <1>1 DEF MergeInv, ResultSorted
<1>3. /\ {x.path : x \in ToSet(t)} = visited /\ ToSet(t) \subseteq Recorded
      /\ {x.path : x \in ToSet(h)} = {x.path : x \in Found}
  BY <1>1 DEF MergeInv, ResultComplete
<1>4. DOMAIN t = 1 .. n /\ n \in Nat /\ \A i \in 1 .. n : t[i] \in ToSet(t)
  BY <1>1, <1>2, LenProperties DEF ToSet
<1>5. \A i \in 1 .. n : t[i] \in Recorded /\ Told(t[i]) /\ t[i].path \in visited
  BY <1>3, <1>4 DEF EntriesTold
<1>6. ASSUME NEW i \in 1 .. n, NEW p, p = t[i].path
      PROVE  /\ p \in Path /\ p \in Seq(Nat) /\ p # <<>>
             /\ t[i].kind = Kind[p] /\ t[i].depth = Len(p) /\ t[i].size = Size[p]
             /\ (t[i].is_junk => Kind[p] = "Dir") /\ t[i] \in EntryRecord
  <2>1. PICK x, junk : x = t[i] /\ junk = x.is_junk
    OBVIOUS
  <2>2. p \in Path \ {<<>>} /\ x = TreeEntry(p, junk) /\ junk \in BOOLEAN /\ (junk => Kind[p] = "Dir")
    BY <1>5, <1>6, <2>1 DEF Told
  <2>3. p \in Seq(Nat) /\ Size[p] \in Nat /\ Len(p) \in Nat
    BY <2>2, SizeAssumption, LenProperties
  <2>4. Kind[p] \in {"File", "Dir", "Symlink", "Other"}
    BY <2>2, PoolAssumption DEF Pool!PathsOK, Pool!EntryKind
  <2> QED BY <2>1, <2>2, <2>3, <2>4 DEF TreeEntry, EntryRecord
<1>7. t \in Seq(EntryRecord)
  <2>1. \A i \in 1 .. n : t[i] \in EntryRecord
    BY <1>6
  <2>2. t = [i \in 1 .. n |-> t[i]]
    BY <1>1, <1>2, <1>4
  <2>3. t \in [1 .. n -> EntryRecord]
    BY <2>1, <2>2
  <2> QED BY <1>4, <2>3, SeqDef
<1>8. DepthsMatch(t) /\ DirsUnsized(t)
  <2> SUFFICES ASSUME NEW i \in 1 .. n
               PROVE  /\ t[i].depth = Len(t[i].path)
                      /\ t[i].kind = "Dir" => t[i].size = 0
    BY <1>4 DEF DepthsMatch, DirsUnsized
  <2>1. PICK p : p = t[i].path
    OBVIOUS
  <2>2. p \in Path /\ t[i].kind = Kind[p] /\ t[i].depth = Len(p) /\ t[i].size = Size[p]
    BY <1>6, <2>1
  <2> QED BY <2>1, <2>2, SizeAssumption
<1>9. OpenParents(t)
  <2> SUFFICES ASSUME NEW i \in 1 .. n, Len(t[i].path) > 1
               PROVE  \E j \in 1 .. n : /\ t[j].path = Parent(t[i].path)
                                        /\ t[j].kind = "Dir" /\ ~t[j].is_junk
    BY <1>4 DEF OpenParents
  <2>1. PICK d : d = Parent(t[i].path)
    OBVIOUS
  <2>2. d \in visited /\ Kind[d] = "Dir" /\ \A x \in Found : x.path # d
    BY <1>5, <1>6, <2>1, ParentsOpen
  <2>3. PICK j \in 1 .. n : t[j].path = d
    BY <1>3, <1>4, <2>2 DEF ToSet
  <2>4. ~t[j].is_junk
    BY <1>5, <2>2, <2>3 DEF RecordInv, MarksAgree
  <2> QED BY <1>6, <2>1, <2>2, <2>3, <2>4
<1>10. JunkIsHit(h, t)
  <2> SUFFICES ASSUME NEW i \in 1 .. n, t[i].is_junk
               PROVE  t[i].kind = "Dir" /\ \E k \in DOMAIN h : h[k].path = t[i].path
    BY <1>4 DEF JunkIsHit
  <2>1. PICK x \in Found : x.path = t[i].path
    BY <1>5 DEF RecordInv, MarksAgree
  <2>2. \E y \in ToSet(h) : y.path = t[i].path
    BY <1>3, <2>1
  <2> QED BY <1>6, <2>2 DEF ToSet
<1> QED BY <1>1, <1>2, <1>7, <1>8, <1>9, <1>10

-----------------------------------------------------------------------------
(* Theorems                                                                *)

LEMMA ScanTypeInvariant == Spec => []ScanTypeInv
BY InitialTypes, TypesStep, PoolFacts, PTL DEF Spec

LEMMA RecordInvariant == Spec => []RecordInv
BY InitialRecords, RecordsStep, ScanTypeInvariant, PoolFacts, PTL DEF Spec

\* The types: in particular a hit has the label of a pattern or none, and every entry of
\* the tree is one that the reader can yield (scan.rs 71-100).
THEOREM ScanTypes == Spec => []TypeOK
<1>1. WalkFacts /\ ScanTypeInv => TypeOK
  BY SameTypes DEF WalkFacts, PP!PoolInv, ScanTypeInv, JunkTyped, TypeOK
<1> QED BY <1>1, PoolFacts, ScanTypeInvariant, PTL

\* The cap is overshot by less than one entry per thread (scan.rs 89-100).
THEOREM CapHolds == Spec => []OvershootBounded
BY InitialCap, CapStep, ScanTypeInvariant, PTL DEF Spec

\* The tree is closed under parents until it is cut (scan.rs 89-100).
THEOREM TreeIsClosed == Spec => []AncestorsRecorded
<1>1. RecordInv => AncestorsRecorded
  BY DEF RecordInv
<1> QED BY <1>1, RecordInvariant, PTL

\* No walk enters junk, whatever happens to its marker meanwhile (scan.rs 69-105).
THEOREM JunkIsClosed == Spec => []JunkStaysClosed
BY ClosedBelow, RecordInvariant, ScanTypeInvariant, PoolFacts, PTL

\* Marks and hits agree; in a calm scan a hit has its first label, and in any other it has
\* that of a pattern with a reason, or none if the question for it could fail (scan.rs 71
\* and 83, junk.rs 224-240).
THEOREM MarksMatch == Spec => []MarksMatchHits
<1>1. Init => LabelsRight
  <2> SUFFICES ASSUME Init PROVE LabelsRight
    OBVIOUS
  <2>1. \A w \in Workers : ToSet(hits[w]) = {}
    BY DEF Init, ToSet
  <2>2. \A w \in Workers : step[w] # "hit"
    BY DEF Init
  <2> QED BY <2>1, <2>2 DEF LabelsRight, Found
<1>2. RecordInv /\ LabelsRight => MarksMatchHits
  BY DEF RecordInv, MarksAgree, LabelsRight, Labelled, Justified, MarksMatchHits
<1> QED BY <1>1, <1>2, LabelsStep, RecordInvariant, ScanTypeInvariant, PTL DEF Spec

LEMMA MergeInvariant == Spec => []MergeInv
BY InitialMerge, MergeStep, RecordInvariant, ScanTypeInvariant, PoolFacts, CapHolds, PTL DEF Spec

\* The result has every visited entry below the cap, as many as the cap allows above it,
\* and every hit, all of them once and in path order (scan.rs 118-132).
THEOREM ResultIsComplete == Spec => []ResultComplete
<1>1. MergeInv => ResultComplete
  BY DEF MergeInv
<1> QED BY <1>1, MergeInvariant, PTL

\* Below the cap what scan_all returns is what the steps after it assume: in path order,
\* each entry below a directory that is in the list and is not junk, with the depth of
\* its path, junk directories among the hits, each once (scan.rs 67-132).
THEOREM ResultIsWhole == Spec => []ResultWhole
<1>1. WalkFacts /\ ScanTypeInv /\ RecordInv /\ EntriesTold /\ MergeInv => ResultWhole
  BY HitsWhole, TreeWhole DEF ResultWhole, WholeScan
<1>2. Spec => []EntriesTold
  BY InitiallyTold, ToldStep, ScanTypeInvariant, PoolFacts, PTL DEF Spec
<1> QED BY <1>1, <1>2, MergeInvariant, RecordInvariant, ScanTypeInvariant, PoolFacts, PTL

=============================================================================
