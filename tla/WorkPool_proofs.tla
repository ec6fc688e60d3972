-------------------------- MODULE WorkPool_proofs --------------------------
(***************************************************************************)
(* Proofs about WorkPool, for any number of threads, any file system and   *)
(* any set of errors the reader can meet.                                  *)
(*                                                                         *)
(* The first part is a count: a token stands for every directory in        *)
(* flight, every step moves, adds or removes tokens the way it changes     *)
(* active_dirs, and so the worker that takes the counter to zero took the  *)
(* last token.                                                             *)
(*                                                                         *)
(* The second part is about which directories these are.  A step moves     *)
(* directories between the queues and the workers, or one worker leaves a  *)
(* directory: its children take its place, and this is a step of           *)
(* Traversal.  What makes it one is TaskInv: nobody else knows the         *)
(* directory or its entries.                                               *)
(***************************************************************************)
EXTENDS WorkPool, DataTheorems, SequenceTheorems

-----------------------------------------------------------------------------
(* Counting                                                                *)

\* Replacing one element by another keeps the count.
LEMMA CountSwap ==
  ASSUME NEW S, IsFiniteSet(S), NEW x \in S, NEW y, y \notin S
  PROVE  /\ IsFiniteSet((S \ {x}) \cup {y})
         /\ Cardinality((S \ {x}) \cup {y}) = Cardinality(S)
<1>1. /\ IsFiniteSet(S \ {x})
      /\ Cardinality(S \ {x}) = Cardinality(S) - 1
  BY FS_RemoveElement
<1>2. /\ IsFiniteSet((S \ {x}) \cup {y})
      /\ Cardinality((S \ {x}) \cup {y}) = Cardinality(S \ {x}) + 1
  BY <1>1, FS_AddElement
<1>3. Cardinality(S) \in Nat
  BY FS_CardinalityType
<1> QED BY <1>1, <1>2, <1>3

\* The children counted by a worker are as many tokens.
LEMMA CountChildren ==
  ASSUME NEW w, NEW C, IsFiniteSet(C)
  PROVE  LET T == {<<"counted", w, c>> : c \in C}
         IN  IsFiniteSet(T) /\ Cardinality(T) = Cardinality(C)
<1> DEFINE T == {<<"counted", w, c>> : c \in C}
           f == [c \in C |-> <<"counted", w, c>>]
<1>1. f \in Bijection(C, T)
  <2>1. f \in [C -> T]
    OBVIOUS
  <2>2. ASSUME NEW a \in C, NEW b \in C, f[a] = f[b] PROVE a = b
    BY <2>2
  <2>3. \A t \in T : \E c \in C : f[c] = t
    OBVIOUS
  <2> QED BY <2>1, <2>2, <2>3 DEF Bijection, Injection, Surjection, IsInjective
<1>2. ExistsBijection(C, T)
  BY <1>1 DEF ExistsBijection
<1> QED BY <1>2, FS_Bijection

\* The tasks on the injector are as many tokens.
LEMMA CountInjector ==
  ASSUME NEW n \in Nat
  PROVE  LET T == {<<"injector", i>> : i \in 1 .. n}
         IN  IsFiniteSet(T) /\ Cardinality(T) = n
<1> DEFINE T == {<<"injector", i>> : i \in 1 .. n}
           f == [i \in 1 .. n |-> <<"injector", i>>]
<1>1. f \in Bijection(1 .. n, T)
  <2>1. f \in [1 .. n -> T]
    OBVIOUS
  <2>2. ASSUME NEW a \in 1 .. n, NEW b \in 1 .. n, f[a] = f[b] PROVE a = b
    BY <2>2
  <2>3. \A t \in T : \E i \in 1 .. n : f[i] = t
    OBVIOUS
  <2> QED BY <2>1, <2>2, <2>3 DEF Bijection, Injection, Surjection, IsInjective
<1>2. ExistsBijection(1 .. n, T)
  BY <1>1 DEF ExistsBijection
<1>3. IsFiniteSet(1 .. n) /\ Cardinality(1 .. n) = n
  BY FS_Interval
<1> QED BY <1>2, <1>3, FS_Bijection

-----------------------------------------------------------------------------
(* How tokens move                                                         *)

LEMMA VictimIsWorker ==
  ASSUME TypeOK, NEW w \in Workers
  PROVE  Victim(w) \in Workers
BY ConfigAssumption, SMTT(30) DEF Victim, Workers, NumThreads, TypeOK, ConfigOK

\* The four places a directory can be in are apart.
LEMMA PlacesApart ==
  /\ InjectorTokens \cap DequeTokens = {}
  /\ InjectorTokens \cap HeldTokens = {}
  /\ InjectorTokens \cap CountedTokens = {}
  /\ DequeTokens \cap HeldTokens = {}
  /\ DequeTokens \cap CountedTokens = {}
  /\ HeldTokens \cap CountedTokens = {}
  /\ \A w : <<"held", w>> \notin InjectorTokens \cup DequeTokens \cup CountedTokens
  /\ \A w, i : <<"deque", w, i>> \notin InjectorTokens \cup HeldTokens \cup CountedTokens
  /\ \A i : <<"injector", i>> \notin DequeTokens \cup HeldTokens \cup CountedTokens
  /\ \A w, c : <<"counted", w, c>> \notin InjectorTokens \cup DequeTokens \cup HeldTokens
BY DEF InjectorTokens, DequeTokens, HeldTokens, CountedTokens

LEMMA InjectorShrinks ==
  ASSUME TypeOK, injector # <<>>, injector' = Tail(injector)
  PROVE  /\ <<"injector", Len(injector)>> \in InjectorTokens
         /\ InjectorTokens' = InjectorTokens \ {<<"injector", Len(injector)>>}
<1>1. Len(injector) \in Nat \ {0} /\ Len(injector') = Len(injector) - 1
  BY EmptySeq, HeadTailProperties DEF TypeOK
<1>2. \A n \in Nat \ {0} :
         /\ <<"injector", n>> \in {<<"injector", i>> : i \in 1 .. n}
         /\ {<<"injector", i>> : i \in 1 .. n - 1}
              = {<<"injector", i>> : i \in 1 .. n} \ {<<"injector", n>>}
  OBVIOUS
<1>3. InjectorTokens' = {<<"injector", i>> : i \in 1 .. Len(injector) - 1}
  BY <1>1, Zenon DEF InjectorTokens
<1> QED BY <1>1, <1>2, <1>3, Zenon DEF InjectorTokens

LEMMA DequeShrinks ==
  ASSUME TypeOK, NEW w \in Workers, deque[w] # <<>>, NEW s,
         deque' = [deque EXCEPT ![w] = s], Len(s) = Len(deque[w]) - 1
  PROVE  /\ <<"deque", w, Len(deque[w])>> \in DequeTokens
         /\ DequeTokens' = DequeTokens \ {<<"deque", w, Len(deque[w])>>}
<1>1. Len(deque[w]) \in Nat /\ Len(deque[w]) > 0
  BY EmptySeq DEF TypeOK
<1>2. deque'[w] = s /\ \A v \in Workers : v # w => deque'[v] = deque[v]
  BY DEF TypeOK
<1> QED BY <1>1, <1>2 DEF DequeTokens

LEMMA DequeGrows ==
  ASSUME TypeOK, NEW w \in Workers, NEW c \in Node,
         deque' = [deque EXCEPT ![w] = Append(@, c)]
  PROVE  /\ <<"deque", w, Len(deque[w]) + 1>> \notin DequeTokens
         /\ DequeTokens' = DequeTokens \cup {<<"deque", w, Len(deque[w]) + 1>>}
<1>1. Len(deque[w]) \in Nat /\ Len(Append(deque[w], c)) = Len(deque[w]) + 1
  BY AppendProperties, LenProperties DEF TypeOK
<1>2. deque'[w] = Append(deque[w], c) /\ \A v \in Workers : v # w => deque'[v] = deque[v]
  BY DEF TypeOK
<1> QED BY <1>1, <1>2 DEF DequeTokens

LEMMA HeldMoves ==
  ASSUME TypeOK, NEW w \in Workers, NEW phase, Goto(w, phase)
  PROVE  HeldTokens' = IF phase \in {"open", "visit"} THEN HeldTokens \cup {<<"held", w>>}
                                                      ELSE HeldTokens \ {<<"held", w>>}
<1>1. pc'[w] = phase /\ \A v \in Workers : v # w => pc'[v] = pc[v]
  BY DEF TypeOK, Goto
<1> QED BY <1>1 DEF HeldTokens, Reading

LEMMA HeldToken ==
  ASSUME NEW w \in Workers
  PROVE  <<"held", w>> \in HeldTokens <=> Reading(w)
BY DEF HeldTokens

\* A worker whose step neither starts nor ends in the push phase leaves the
\* counted children as they are.
LEMMA CountedStays ==
  ASSUME TypeOK, NEW w \in Workers, NEW phase, Goto(w, phase),
         pc[w] # "push", phase # "push",
         \A v \in Workers : v # w => subDirs'[v] = subDirs[v]
  PROVE  CountedTokens' = CountedTokens
<1>1. pc'[w] = phase /\ \A v \in Workers : v # w => pc'[v] = pc[v]
  BY DEF TypeOK, Goto
<1> QED BY <1>1 DEF CountedTokens

LEMMA CountedGains ==
  ASSUME TypeOK, NEW w \in Workers, Goto(w, "push"), pc[w] # "push", UNCHANGED subDirs
  PROVE  /\ CountedTokens' = CountedTokens \cup {<<"counted", w, c>> : c \in subDirs[w]}
         /\ CountedTokens \cap {<<"counted", w, c>> : c \in subDirs[w]} = {}
<1>1. pc'[w] = "push" /\ \A v \in Workers : v # w => pc'[v] = pc[v]
  BY DEF TypeOK, Goto
<1> QED BY <1>1 DEF CountedTokens

LEMMA CountedLoses ==
  ASSUME TypeOK, NEW w \in Workers, NEW child \in subDirs[w], pc[w] = "push",
         subDirs' = [subDirs EXCEPT ![w] = @ \ {child}],
         Goto(w, IF subDirs[w] = {child} THEN "pop" ELSE "push")
  PROVE  /\ <<"counted", w, child>> \in CountedTokens
         /\ CountedTokens' = CountedTokens \ {<<"counted", w, child>>}
<1>1. /\ pc'[w] = IF subDirs[w] = {child} THEN "pop" ELSE "push"
      /\ \A v \in Workers : v # w => pc'[v] = pc[v]
  BY DEF TypeOK, Goto
<1>2. /\ subDirs'[w] = subDirs[w] \ {child}
      /\ \A v \in Workers : v # w => subDirs'[v] = subDirs[v]
  BY DEF TypeOK
<1> QED BY <1>1, <1>2 DEF CountedTokens

-----------------------------------------------------------------------------
(* Each conjunct of the invariant, step by step                            *)

\* A worker that is reading accounts for one of the directories in flight.
LEMMA ReaderCounts ==
  ASSUME PoolInv, NEW w \in Workers, Reading(w)
  PROVE  activeDirs >= 1
<1>1. IsFiniteSet(Tokens) /\ activeDirs = Cardinality(Tokens) /\ activeDirs \in Nat
  BY DEF PoolInv, ActiveCountsTokens, TypeOK
<1>2. Tokens # {}
  BY HeldToken DEF Tokens
<1>3. Cardinality(Tokens) # 0
  BY <1>1, <1>2, FS_EmptySet
<1> QED BY <1>1, <1>3

LEMMA Initially == Init => PoolInv
<1> SUFFICES ASSUME Init PROVE PoolInv
  OBVIOUS
<1> USE DEF Init
<1>1. Len(RootTasks) \in Nat /\ Len(RootTasks) > 0
  BY RootAssumption, EmptySeq DEF RootsOK
<1>2. TypeOK
  <2>1. injector \in Seq(Node) /\ deque \in [Workers -> Seq(Node)] /\ activeDirs \in Nat
    BY <1>1, RootAssumption, EmptySeq DEF RootsOK
  <2>2. /\ pc \in [Workers -> Phase]
        /\ offset \in [Workers -> Nat \ {0}]
        /\ anyRetry \in [Workers -> BOOLEAN]
        /\ dir \in [Workers -> Node \cup {NoDir}]
        /\ pending \in [Workers -> SUBSET Node]
        /\ subDirs \in [Workers -> SUBSET Node]
    BY DEF Phase
  <2> QED BY <2>1, <2>2 DEF TypeOK
<1>3. LocalsMatchPhase
  BY PathAssumption, FS_EmptySet DEF LocalsMatchPhase, Reading, PathsOK
<1>4. ThiefHasEmptyDeque /\ LeavesAfterDone
  BY DEF ThiefHasEmptyDeque, LeavesAfterDone
<1>5. ActiveCountsTokens
  <2>1. DequeTokens = {}
    BY EmptySeq DEF DequeTokens
  <2>2. HeldTokens = {} /\ CountedTokens = {}
    BY DEF HeldTokens, CountedTokens, Reading
  <2>3. Tokens = {<<"injector", i>> : i \in 1 .. Len(RootTasks)}
    BY <2>1, <2>2 DEF Tokens, InjectorTokens
  <2> QED BY <1>1, <2>3, CountInjector DEF ActiveCountsTokens
<1>6. SignalNotLost
  BY <1>1 DEF SignalNotLost
<1> QED BY <1>2, <1>3, <1>4, <1>5, <1>6 DEF PoolInv

\* Every step leaves the variables in their types; only taking a directory off the
\* counter needs more than the types: a reader is counted, so it stays above zero.
LEMMA TypeStep ==
  ASSUME PoolInv, NEW w \in Workers, RunWorker(w)
  PROVE  TypeOK'
<1>1. TypeOK /\ LocalsMatchPhase
  BY DEF PoolInv
<1>2. CASE PopOwn(w)
  <2>1. /\ deque[w] \in Seq(Node)
        /\ Len(deque[w]) \in Nat \ {0}
        /\ deque[w][Len(deque[w])] \in Node
        /\ SubSeq(deque[w], 1, Len(deque[w]) - 1) \in Seq(Node)
    BY <1>1, <1>2, EmptySeq, ElementOfSeq, SubSeqProperties DEF TypeOK, PopOwn
  <2> QED BY <1>1, <1>2, <2>1 DEF TypeOK, PopOwn, Hold, Goto, Phase, sweepVars
<1>3. CASE OwnEmpty(w)
  BY <1>1, <1>3 DEF TypeOK, OwnEmpty, Goto, Phase, sharedVars, sweepVars, readVars
<1>4. CASE StealInjected(w)
  <2>1. Head(injector) \in Node /\ Tail(injector) \in Seq(Node)
    BY <1>1, <1>4, HeadTailProperties DEF TypeOK, StealInjected
  <2> QED BY <1>1, <1>4, <2>1 DEF TypeOK, StealInjected, Hold, Goto, Phase, sweepVars
<1>5. CASE InjectorEmpty(w)
  BY <1>1, <1>5 DEF TypeOK, InjectorEmpty, Goto, Phase, sharedVars, sweepVars, readVars
<1>6. CASE StealFrom(w)
  <2>1. /\ Victim(w) \in Workers
        /\ Head(deque[Victim(w)]) \in Node
        /\ Tail(deque[Victim(w)]) \in Seq(Node)
    BY <1>1, <1>6, VictimIsWorker, HeadTailProperties DEF TypeOK, StealFrom
  <2> QED BY <1>1, <1>6, <2>1 DEF TypeOK, StealFrom, Hold, Goto, Phase
<1>7. CASE StealMissed(w)
  <2> DEFINE retry == anyRetry[w] \/ deque[Victim(w)] # <<>>
  <2>1. offset' = [offset EXCEPT ![w] = @ + 1] \/ offset' = [offset EXCEPT ![w] = 1]
    BY <1>7, Zenon DEF StealMissed
  <2>2. \/ anyRetry' = [anyRetry EXCEPT ![w] = retry]
        \/ anyRetry' = [anyRetry EXCEPT ![w] = FALSE]
    BY <1>7, Zenon DEF StealMissed
  <2>3. UNCHANGED pc \/ Goto(w, "inject") \/ Goto(w, "idle")
    BY <1>7, Zenon DEF StealMissed
  <2>4. offset' \in [Workers -> Nat \ {0}]
    <3>1. offset \in [Workers -> Nat \ {0}]
      BY <1>1 DEF TypeOK
    <3>2. offset[w] + 1 \in Nat \ {0}
      BY <3>1
    <3>3. CASE offset' = [offset EXCEPT ![w] = @ + 1]
      BY <3>1, <3>2, <3>3
    <3>4. CASE offset' = [offset EXCEPT ![w] = 1]
      BY <3>1, <3>4
    <3> QED BY <2>1, <3>3, <3>4
  <2>5. anyRetry' \in [Workers -> BOOLEAN]
    <3>1. retry \in BOOLEAN
      OBVIOUS
    <3> HIDE DEF retry
    <3> QED BY <1>1, <2>2, <3>1, Zenon DEF TypeOK
  <2>6. pc' \in [Workers -> Phase]
    BY <1>1, <2>3 DEF TypeOK, Goto, Phase
  <2>7. UNCHANGED <<yields, sharedVars, readVars, returned>>
    BY <1>7 DEF StealMissed
  <2> QED BY <1>1, <2>4, <2>5, <2>6, <2>7 DEF TypeOK, sharedVars, readVars
<1>8. CASE CheckDone(w)
  BY <1>1, <1>8 DEF TypeOK, CheckDone, Goto, Phase, sharedVars, sweepVars, readVars
<1>9. CASE OpenDir(w)
  <2>1. dir[w] \in Node /\ yields[dir[w]] \subseteq Node
    BY <1>1, <1>9, ReaderAssumption DEF TypeOK, OpenDir, LocalsMatchPhase, Reading, ReaderOK
  <2> QED BY <1>1, <1>9, <2>1 DEF TypeOK, OpenDir, Goto, Phase, sharedVars, sweepVars
<1>10. ASSUME NEW e \in pending[w], NEW skip \in BOOLEAN, VisitEntry(w, e, skip)
       PROVE  TypeOK'
  BY <1>1, <1>10 DEF TypeOK, VisitEntry, sharedVars, sweepVars
<1>11. CASE FinishLeaf(w)
  <2>1. activeDirs - 1 \in Nat
    BY <1>1, <1>11, ReaderCounts DEF TypeOK, FinishLeaf, Release, Reading
  <2> QED BY <1>1, <1>11, <2>1 DEF TypeOK, FinishLeaf, Release, Goto, Phase, sweepVars
<1>12. CASE AddChildren(w)
  <2>1. activeDirs + Cardinality(subDirs[w]) - 1 \in Nat
    <3>1. activeDirs >= 1
      BY <1>12, ReaderCounts DEF AddChildren, Release, Reading
    <3>2. Cardinality(subDirs[w]) \in Nat
      BY <1>1, FS_CardinalityType DEF LocalsMatchPhase
    <3> QED BY <1>1, <3>1, <3>2 DEF TypeOK
  <2> QED BY <1>1, <1>12, <2>1 DEF TypeOK, AddChildren, Release, Goto, Phase, sweepVars
<1>13. ASSUME NEW child \in subDirs[w], PushChild(w, child)
       PROVE  TypeOK'
  <2>1. child \in Node /\ Append(deque[w], child) \in Seq(Node)
    BY <1>1, AppendProperties DEF TypeOK
  <2> QED BY <1>1, <1>13, <2>1 DEF TypeOK, PushChild, Goto, Phase, sweepVars
<1>14. CASE StoreDone(w)
  BY <1>1, <1>14 DEF TypeOK, StoreDone, Goto, Phase, sweepVars, readVars
<1> QED
  BY <1>2, <1>3, <1>4, <1>5, <1>6, <1>7, <1>8, <1>9, <1>10, <1>11, <1>12, <1>13, <1>14
  DEF RunWorker, FindTask, ProcessDir

\* The locals of a worker agree with what it is doing, and its own deque is empty
\* from the failed pop on until it starts over.
LEMMA LocalStep ==
  ASSUME PoolInv, NEW w \in Workers, RunWorker(w)
  PROVE  LocalsMatchPhase' /\ ThiefHasEmptyDeque'
<1>1. TypeOK /\ LocalsMatchPhase /\ ThiefHasEmptyDeque
  BY DEF PoolInv
<1> USE DEF LocalsMatchPhase, ThiefHasEmptyDeque, Reading, TypeOK, Goto
<1>2. CASE PopOwn(w)
  <2>1. deque[w][Len(deque[w])] \in Node
    BY <1>1, <1>2, EmptySeq, ElementOfSeq DEF PopOwn
  <2> QED BY <1>1, <1>2, <2>1 DEF PopOwn, Hold
<1>3. CASE OwnEmpty(w)
  BY <1>1, <1>3 DEF OwnEmpty, sharedVars, sweepVars, readVars
<1>4. CASE StealInjected(w)
  <2>1. Head(injector) \in Node
    BY <1>1, <1>4, HeadTailProperties DEF StealInjected
  <2> QED BY <1>1, <1>4, <2>1 DEF StealInjected, Hold
<1>5. CASE InjectorEmpty(w)
  BY <1>1, <1>5 DEF InjectorEmpty, sharedVars, sweepVars, readVars
<1>6. CASE StealFrom(w)
  <2>1. Victim(w) \in Workers /\ Head(deque[Victim(w)]) \in Node
    BY <1>1, <1>6, VictimIsWorker, HeadTailProperties DEF StealFrom
  <2>2. \A v \in Workers : deque[v] = <<>> => deque'[v] = <<>>
    BY <1>1, <1>6, <2>1 DEF StealFrom
  <2> QED BY <1>1, <1>6, <2>1, <2>2 DEF StealFrom, Hold
<1>7. CASE StealMissed(w)
  <2>1. /\ \/ UNCHANGED pc
           \/ pc' = [pc EXCEPT ![w] = "inject"]
           \/ pc' = [pc EXCEPT ![w] = "idle"]
        /\ pc[w] = "steal"
        /\ UNCHANGED <<sharedVars, readVars>>
    BY <1>7, Zenon DEF StealMissed
  <2> QED BY <1>1, <2>1 DEF sharedVars, readVars
<1>8. CASE CheckDone(w)
  BY <1>1, <1>8 DEF CheckDone, sharedVars, sweepVars, readVars
<1>9. CASE OpenDir(w)
  BY <1>1, <1>9, FS_EmptySet DEF OpenDir, sharedVars, sweepVars
<1>10. ASSUME NEW e \in pending[w], NEW skip \in BOOLEAN, VisitEntry(w, e, skip)
       PROVE  LocalsMatchPhase' /\ ThiefHasEmptyDeque'
  <2>1. \A v \in Workers : IsFiniteSet(subDirs'[v])
    <3>1. IsFiniteSet(subDirs[w] \cup {e})
      BY <1>1, FS_AddElement
    <3> QED BY <1>1, <1>10, <3>1 DEF VisitEntry
  <2> QED BY <1>1, <1>10, <2>1 DEF VisitEntry, sharedVars, sweepVars
<1>11. CASE FinishLeaf(w)
  BY <1>1, <1>11, PathAssumption DEF FinishLeaf, Release, sweepVars, PathsOK
<1>12. CASE AddChildren(w)
  BY <1>1, <1>12, PathAssumption DEF AddChildren, Release, sweepVars, PathsOK
<1>13. ASSUME NEW child \in subDirs[w], PushChild(w, child)
       PROVE  LocalsMatchPhase' /\ ThiefHasEmptyDeque'
  <2>1. IsFiniteSet(subDirs[w] \ {child})
    BY <1>1, FS_RemoveElement
  <2> QED BY <1>1, <1>13, <2>1, ZenonT(30) DEF PushChild, sweepVars
<1>14. CASE StoreDone(w)
  BY <1>1, <1>14 DEF StoreDone, sweepVars, readVars
<1> QED
  BY <1>2, <1>3, <1>4, <1>5, <1>6, <1>7, <1>8, <1>9, <1>10, <1>11, <1>12, <1>13, <1>14
  DEF RunWorker, FindTask, ProcessDir

\* A worker takes a task from wherever it was: the token moves into its hands.
LEMMA TaskTaken ==
  ASSUME PoolInv, NEW w \in Workers, ~Reading(w), pc[w] # "push", NEW task, Hold(w, task),
         UNCHANGED activeDirs,
         NEW t \in InjectorTokens \cup DequeTokens,
         InjectorTokens' = InjectorTokens \ {t},
         DequeTokens' = DequeTokens \ {t}
  PROVE  ActiveCountsTokens'
<1>1. TypeOK /\ IsFiniteSet(Tokens) /\ activeDirs = Cardinality(Tokens)
  BY DEF PoolInv, ActiveCountsTokens
<1>2. HeldTokens' = HeldTokens \cup {<<"held", w>>}
  BY <1>1, HeldMoves DEF Hold
<1>3. CountedTokens' = CountedTokens
  BY <1>1, CountedStays DEF Hold
<1>4. <<"held", w>> \notin Tokens
  BY HeldToken, PlacesApart DEF Tokens
<1>5. Tokens' = (Tokens \ {t}) \cup {<<"held", w>>}
  BY <1>2, <1>3, <1>4, PlacesApart DEF Tokens
<1> QED BY <1>1, <1>4, <1>5, CountSwap DEF ActiveCountsTokens, Tokens

\* Every step changes active_dirs the way it changes the directories in flight.
LEMMA CountStep ==
  ASSUME PoolInv, NEW w \in Workers, RunWorker(w)
  PROVE  ActiveCountsTokens'
<1>1. /\ TypeOK /\ LocalsMatchPhase
      /\ IsFiniteSet(Tokens) /\ activeDirs = Cardinality(Tokens)
  BY DEF PoolInv, ActiveCountsTokens
<1>2. CASE PopOwn(w)
  <2>1. Len(SubSeq(deque[w], 1, Len(deque[w]) - 1)) = Len(deque[w]) - 1
    <3>1. deque[w] \in Seq(Node) /\ Len(deque[w]) \in Nat \ {0}
      BY <1>1, <1>2, EmptySeq DEF PopOwn, TypeOK
    <3>2. \A i \in 1 .. Len(deque[w]) - 1 : deque[w][i] \in Node
      BY <3>1, ElementOfSeq
    <3> QED BY <3>1, <3>2, SubSeqProperties
  <2>2. /\ <<"deque", w, Len(deque[w])>> \in DequeTokens
        /\ DequeTokens' = DequeTokens \ {<<"deque", w, Len(deque[w])>>}
    BY <1>1, <1>2, <2>1, DequeShrinks DEF PopOwn
  <2>3. InjectorTokens' = InjectorTokens \ {<<"deque", w, Len(deque[w])>>}
    BY <1>2, PlacesApart DEF PopOwn, InjectorTokens
  <2> QED BY <1>2, <2>2, <2>3, TaskTaken DEF PopOwn, Reading
<1>4. CASE StealInjected(w)
  <2>1. /\ <<"injector", Len(injector)>> \in InjectorTokens
        /\ InjectorTokens' = InjectorTokens \ {<<"injector", Len(injector)>>}
    BY <1>1, <1>4, InjectorShrinks DEF StealInjected
  <2>2. DequeTokens' = DequeTokens \ {<<"injector", Len(injector)>>}
    BY <1>4, PlacesApart DEF StealInjected, DequeTokens
  <2> QED BY <1>4, <2>1, <2>2, TaskTaken DEF StealInjected, Reading
<1>6. CASE StealFrom(w)
  <2> DEFINE t == <<"deque", Victim(w), Len(deque[Victim(w)])>>
  <2>1. Victim(w) \in Workers
    BY <1>1, VictimIsWorker
  <2>2. Len(Tail(deque[Victim(w)])) = Len(deque[Victim(w)]) - 1
    BY <1>1, <1>6, <2>1, HeadTailProperties DEF StealFrom, TypeOK
  <2>3. t \in DequeTokens /\ DequeTokens' = DequeTokens \ {t}
    BY <1>1, <1>6, <2>1, <2>2, DequeShrinks DEF StealFrom
  <2>4. InjectorTokens' = InjectorTokens \ {t}
    BY <1>6, PlacesApart DEF StealFrom, InjectorTokens
  <2> QED BY <1>6, <2>3, <2>4, TaskTaken DEF StealFrom, Reading
<1>11. CASE FinishLeaf(w)
  <2>1. HeldTokens' = HeldTokens \ {<<"held", w>>}
    BY <1>1, <1>11, HeldMoves DEF FinishLeaf
  <2>2. CountedTokens' = CountedTokens
    BY <1>1, <1>11, CountedStays DEF FinishLeaf, Release
  <2>3. InjectorTokens' = InjectorTokens /\ DequeTokens' = DequeTokens
    BY <1>11 DEF FinishLeaf, Release, InjectorTokens, DequeTokens
  <2>4. <<"held", w>> \in Tokens
    BY <1>11, HeldToken DEF FinishLeaf, Release, Reading, Tokens
  <2>5. Tokens' = Tokens \ {<<"held", w>>}
    BY <2>1, <2>2, <2>3, PlacesApart DEF Tokens
  <2> QED BY <1>1, <1>11, <2>4, <2>5, FS_RemoveElement DEF FinishLeaf, ActiveCountsTokens
<1>12. CASE AddChildren(w)
  <2> DEFINE C == {<<"counted", w, c>> : c \in subDirs[w]}
  <2>1. HeldTokens' = HeldTokens \ {<<"held", w>>}
    BY <1>1, <1>12, HeldMoves DEF AddChildren
  <2>2. CountedTokens' = CountedTokens \cup C
    BY <1>1, <1>12, CountedGains DEF AddChildren, Release
  <2>3. InjectorTokens' = InjectorTokens /\ DequeTokens' = DequeTokens
    BY <1>12 DEF AddChildren, Release, InjectorTokens, DequeTokens
  <2>4. <<"held", w>> \in Tokens
    BY <1>12, HeldToken DEF AddChildren, Release, Reading, Tokens
  <2>5. Tokens' = (Tokens \ {<<"held", w>>}) \cup C
    BY <2>1, <2>2, <2>3, PlacesApart DEF Tokens
  <2>6. (Tokens \ {<<"held", w>>}) \cap C = {}
    BY <1>1, <1>12, CountedGains, PlacesApart DEF AddChildren, Release, Tokens
  <2>7. IsFiniteSet(C) /\ Cardinality(C) = Cardinality(subDirs[w])
    BY <1>1, CountChildren DEF LocalsMatchPhase
  <2>8. /\ IsFiniteSet(Tokens \ {<<"held", w>>})
        /\ Cardinality(Tokens \ {<<"held", w>>}) = activeDirs - 1
    BY <1>1, <2>4, FS_RemoveElement
  <2> HIDE DEF C
  <2>9. /\ IsFiniteSet(Tokens')
        /\ Cardinality(Tokens') = activeDirs - 1 + Cardinality(subDirs[w])
    <3>1. Cardinality((Tokens \ {<<"held", w>>}) \cap C) = 0
      BY <2>6, FS_EmptySet
    <3>2. Cardinality(subDirs[w]) \in Nat /\ activeDirs \in Nat
      BY <1>1, FS_CardinalityType DEF LocalsMatchPhase, TypeOK
    <3> DEFINE H == Tokens \ {<<"held", w>>}
    <3>3. /\ IsFiniteSet(H \cup C)
          /\ Cardinality(H \cup C) = Cardinality(H) + Cardinality(C) - Cardinality(H \cap C)
      BY <2>7, <2>8, FS_Union
    <3> QED BY <2>5, <2>7, <2>8, <3>1, <3>2, <3>3
  <2>10. Cardinality(subDirs[w]) \in Nat /\ activeDirs \in Nat
    BY <1>1, FS_CardinalityType DEF LocalsMatchPhase, TypeOK
  <2> QED BY <1>12, <2>9, <2>10 DEF AddChildren, ActiveCountsTokens
<1>13. ASSUME NEW child \in subDirs[w], PushChild(w, child)
       PROVE  ActiveCountsTokens'
  <2> DEFINE x == <<"counted", w, child>>
             y == <<"deque", w, Len(deque[w]) + 1>>
  <2>1. x \in CountedTokens /\ CountedTokens' = CountedTokens \ {x}
    BY <1>1, <1>13, CountedLoses DEF PushChild
  <2>2. child \in Node
    BY <1>1 DEF TypeOK
  <2>3. y \notin DequeTokens /\ DequeTokens' = DequeTokens \cup {y}
    BY <1>1, <1>13, <2>2, DequeGrows DEF PushChild
  <2>4. InjectorTokens' = InjectorTokens
    BY <1>13 DEF PushChild, InjectorTokens
  <2>5. HeldTokens' = HeldTokens
    <3>1. HeldTokens' = HeldTokens \ {<<"held", w>>}
      BY <1>1, <1>13, HeldMoves DEF PushChild
    <3>2. <<"held", w>> \notin HeldTokens
      BY <1>13, HeldToken DEF PushChild, Reading
    <3> QED BY <3>1, <3>2
  <2>6. x \in Tokens /\ y \notin Tokens
    BY <2>1, <2>3, PlacesApart DEF Tokens
  <2>7. Tokens' = (Tokens \ {x}) \cup {y}
    BY <2>1, <2>3, <2>4, <2>5, PlacesApart DEF Tokens
  <2> HIDE DEF x, y
  <2> QED BY <1>1, <1>13, <2>6, <2>7, CountSwap DEF PushChild, ActiveCountsTokens
<1>15. ASSUME Tokens' = Tokens, activeDirs' = activeDirs
       PROVE  ActiveCountsTokens'
  BY <1>1, <1>15 DEF ActiveCountsTokens
<1>16. ASSUME UNCHANGED <<injector, deque, subDirs>>, pc[w] # "push",
              NEW phase, phase # "push", Goto(w, phase),
              Reading(w) <=> phase \in {"open", "visit"}
       PROVE  Tokens' = Tokens
  <2>1. InjectorTokens' = InjectorTokens /\ DequeTokens' = DequeTokens
    BY <1>16 DEF InjectorTokens, DequeTokens
  <2>2. HeldTokens' = HeldTokens
    BY <1>1, <1>16, HeldMoves, HeldToken
  <2>3. CountedTokens' = CountedTokens
    BY <1>1, <1>16, CountedStays
  <2> QED BY <2>1, <2>2, <2>3 DEF Tokens
<1>3. CASE OwnEmpty(w)
  BY <1>3, <1>15, <1>16 DEF OwnEmpty, sharedVars, readVars, Reading
<1>5. CASE InjectorEmpty(w)
  BY <1>5, <1>15, <1>16 DEF InjectorEmpty, sharedVars, readVars, Reading
<1>7. CASE StealMissed(w)
  <2>1. UNCHANGED pc \/ Goto(w, "inject") \/ Goto(w, "idle")
    BY <1>7, Zenon DEF StealMissed
  <2>2. pc[w] = "steal" /\ UNCHANGED <<injector, deque, activeDirs, subDirs>>
    BY <1>7 DEF StealMissed, sharedVars, readVars
  <2>3. CASE UNCHANGED pc
    BY <1>15, <2>2, <2>3
    DEF Tokens, InjectorTokens, DequeTokens, HeldTokens, CountedTokens, Reading
  <2>4. CASE Goto(w, "inject") \/ Goto(w, "idle")
    BY <1>15, <1>16, <2>2, <2>4 DEF Reading
  <2> QED BY <2>1, <2>3, <2>4
<1>8. CASE CheckDone(w)
  BY <1>8, <1>15, <1>16 DEF CheckDone, sharedVars, readVars, Reading
<1>9. CASE OpenDir(w)
  <2>1. InjectorTokens' = InjectorTokens /\ DequeTokens' = DequeTokens
    BY <1>9 DEF OpenDir, sharedVars, InjectorTokens, DequeTokens
  <2>2. HeldTokens' = HeldTokens
    BY <1>1, <1>9, HeldMoves, HeldToken DEF OpenDir, Reading
  <2>3. CountedTokens' = CountedTokens
    BY <1>1, <1>9, CountedStays DEF OpenDir, TypeOK
  <2> QED BY <1>9, <1>15, <2>1, <2>2, <2>3 DEF OpenDir, sharedVars, Tokens
<1>10. ASSUME NEW e \in pending[w], NEW skip \in BOOLEAN, VisitEntry(w, e, skip)
       PROVE  ActiveCountsTokens'
  <2>1. UNCHANGED <<injector, deque, activeDirs, pc>> /\ pc[w] = "visit"
    BY <1>10 DEF VisitEntry, sharedVars
  <2>2. \A v \in Workers : v # w => subDirs'[v] = subDirs[v]
    BY <1>1, <1>10 DEF VisitEntry, TypeOK
  <2>3. InjectorTokens' = InjectorTokens /\ DequeTokens' = DequeTokens /\ HeldTokens' = HeldTokens
    BY <2>1 DEF InjectorTokens, DequeTokens, HeldTokens, Reading
  <2>4. CountedTokens' = CountedTokens
    BY <2>1, <2>2 DEF CountedTokens
  <2> QED BY <1>15, <2>1, <2>3, <2>4 DEF Tokens
<1>14. CASE StoreDone(w)
  BY <1>14, <1>15, <1>16 DEF StoreDone, readVars, Reading
<1> QED
  BY <1>2, <1>3, <1>4, <1>5, <1>6, <1>7, <1>8, <1>9, <1>10, <1>11, <1>12, <1>13, <1>14
  DEF RunWorker, FindTask, ProcessDir

\* Steps that change neither the counter nor `done`, nor who is about to raise it,
\* keep the signal; the two that do are the last fetch_sub and the store.
LEMMA SignalStep ==
  ASSUME PoolInv, NEW w \in Workers, RunWorker(w)
  PROVE  SignalNotLost'
<1>1. TypeOK /\ SignalNotLost
  BY DEF PoolInv
<1>2. ASSUME UNCHANGED <<activeDirs, done>>, pc[w] # "store",
             NEW phase, phase # "store", Goto(w, phase)
      PROVE  SignalNotLost'
  BY <1>1, <1>2 DEF SignalNotLost, Goto, TypeOK
<1>3. CASE PopOwn(w) \/ StealInjected(w) \/ StealFrom(w)
  BY <1>2, <1>3 DEF PopOwn, StealInjected, StealFrom, Hold
<1>4. CASE OwnEmpty(w) \/ InjectorEmpty(w) \/ CheckDone(w) \/ OpenDir(w)
  BY <1>2, <1>4 DEF OwnEmpty, InjectorEmpty, CheckDone, OpenDir, sharedVars
<1>5. CASE StealMissed(w)
  <2>1. UNCHANGED pc \/ Goto(w, "inject") \/ Goto(w, "idle")
    BY <1>5, Zenon DEF StealMissed
  <2>2. pc[w] = "steal" /\ UNCHANGED <<activeDirs, done>>
    BY <1>5 DEF StealMissed, sharedVars
  <2>3. CASE UNCHANGED pc
    BY <1>1, <2>2, <2>3 DEF SignalNotLost
  <2> QED BY <1>2, <2>1, <2>2, <2>3
<1>6. ASSUME NEW e \in pending[w], NEW skip \in BOOLEAN, VisitEntry(w, e, skip)
      PROVE  SignalNotLost'
  BY <1>1, <1>6 DEF VisitEntry, sharedVars, SignalNotLost
<1>7. CASE FinishLeaf(w)
  <2>1. activeDirs \in Nat /\ activeDirs >= 1
    BY <1>1, <1>7, ReaderCounts DEF FinishLeaf, Release, Reading, TypeOK
  <2>2. ~done /\ \A v \in Workers : pc[v] # "store"
    BY <1>1, <2>1 DEF SignalNotLost
  <2> QED BY <1>1, <1>7, <2>1, <2>2 DEF FinishLeaf, Release, Goto, SignalNotLost, TypeOK
<1>8. CASE AddChildren(w)
  <2>1. activeDirs \in Nat /\ activeDirs >= 1
    BY <1>1, <1>8, ReaderCounts DEF AddChildren, Release, Reading, TypeOK
  <2>2. Cardinality(subDirs[w]) \in Nat \ {0}
    BY <1>8, FS_CardinalityType, FS_EmptySet DEF PoolInv, LocalsMatchPhase, AddChildren
  <2>3. activeDirs' # 0
    BY <1>8, <2>1, <2>2 DEF AddChildren
  <2>4. ~done' /\ \A v \in Workers : pc'[v] # "store"
    BY <1>1, <1>8, <2>1 DEF AddChildren, Release, Goto, SignalNotLost, TypeOK
  <2> QED BY <2>3, <2>4 DEF SignalNotLost
<1>9. ASSUME NEW child \in subDirs[w], PushChild(w, child)
      PROVE  SignalNotLost'
  BY <1>2, <1>9 DEF PushChild
<1>10. CASE StoreDone(w)
  BY <1>1, <1>10 DEF StoreDone, SignalNotLost
<1> QED
  BY <1>3, <1>4, <1>5, <1>6, <1>7, <1>8, <1>9, <1>10 DEF RunWorker, FindTask, ProcessDir

\* Only CheckDone lets a worker go, and `done` is never taken back.
LEMMA LeaveStep ==
  ASSUME PoolInv, NEW w \in Workers, RunWorker(w)
  PROVE  LeavesAfterDone'
<1>1. TypeOK /\ LeavesAfterDone
  BY DEF PoolInv
<1>2. (done => done') /\ UNCHANGED returned /\ pc[w] # "exit"
  BY DEF RunWorker, FindTask, ProcessDir, PopOwn, OwnEmpty, StealInjected, InjectorEmpty,
         StealFrom, StealMissed, CheckDone, OpenDir, VisitEntry, FinishLeaf, AddChildren,
         Release, PushChild, StoreDone, sharedVars
<1>3. \A v \in Workers : v # w => pc'[v] = pc[v]
  BY <1>1 DEF TypeOK, RunWorker, FindTask, ProcessDir, PopOwn, OwnEmpty, StealInjected,
         InjectorEmpty, StealFrom, StealMissed, CheckDone, OpenDir, VisitEntry, FinishLeaf,
         AddChildren, Release, PushChild, StoreDone, Hold, Goto
<1>4. pc'[w] = "exit" => done
  BY <1>1 DEF TypeOK, RunWorker, FindTask, ProcessDir, PopOwn, OwnEmpty, StealInjected,
         InjectorEmpty, StealFrom, StealMissed, CheckDone, OpenDir, VisitEntry, FinishLeaf,
         AddChildren, Release, PushChild, StoreDone, Hold, Goto
<1> QED BY <1>1, <1>2, <1>3, <1>4 DEF LeavesAfterDone

-----------------------------------------------------------------------------
(* The theorems                                                            *)

LEMMA Inductive == PoolInv /\ [Next]_vars => PoolInv'
<1> SUFFICES ASSUME PoolInv, [Next]_vars PROVE PoolInv'
  OBVIOUS
<1> USE DEF PoolInv
<1>1. ASSUME NEW w \in Workers, RunWorker(w) PROVE PoolInv'
  BY <1>1, TypeStep, LocalStep, CountStep, SignalStep, LeaveStep
<1>2. ASSUME UNCHANGED <<yields, injector, deque, activeDirs, done, pc, offset, anyRetry,
                         dir, pending, subDirs, opened, visited>>,
             returned' \in BOOLEAN,
             returned' => \A w \in Workers : pc[w] = "exit"
      PROVE  PoolInv'
  <2>1. Tokens' = Tokens
    BY <1>2 DEF Tokens, InjectorTokens, DequeTokens, HeldTokens, CountedTokens, Reading
  <2> QED
    BY <1>2, <2>1 DEF TypeOK, LocalsMatchPhase, ThiefHasEmptyDeque, LeavesAfterDone,
                      ActiveCountsTokens, SignalNotLost, Reading
<1>3. CASE Return
  BY <1>2, <1>3 DEF Return, sharedVars, sweepVars, readVars
<1>4. CASE Finished \/ UNCHANGED vars
  BY <1>2, <1>4 DEF Finished, vars, sharedVars, sweepVars, readVars, TypeOK, LeavesAfterDone
<1> QED BY <1>1, <1>3, <1>4 DEF Next

LEMMA DrainedFollows == PoolInv => DoneMeansDrained
BY FS_EmptySet DEF PoolInv, SignalNotLost, ActiveCountsTokens, DoneMeansDrained

\* At every instant the variables have their types, active_dirs is the number of
\* directories in flight, and nothing a worker has found is out of the others' sight.
THEOREM PoolInvariant == Spec => []PoolInv
BY Initially, Inductive, PTL DEF Spec

THEOREM TypeCorrect == Spec => []TypeOK
<1>1. PoolInv => TypeOK
  BY DEF PoolInv
<1> QED BY <1>1, PoolInvariant, PTL

\* The completion signal is given when the last directory is finished, never before
\* (no worker can leave while work is left) and never forgotten.
THEOREM SignalCorrect == Spec => []SignalNotLost
<1>1. PoolInv => SignalNotLost
  BY DEF PoolInv
<1> QED BY <1>1, PoolInvariant, PTL

\* When a worker sees `done`, no directory is queued, held or about to be queued.
THEOREM DrainedWhenDone == Spec => []DoneMeansDrained
BY DrainedFollows, PoolInvariant, PTL

\* With `done` set, no queue and no worker holds a directory.
LEMMA NothingLeft ==
  ASSUME PoolInv, done
  PROVE  /\ injector = <<>>
         /\ \A w \in Workers : deque[w] = <<>> /\ ~Reading(w) /\ pc[w] # "push"
<1>1. TypeOK /\ LocalsMatchPhase /\ Tokens = {}
  BY DrainedFollows DEF PoolInv, DoneMeansDrained
<1>2. injector = <<>>
  <2>1. injector # <<>> => <<"injector", Len(injector)>> \in Tokens
    BY <1>1, EmptySeq DEF TypeOK, Tokens, InjectorTokens
  <2> QED BY <1>1, <2>1
<1>3. ASSUME NEW w \in Workers PROVE deque[w] = <<>> /\ ~Reading(w) /\ pc[w] # "push"
  <2>1. deque[w] # <<>> => <<"deque", w, Len(deque[w])>> \in Tokens
    BY <1>1, EmptySeq DEF TypeOK, Tokens, DequeTokens
  <2>2. Reading(w) => <<"held", w>> \in Tokens
    BY HeldToken DEF Tokens
  <2>3. ASSUME NEW c \in subDirs[w], pc[w] = "push" PROVE <<"counted", w, c>> \in Tokens
    BY <2>3 DEF Tokens, CountedTokens
  <2> QED BY <1>1, <2>1, <2>2, <2>3 DEF LocalsMatchPhase
<1> QED BY <1>2, <1>3

\* A step taken with `done` set finds nothing to take, read or push.
LEMMA FinalStep ==
  PoolInv /\ Next /\ done => UNCHANGED <<yields, sharedVars, readVars>>
<1> SUFFICES ASSUME PoolInv, Next, done PROVE UNCHANGED <<yields, sharedVars, readVars>>
  OBVIOUS
<1>1. TypeOK
  BY DEF PoolInv
<1>2. injector = <<>>
  BY NothingLeft
<1>3. ASSUME NEW w \in Workers PROVE deque[w] = <<>> /\ ~Reading(w) /\ pc[w] # "push"
  BY NothingLeft
<1>4. ASSUME NEW w \in Workers, FindTask(w) PROVE UNCHANGED <<yields, sharedVars, readVars>>
  BY <1>1, <1>2, <1>3, <1>4, VictimIsWorker
  DEF FindTask, PopOwn, OwnEmpty, StealInjected, InjectorEmpty, StealFrom, StealMissed
<1>5. ASSUME NEW w \in Workers, ProcessDir(w) PROVE UNCHANGED <<yields, sharedVars, readVars>>
  <2>1. StoreDone(w)
    BY <1>3, <1>5 DEF ProcessDir, OpenDir, VisitEntry, FinishLeaf, AddChildren, Release,
                      PushChild, Reading
  <2>2. done' = done
    BY <2>1, <1>1 DEF StoreDone, TypeOK
  <2> QED BY <2>1, <2>2 DEF StoreDone, sharedVars, readVars
<1>6. ASSUME NEW w \in Workers, CheckDone(w) PROVE UNCHANGED <<yields, sharedVars, readVars>>
  BY <1>6 DEF CheckDone
<1> QED
  BY <1>4, <1>5, <1>6
  DEF Next, RunWorker, Return, Finished, vars, sharedVars, readVars

\* What the visitors have seen when `done` is raised is all they will ever see: the
\* counts a worker flushes when it leaves are complete.
THEOREM FinalWhenDone == Spec => DoneIsFinal
<1>1. PoolInv /\ [Next]_vars => [done => UNCHANGED <<yields, sharedVars, readVars>>]_vars
  BY FinalStep
<1> QED BY <1>1, PoolInvariant, PTL DEF Spec, DoneIsFinal

-----------------------------------------------------------------------------
(* The elements of a queue                                                 *)

LEMMA FrontElements ==
  ASSUME NEW S, NEW s \in Seq(S), s # <<>>
  PROVE  LET n == Len(s)
             r == SubSeq(s, 1, n - 1)
         IN  /\ s[n] \in InSeq(s)
             /\ InSeq(s) = InSeq(r) \cup {s[n]}
             /\ NoRepeat(s) => NoRepeat(r) /\ s[n] \notin InSeq(r)
<1> DEFINE n == Len(s)
           r == SubSeq(s, 1, n - 1)
<1>1. n \in Nat \ {0} /\ DOMAIN s = 1 .. n
  BY EmptySeq, LenProperties
<1>2. \A i \in 1 .. n - 1 : s[i] \in S
  BY <1>1, ElementOfSeq
<1>3. /\ r \in Seq(S) /\ Len(r) = n - 1
      /\ \A i \in 1 .. n - 1 : r[i] = s[i]
  BY <1>1, <1>2, SubSeqProperties
<1>4. DOMAIN r = 1 .. n - 1
  BY <1>3, LenProperties
<1> HIDE DEF n, r
<1>5. InSeq(s) = InSeq(r) \cup {s[n]} /\ s[n] \in InSeq(s)
  BY <1>1, <1>3, <1>4 DEF InSeq
<1>6. NoRepeat(s) => NoRepeat(r) /\ s[n] \notin InSeq(r)
  BY <1>1, <1>3, <1>4 DEF InSeq, NoRepeat
<1> QED BY <1>5, <1>6 DEF n, r

LEMMA TailElements ==
  ASSUME NEW S, NEW s \in Seq(S), s # <<>>
  PROVE  /\ Head(s) \in InSeq(s)
         /\ InSeq(s) = InSeq(Tail(s)) \cup {Head(s)}
         /\ NoRepeat(s) => NoRepeat(Tail(s)) /\ Head(s) \notin InSeq(Tail(s))
<1> DEFINE n == Len(s)
           r == Tail(s)
<1>1. n \in Nat \ {0} /\ DOMAIN s = 1 .. n
  BY EmptySeq, LenProperties
<1>2. /\ r \in Seq(S) /\ Len(r) = n - 1
      /\ \A i \in 1 .. Len(r) : r[i] = s[i + 1]
  BY HeadTailProperties
<1>3. DOMAIN r = 1 .. n - 1
  BY <1>2, LenProperties
<1>4. Head(s) = s[1]
  OBVIOUS
<1> HIDE DEF n, r
<1>5. \A i \in 2 .. n : i - 1 \in DOMAIN r /\ r[i - 1] = s[i]
  BY <1>1, <1>2, <1>3
<1>6. \A i \in DOMAIN r : i + 1 \in 2 .. n /\ r[i] = s[i + 1]
  BY <1>1, <1>2, <1>3
<1>7. DOMAIN s = {1} \cup 2 .. n /\ 2 .. n \subseteq DOMAIN s /\ 1 \notin 2 .. n
  BY <1>1
<1>8. InSeq(r) = {s[i] : i \in 2 .. n}
  <2>1. ASSUME NEW i \in DOMAIN r PROVE r[i] \in {s[k] : k \in 2 .. n}
    BY <1>6
  <2>2. ASSUME NEW i \in 2 .. n PROVE s[i] \in {r[k] : k \in DOMAIN r}
    BY <1>5
  <2> QED BY <2>1, <2>2 DEF InSeq
<1>9. NoRepeat(s) => NoRepeat(r)
  <2> SUFFICES ASSUME NoRepeat(s), NEW i \in DOMAIN r, NEW j \in DOMAIN r, r[i] = r[j]
               PROVE  i = j
    BY DEF NoRepeat
  <2>1. i + 1 \in DOMAIN s /\ j + 1 \in DOMAIN s /\ s[i + 1] = s[j + 1]
    BY <1>6, <1>7
  <2>2. i + 1 = j + 1
    BY <2>1 DEF NoRepeat
  <2> QED BY <1>1, <1>3, <2>2
<1> QED BY <1>4, <1>7, <1>8, <1>9 DEF InSeq, NoRepeat, r

LEMMA AppendElements ==
  ASSUME NEW S, NEW s \in Seq(S), NEW e \in S
  PROVE  /\ InSeq(Append(s, e)) = InSeq(s) \cup {e}
         /\ NoRepeat(s) /\ e \notin InSeq(s) => NoRepeat(Append(s, e))
<1> DEFINE n == Len(s)
           r == Append(s, e)
<1>1. n \in Nat /\ DOMAIN s = 1 .. n
  BY LenProperties
<1>2. /\ r \in Seq(S) /\ Len(r) = n + 1
      /\ r[n + 1] = e /\ \A i \in 1 .. n : r[i] = s[i]
  BY AppendProperties
<1>3. DOMAIN r = 1 .. n + 1
  BY <1>2, LenProperties
<1> HIDE DEF n, r
<1>4. InSeq(r) = InSeq(s) \cup {e}
  BY <1>1, <1>2, <1>3 DEF InSeq
<1>5. NoRepeat(s) /\ e \notin InSeq(s) => NoRepeat(r)
  BY <1>1, <1>2, <1>3 DEF InSeq, NoRepeat
<1> QED BY <1>4, <1>5 DEF r

-----------------------------------------------------------------------------
(* Steps that move tasks                                                   *)

\* A worker whose variables stay has the tasks it had.
LEMMA OthersKeep ==
  ASSUME NEW v \in Workers, deque'[v] = deque[v], pc'[v] = pc[v], dir'[v] = dir[v],
         subDirs'[v] = subDirs[v]
  PROVE  TasksOf(v)' = TasksOf(v) /\ (HeldOnce(v) => HeldOnce(v)')
BY DEF TasksOf, HeldOnce, Reading

\* A step that moves tasks between workers at most.
Shuffle ==
  /\ UNCHANGED <<yields, opened, visited, returned>>
  /\ InFlight' = InFlight
  /\ Visiting' = Visiting
  /\ \A v \in Visiting : UNCHANGED <<dir[v], pending[v], subDirs[v]>>

\* No task goes from one worker to another.
LEMMA NoMove ==
  ASSUME OneHolder, UNCHANGED injector,
         \A v \in Workers : TasksOf(v)' = TasksOf(v) /\ HeldOnce(v)'
  PROVE  OneHolder' /\ InFlight' = InFlight
<1>1. InFlight' = InFlight
  BY DEF InFlight
<1>2. InSeq(injector)' = InSeq(injector) /\ (NoRepeat(injector) => NoRepeat(injector'))
  OBVIOUS
<1> QED BY <1>1, <1>2 DEF OneHolder

LEMMA PopMoves ==
  ASSUME PoolInv, OneHolder, NEW w \in Workers, PopOwn(w)
  PROVE  OneHolder' /\ Shuffle
<1> DEFINE s == deque[w]
           n == Len(s)
           r == SubSeq(s, 1, n - 1)
<1>1. TypeOK
  BY DEF PoolInv
<1>2. /\ pc[w] = "pop" /\ s # <<>> /\ s \in Seq(Node)
      /\ deque'[w] = r /\ pc'[w] = "open" /\ dir'[w] = s[n]
      /\ \A v \in Workers : v # w => UNCHANGED <<deque[v], pc[v], dir[v]>>
      /\ UNCHANGED <<yields, injector, subDirs, pending, opened, visited, returned>>
  BY <1>1 DEF PopOwn, Hold, Goto, TypeOK
<1>3. NoRepeat(s)
  BY DEF OneHolder, HeldOnce
<1>4. InSeq(s) = InSeq(r) \cup {s[n]} /\ NoRepeat(r) /\ s[n] \notin InSeq(r)
  BY <1>2, <1>3, FrontElements
<1> HIDE DEF n, r
<1>5. TasksOf(w)' = TasksOf(w) /\ HeldOnce(w)'
  BY <1>2, <1>4 DEF TasksOf, HeldOnce, Reading
<1>6. \A v \in Workers : TasksOf(v)' = TasksOf(v) /\ HeldOnce(v)'
  BY <1>2, <1>5, OthersKeep DEF OneHolder
<1>7. OneHolder' /\ InFlight' = InFlight
  BY <1>2, <1>6, NoMove
<1>8. Visiting' = Visiting
  BY <1>2 DEF Visiting
<1> QED BY <1>2, <1>7, <1>8 DEF Shuffle, Visiting

LEMMA InjectedMoves ==
  ASSUME PoolInv, OneHolder, NEW w \in Workers, StealInjected(w)
  PROVE  OneHolder' /\ Shuffle
<1> DEFINE t == Head(injector)
           r == Tail(injector)
<1>1. TypeOK
  BY DEF PoolInv
<1>2. /\ pc[w] = "inject" /\ injector # <<>> /\ injector \in Seq(Node)
      /\ injector' = r /\ pc'[w] = "open" /\ dir'[w] = t
      /\ \A v \in Workers : v # w => UNCHANGED <<pc[v], dir[v]>>
      /\ UNCHANGED <<yields, deque, subDirs, pending, opened, visited, returned>>
  BY <1>1 DEF StealInjected, Hold, Goto, TypeOK
<1>3. /\ t \in InSeq(injector) /\ t \notin InSeq(r) /\ InSeq(injector) = InSeq(r) \cup {t}
      /\ NoRepeat(r)
  BY <1>2, TailElements DEF OneHolder
<1> HIDE DEF t, r
<1>4. \A v \in Workers : t \notin TasksOf(v)
  BY <1>3 DEF OneHolder
<1>5. TasksOf(w)' = TasksOf(w) \cup {t} /\ HeldOnce(w)'
  BY <1>2, <1>4 DEF TasksOf, HeldOnce, Reading, OneHolder
<1>6. \A v \in Workers : v # w => TasksOf(v)' = TasksOf(v) /\ HeldOnce(v)'
  BY <1>2, OthersKeep DEF OneHolder
<1>7. InFlight' = InFlight
  BY <1>2, <1>3, <1>5, <1>6 DEF InFlight
<1>8. OneHolder'
  BY <1>2, <1>3, <1>4, <1>5, <1>6 DEF OneHolder
<1>9. Visiting' = Visiting
  BY <1>2 DEF Visiting
<1> QED BY <1>2, <1>7, <1>8, <1>9 DEF Shuffle, Visiting

LEMMA StealMoves ==
  ASSUME PoolInv, OneHolder, NEW w \in Workers, StealFrom(w)
  PROVE  OneHolder' /\ Shuffle
<1>1. TypeOK /\ ThiefHasEmptyDeque
  BY DEF PoolInv
<1>2. PICK u \in Workers : u = Victim(w)
  BY <1>1, VictimIsWorker
<1>3. u # w
  BY <1>1, <1>2 DEF StealFrom, ThiefHasEmptyDeque
<1> DEFINE t == Head(deque[u])
           r == Tail(deque[u])
<1>4. /\ pc[w] = "steal" /\ deque[u] # <<>> /\ deque[u] \in Seq(Node)
      /\ deque'[u] = r /\ pc'[w] = "open" /\ dir'[w] = t
      /\ \A v \in Workers : v # w => UNCHANGED <<pc[v], dir[v]>>
      /\ \A v \in Workers : v # u => UNCHANGED deque[v]
      /\ UNCHANGED <<yields, injector, subDirs, pending, opened, visited, returned>>
  BY <1>1, <1>2 DEF StealFrom, Hold, Goto, TypeOK
<1>5. /\ t \in InSeq(deque[u]) /\ t \notin InSeq(r) /\ InSeq(deque[u]) = InSeq(r) \cup {t}
      /\ NoRepeat(r)
  BY <1>2, <1>4, TailElements DEF OneHolder, HeldOnce
<1> HIDE DEF t, r
<1>6. /\ t \in TasksOf(u) /\ t \notin InSeq(injector)
      /\ \A v \in Workers : v # u => t \notin TasksOf(v)
  BY <1>2, <1>5 DEF OneHolder, TasksOf
<1>7. TasksOf(w)' = TasksOf(w) \cup {t} /\ HeldOnce(w)'
  BY <1>2, <1>3, <1>4, <1>6 DEF TasksOf, HeldOnce, Reading, OneHolder
<1>8. TasksOf(u)' = TasksOf(u) \ {t} /\ HeldOnce(u)'
  <2>1. /\ deque'[u] = r /\ pc'[u] = pc[u] /\ dir'[u] = dir[u] /\ subDirs'[u] = subDirs[u]
        /\ HeldOnce(u)
    BY <1>2, <1>3, <1>4 DEF OneHolder
  <2>2. (Reading(u) => dir[u] # t) /\ (pc[u] = "push" => t \notin subDirs[u])
    BY <1>5, <2>1 DEF HeldOnce
  <2>3. TasksOf(u)' = TasksOf(u) \ {t}
    BY <1>5, <2>1, <2>2 DEF TasksOf, Reading
  <2>4. HeldOnce(u)'
    BY <1>5, <2>1 DEF HeldOnce, Reading
  <2> QED BY <2>3, <2>4
<1>9. \A v \in Workers : v # w /\ v # u => TasksOf(v)' = TasksOf(v) /\ HeldOnce(v)'
  BY <1>4, OthersKeep DEF OneHolder
<1>13. injector' = injector
  BY <1>4
<1>10. InFlight' = InFlight
  <2>1. UNION {TasksOf(v)' : v \in Workers} = UNION {TasksOf(v) : v \in Workers}
    <3>1. ASSUME NEW v \in Workers PROVE TasksOf(v) \subseteq TasksOf(v)' \cup TasksOf(w)'
      BY <1>3, <1>7, <1>8, <1>9
    <3>2. ASSUME NEW v \in Workers PROVE TasksOf(v)' \subseteq TasksOf(v) \cup TasksOf(u)
      BY <1>2, <1>3, <1>6, <1>7, <1>8, <1>9
    <3> QED BY <1>2, <3>1, <3>2
  <2> QED BY <1>13, <2>1 DEF InFlight
<1>11. OneHolder'
  <2>1. ASSUME NEW v \in Workers PROVE InSeq(injector) \cap TasksOf(v)' = {}
    <3>1. InSeq(injector) \cap TasksOf(v) = {}
      BY DEF OneHolder
    <3> QED BY <1>3, <1>6, <1>7, <1>8, <1>9, <3>1
  <2>2. ASSUME NEW v1 \in Workers, NEW v2 \in Workers, v1 # v2
        PROVE  TasksOf(v1)' \cap TasksOf(v2)' = {}
    <3>1. TasksOf(v1) \cap TasksOf(v2) = {}
      BY <2>2 DEF OneHolder
    <3> QED BY <1>3, <1>6, <1>7, <1>8, <1>9, <2>2, <3>1
  <2>3. \A v \in Workers : HeldOnce(v)'
    BY <1>7, <1>8, <1>9
  <2> QED BY <1>13, <2>1, <2>2, <2>3 DEF OneHolder
<1>12. Visiting' = Visiting
  BY <1>4 DEF Visiting
<1> QED BY <1>4, <1>10, <1>11, <1>12 DEF Shuffle, Visiting

LEMMA PushMoves ==
  ASSUME PoolInv, OneHolder, NEW w \in Workers, NEW child \in subDirs[w], PushChild(w, child)
  PROVE  OneHolder' /\ Shuffle
<1> DEFINE s == deque[w]
           r == Append(s, child)
<1>1. TypeOK
  BY DEF PoolInv
<1>2. /\ pc[w] = "push" /\ s \in Seq(Node) /\ child \in Node
      /\ deque'[w] = r /\ subDirs'[w] = subDirs[w] \ {child}
      /\ pc'[w] = IF subDirs[w] = {child} THEN "pop" ELSE "push"
      /\ \A v \in Workers : v # w => UNCHANGED <<deque[v], pc[v], subDirs[v]>>
      /\ UNCHANGED <<yields, injector, dir, pending, opened, visited, returned>>
  BY <1>1 DEF PushChild, Goto, TypeOK
<1>3. NoRepeat(s) /\ subDirs[w] \cap InSeq(s) = {}
  BY <1>2 DEF OneHolder, HeldOnce
<1>4. InSeq(r) = InSeq(s) \cup {child} /\ NoRepeat(r)
  BY <1>2, <1>3, AppendElements
<1> HIDE DEF r
<1>5. TasksOf(w)' = TasksOf(w) /\ HeldOnce(w)'
  BY <1>2, <1>3, <1>4 DEF TasksOf, HeldOnce, Reading
<1>6. \A v \in Workers : TasksOf(v)' = TasksOf(v) /\ HeldOnce(v)'
  BY <1>2, <1>5, OthersKeep DEF OneHolder
<1>7. OneHolder' /\ InFlight' = InFlight
  BY <1>2, <1>6, NoMove
<1>8. Visiting' = Visiting
  BY <1>2 DEF Visiting
<1> QED BY <1>2, <1>7, <1>8 DEF Shuffle, Visiting

\* A worker that neither takes nor gives a task.
LEMMA QuietMoves ==
  ASSUME PoolInv, OneHolder, NEW w \in Workers,
         OwnEmpty(w) \/ InjectorEmpty(w) \/ StealMissed(w) \/ CheckDone(w) \/ StoreDone(w)
  PROVE  OneHolder' /\ Shuffle
<1>1. TypeOK
  BY DEF PoolInv
<1>2. /\ pc[w] \notin {"open", "visit", "push"} /\ pc'[w] \notin {"open", "visit", "push"}
      /\ \A v \in Workers : v # w => UNCHANGED pc[v]
      /\ UNCHANGED <<yields, injector, deque, dir, subDirs, pending, opened, visited, returned>>
  <2>1. CASE StealMissed(w)
    <3>1. UNCHANGED pc \/ Goto(w, "inject") \/ Goto(w, "idle")
      BY <2>1, Zenon DEF StealMissed
    <3>2. pc[w] = "steal" /\ UNCHANGED <<yields, sharedVars, readVars, returned>>
      BY <2>1 DEF StealMissed
    <3> QED BY <1>1, <3>1, <3>2 DEF Goto, TypeOK, sharedVars, readVars
  <2> QED
    BY <1>1, <2>1 DEF OwnEmpty, InjectorEmpty, CheckDone, StoreDone, Goto, TypeOK, sharedVars,
                      readVars
<1>3. \A v \in Workers : TasksOf(v)' = TasksOf(v) /\ HeldOnce(v)'
  <2>1. TasksOf(w)' = TasksOf(w) /\ HeldOnce(w)'
    BY <1>2 DEF TasksOf, HeldOnce, Reading, OneHolder
  <2> QED BY <1>2, <2>1, OthersKeep DEF OneHolder
<1>4. OneHolder' /\ InFlight' = InFlight
  BY <1>2, <1>3, NoMove
<1>5. Visiting' = Visiting
  BY <1>2 DEF Visiting
<1> QED BY <1>2, <1>4, <1>5 DEF Shuffle, Visiting

-----------------------------------------------------------------------------
(* Steps that read a directory                                             *)

\* The entries of a directory are told apart from those of the others.
LEMMA ListingsApart ==
  ASSUME TypeOK, NEW d1 \in Node, NEW d2 \in Node, d1 # d2
  PROVE  yields[d1] \cap yields[d2] = {}
BY TreeAssumption DEF TypeOK, TreeOK

LEMMA RootsApart ==
  ASSUME TypeOK, NEW d \in Node
  PROVE  InSeq(RootTasks) \cap yields[d] = {}
BY TreeAssumption DEF TypeOK, InSeq, TreeOK

LEMMA VisitorHolds ==
  ASSUME PoolInv, NEW w \in Visiting
  PROVE  /\ w \in Workers /\ dir[w] \in Node /\ dir[w] \in TasksOf(w) /\ dir[w] \in InFlight
         /\ pc[w] = "visit"
BY DEF PoolInv, LocalsMatchPhase, Visiting, Reading, TasksOf, InFlight

\* Two workers never visit the same directory.
LEMMA VisitorsApart ==
  ASSUME PoolInv, OneHolder, NEW v \in Visiting, NEW w \in Visiting, v # w
  PROVE  dir[v] # dir[w] /\ yields[dir[v]] \cap yields[dir[w]] = {}
<1>1. dir[v] # dir[w]
  BY VisitorHolds DEF OneHolder
<1> QED BY <1>1, VisitorHolds, ListingsApart DEF PoolInv

\* A directory about to be opened has not been opened before.
LEMMA OpensNew ==
  ASSUME PoolInv, OneHolder, OpenedOnce, NEW w \in Workers, pc[w] = "open"
  PROVE  dir[w] \in Node /\ dir[w] \in InFlight /\ dir[w] \notin opened
<1>1. Reading(w) /\ dir[w] \in Node /\ dir[w] \in TasksOf(w) /\ dir[w] \in InFlight
  BY DEF PoolInv, LocalsMatchPhase, Reading, TasksOf, InFlight
<1>2. ASSUME NEW v \in Visiting PROVE dir[v] # dir[w]
  BY <1>1, VisitorHolds DEF OneHolder
<1> QED BY <1>1, <1>2 DEF OpenedOnce

\* Until its directory is opened, nothing is known of what it will yield.
LEMMA YieldsNew ==
  ASSUME PoolInv, TaskInv, NEW w \in Workers, pc[w] = "open"
  PROVE  yields[dir[w]] \cap (InFlight \cup opened \cup visited) = {}
<1>1. dir[w] \in Node /\ dir[w] \notin opened
  BY OpensNew DEF TaskInv
<1>2. opened \subseteq Node /\ TypeOK
  BY DEF PoolInv, TypeOK
<1>3. ASSUME NEW d \in opened PROVE yields[d] \cap yields[dir[w]] = {}
  BY <1>1, <1>2, ListingsApart
<1>4. InSeq(RootTasks) \cap yields[dir[w]] = {}
  BY <1>1, <1>2, RootsApart
<1> QED BY <1>3, <1>4 DEF TaskInv, Discovered

LEMMA OpenMoves ==
  ASSUME PoolInv, TaskInv, NEW w \in Workers, OpenDir(w)
  PROVE  /\ TaskInv'
         /\ UNCHANGED <<yields, returned, InFlight, Listed, Reported>>
<1>1. /\ TypeOK /\ OneHolder /\ Discovered /\ OpenedOnce /\ EntriesOwned
  BY DEF PoolInv, TaskInv
<1>2. /\ pc[w] = "open" /\ pc'[w] = "visit"
      /\ pending'[w] = yields[dir[w]] /\ subDirs'[w] = {} /\ opened' = opened \cup {dir[w]}
      /\ \A v \in Workers : v # w => UNCHANGED <<pc[v], pending[v], subDirs[v]>>
      /\ UNCHANGED <<yields, injector, deque, dir, visited, returned>>
  BY <1>1 DEF OpenDir, Goto, TypeOK, sharedVars
<1>3. dir[w] \in Node /\ dir[w] \in InFlight /\ dir[w] \notin opened
  BY <1>1, <1>2, OpensNew
<1>4. yields[dir[w]] \cap (InFlight \cup opened \cup visited) = {}
  BY <1>2, YieldsNew
<1>5. OneHolder' /\ InFlight' = InFlight
  <2>1. TasksOf(w)' = TasksOf(w) /\ HeldOnce(w)'
    BY <1>1, <1>2 DEF TasksOf, HeldOnce, Reading, OneHolder
  <2>2. \A v \in Workers : TasksOf(v)' = TasksOf(v) /\ HeldOnce(v)'
    BY <1>1, <1>2, <2>1, OthersKeep DEF OneHolder
  <2> QED BY <1>1, <1>2, <2>2, NoMove
<1>6. Visiting' = Visiting \cup {w} /\ w \notin Visiting
  BY <1>2 DEF Visiting
<1>7. \A v \in Visiting : v # w /\ v \in Workers
  BY <1>2 DEF Visiting
<1>8. Discovered'
  BY <1>1, <1>2, <1>3, <1>5 DEF Discovered
<1>9. OpenedOnce'
  BY <1>1, <1>2, <1>5, <1>6, <1>7 DEF OpenedOnce
<1>10. EntriesOwned'
  <2>1. dir[w] \notin yields[dir[w]]
    BY <1>3, <1>4
  <2>2. \A v \in Visiting : dir[w] \notin yields[dir[v]]
    BY <1>1, <1>3 DEF EntriesOwned
  <2>3. ASSUME NEW v \in Visiting
        PROVE  /\ yields'[dir'[v]] \cap (InFlight' \cup opened') = {}
               /\ pending'[v] \subseteq yields'[dir'[v]]
               /\ subDirs'[v] \subseteq {e \in yields'[dir'[v]] \ pending'[v] : Descendable(e)}
               /\ visited' \cap yields'[dir'[v]] = yields'[dir'[v]] \ pending'[v]
    BY <1>1, <1>2, <1>5, <1>7, <2>2 DEF EntriesOwned
  <2>4. /\ yields'[dir'[w]] \cap (InFlight' \cup opened') = {}
        /\ pending'[w] \subseteq yields'[dir'[w]]
        /\ subDirs'[w] \subseteq {e \in yields'[dir'[w]] \ pending'[w] : Descendable(e)}
        /\ visited' \cap yields'[dir'[w]] = yields'[dir'[w]] \ pending'[w]
    BY <1>2, <1>4, <1>5, <2>1
  <2> QED BY <1>6, <2>3, <2>4 DEF EntriesOwned, Descendable
<1>11. Listed' = Listed
  BY <1>2, <1>3, <1>6 DEF Listed
<1>12. Reported' = Reported
  BY <1>2, <1>4, <1>6 DEF Reported
<1> QED BY <1>2, <1>5, <1>8, <1>9, <1>10, <1>11, <1>12 DEF TaskInv

LEMMA VisitMoves ==
  ASSUME PoolInv, TaskInv, NEW w \in Workers, NEW e \in pending[w], NEW skip \in BOOLEAN,
         VisitEntry(w, e, skip)
  PROVE  /\ TaskInv'
         /\ UNCHANGED <<yields, returned, InFlight, Listed, Reported>>
<1>1. /\ TypeOK /\ OneHolder /\ Discovered /\ OpenedOnce /\ EntriesOwned
  BY DEF PoolInv, TaskInv
<1>2. /\ pc[w] = "visit" /\ pending'[w] = pending[w] \ {e} /\ visited' = visited \cup {e}
      /\ subDirs'[w] \subseteq subDirs[w] \cup {x \in {e} : Descendable(x)}
      /\ \A v \in Workers : v # w => UNCHANGED <<pending[v], subDirs[v]>>
      /\ UNCHANGED <<yields, injector, deque, dir, pc, opened, returned>>
  BY <1>1 DEF VisitEntry, TypeOK, sharedVars
<1>3. w \in Visiting /\ Visiting' = Visiting
  BY <1>2 DEF Visiting
<1>4. e \in yields[dir[w]] /\ dir[w] \in opened
  BY <1>1, <1>3 DEF EntriesOwned, OpenedOnce
<1>5. \A v \in Visiting : v # w => e \notin yields[dir[v]]
  BY <1>1, <1>3, <1>4, VisitorsApart
<1>6. OneHolder' /\ InFlight' = InFlight
  <2>1. TasksOf(w)' = TasksOf(w) /\ HeldOnce(w)'
    BY <1>1, <1>2 DEF TasksOf, HeldOnce, Reading, OneHolder
  <2>2. \A v \in Workers : TasksOf(v)' = TasksOf(v) /\ HeldOnce(v)'
    BY <1>1, <1>2, <2>1, OthersKeep DEF OneHolder
  <2> QED BY <1>1, <1>2, <2>2, NoMove
<1>7. Discovered'
  BY <1>1, <1>2, <1>4, <1>6 DEF Discovered
<1>8. OpenedOnce'
  BY <1>1, <1>2, <1>3, <1>6 DEF OpenedOnce
<1>9. EntriesOwned'
  <2>1. ASSUME NEW v \in Visiting
        PROVE  /\ yields'[dir'[v]] \cap (InFlight' \cup opened') = {}
               /\ pending'[v] \subseteq yields'[dir'[v]]
               /\ subDirs'[v] \subseteq {x \in yields'[dir'[v]] \ pending'[v] : Descendable(x)}
               /\ visited' \cap yields'[dir'[v]] = yields'[dir'[v]] \ pending'[v]
    <3>1. v \in Workers
      BY DEF Visiting
    <3>2. /\ yields[dir[v]] \cap (InFlight \cup opened) = {}
          /\ pending[v] \subseteq yields[dir[v]]
          /\ subDirs[v] \subseteq {x \in yields[dir[v]] \ pending[v] : Descendable(x)}
          /\ visited \cap yields[dir[v]] = yields[dir[v]] \ pending[v]
      BY <1>1 DEF EntriesOwned
    <3>3. CASE v = w
      BY <1>2, <1>4, <1>6, <3>2, <3>3
    <3>4. CASE v # w
      BY <1>2, <1>5, <1>6, <3>1, <3>2, <3>4
    <3> QED BY <3>3, <3>4
  <2> QED BY <1>3, <2>1 DEF EntriesOwned, Descendable
<1>10. Listed' = Listed
  BY <1>2, <1>3 DEF Listed
<1>11. Reported' = Reported
  BY <1>2, <1>3, <1>4 DEF Reported
<1> QED BY <1>2, <1>6, <1>7, <1>8, <1>9, <1>10, <1>11 DEF TaskInv

LEMMA ShuffleKeeps ==
  ASSUME TaskInv, OneHolder', Shuffle
  PROVE  TaskInv' /\ UNCHANGED <<yields, returned, InFlight, Listed, Reported>>
<1>1. Discovered' /\ OpenedOnce'
  BY DEF TaskInv, Shuffle, Discovered, OpenedOnce
<1>2. EntriesOwned'
  BY DEF TaskInv, Shuffle, EntriesOwned, Descendable
<1>3. Listed' = Listed /\ Reported' = Reported
  BY DEF Shuffle, Listed, Reported
<1> QED BY <1>1, <1>2, <1>3 DEF TaskInv, Shuffle

\* A worker that leaves a directory lists it: its children take its place.
LEMMA LeaveLists ==
  ASSUME PoolInv, TaskInv, NEW w \in Workers, FinishLeaf(w) \/ AddChildren(w)
  PROVE  /\ TaskInv'
         /\ dir[w] \in InFlight
         /\ subDirs[w] \in SUBSET (yields[dir[w]] \cap {e \in Node : Descendable(e)})
         /\ Walk!List(dir[w], subDirs[w])
<1> DEFINE d == dir[w]
           sub == subDirs[w]
<1>1. /\ TypeOK /\ OneHolder /\ Discovered /\ OpenedOnce /\ EntriesOwned
  BY DEF PoolInv, TaskInv
<1>2. /\ pc[w] = "visit" /\ pending[w] = {} /\ pc'[w] \notin {"open", "visit"}
      /\ pc'[w] = "push" <=> sub # {}
      /\ \A v \in Workers : v # w => UNCHANGED <<pc[v], dir[v]>>
      /\ UNCHANGED <<yields, injector, deque, pending, subDirs, opened, visited, returned>>
  <2>1. Release(w)
    BY DEF FinishLeaf, AddChildren
  <2>2. \/ Goto(w, "store") /\ sub = {}
        \/ Goto(w, "pop") /\ sub = {}
        \/ Goto(w, "push") /\ sub # {}
    BY Zenon DEF FinishLeaf, AddChildren
  <2> QED BY <1>1, <2>1, <2>2 DEF Release, Goto, TypeOK
<1>3. w \in Visiting
  BY <1>2 DEF Visiting
<1>4. /\ d \in Node /\ d \in TasksOf(w) /\ d \in InFlight /\ d \in opened
      /\ yields[d] \cap (InFlight \cup opened) = {}
      /\ sub \subseteq {e \in yields[d] : Descendable(e)}
      /\ yields[d] \subseteq visited
      /\ sub \subseteq Node
  BY <1>1, <1>2, <1>3, VisitorHolds DEF OpenedOnce, EntriesOwned, TypeOK
<1>5. /\ InSeq(deque[w]) \subseteq InFlight /\ InSeq(injector) \subseteq InFlight
      /\ \A v \in Workers : TasksOf(v) \subseteq InFlight
  BY DEF InFlight, TasksOf
<1>6. /\ d \notin InSeq(deque[w]) /\ d \notin InSeq(injector)
      /\ \A v \in Workers : v # w => d \notin TasksOf(v)
  BY <1>1, <1>2, <1>4 DEF OneHolder, HeldOnce, Reading
<1>7. TasksOf(w)' = (TasksOf(w) \ {d}) \cup sub
  BY <1>2, <1>6 DEF TasksOf, Reading
<1>8. HeldOnce(w)'
  BY <1>1, <1>2, <1>4, <1>5 DEF HeldOnce, Reading, OneHolder
<1>9. \A v \in Workers : v # w => TasksOf(v)' = TasksOf(v) /\ HeldOnce(v)'
  BY <1>1, <1>2, OthersKeep DEF OneHolder
<1> HIDE DEF d, sub
<1>10. InFlight' = (InFlight \ {d}) \cup sub
  <2>1. injector' = injector
    BY <1>2
  <2>2. UNION {TasksOf(v)' : v \in Workers} = ((UNION {TasksOf(v) : v \in Workers}) \ {d}) \cup sub
    BY <1>6, <1>7, <1>9
  <2> QED BY <1>6, <2>1, <2>2 DEF InFlight
<1>11. OneHolder'
  <2>1. ASSUME NEW v \in Workers PROVE InSeq(injector)' \cap TasksOf(v)' = {}
    BY <1>1, <1>2, <1>4, <1>5, <1>7, <1>9 DEF OneHolder
  <2>2. ASSUME NEW v1 \in Workers, NEW v2 \in Workers, v1 # v2
        PROVE  TasksOf(v1)' \cap TasksOf(v2)' = {}
    BY <1>1, <1>4, <1>5, <1>7, <1>9, <2>2 DEF OneHolder
  <2>3. NoRepeat(injector') /\ \A v \in Workers : HeldOnce(v)'
    BY <1>1, <1>2, <1>8, <1>9 DEF OneHolder
  <2> QED BY <2>1, <2>2, <2>3 DEF OneHolder
<1>12. Discovered'
  BY <1>1, <1>2, <1>4, <1>10 DEF Discovered
<1>13. Visiting' = Visiting \ {w}
  BY <1>2 DEF Visiting
<1>14. \A v \in Visiting' : v \in Visiting /\ v # w /\ dir'[v] = dir[v]
  BY <1>2, <1>13 DEF Visiting
<1>15. OpenedOnce'
  <2>1. ASSUME NEW t \in InFlight' \cap opened' PROVE \E v \in Visiting' : t = dir'[v]
    <3>1. t \in InFlight \cap opened /\ t # d
      BY <1>2, <1>4, <1>10
    <3>2. PICK v \in Visiting : t = dir[v]
      BY <1>1, <3>1 DEF OpenedOnce
    <3>3. v # w
      BY <3>1, <3>2 DEF d
    <3> QED BY <1>13, <1>14, <3>2, <3>3
  <2> QED BY <1>1, <1>2, <1>14, <2>1 DEF OpenedOnce
<1>16. \A v \in Visiting' : dir[v] # d /\ yields[dir[v]] \cap yields[d] = {}
  BY <1>1, <1>3, <1>14, VisitorsApart DEF d
<1>17. EntriesOwned'
  <2>1. ASSUME NEW v \in Visiting'
        PROVE  /\ yields'[dir'[v]] \cap (InFlight' \cup opened') = {}
               /\ pending'[v] \subseteq yields'[dir'[v]]
               /\ subDirs'[v] \subseteq {e \in yields'[dir'[v]] \ pending'[v] : Descendable(e)}
               /\ visited' \cap yields'[dir'[v]] = yields'[dir'[v]] \ pending'[v]
    BY <1>1, <1>2, <1>4, <1>10, <1>14, <1>16 DEF EntriesOwned
  <2> QED BY <2>1 DEF EntriesOwned, Descendable
<1>18. Listed' = Listed \cup {d} /\ d \notin Listed
  <2>1. {dir[v] : v \in Visiting} = {dir'[v] : v \in Visiting'} \cup {d}
    BY <1>3, <1>13, <1>14 DEF d
  <2>2. d \notin {dir'[v] : v \in Visiting'}
    BY <1>14, <1>16
  <2> QED BY <1>2, <1>4, <2>1, <2>2 DEF Listed
<1>19. Reported' = Reported \cup yields[d] /\ yields[d] \cap Reported = {}
  <2>1. UNION {yields[dir[v]] : v \in Visiting}
          = (UNION {yields'[dir'[v]] : v \in Visiting'}) \cup yields[d]
    BY <1>2, <1>3, <1>13, <1>14 DEF d
  <2>2. yields[d] \cap UNION {yields'[dir'[v]] : v \in Visiting'} = {}
    BY <1>2, <1>14, <1>16
  <2> QED BY <1>2, <1>4, <2>1, <2>2 DEF Reported
<1>20. TaskInv'
  BY <1>11, <1>12, <1>15, <1>17 DEF TaskInv
<1>21. Walk!List(d, sub)
  BY <1>2, <1>4, <1>10, <1>18, <1>19 DEF Walk!List
<1> QED BY <1>4, <1>20, <1>21 DEF d, sub

-----------------------------------------------------------------------------
(* The theorems                                                            *)

LEMMA InitialTasks == Init => TaskInv /\ Walk!Init
<1> SUFFICES ASSUME Init PROVE TaskInv /\ Walk!Init
  OBVIOUS
<1>1. /\ injector = RootTasks /\ opened = {} /\ visited = {} /\ returned = FALSE
      /\ Visiting = {}
      /\ \A w \in Workers : TasksOf(w) = {} /\ HeldOnce(w)
  <2>1. \A w \in Workers : deque[w] = <<>> /\ pc[w] = "pop"
    BY DEF Init
  <2>2. InSeq(<<>>) = {} /\ NoRepeat(<<>>)
    BY DEF InSeq, NoRepeat
  <2> QED BY <2>1, <2>2 DEF Init, Visiting, TasksOf, HeldOnce, Reading
<1>2. InFlight = InSeq(RootTasks)
  BY <1>1 DEF InFlight
<1>3. OneHolder
  BY <1>1, TreeAssumption DEF OneHolder, NoRepeat, TreeOK
<1>4. Discovered /\ OpenedOnce /\ EntriesOwned
  BY <1>1, <1>2 DEF Discovered, OpenedOnce, EntriesOwned
<1>5. Walk!Init
  BY <1>1, <1>2 DEF Walk!Init, Listed, Reported, InSeq
<1> QED BY <1>3, <1>4, <1>5 DEF TaskInv

LEMMA TasksShuffle ==
  ASSUME PoolInv, TaskInv, NEW w \in Workers,
         \/ FindTask(w) \/ CheckDone(w) \/ StoreDone(w)
         \/ \E child \in subDirs[w] : PushChild(w, child)
  PROVE  OneHolder' /\ Shuffle
<1>1. OneHolder
  BY DEF TaskInv
<1> QED BY <1>1, PopMoves, InjectedMoves, StealMoves, PushMoves, QuietMoves DEF FindTask

\* A worker's step keeps the invariant; it lists a directory or the traversal
\* does not notice it.
LEMMA WorkerTraverses ==
  ASSUME PoolInv, TaskInv, NEW w \in Workers, RunWorker(w)
  PROVE  TaskInv' /\ [Walk!Next]_(Walk!vars)
<1>1. CASE \/ FindTask(w) \/ CheckDone(w) \/ StoreDone(w)
           \/ \E child \in subDirs[w] : PushChild(w, child)
  BY <1>1, TasksShuffle, ShuffleKeeps DEF Walk!vars
<1>2. CASE OpenDir(w)
  BY <1>2, OpenMoves DEF Walk!vars
<1>3. ASSUME NEW e \in pending[w], NEW skip \in BOOLEAN, VisitEntry(w, e, skip)
      PROVE  TaskInv' /\ [Walk!Next]_(Walk!vars)
  BY <1>3, VisitMoves DEF Walk!vars
<1>4. CASE FinishLeaf(w) \/ AddChildren(w)
  BY <1>4, LeaveLists DEF Walk!Next
<1> QED BY <1>1, <1>2, <1>3, <1>4 DEF RunWorker, ProcessDir

\* The walk returns when nothing is left to list.
LEMMA NothingInFlight ==
  ASSUME PoolInv, returned \/ \A w \in Workers : pc[w] = "exit"
  PROVE  InFlight = {} /\ Visiting = {}
<1>1. 0 \in Workers
  BY ConfigAssumption DEF Workers, NumThreads, ConfigOK
<1>2. done /\ \A w \in Workers : pc[w] = "exit"
  BY <1>1 DEF PoolInv, LeavesAfterDone
<1>3. InSeq(<<>>) = {}
  BY DEF InSeq
<1> QED BY <1>2, <1>3, NothingLeft DEF InFlight, TasksOf, Visiting

LEMMA ReturnTraverses ==
  ASSUME PoolInv, Return
  PROVE  Walk!Return
<1>1. InFlight = {}
  BY NothingInFlight DEF Return
<1>2. UNCHANGED <<yields, InFlight, Listed, Reported>>
  BY DEF Return, sharedVars, readVars, InFlight, TasksOf, Reading, Listed, Reported, Visiting
<1> QED BY <1>1, <1>2 DEF Walk!Return, Return

LEMMA Traverses ==
  PoolInv /\ TaskInv /\ [Next]_vars => TaskInv' /\ [Walk!Next]_(Walk!vars)
<1> SUFFICES ASSUME PoolInv, TaskInv, [Next]_vars
             PROVE  TaskInv' /\ [Walk!Next]_(Walk!vars)
  OBVIOUS
<1>1. ASSUME NEW w \in Workers, RunWorker(w) PROVE TaskInv' /\ [Walk!Next]_(Walk!vars)
  BY <1>1, WorkerTraverses
<1>2. ASSUME UNCHANGED <<yields, sharedVars, pc, readVars>> PROVE TaskInv'
  BY <1>2 DEF sharedVars, readVars, TaskInv, OneHolder, HeldOnce, TasksOf, Reading, InFlight,
              Visiting, Discovered, OpenedOnce, EntriesOwned, Descendable
<1>3. CASE Return
  BY <1>2, <1>3, ReturnTraverses DEF Return, Walk!Next
<1>4. CASE UNCHANGED vars
  <2>1. UNCHANGED <<yields, sharedVars, pc, readVars, returned>>
    BY <1>4 DEF vars
  <2>2. UNCHANGED <<yields, InFlight, Listed, Reported, returned>>
    BY <2>1
    DEF sharedVars, readVars, InFlight, TasksOf, Reading, Listed, Reported, Visiting
  <2> QED BY <1>2, <2>1, <2>2 DEF Walk!vars
<1> QED BY <1>1, <1>3, <1>4 DEF Next, Finished

\* At every instant a directory in flight is on one queue or in the hands of one
\* worker, and the entries of a directory belong to the worker that reads it.
THEOREM TasksOwned == Spec => []TaskInv
BY InitialTasks, Traverses, PoolInvariant, PTL DEF Spec

\* However the workers steal from one another, read_dir is called at most once for
\* a directory.
THEOREM DirsReadOnce == Spec => ReadOnce
<1>1. PoolInv /\ TaskInv /\ [Next]_vars
        => [\A w \in Workers : OpenDir(w) => dir[w] \notin opened]_vars
  BY OpensNew DEF TaskInv, OpenDir
<1> QED BY <1>1, TasksOwned, PoolInvariant, PTL DEF Spec, ReadOnce

\* The pool implements the traversal: it starts where the traversal starts, and each
\* of its steps lists one directory, returns with nothing left, or is not noticed.
THEOREM PoolTraverses == Spec => Walk!Init /\ [][Walk!Next]_(Walk!vars)
BY InitialTasks, Traverses, TasksOwned, PoolInvariant, PTL DEF Spec

-----------------------------------------------------------------------------
(* What a visitor can rely on                                              *)

ListedAreReported == \A d \in Listed : yields[d] \subseteq Reported

LEMMA ListingsReported == Spec => []ListedAreReported
<1>1. Walk!Init => ListedAreReported
  BY DEF Walk!Init, ListedAreReported
<1>2. ListedAreReported /\ [Walk!Next]_(Walk!vars) => ListedAreReported'
  <2> SUFFICES ASSUME ListedAreReported, [Walk!Next]_(Walk!vars) PROVE ListedAreReported'
    OBVIOUS
  <2>1. ASSUME NEW d, NEW sub, Walk!List(d, sub) PROVE ListedAreReported'
    BY <2>1, Zenon DEF Walk!List, ListedAreReported
  <2>2. ASSUME UNCHANGED <<yields, Listed, Reported>> PROVE ListedAreReported'
    BY <2>2, Zenon DEF ListedAreReported
  <2> QED BY <2>1, <2>2, Zenon DEF Walk!Next, Walk!Return, Walk!vars
<1> QED BY <1>1, <1>2, PoolTraverses, PTL

\* A directory other than a root is known only after it has been visited as an entry
\* of its parent.
KnownInv == \A d \in InFlight \cup opened : d \in InSeq(RootTasks) \/ d \in visited

LEMMA KnownIsVisited == Spec => []KnownInv
<1>1. TaskInv /\ ListedAreReported => KnownInv
  <2> SUFFICES ASSUME TaskInv, ListedAreReported, NEW d \in InFlight \cup opened,
                      d \notin InSeq(RootTasks)
               PROVE  d \in visited
    BY DEF KnownInv
  <2>1. PICK p \in opened : d \in yields[p]
    BY DEF TaskInv, Discovered
  <2>2. \A w \in Visiting : p # dir[w]
    BY <2>1 DEF TaskInv, EntriesOwned
  <2> QED BY <2>1, <2>2 DEF ListedAreReported, Listed, Reported
<1> QED BY <1>1, TasksOwned, ListingsReported, PTL

\* The directories that have been accepted for descent.
Accepted == InFlight \cup opened \cup UNION {subDirs[w] : w \in Visiting}

\* An entry that a worker has still to visit is known to nobody else.
LEMMA PendingFresh ==
  ASSUME PoolInv, TaskInv, NEW w \in Visiting, NEW e \in pending[w]
  PROVE  /\ e \in Node /\ e \notin visited /\ e \notin Accepted
         /\ e \in yields[dir[w]] /\ dir[w] \in opened
         /\ \A v \in Visiting : e \in pending[v] => v = w
<1>1. /\ e \in yields[dir[w]] /\ e \notin visited /\ e \notin InFlight \cup opened
      /\ e \notin subDirs[w] /\ dir[w] \in opened
  BY DEF TaskInv, EntriesOwned, OpenedOnce
<1>2. ASSUME NEW v \in Visiting, v # w PROVE e \notin pending[v] /\ e \notin subDirs[v]
  <2>1. yields[dir[v]] \cap yields[dir[w]] = {}
    BY <1>2, VisitorsApart, ListingsApart DEF TaskInv, PoolInv
  <2> QED BY <1>1, <2>1 DEF TaskInv, EntriesOwned
<1>3. pending[w] \subseteq Node
  BY DEF PoolInv, TypeOK, Visiting
<1> QED BY <1>1, <1>2, <1>3 DEF Accepted

\* What the answer of a visitor adds to them.
Granted(e, skip) == {x \in {e} : ~skip /\ Descendable(e)}

\* Only a directory that its visitor does not skip is accepted.
LEMMA AcceptedGrows ==
  ASSUME PoolInv, TaskInv, NEW w \in Workers
  PROVE  /\ RunWorker(w) /\ (\A e \in pending[w] : \A skip \in BOOLEAN : ~VisitEntry(w, e, skip))
              => Accepted' \subseteq Accepted
         /\ \A e \in pending[w] : \A skip \in BOOLEAN : VisitEntry(w, e, skip)
              => Accepted' \subseteq Accepted \cup Granted(e, skip)
<1>1. TypeOK
  BY DEF PoolInv
<1>2. CASE \/ FindTask(w) \/ CheckDone(w) \/ StoreDone(w)
           \/ \E child \in subDirs[w] : PushChild(w, child)
  <2>1. Shuffle
    BY <1>2, TasksShuffle
  <2> QED BY <2>1 DEF Shuffle, Accepted
<1>3. CASE OpenDir(w)
  <2>1. /\ InFlight' = InFlight /\ opened' = opened \cup {dir[w]} /\ dir[w] \in InFlight
        /\ subDirs'[w] = {} /\ \A v \in Workers : v # w => UNCHANGED <<pc[v], subDirs[v]>>
    BY <1>1, <1>3, OpenMoves, OpensNew DEF OpenDir, Goto, TaskInv, TypeOK
  <2>2. \A v \in Visiting' : subDirs'[v] \subseteq Accepted
    BY <2>1 DEF Visiting, Accepted
  <2> QED BY <2>1, <2>2 DEF Accepted
<1>4. CASE FinishLeaf(w) \/ AddChildren(w)
  <2>1. /\ InFlight' = (InFlight \ {dir[w]}) \cup subDirs[w]
        /\ w \in Visiting /\ Visiting' \subseteq Visiting /\ UNCHANGED <<opened, subDirs>>
    BY <1>1, <1>4, LeaveLists
    DEF Walk!List, FinishLeaf, AddChildren, Release, Goto, Visiting, TypeOK
  <2> QED BY <2>1 DEF Accepted
<1>5. ASSUME NEW e \in pending[w], NEW skip \in BOOLEAN, VisitEntry(w, e, skip)
      PROVE  Accepted' \subseteq Accepted \cup Granted(e, skip)
  <2>1. InFlight' = InFlight
    BY <1>5, VisitMoves
  <2>2. /\ w \in Visiting /\ Visiting' = Visiting /\ UNCHANGED opened
        /\ subDirs'[w] \subseteq subDirs[w] \cup Granted(e, skip)
        /\ \A v \in Workers : v # w => UNCHANGED subDirs[v]
    BY <1>1, <1>5 DEF VisitEntry, Granted, Visiting, TypeOK
  <2>3. \A v \in Visiting : subDirs'[v] \subseteq Accepted \cup Granted(e, skip)
    BY <2>2 DEF Visiting, Accepted
  <2> QED BY <2>1, <2>2, <2>3 DEF Accepted
<1> QED BY <1>2, <1>3, <1>4, <1>5 DEF RunWorker, ProcessDir

\* Nothing is entered but the roots, directories and links that are followed.
EnteredInv == \A d \in Accepted : d \in InSeq(RootTasks) \/ Descendable(d)

LEMMA EnteredAreDirs == Spec => []EnteredInv
<1>1. Init => EnteredInv
  <2> SUFFICES ASSUME Init PROVE EnteredInv
    OBVIOUS
  <2>1. /\ injector = RootTasks /\ opened = {} /\ InSeq(<<>>) = {}
        /\ \A w \in Workers : deque[w] = <<>> /\ pc[w] = "pop"
    BY DEF Init, InSeq
  <2>2. Accepted = InSeq(RootTasks)
    BY <2>1 DEF Accepted, InFlight, TasksOf, Reading, Visiting
  <2> QED BY <2>2 DEF EnteredInv
<1>2. PoolInv /\ TaskInv /\ EnteredInv /\ [Next]_vars => EnteredInv'
  <2> SUFFICES ASSUME PoolInv, TaskInv, EnteredInv, [Next]_vars PROVE EnteredInv'
    OBVIOUS
  <2>1. ASSUME NEW w \in Workers, RunWorker(w) PROVE EnteredInv'
    <3>1. CASE \E e \in pending[w] : \E skip \in BOOLEAN : VisitEntry(w, e, skip)
      <4>1. PICK e \in pending[w], skip \in BOOLEAN : VisitEntry(w, e, skip)
        BY <3>1
      <4>2. Accepted' \subseteq Accepted \cup Granted(e, skip)
        BY <4>1, AcceptedGrows
      <4> QED BY <4>2 DEF EnteredInv, Granted
    <3>2. CASE ~\E e \in pending[w] : \E skip \in BOOLEAN : VisitEntry(w, e, skip)
      <4>1. Accepted' \subseteq Accepted
        BY <2>1, <3>2, AcceptedGrows
      <4> QED BY <4>1 DEF EnteredInv
    <3> QED BY <3>1, <3>2
  <2>2. CASE Return \/ Finished \/ UNCHANGED vars
    <3>1. UNCHANGED <<injector, deque, pc, dir, subDirs, opened>>
      BY <2>2 DEF Return, Finished, vars, sharedVars, readVars
    <3>2. Accepted' = Accepted
      BY <3>1 DEF Accepted, InFlight, TasksOf, Reading, Visiting, InSeq
    <3> QED BY <3>2 DEF EnteredInv
  <2> QED BY <2>1, <2>2 DEF Next
<1> QED BY <1>1, <1>2, TasksOwned, PoolInvariant, PTL DEF Spec

-----------------------------------------------------------------------------
(* A walk that skips nothing reads the whole tree                          *)

FullNext ==
  \/ \E w \in Workers :
       \/ FindTask(w) \/ CheckDone(w) \/ OpenDir(w) \/ FinishLeaf(w) \/ AddChildren(w)
       \/ \E child \in subDirs[w] : PushChild(w, child)
       \/ StoreDone(w)
       \/ \E e \in pending[w] : VisitEntry(w, e, FALSE)
  \/ Return
  \/ Finished

FullSpec == Init /\ [][FullNext]_vars

\* What the roots and the directories of S yield is in S.
ClosedTree(S) ==
  /\ \A t \in InSeq(RootTasks) : yields[t] \subseteq S
  /\ \A e \in S : Descendable(e) => yields[e] \subseteq S

\* Nothing is visited that is not in the tree.
WithinTree ==
  \A S \in SUBSET Node : ClosedTree(S) =>
    /\ visited \subseteq S
    /\ \A d \in InFlight \cup opened : d \in InSeq(RootTasks) \/ (d \in S /\ Descendable(d))

\* Every directory that can be entered is in flight or has been listed.
NoneSkipped ==
  /\ \A w \in Visiting : subDirs[w] = {e \in yields[dir[w]] \ pending[w] : Descendable(e)}
  /\ InSeq(RootTasks) \cup {e \in Reported : Descendable(e)} \subseteq InFlight \cup Listed
  /\ \A d \in Listed : yields[d] \subseteq Reported

TreeInv == PoolInv /\ TaskInv /\ WithinTree /\ NoneSkipped

LEMMA FullIsNext == FullNext => Next
BY Zenon DEF FullNext, Next, RunWorker, ProcessDir

LEMMA InitialTree == Init => TreeInv
<1> SUFFICES ASSUME Init PROVE TreeInv
  OBVIOUS
<1>1. PoolInv /\ TaskInv /\ Walk!Init
  BY Initially, InitialTasks
<1>2. InFlight = InSeq(RootTasks) /\ Listed = {} /\ Reported = {}
  BY <1>1 DEF Walk!Init, InSeq
<1>3. opened = {} /\ visited = {} /\ Visiting = {}
  BY DEF Init, Visiting
<1> QED BY <1>1, <1>2, <1>3 DEF TreeInv, WithinTree, NoneSkipped

LEMMA WorkerWithin ==
  ASSUME TreeInv, NEW w \in Workers, RunWorker(w), TaskInv'
  PROVE  WithinTree'
<1>1. PoolInv /\ TaskInv /\ WithinTree /\ yields' = yields
  BY DEF TreeInv, RunWorker, FindTask, ProcessDir, PopOwn, OwnEmpty, StealInjected,
     InjectorEmpty, StealFrom, StealMissed, CheckDone, OpenDir, VisitEntry, FinishLeaf,
     AddChildren, Release, PushChild, StoreDone
<1> SUFFICES ASSUME NEW S \in SUBSET Node, ClosedTree(S)
             PROVE  /\ visited' \subseteq S
                    /\ \A d \in InFlight' \cup opened' :
                         d \in InSeq(RootTasks) \/ (d \in S /\ Descendable(d))
  BY <1>1 DEF WithinTree, ClosedTree, Descendable
<1>2. /\ visited \subseteq S
      /\ \A d \in InFlight \cup opened : d \in InSeq(RootTasks) \/ (d \in S /\ Descendable(d))
  BY <1>1 DEF WithinTree
<1>3. ASSUME NEW d \in InFlight \cup opened PROVE yields[d] \subseteq S
  BY <1>2 DEF ClosedTree
<1>4. CASE \/ FindTask(w) \/ CheckDone(w) \/ StoreDone(w)
           \/ \E child \in subDirs[w] : PushChild(w, child)
  BY <1>1, <1>2, <1>4, TasksShuffle DEF Shuffle
<1>5. CASE OpenDir(w)
  <2>1. InFlight' = InFlight /\ dir[w] \in InFlight
    BY <1>1, <1>5, OpenMoves, OpensNew DEF OpenDir, TaskInv
  <2> QED BY <1>2, <1>5, <2>1 DEF OpenDir
<1>6. ASSUME NEW e \in pending[w], NEW skip \in BOOLEAN, VisitEntry(w, e, skip)
      PROVE  /\ visited' \subseteq S
             /\ \A d \in InFlight' \cup opened' :
                  d \in InSeq(RootTasks) \/ (d \in S /\ Descendable(d))
  <2>1. w \in Visiting
    BY <1>6 DEF VisitEntry, Visiting
  <2>2. e \in yields[dir[w]] /\ dir[w] \in opened
    BY <1>1, <2>1 DEF TaskInv, EntriesOwned, OpenedOnce
  <2>3. e \in S
    BY <1>3, <2>2
  <2>4. InFlight' = InFlight
    BY <1>1, <1>6, VisitMoves
  <2> QED BY <1>2, <1>6, <2>3, <2>4 DEF VisitEntry
<1>7. CASE FinishLeaf(w) \/ AddChildren(w)
  <2>1. UNCHANGED <<opened, visited>>
    BY <1>7 DEF FinishLeaf, AddChildren, Release
  <2>2. /\ InFlight' = (InFlight \ {dir[w]}) \cup subDirs[w]
        /\ dir[w] \in InFlight
        /\ subDirs[w] \subseteq {e \in yields[dir[w]] : Descendable(e)}
    BY <1>1, <1>7, LeaveLists DEF Walk!List
  <2> QED BY <1>2, <1>3, <2>1, <2>2
<1> QED BY <1>4, <1>5, <1>6, <1>7 DEF RunWorker, ProcessDir

LEMMA WorkerSkipsNone ==
  ASSUME TreeInv, NEW w \in Workers,
         \/ FindTask(w) \/ CheckDone(w) \/ OpenDir(w) \/ FinishLeaf(w) \/ AddChildren(w)
         \/ \E child \in subDirs[w] : PushChild(w, child)
         \/ StoreDone(w)
         \/ \E e \in pending[w] : VisitEntry(w, e, FALSE)
  PROVE  NoneSkipped'
<1>1. PoolInv /\ TaskInv /\ NoneSkipped /\ TypeOK /\ EntriesOwned
  BY DEF TreeInv, PoolInv, TaskInv
<1>2. ASSUME UNCHANGED <<yields, InFlight, Listed, Reported>>,
             \A v \in Visiting' :
               subDirs'[v] = {e \in yields[dir'[v]] \ pending'[v] : Descendable(e)}
      PROVE  NoneSkipped'
  BY <1>1, <1>2 DEF NoneSkipped, Descendable
<1>3. CASE \/ FindTask(w) \/ CheckDone(w) \/ StoreDone(w)
           \/ \E child \in subDirs[w] : PushChild(w, child)
  <2>1. Shuffle /\ UNCHANGED <<yields, InFlight, Listed, Reported>>
    BY <1>1, <1>3, TasksShuffle, ShuffleKeeps
  <2> QED BY <1>1, <1>2, <2>1 DEF NoneSkipped, Shuffle
<1>4. CASE OpenDir(w)
  <2>1. UNCHANGED <<yields, InFlight, Listed, Reported>>
    BY <1>1, <1>4, OpenMoves
  <2>2. /\ Visiting' = Visiting \cup {w} /\ w \notin Visiting /\ Visiting \subseteq Workers
        /\ UNCHANGED dir /\ pending'[w] = yields[dir[w]] /\ subDirs'[w] = {}
        /\ \A v \in Visiting : UNCHANGED <<pending[v], subDirs[v]>>
    BY <1>1, <1>4 DEF OpenDir, Goto, TypeOK, Visiting
  <2> QED BY <1>1, <1>2, <2>1, <2>2 DEF NoneSkipped
<1>5. ASSUME NEW e \in pending[w], VisitEntry(w, e, FALSE) PROVE NoneSkipped'
  <2>1. UNCHANGED <<yields, InFlight, Listed, Reported>>
    BY <1>1, <1>5, VisitMoves
  <2>2. /\ Visiting' = Visiting /\ w \in Visiting /\ Visiting \subseteq Workers
        /\ UNCHANGED dir /\ pending'[w] = pending[w] \ {e}
        /\ subDirs'[w] = subDirs[w] \cup {x \in {e} : Descendable(x)}
        /\ \A v \in Visiting : v # w => UNCHANGED <<pending[v], subDirs[v]>>
    BY <1>1, <1>5 DEF VisitEntry, TypeOK, Visiting
  <2>3. e \in yields[dir[w]]
    BY <1>1, <2>2 DEF EntriesOwned
  <2> QED BY <1>1, <1>2, <2>1, <2>2, <2>3 DEF NoneSkipped
<1>6. CASE FinishLeaf(w) \/ AddChildren(w)
  <2>1. Release(w) /\ UNCHANGED <<yields, pending, subDirs>> /\ w \in Visiting
    BY <1>6 DEF FinishLeaf, AddChildren, Release, Visiting
  <2>2. /\ InFlight' = (InFlight \ {dir[w]}) \cup subDirs[w]
        /\ Listed' = Listed \cup {dir[w]}
        /\ Reported' = Reported \cup yields[dir[w]]
    BY <1>1, <1>6, LeaveLists DEF Walk!List
  <2>3. \A v \in Visiting' : v \in Visiting /\ dir'[v] = dir[v]
    BY <1>1, <1>6, <2>1 DEF FinishLeaf, AddChildren, Release, Goto, TypeOK, Visiting
  <2>4. subDirs[w] = {e \in yields[dir[w]] : Descendable(e)}
    BY <1>1, <2>1 DEF NoneSkipped, Release
  <2>5. InSeq(RootTasks) \cup {e \in Reported' : Descendable(e)} \subseteq InFlight' \cup Listed'
    BY <1>1, <2>2, <2>4 DEF NoneSkipped
  <2>6. \A d \in Listed' : yields[d] \subseteq Reported'
    BY <1>1, <2>2 DEF NoneSkipped
  <2>7. \A v \in Visiting' : subDirs'[v] = {e \in yields'[dir'[v]] \ pending'[v] : Descendable(e)}
    BY <1>1, <2>1, <2>3 DEF NoneSkipped
  <2> QED BY <2>1, <2>5, <2>6, <2>7 DEF NoneSkipped, Descendable
<1> QED BY <1>3, <1>4, <1>5, <1>6

LEMMA TreeStep == TreeInv /\ [FullNext]_vars => TreeInv'
<1> SUFFICES ASSUME TreeInv, [FullNext]_vars PROVE TreeInv'
  OBVIOUS
<1>1. PoolInv' /\ TaskInv'
  BY FullIsNext, Inductive, Traverses DEF TreeInv
<1>2. ASSUME NEW w \in Workers,
             \/ FindTask(w) \/ CheckDone(w) \/ OpenDir(w) \/ FinishLeaf(w) \/ AddChildren(w)
             \/ \E child \in subDirs[w] : PushChild(w, child)
             \/ StoreDone(w)
             \/ \E e \in pending[w] : VisitEntry(w, e, FALSE)
      PROVE  TreeInv'
  <2>1. RunWorker(w)
    BY <1>2, Zenon DEF RunWorker, ProcessDir
  <2> QED BY <1>1, <1>2, <2>1, WorkerWithin, WorkerSkipsNone DEF TreeInv
<1>3. ASSUME UNCHANGED <<yields, sharedVars, pc, readVars>> PROVE TreeInv'
  <2>1. UNCHANGED <<InFlight, Listed, Reported, Visiting>>
    BY <1>3
    DEF sharedVars, readVars, InFlight, TasksOf, Reading, Listed, Reported, Visiting
  <2> QED BY <1>1, <1>3, <2>1
      DEF readVars, TreeInv, WithinTree, NoneSkipped, ClosedTree, Descendable
<1>4. CASE Return
  BY <1>3, <1>4 DEF Return
<1>5. CASE UNCHANGED vars
  BY <1>3, <1>5 DEF vars
<1> QED BY <1>2, <1>4, <1>5 DEF FullNext, Finished

LEMMA TreeInvariant == FullSpec => []TreeInv
BY InitialTree, TreeStep, PTL DEF FullSpec

\* When a walk that skips nothing has returned, it has visited what the roots yield,
\* what the directories among that yield, and so on, and nothing else.
WholeTree ==
  returned =>
    /\ ClosedTree(visited)
    /\ \A S \in SUBSET Node : ClosedTree(S) => visited \subseteq S

THEOREM WholeTreeVisited == FullSpec => []WholeTree
<1>1. TreeInv => WholeTree
  <2> SUFFICES ASSUME TreeInv, returned
               PROVE  ClosedTree(visited) /\ \A S \in SUBSET Node : ClosedTree(S) => visited \subseteq S
    BY DEF WholeTree
  <2>1. InFlight = {} /\ Visiting = {}
    BY NothingInFlight DEF TreeInv
  <2>2. Listed = opened /\ Reported = visited
    BY <2>1 DEF Listed, Reported
  <2> QED BY <2>1, <2>2 DEF TreeInv, NoneSkipped, WithinTree, ClosedTree
<1> QED BY <1>1, TreeInvariant, PTL

\* What lies below a directory is closed, and it is the least such set: the last of
\* its levels has nothing to add.
LEMMA BelowIsClosure ==
  ASSUME TypeOK, IsFiniteSet(Node), NEW d \in Node
  PROVE  /\ Below(d) \subseteq Node /\ yields[d] \subseteq Below(d)
         /\ \A e \in Below(d) : Descendable(e) => yields[e] \subseteq Below(d)
         /\ \A T \in SUBSET Node :
              yields[d] \subseteq T /\ (\A e \in T : Descendable(e) => yields[e] \subseteq T)
                => Below(d) \subseteq T
<1> DEFINE N == Cardinality(Node)
           Step(S) == S \cup UNION {yields[e] : e \in {x \in S : Descendable(x)}}
           F == [S \in SUBSET Node |-> Step(S)]
           IsBelow(g) == g = [k \in 0 .. N |-> IF k = 0 THEN yields[d] ELSE Step(g[k - 1])]
<1>1. yields \in [Node -> SUBSET Node]
  BY ReaderAssumption DEF TypeOK, ReaderOK
<1>2. yields[d] \in SUBSET Node /\ N \in Nat
  BY <1>1, FS_CardinalityType
<1>3. \A S \in SUBSET Node : F[S] = Step(S) /\ F[S] \in SUBSET Node /\ S \subseteq F[S]
  BY <1>1
<1>4. PICK g : IsLevels(g, F, yields[d], N)
  BY <1>2, LevelsExist
<1> HIDE DEF F
<1>5. Grows(F, Node) /\ Cardinality(Node) <= N
  BY <1>2, <1>3 DEF Grows
<1> HIDE DEF N
<1>6. (\A k \in 0 .. N : g[k] \in SUBSET Node) /\ LeastClosed(g[N], F, yields[d], Node)
  <2>1. PICK base : base = yields[d]
    OBVIOUS
  <2>2. base \in SUBSET Node /\ IsLevels(g, F, base, N) /\ N \in Nat
    BY <1>2, <1>4, <2>1
  <2>3. LeastClosed(g[N], F, base, Node)
    BY <1>5, <2>2, LastLevel, Zenon
  <2>4. \A k \in 0 .. N : g[k] \in SUBSET Node
    BY <1>5, <2>2, LastLevel, Zenon
  <2> QED BY <2>1, <2>3, <2>4
\* The levels of Below are those of F.
<1>7. IsBelow(g)
  <2>1. \A k \in 0 .. N : k # 0 => k - 1 \in 0 .. N /\ F[g[k - 1]] = Step(g[k - 1])
    BY <1>2, <1>3, <1>6
  <2> HIDE DEF Step
  <2> QED BY <1>4, <2>1, Zenon DEF IsLevels
<1> DEFINE b == CHOOSE h : IsBelow(h)
<1>8. IsBelow(b)
  BY <1>7, Zenon
<1> HIDE DEF Step
<1>9. /\ b[0] = yields[d] /\ g[0] = yields[d]
      /\ \A k \in 1 .. N : b[k] = Step(b[k - 1]) /\ g[k] = Step(g[k - 1])
  <2>1. \A k \in 0 .. N : /\ b[k] = IF k = 0 THEN yields[d] ELSE Step(b[k - 1])
                          /\ g[k] = IF k = 0 THEN yields[d] ELSE Step(g[k - 1])
    <3> HIDE DEF b
    <3> QED BY <1>7, <1>8, Zenon
  <2> HIDE DEF b
  <2> QED BY <1>2, <2>1
<1> HIDE DEF b
<1>10. \A k \in 0 .. N : b[k] = g[k]
  <2> DEFINE B == {k \in 0 .. N : b[k] # g[k]}
  <2> SUFFICES ASSUME B # {} PROVE FALSE
    OBVIOUS
  <2>1. PICK k \in B : \A j \in B : k <= j
    <3>1. B \in SUBSET Nat
      BY <1>2
    <3> HIDE DEF B
    <3> QED BY <3>1, LeastNumber
  <2>2. k \in 1 .. N /\ k - 1 \in 0 .. N /\ ~ (k <= k - 1)
    BY <1>2, <1>9
  <2>3. b[k - 1] = g[k - 1]
    BY <2>1, <2>2
  <2> QED BY <1>9, <2>2, <2>3
<1>11. Below(d) = g[N]
  <2>1. Below(d) = b[N]
    BY Zenon DEF Below, b, IsBelow, Step, N
  <2> QED BY <1>2, <1>10, <2>1
<1>12. ASSUME NEW T \in SUBSET Node, yields[d] \subseteq T,
              \A e \in T : Descendable(e) => yields[e] \subseteq T
       PROVE  g[N] \subseteq T
  <2>1. ASSUME NEW S \in SUBSET T PROVE F[S] \subseteq T
    <3>1. F[S] = Step(S)
      BY <1>3, <1>12
    <3> QED BY <1>12, <3>1 DEF Step
  <2> QED BY <1>6, <1>12, <2>1 DEF LeastClosed
<1>13. /\ g[N] \in SUBSET Node /\ yields[d] \subseteq g[N]
       /\ \A e \in g[N] : Descendable(e) => yields[e] \subseteq g[N]
  <2>1. g[N] \in SUBSET Node /\ yields[d] \subseteq g[N] /\ Step(g[N]) = g[N]
    BY <1>3, <1>6 DEF LeastClosed
  <2> QED BY <2>1 DEF Step
<1> QED BY <1>11, <1>12, <1>13

\* So a walk that skips nothing visits what lies below its roots.
LEMMA VisitedBelow ==
  ASSUME TypeOK, WholeTree, returned, IsFiniteSet(Node)
  PROVE  visited = UNION {Below(t) : t \in InSeq(RootTasks)}
<1> DEFINE whole == UNION {Below(t) : t \in InSeq(RootTasks)}
<1>1. ClosedTree(visited) /\ \A S \in SUBSET Node : ClosedTree(S) => visited \subseteq S
  BY DEF WholeTree
<1>2. InSeq(RootTasks) \subseteq Node
  BY RootAssumption, ElementOfSeq DEF RootsOK, InSeq
<1>3. visited \subseteq Node
  BY DEF TypeOK
<1>4. whole \subseteq visited
  <2> SUFFICES ASSUME NEW t \in InSeq(RootTasks) PROVE Below(t) \subseteq visited
    OBVIOUS
  <2> QED BY <1>1, <1>2, <1>3, BelowIsClosure DEF ClosedTree
<1>5. visited \subseteq whole
  <2>1. whole \in SUBSET Node
    BY <1>2, BelowIsClosure
  <2>2. \A t \in InSeq(RootTasks) : yields[t] \subseteq whole
    BY <1>2, BelowIsClosure
  <2>3. ASSUME NEW e \in whole, Descendable(e) PROVE yields[e] \subseteq whole
    <3>1. PICK t \in InSeq(RootTasks) : e \in Below(t)
      OBVIOUS
    <3>2. yields[e] \subseteq Below(t)
      BY <1>2, <2>3, <3>1, BelowIsClosure
    <3> QED BY <3>2
  <2> HIDE DEF whole
  <2>4. ClosedTree(whole)
    BY <2>2, <2>3 DEF ClosedTree
  <2> QED BY <1>1, <2>1, <2>4
<1> QED BY <1>4, <1>5

=============================================================================
