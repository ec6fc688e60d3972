------------------------------ MODULE SizeWalk ------------------------------
(***************************************************************************)
(* `walk_aggregated_sizes` of src/src/walker.rs: the pool of WorkPool over *)
(* tasks that carry the index of the root they descend from.  Each worker  *)
(* sums into a local slot per root and adds its slots to the shared totals *)
(* when it leaves; the caller reads the totals after all have left.        *)
(*                                                                         *)
(* `run_size_worker`, `find_size_task` and `process_size_dir` repeat the   *)
(* code of the plain walk with a size sum in the place of the visitor.     *)
(***************************************************************************)
EXTENDS Integers, Sequences, FiniteSets, Functions

CONSTANTS
  ConfigThreads,  \* WalkConfig::threads
  FollowSymlinks, \* WalkConfig::follow_symlinks
  Path,           \* every path
  PathKind,       \* the EntryKind of each path
  Roots,          \* the sequence of roots
  Listings,       \* what the reader can yield: functions from a path to paths
  Size,           \* the size the reader reports with a path; NoSize is Option::None
  NoSize,
  NoDir

RootIdx == DOMAIN Roots

ASSUME SizeAssumption == Size \in [Path -> Nat \cup {NoSize}] /\ NoSize \notin Nat

VARIABLES
  yields, injector, deque, activeDirs, done, pc, offset, anyRetry, dir, pending,
  subDirs, opened, visited, returned,
  local,    \* local[w][i]: what worker w has summed below root i
  slot,     \* slot[w]: the next slot w flushes
  totals,   \* the shared atomic totals
  result    \* what walk_aggregated_sizes returns

sizeVars == <<local, slot, totals, result>>
poolVars == <<yields, injector, deque, activeDirs, done, pc, offset, anyRetry, dir, pending,
              subDirs, opened, visited, returned>>
vars == <<poolVars, sizeVars>>

\* RootedDir: a task is a root index and a path.
RootedDir == RootIdx \X Path

\* A child is pushed with the root_idx of the directory it was found in.
Rooted(listing) == [task \in RootedDir |-> {<<task[1], c>> : c \in listing[task[2]]}]

Pool == INSTANCE WorkPool WITH
  Node      <- RootedDir,
  Kind      <- [task \in RootedDir |-> PathKind[task[2]]],
  RootTasks <- [i \in RootIdx |-> <<i, Roots[i]>>],
  Yields    <- {Rooted(listing) : listing \in Listings}

\* A file system has finitely many paths.
ASSUME PathAssumption == IsFiniteSet(Path)

\* What WorkPool assumes holds of what stands for its constants here.
ASSUME PoolAssumption ==
  /\ Pool!ConfigOK
  /\ Pool!PathsOK
  /\ Pool!RootsOK
  /\ Pool!ReaderOK
  /\ Pool!TreeOK

Workers == Pool!Workers

Bytes(entry) == IF Size[entry[2]] = NoSize THEN 0 ELSE Size[entry[2]]

\* Fault: the local vector has room for the roots but no slot yet.
Init_NoSlots ==
  /\ Pool!Init
  /\ local = [w \in Workers |-> <<>>]
  /\ slot = [w \in Workers |-> 1]
  /\ totals = [i \in RootIdx |-> 0]
  /\ result = <<>>

Init ==
  /\ Pool!Init
  /\ local = [w \in Workers |-> [i \in RootIdx |-> 0]]
  /\ slot = [w \in Workers |-> 1]
  /\ totals = [i \in RootIdx |-> 0]
  /\ result = <<>>

\* Fault: the size goes to the slot of the worker's first root.
SizeEntry_WrongSlot(w, e) ==
  /\ Pool!VisitEntry(w, e, FALSE)
  /\ local' = [local EXCEPT ![w][1] = @ + Bytes(e)]
  /\ UNCHANGED <<slot, totals, result>>

\* The callback of process_size_dir: nothing is skipped, and the size goes to the
\* slot of the task being processed.
SizeEntry(w, e) ==
  /\ Pool!VisitEntry(w, e, FALSE)
  /\ local' = [local EXCEPT ![w][dir[w][1]] = @ + Bytes(e)]
  /\ UNCHANGED <<slot, totals, result>>

\* Fault: the copy of process_dir forgets to raise `done`.
PoolStep_NeverSignals(w) ==
  /\ \/ Pool!FindTask(w)
     \/ Pool!CheckDone(w)
     \/ Pool!OpenDir(w)
     \/ Pool!FinishLeaf(w)
     \/ Pool!AddChildren(w)
     \/ \E child \in subDirs[w] : Pool!PushChild(w, child)
  /\ UNCHANGED sizeVars

\* Every other step of the pool, the end of thread::scope excepted.
PoolStep(w) ==
  /\ \/ Pool!FindTask(w)
     \/ Pool!CheckDone(w)
     \/ Pool!OpenDir(w)
     \/ Pool!FinishLeaf(w)
     \/ Pool!AddChildren(w)
     \/ \E child \in subDirs[w] : Pool!PushChild(w, child)
     \/ Pool!StoreDone(w)
  /\ UNCHANGED sizeVars

\* Fault: a plain store in the place of fetch_add.
FlushSlot_Overwrites(w) ==
  /\ pc[w] = "exit"
  /\ slot[w] \in RootIdx
  /\ totals' = IF local[w][slot[w]] > 0
               THEN [totals EXCEPT ![slot[w]] = local[w][slot[w]]] ELSE totals
  /\ slot' = [slot EXCEPT ![w] = @ + 1]
  /\ UNCHANGED <<poolVars, local, result>>

\* run_size_worker has returned: totals[i].fetch_add(v) for one slot, if v > 0.
FlushSlot(w) ==
  /\ pc[w] = "exit"
  /\ slot[w] \in RootIdx
  /\ totals' = [totals EXCEPT ![slot[w]] = @ + local[w][slot[w]]]
  /\ slot' = [slot EXCEPT ![w] = @ + 1]
  /\ UNCHANGED <<poolVars, local, result>>

Flushed(w) == pc[w] = "exit" /\ slot[w] > Len(Roots)

\* Fault: the totals are read when the workers have left, not when they have flushed.
Return_BeforeFlush ==
  /\ Pool!Return
  /\ result' = totals
  /\ UNCHANGED <<local, slot, totals>>

\* thread::scope ends with the last thread, and totals is returned.
Return ==
  /\ Pool!Return
  /\ \A w \in Workers : Flushed(w)
  /\ result' = totals
  /\ UNCHANGED <<local, slot, totals>>

RunSizeWorker(w) ==
  \/ PoolStep(w)
  \/ \E e \in pending[w] : SizeEntry(w, e)
  \/ FlushSlot(w)

Finished == returned /\ UNCHANGED vars

Next == (\E w \in Workers : RunSizeWorker(w)) \/ Return \/ Finished

Spec == Init /\ [][Next]_vars

FairSpec ==
  /\ Spec
  /\ \A w \in Workers : WF_vars(RunSizeWorker(w))
  /\ WF_vars(Return)

-----------------------------------------------------------------------------
\* Every variable keeps its type; each worker has a slot for each root (walker.rs 340).
TypeOK ==
  /\ Pool!TypeOK
  /\ local \in [Workers -> [RootIdx -> Nat]]
  /\ slot \in [Workers -> 1 .. Len(Roots) + 1]
  /\ totals \in [RootIdx -> Nat]
  /\ result \in {<<>>} \cup [RootIdx -> Nat]

SizeOf(entries) == SumFunctionOnSet([e \in entries |-> Bytes(e)], entries)

Unflushed(i) == SumFunctionOnSet([w \in Workers |-> local[w][i]], {w \in Workers : slot[w] <= i})

\* No byte is lost or counted twice on its way from the reader through the workers'
\* slots to the totals, whoever stole the directory it was found in.
BytesConserved ==
  \A i \in RootIdx :
    totals[i] + Unflushed(i) = SizeOf({e \in visited : e[1] = i})

\* The answer is, for each root, the sum over its whole subtree.
SizesAddUp ==
  returned => \A i \in RootIdx : result[i] = SizeOf(Pool!Below(<<i, Roots[i]>>))

Termination == <>returned
=============================================================================
