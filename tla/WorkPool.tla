------------------------------ MODULE WorkPool ------------------------------
(***************************************************************************)
(* The work-stealing pool of src/src/walker.rs: `walk`, `run_worker`,      *)
(* `find_task` and `process_dir`.  Every worker thread owns a LIFO deque;  *)
(* an idle worker takes from the shared injector, then from the other      *)
(* workers' deques.  The atomic `active_dirs` counts the directories in    *)
(* flight; the worker that brings it to zero raises `done`, and a worker   *)
(* that finds nothing to do leaves once `done` is set.                     *)
(*                                                                         *)
(* One step is one access to shared memory.  `yield_now`, `sleep`, the     *)
(* idle counter and the error message on stderr change no shared state and *)
(* are left out; the deques and the injector of crossbeam-deque are        *)
(* linearizable queues, whose `Retry` answer means that a task seen there  *)
(* went to another thread.                                                 *)
(***************************************************************************)
EXTENDS Integers, Sequences, FiniteSets

CONSTANTS
  ConfigThreads,  \* WalkConfig::threads, before max(1)
  FollowSymlinks, \* WalkConfig::follow_symlinks
  Node,           \* every path that can be queued or reported
  Kind,           \* the EntryKind of each path
  RootTasks,      \* the tasks pushed on the injector before a thread starts
  Yields,         \* what the directory reader can yield: a set of functions from
                  \* a directory to the entries read_dir reports, an error in the
                  \* middle of the directory or a failing open included
  NoDir           \* no directory: not a path

NumThreads == IF ConfigThreads > 1 THEN ConfigThreads ELSE 1

Workers == 0 .. NumThreads - 1

EntryKind == {"File", "Dir", "Symlink", "Other"}

ConfigOK == ConfigThreads \in Nat /\ FollowSymlinks \in BOOLEAN

PathsOK == Kind \in [Node -> EntryKind] /\ NoDir \notin Node

(***************************************************************************)
(* `walk` starts from one root; `walk_aggregated_sizes` and                *)
(* `compute_sizes` return before the pool starts when there is no root.    *)
(***************************************************************************)
RootsOK == RootTasks \in Seq(Node) /\ RootTasks # <<>>

ReaderOK ==
  /\ Yields \subseteq [Node -> SUBSET Node]
  /\ \A y \in Yields : \A d \in Node : IsFiniteSet(y[d])

(***************************************************************************)
(* A path has one parent and `child.push(name)` makes a new path, so two   *)
(* directories never yield the same path, and no root is below a root:     *)
(* `walk` has one root, the roots of a size walk carry their own root_idx, *)
(* and a symbolic link leads to paths of its own below the link.           *)
(***************************************************************************)
TreeOK ==
  /\ \A y \in Yields : \A d1, d2 \in Node : d1 # d2 => y[d1] \cap y[d2] = {}
  /\ \A y \in Yields : \A d \in Node : \A i \in DOMAIN RootTasks : RootTasks[i] \notin y[d]
  /\ \A i, j \in DOMAIN RootTasks : i # j => RootTasks[i] # RootTasks[j]

ASSUME ConfigAssumption == ConfigOK
ASSUME PathAssumption   == PathsOK
ASSUME RootAssumption   == RootsOK
ASSUME ReaderAssumption == ReaderOK
ASSUME TreeAssumption   == TreeOK

VARIABLES
  yields,     \* what the reader yields in this walk
  injector,   \* the shared FIFO of tasks
  deque,      \* deque[w]: tasks of worker w; the owner uses the end, thieves the front
  activeDirs, \* the atomic active_dirs
  done,       \* the atomic done
  pc,         \* where each worker is
  offset,     \* offset[w]: the victim being tried, counted from w
  anyRetry,   \* anyRetry[w]: did a victim of this sweep answer Retry?
  dir,        \* dir[w]: the directory w is reading
  pending,    \* pending[w]: its entries read_dir has still to report
  subDirs,    \* subDirs[w]: children to be pushed
  opened,     \* directories a read_dir has been called for
  visited,    \* entries handed to a visitor
  returned    \* has thread::scope ended?

sharedVars == <<injector, deque, activeDirs, done>>
sweepVars  == <<offset, anyRetry>>
readVars   == <<dir, pending, subDirs, opened, visited>>
vars == <<yields, sharedVars, pc, sweepVars, readVars, returned>>

Phase == {"pop", "inject", "steal", "idle", "open", "visit", "push", "store", "exit"}

Goto(w, phase) == pc' = [pc EXCEPT ![w] = phase]

(***************************************************************************)
(* `walk` up to the spawn of the threads.                                  *)
(***************************************************************************)
Init ==
  /\ yields \in Yields
  /\ injector = RootTasks
  /\ deque = [w \in Workers |-> <<>>]
  /\ activeDirs = Len(RootTasks)
  /\ done = FALSE
  /\ pc = [w \in Workers |-> "pop"]
  /\ offset = [w \in Workers |-> 1]
  /\ anyRetry = [w \in Workers |-> FALSE]
  /\ dir = [w \in Workers |-> NoDir]
  /\ pending = [w \in Workers |-> {}]
  /\ subDirs = [w \in Workers |-> {}]
  /\ opened = {}
  /\ visited = {}
  /\ returned = FALSE

-----------------------------------------------------------------------------
(* find_task                                                               *)

Hold(w, task) ==
  /\ dir' = [dir EXCEPT ![w] = task]
  /\ Goto(w, "open")
  /\ UNCHANGED <<pending, subDirs, opened, visited>>

\* worker.pop(): the last task this worker pushed.
PopOwn(w) ==
  /\ pc[w] = "pop"
  /\ deque[w] # <<>>
  /\ Hold(w, deque[w][Len(deque[w])])
  /\ deque' = [deque EXCEPT ![w] = SubSeq(@, 1, Len(@) - 1)]
  /\ UNCHANGED <<yields, injector, activeDirs, done, sweepVars, returned>>

OwnEmpty(w) ==
  /\ pc[w] = "pop"
  /\ deque[w] = <<>>
  /\ Goto(w, "inject")
  /\ UNCHANGED <<yields, sharedVars, sweepVars, readVars, returned>>

\* injector.steal() = Success.  On Retry the loop asks again at once: no change.
StealInjected(w) ==
  /\ pc[w] = "inject"
  /\ injector # <<>>
  /\ Hold(w, Head(injector))
  /\ injector' = Tail(injector)
  /\ UNCHANGED <<yields, deque, activeDirs, done, sweepVars, returned>>

\* injector.steal() = Empty: sweep over the other workers, if there are any.
InjectorEmpty(w) ==
  /\ pc[w] = "inject"
  /\ injector = <<>>
  /\ Goto(w, IF NumThreads > 1 THEN "steal" ELSE "idle")
  /\ UNCHANGED <<yields, sharedVars, sweepVars, readVars, returned>>

Victim(w) == (w + offset[w]) % NumThreads

\* Fault: the task stays on the victim's deque.
StealFrom_LeavesTask(w) ==
  /\ pc[w] = "steal"
  /\ deque[Victim(w)] # <<>>
  /\ Hold(w, Head(deque[Victim(w)]))
  /\ offset' = [offset EXCEPT ![w] = 1]
  /\ anyRetry' = [anyRetry EXCEPT ![w] = FALSE]
  /\ UNCHANGED <<yields, injector, deque, activeDirs, done, returned>>

\* stealers[idx].steal() = Success: the oldest task of the victim.
StealFrom(w) ==
  /\ pc[w] = "steal"
  /\ deque[Victim(w)] # <<>>
  /\ Hold(w, Head(deque[Victim(w)]))
  /\ deque' = [deque EXCEPT ![Victim(w)] = Tail(@)]
  /\ offset' = [offset EXCEPT ![w] = 1]
  /\ anyRetry' = [anyRetry EXCEPT ![w] = FALSE]
  /\ UNCHANGED <<yields, injector, activeDirs, done, returned>>

(***************************************************************************)
(* stealers[idx].steal() = Empty, or Retry when a task was there but the   *)
(* race for it was lost.  After the last victim the loop starts over if    *)
(* any victim answered Retry; otherwise find_task returns None.            *)
(***************************************************************************)
StealMissed(w) ==
  /\ pc[w] = "steal"
  /\ LET retry == anyRetry[w] \/ deque[Victim(w)] # <<>> IN
       IF offset[w] + 1 < NumThreads
       THEN /\ offset' = [offset EXCEPT ![w] = @ + 1]
            /\ anyRetry' = [anyRetry EXCEPT ![w] = retry]
            /\ UNCHANGED pc
       ELSE /\ offset' = [offset EXCEPT ![w] = 1]
            /\ anyRetry' = [anyRetry EXCEPT ![w] = FALSE]
            /\ Goto(w, IF retry THEN "inject" ELSE "idle")
  /\ UNCHANGED <<yields, sharedVars, readVars, returned>>

-----------------------------------------------------------------------------
(* run_worker: nothing was found.                                          *)

\* Fault: a worker that finds nothing leaves, whether or not `done` is set.
CheckDone_LeavesWhenIdle(w) ==
  /\ pc[w] = "idle"
  /\ Goto(w, "exit")
  /\ UNCHANGED <<yields, sharedVars, sweepVars, readVars, returned>>

CheckDone(w) ==
  /\ pc[w] = "idle"
  /\ Goto(w, IF done THEN "exit" ELSE "pop")
  /\ UNCHANGED <<yields, sharedVars, sweepVars, readVars, returned>>

-----------------------------------------------------------------------------
(* process_dir                                                             *)

\* sub_dirs.clear() and the call of reader.read_dir.
OpenDir(w) ==
  /\ pc[w] = "open"
  /\ Goto(w, "visit")
  /\ pending' = [pending EXCEPT ![w] = yields[dir[w]]]
  /\ subDirs' = [subDirs EXCEPT ![w] = {}]
  /\ opened' = opened \cup {dir[w]}
  /\ UNCHANGED <<yields, sharedVars, sweepVars, dir, visited, returned>>

Descendable(e) == Kind[e] = "Dir" \/ (FollowSymlinks /\ Kind[e] = "Symlink")

\* The reader's callback: the visitor sees the entry and says whether to skip it.
VisitEntry(w, e, skip) ==
  /\ pc[w] = "visit"
  /\ e \in pending[w]
  /\ pending' = [pending EXCEPT ![w] = @ \ {e}]
  /\ subDirs' = IF ~skip /\ Descendable(e)
                THEN [subDirs EXCEPT ![w] = @ \cup {e}] ELSE subDirs
  /\ visited' = visited \cup {e}
  /\ UNCHANGED <<yields, sharedVars, pc, sweepVars, dir, opened, returned>>

Release(w) ==
  /\ pc[w] = "visit"
  /\ pending[w] = {}
  /\ dir' = [dir EXCEPT ![w] = NoDir]
  /\ UNCHANGED <<yields, injector, deque, done, sweepVars, pending, subDirs, opened,
                 visited, returned>>

\* Faults: the new value of the counter is tested instead of the old one; the last
\* directory raises no signal; the children are never counted.
FinishLeaf_TestsNewValue(w) ==
  /\ subDirs[w] = {}
  /\ Release(w)
  /\ activeDirs' = activeDirs - 1
  /\ Goto(w, IF activeDirs' = 1 THEN "store" ELSE "pop")

FinishLeaf_NeverSignals(w) ==
  /\ subDirs[w] = {}
  /\ Release(w)
  /\ activeDirs' = activeDirs - 1
  /\ Goto(w, "pop")

AddChildren_Uncounted(w) ==
  /\ subDirs[w] # {}
  /\ Release(w)
  /\ UNCHANGED activeDirs
  /\ Goto(w, "push")

\* read_dir has returned, Ok or Err, and there is no child: active_dirs.fetch_sub(1).
FinishLeaf(w) ==
  /\ subDirs[w] = {}
  /\ Release(w)
  /\ activeDirs' = activeDirs - 1
  /\ Goto(w, IF activeDirs = 1 THEN "store" ELSE "pop")

\* There are children: active_dirs.fetch_add(added - 1), nothing when added is 1.
AddChildren(w) ==
  /\ subDirs[w] # {}
  /\ Release(w)
  /\ activeDirs' = activeDirs + Cardinality(subDirs[w]) - 1
  /\ Goto(w, "push")

\* Fault: only the first child is pushed.
PushChild_DropsOthers(w, child) ==
  /\ pc[w] = "push"
  /\ child \in subDirs[w]
  /\ deque' = [deque EXCEPT ![w] = Append(@, child)]
  /\ subDirs' = [subDirs EXCEPT ![w] = {}]
  /\ Goto(w, "pop")
  /\ UNCHANGED <<yields, injector, activeDirs, done, sweepVars, dir, pending, opened,
                 visited, returned>>

\* worker.push(child): a thief can take the child before the next one is pushed.
PushChild(w, child) ==
  /\ pc[w] = "push"
  /\ child \in subDirs[w]
  /\ deque' = [deque EXCEPT ![w] = Append(@, child)]
  /\ subDirs' = [subDirs EXCEPT ![w] = @ \ {child}]
  /\ Goto(w, IF subDirs[w] = {child} THEN "pop" ELSE "push")
  /\ UNCHANGED <<yields, injector, activeDirs, done, sweepVars, dir, pending, opened,
                 visited, returned>>

\* This worker's fetch_sub returned 1: done.store(true).
StoreDone(w) ==
  /\ pc[w] = "store"
  /\ done' = TRUE
  /\ Goto(w, "pop")
  /\ UNCHANGED <<yields, injector, deque, activeDirs, sweepVars, readVars, returned>>

-----------------------------------------------------------------------------
\* thread::scope ends when every worker has left run_worker, and walk returns.
Return ==
  /\ \A w \in Workers : pc[w] = "exit"
  /\ ~returned
  /\ returned' = TRUE
  /\ UNCHANGED <<yields, sharedVars, pc, sweepVars, readVars>>

FindTask(w) ==
  \/ PopOwn(w)
  \/ OwnEmpty(w)
  \/ StealInjected(w)
  \/ InjectorEmpty(w)
  \/ StealFrom(w)
  \/ StealMissed(w)

ProcessDir(w) ==
  \/ OpenDir(w)
  \/ \E e \in pending[w] : \E skip \in BOOLEAN : VisitEntry(w, e, skip)
  \/ FinishLeaf(w)
  \/ AddChildren(w)
  \/ \E child \in subDirs[w] : PushChild(w, child)
  \/ StoreDone(w)

RunWorker(w) == FindTask(w) \/ CheckDone(w) \/ ProcessDir(w)

Finished == returned /\ UNCHANGED vars

Next == (\E w \in Workers : RunWorker(w)) \/ Return \/ Finished

Spec == Init /\ [][Next]_vars

\* The operating system runs every thread, and a sleeping worker wakes up.
FairSpec ==
  /\ Spec
  /\ \A w \in Workers : WF_vars(RunWorker(w))
  /\ WF_vars(Return)

-----------------------------------------------------------------------------
(* What the pool promises.                                                 *)

\* Every variable keeps its type: queues and locals hold directories of the tree (walker.rs 103-152).
TypeOK ==
  /\ yields \in Yields
  /\ injector \in Seq(Node)
  /\ deque \in [Workers -> Seq(Node)]
  /\ activeDirs \in Nat
  /\ done \in BOOLEAN
  /\ pc \in [Workers -> Phase]
  /\ offset \in [Workers -> Nat \ {0}]
  /\ anyRetry \in [Workers -> BOOLEAN]
  /\ dir \in [Workers -> Node \cup {NoDir}]
  /\ pending \in [Workers -> SUBSET Node]
  /\ subDirs \in [Workers -> SUBSET Node]
  /\ opened \subseteq Node
  /\ visited \subseteq Node
  /\ returned \in BOOLEAN

Reading(w) == pc[w] \in {"open", "visit"}

(***************************************************************************)
(* A token for every directory that is waiting or being read, wherever it  *)
(* is: on the injector, on a deque, in the hands of a worker, or counted   *)
(* by a worker that has not pushed it yet.                                 *)
(***************************************************************************)
InjectorTokens == {<<"injector", i>> : i \in 1 .. Len(injector)}

DequeTokens == UNION {{<<"deque", w, i>> : i \in 1 .. Len(deque[w])} : w \in Workers}

HeldTokens == {<<"held", w>> : w \in {v \in Workers : Reading(v)}}

CountedTokens ==
  UNION {{<<"counted", w, c>> : c \in subDirs[w]} : w \in {v \in Workers : pc[v] = "push"}}

Tokens == InjectorTokens \cup DequeTokens \cup HeldTokens \cup CountedTokens

\* active_dirs is the number of directories in flight, at every instant: children
\* are counted before the first of them can be stolen (walker.rs 274-280).
ActiveCountsTokens == IsFiniteSet(Tokens) /\ activeDirs = Cardinality(Tokens)

\* The counter reaches zero exactly when one worker is about to raise `done` or
\* has raised it: the completion signal is neither lost nor premature, although
\* fetch_sub and store are two steps (walker.rs 271-272).
SignalNotLost ==
  (activeDirs = 0) <=> (done \/ \E w \in Workers : pc[w] = "store")

\* Once `done` can be seen, no directory is queued, held or about to be queued.
DoneMeansDrained == done => Tokens = {}

\* find_task pops its own deque once and never again in its loop: that loses
\* nothing, since only the owner pushes.
ThiefHasEmptyDeque ==
  \A w \in Workers : pc[w] \in {"inject", "steal", "idle", "exit"} => deque[w] = <<>>

LocalsMatchPhase ==
  /\ \A w \in Workers : Reading(w) <=> dir[w] \in Node
  /\ \A w \in Workers : pc[w] = "push" => subDirs[w] # {}
  /\ \A w \in Workers : IsFiniteSet(subDirs[w])

\* A worker leaves, and the walk returns, only after the signal.
LeavesAfterDone ==
  /\ \A w \in Workers : pc[w] = "exit" => done
  /\ returned => \A w \in Workers : pc[w] = "exit"

\* The invariant that carries the others from step to step.
PoolInv ==
  /\ TypeOK
  /\ LocalsMatchPhase
  /\ ThiefHasEmptyDeque
  /\ LeavesAfterDone
  /\ ActiveCountsTokens
  /\ SignalNotLost

\* All that a walk from directory d meets: what d yields and, below each entry that
\* can be entered, what that one yields.
Below(d) ==
  LET Step(S) == S \cup UNION {yields[e] : e \in {x \in S : Descendable(x)}}
      level[k \in 0 .. Cardinality(Node)] == IF k = 0 THEN yields[d] ELSE Step(level[k - 1])
  IN  level[Cardinality(Node)]

InSeq(s) == {s[i] : i \in DOMAIN s}

NoRepeat(s) == \A i, j \in DOMAIN s : s[i] = s[j] => i = j

\* The directories that only worker w knows of, and those that wait anywhere.
TasksOf(w) ==
  InSeq(deque[w]) \cup (IF Reading(w) THEN {dir[w]} ELSE {})
                  \cup (IF pc[w] = "push" THEN subDirs[w] ELSE {})

InFlight == InSeq(injector) \cup UNION {TasksOf(w) : w \in Workers}

Visiting == {w \in Workers : pc[w] = "visit"}

\* No directory is twice in the hands of worker w.
HeldOnce(w) ==
  /\ NoRepeat(deque[w])
  /\ Reading(w) => dir[w] \notin InSeq(deque[w])
  /\ pc[w] = "push" => subDirs[w] \cap InSeq(deque[w]) = {}

\* A directory in flight is in one place: on one queue, in the hands of one worker.
OneHolder ==
  /\ NoRepeat(injector)
  /\ \A w \in Workers : HeldOnce(w) /\ InSeq(injector) \cap TasksOf(w) = {}
  /\ \A v, w \in Workers : v # w => TasksOf(v) \cap TasksOf(w) = {}

\* Whatever is known, the roots apart, was found in a directory that has been opened.
Discovered ==
  /\ \A t \in InFlight \cup opened : t \in InSeq(RootTasks) \/ \E d \in opened : t \in yields[d]
  /\ \A t \in visited : \E d \in opened : t \in yields[d]

\* What has been opened and is still in flight is being visited.
OpenedOnce ==
  /\ \A w \in Visiting : dir[w] \in opened
  /\ \A t \in InFlight \cap opened : \E w \in Visiting : t = dir[w]

\* The entries of a directory belong to its reader until it has been left: the others
\* know none of them, and the visitor has seen all but those still pending.
EntriesOwned ==
  \A w \in Visiting :
    /\ yields[dir[w]] \cap (InFlight \cup opened) = {}
    /\ pending[w] \subseteq yields[dir[w]]
    /\ subDirs[w] \subseteq {e \in yields[dir[w]] \ pending[w] : Descendable(e)}
    /\ visited \cap yields[dir[w]] = yields[dir[w]] \ pending[w]

\* Stealing moves a directory and never copies it; one that is read leaves the pool
\* for good (walker.rs 221-228 and 247-281).
TaskInv == OneHolder /\ Discovered /\ OpenedOnce /\ EntriesOwned

\* No directory is read twice, by one worker or by two (stealing, walker.rs 221-228).
ReadOnce ==
  [][\A w \in Workers : OpenDir(w) => dir[w] \notin opened]_vars

\* After `done` no worker reads a directory, visits an entry or pushes a task: what
\* a finished worker has counted is final.
DoneIsFinal ==
  [][done => UNCHANGED <<yields, sharedVars, readVars>>]_vars

\* The walk returns: no worker waits for ever on a signal that nobody gives.
Termination == <>returned

-----------------------------------------------------------------------------
(* The pool implements a traversal.                                        *)

\* Listed and reported is what a directory that has been left has yielded.
Listed == opened \ {dir[w] : w \in Visiting}

Reported == visited \ UNION {yields[dir[w]] : w \in Visiting}

Walk == INSTANCE Traversal WITH
  Enterable <- {e \in Node : Descendable(e)},
  frontier  <- InFlight,
  listed    <- Listed,
  reported  <- Reported

\* Whatever the interleaving, every directory accepted for descent is listed once,
\* every entry the reader yields is reported, and walk returns when all is done.
ImplementsTraversal == Walk!Spec
=============================================================================
