------------------------------ MODULE FastWalk ------------------------------
(***************************************************************************)
(* The fast mode of src/src/main.rs: a walk of the pool whose visitor      *)
(* counts in cells of its thread and, with --list, writes a line for every *)
(* entry to one buffered stdout behind a mutex.  A thread that leaves adds *)
(* its counters to shared ones, one atomic at a time; after the walk main  *)
(* flushes the writer and reports the shared counters.                     *)
(*                                                                         *)
(* Whatever reads stdout can close it at any moment, for good.  The        *)
(* visitor ignores a failed write; main does not ignore a failed flush.    *)
(***************************************************************************)
EXTENDS Integers, SequencesExt

CONSTANTS
  ConfigThreads,  \* --threads
  FollowSymlinks, \* --follow-symlinks
  ListPaths,      \* --list
  Path,           \* every path
  Kind,           \* the EntryKind of each path
  Root,           \* the path on the command line
  Listings,       \* what the reader can yield: functions from a path to paths
  Size,           \* the size reported with a path, 0 for none
  BufLines,       \* how many lines the BufWriter holds at most
  NoDir

ASSUME WriterAssumption == BufLines \in Nat \ {0} /\ ListPaths \in BOOLEAN

ASSUME SizeAssumption == Size \in [Path -> Nat]

VARIABLES
  yields, injector, deque, activeDirs, done, pc, offset, anyRetry, dir, pending,
  subDirs, opened, visited, returned,
  counters,   \* counters[w]: the cells of worker w
  merged,     \* merged[w]: how many of them w has added to the shared ones
  shared,     \* the shared atomics
  buffer,     \* lines in the BufWriter
  written,    \* lines that reached stdout
  open,       \* is stdout still open?
  exit        \* the exit code, and with it the report on stderr

poolVars == <<yields, injector, deque, activeDirs, done, pc, offset, anyRetry, dir, pending,
              subDirs, opened, visited, returned>>
counterVars == <<counters, merged, shared>>
outVars == <<buffer, written, open>>
vars == <<poolVars, counterVars, outVars, exit>>

Pool == INSTANCE WorkPool WITH
  Node      <- Path,
  RootTasks <- <<Root>>,
  Yields    <- Listings

\* A file system has finitely many paths.
ASSUME PathAssumption == IsFiniteSet(Path)

\* What WorkPool assumes holds of what stands for its constants here.
ASSUME PoolAssumption ==
  /\ Pool!ConfigOK
  /\ Pool!PathsOK
  /\ Pool!RootsOK
  /\ Pool!ReaderOK
  /\ Pool!TreeOK

Workers == Pool!Workers

Fields == <<"entries", "dirs", "files", "symlinks", "total_size">>

Zero == [f \in ToSet(Fields) |-> 0]

\* What an entry adds to the counters.
Count(e) ==
  [entries    |-> 1,
   dirs       |-> IF Kind[e] = "Dir" THEN 1 ELSE 0,
   files      |-> IF Kind[e] = "File" THEN 1 ELSE 0,
   symlinks   |-> IF Kind[e] = "Symlink" THEN 1 ELSE 0,
   total_size |-> Size[e]]

Plus(a, b) == [f \in DOMAIN a |-> a[f] + b[f]]

Init ==
  /\ Pool!Init
  /\ counters = [w \in Workers |-> Zero]
  /\ merged = [w \in Workers |-> 0]
  /\ shared = Zero
  /\ buffer = <<>>
  /\ written = <<>>
  /\ open = TRUE
  /\ exit = "running"

\* Faults: nothing is ever flushed; a line is given up when the mutex is taken.
WriteLine_NeverFlushes(e) ==
  /\ buffer' = Append(buffer, e)
  /\ UNCHANGED <<written, open>>

WriteLine_TryLock(e) ==
  \/ UNCHANGED outVars
  \/ /\ Len(buffer) < BufLines
     /\ buffer' = Append(buffer, e)
     /\ UNCHANGED <<written, open>>
  \/ /\ buffer # <<>>
     /\ open
     /\ written' = written \o buffer
     /\ buffer' = <<e>>
     /\ UNCHANGED open

(***************************************************************************)
(* writeln! under the mutex.  A line that does not fit flushes the buffer  *)
(* first; when that fails the line is dropped and the error ignored.       *)
(* Lines differ in length, so the buffer may be too full before BufLines.  *)
(* A flush passes on all of the buffer or, to a closed stdout, nothing.    *)
(***************************************************************************)
WriteLine(e) ==
  \/ /\ Len(buffer) < BufLines
     /\ buffer' = Append(buffer, e)
     /\ UNCHANGED <<written, open>>
  \/ /\ buffer # <<>>
     /\ open
     /\ written' = written \o buffer
     /\ buffer' = <<e>>
     /\ UNCHANGED open
  \/ /\ buffer # <<>>
     /\ ~open
     /\ UNCHANGED outVars

\* The visitor: count, list, never skip.
Visit(w, e) ==
  /\ Pool!VisitEntry(w, e, FALSE)
  /\ counters' = [counters EXCEPT ![w] = Plus(@, Count(e))]
  /\ IF ListPaths THEN WriteLine(e) ELSE UNCHANGED outVars
  /\ UNCHANGED <<merged, shared, exit>>

PoolStep(w) ==
  /\ \/ Pool!FindTask(w)
     \/ Pool!CheckDone(w)
     \/ Pool!OpenDir(w)
     \/ Pool!FinishLeaf(w)
     \/ Pool!AddChildren(w)
     \/ \E child \in subDirs[w] : Pool!PushChild(w, child)
     \/ Pool!StoreDone(w)
  /\ UNCHANGED <<counterVars, outVars, exit>>

\* Fault: a store in the place of fetch_add.
MergeField_Stores(w) ==
  /\ pc[w] = "exit"
  /\ merged[w] < Len(Fields)
  /\ LET f == Fields[merged[w] + 1] IN shared' = [shared EXCEPT ![f] = counters[w][f]]
  /\ merged' = [merged EXCEPT ![w] = @ + 1]
  /\ UNCHANGED <<poolVars, counters, outVars, exit>>

\* ThreadCounters is dropped when the thread ends: one fetch_add for each field.
MergeField(w) ==
  /\ pc[w] = "exit"
  /\ merged[w] < Len(Fields)
  /\ LET f == Fields[merged[w] + 1] IN shared' = [shared EXCEPT ![f] = @ + counters[w][f]]
  /\ merged' = [merged EXCEPT ![w] = @ + 1]
  /\ UNCHANGED <<poolVars, counters, outVars, exit>>

Merged(w) == merged[w] = Len(Fields)

\* Fault: the walk returns when the last worker has left its loop.
Return_BeforeMerge ==
  /\ Pool!Return
  /\ UNCHANGED <<counterVars, outVars, exit>>

\* thread::scope waits for the threads, and so for the drop of their visitors.
Return ==
  /\ Pool!Return
  /\ \A w \in Workers : Merged(w)
  /\ UNCHANGED <<counterVars, outVars, exit>>

\* Fault: the result of flush is ignored like that of writeln!.
Report_IgnoresFlush ==
  /\ returned
  /\ exit = "running"
  /\ written' = IF open THEN written \o buffer ELSE written
  /\ buffer' = <<>>
  /\ exit' = "success"
  /\ UNCHANGED <<poolVars, counterVars, open>>

\* flush()?: main fails if there is something to flush and nowhere to put it;
\* otherwise it prints the counters and succeeds.
Report ==
  /\ returned
  /\ exit = "running"
  /\ written' = IF open THEN written \o buffer ELSE written
  /\ buffer' = IF open THEN <<>> ELSE buffer
  /\ exit' = IF open \/ buffer = <<>> THEN "success" ELSE "failure"
  /\ UNCHANGED <<poolVars, counterVars, open>>

\* The reader of stdout goes away: every later write of kosu fails.
CloseStdout ==
  /\ ListPaths
  /\ exit = "running"
  /\ open
  /\ open' = FALSE
  /\ UNCHANGED <<poolVars, counterVars, buffer, written, exit>>

Finished == exit # "running" /\ UNCHANGED vars

Next ==
  \/ \E w \in Workers :
       \/ PoolStep(w)
       \/ \E e \in pending[w] : Visit(w, e)
       \/ MergeField(w)
  \/ Return
  \/ Report
  \/ CloseStdout
  \/ Finished

Spec == Init /\ [][Next]_vars

-----------------------------------------------------------------------------
Counters == [ToSet(Fields) -> Nat]

\* Every variable keeps its type; the BufWriter never holds more than its capacity.
TypeOK ==
  /\ Pool!TypeOK
  /\ counters \in [Workers -> Counters]
  /\ merged \in [Workers -> 0 .. Len(Fields)]
  /\ shared \in Counters
  /\ buffer \in Seq(Path) /\ Len(buffer) <= BufLines
  /\ written \in Seq(Path)
  /\ open \in BOOLEAN
  /\ exit \in {"running", "success", "failure"}

Counted(entries) == [f \in ToSet(Fields) |-> SumFunctionOnSet([e \in entries |-> Count(e)[f]], entries)]

\* What worker w has not yet added to field i.
Unmerged(w, i) == IF merged[w] < i THEN counters[w][Fields[i]] ELSE 0

\* At every instant each counter plus what the threads still hold is what has been
\* visited, though five counters of a thread move one by one.
CountersConserved ==
  \A i \in DOMAIN Fields :
    shared[Fields[i]] + SumFunction([w \in Workers |-> Unmerged(w, i)]) =
      Counted(visited)[Fields[i]]

\* All that a walk from the root meets.
Reachable == Pool!Below(Root)

\* The counters main reads after the walk are those of the whole tree.
ReportExact == returned => shared = Counted(Reachable)

\* No path is there twice, and each comes after the directory it lies in.
ParentFirst(lines) ==
  \A i \in DOMAIN lines :
    /\ \A j \in DOMAIN lines : j # i => lines[j] # lines[i]
    /\ lines[i] \notin yields[Root] =>
         \E j \in 1 .. i - 1 : lines[i] \in yields[lines[j]]

\* A path is on stdout only after the directory it lies in, whichever threads wrote
\* the two lines, and no path is there twice.
ParentListedFirst == ParentFirst(written)

\* Errors of writeln! are ignored (main.rs 143), but if the reader of stdout went
\* away too early kosu does not report success (main.rs 168).
NoSilentLoss == exit = "success" /\ ListPaths => ToSet(written) = Reachable
=============================================================================
