# kosu in TLA+

This directory holds TLA+ models of kosu, the parallel directory walker and
junk finder in `src/`, with TLC runs on small instances and TLAPS proofs about
the core. Paths such as `walker.rs` stand for `src/src/walker.rs`.

## The system

kosu has two modes. The *fast* mode walks a tree with a pool of threads and
prints counters (`main.rs`). The *clean* mode walks the tree once, collects junk
directories and a flat list of entries (`scan.rs`, `junk.rs`), measures the junk
with a second pass of the same pool, and shows both lists in a terminal
interface from which directories can be deleted (`tui_app.rs`).

| component | state | operations | correct when |
|---|---|---|---|
| pool (`walk`, walker.rs 103-283) | injector, a deque per worker, `active_dirs`, `done`, locals of each worker | pop, steal, read a directory, count and push children, signal, leave | every accepted directory is read once, `done` comes exactly when nothing is left, all threads end |
| size walk (walker.rs 300-491) | the pool, a slot per root and thread, shared totals | add a size, flush a slot | each total is the size of its subtree |
| fast mode (main.rs 43-196) | counters per thread, shared atomics, one buffered writer behind a mutex | count, list, merge on drop, flush, report | the report counts the tree, a success means that every line was written |
| junk matching (junk.rs 203-240) | none; reads marker files | `match_junk` | its two answers for one entry do no harm if a marker comes or goes or cannot be seen |
| scan (scan.rs 32-136) | the pool, hits and entries per thread, `tree_count`, a shared vector | record, count, flush on drop, merge, truncate, sort | nothing is lost below the cap, the overshoot is bounded, junk stays closed |
| post-processing (scan.rs 146-206, tui_app.rs 29-125) | hits, tree, `by_size`, children index | measure, sort, copy sizes, roll up, order, index | sizes add up, the index is the tree |
| junk page (tui_app.rs 212-388) | selection, cursor, viewport, deletion jobs | keys, scroll, click, poll, delete | only selected hits are deleted, progress is told truly |
| tree page (tui_app.rs 390-640) | mode, expanded set, selection, cursor, jobs | keys, expand, collapse, delete | the row acted on is the row shown |
| directory readers (platform/) | a buffer of the kernel's records, `errno` | open, call, parse, report | every entry once, with its name, its kind and its size; an error when the kernel fails, and only then |
| shell, rendering, command line, formatting | none worth a model | | |

Interaction: `main` calls `walk` directly or `tui_app::run`; `run` calls
`scan_all` (which calls `walk` with a visitor), then `compute_sizes` (which calls
`walk_aggregated_sizes`), then the sequential steps, and hands immutable lists to
the interface through `OnceLock` statics. Threads share only the deques, the
injector, the two atomics of the pool, the merge targets, and, with `--list`,
the writer. The reader is a trait object; the pool sees only its callbacks and
its result.

What is hard: the interleavings of the pool and its termination protocol; data
of a thread that must reach the caller after the thread is done (drops, flushes,
merges); a cap tested and counted in two steps; a reader that fails half way;
files that change while they are scanned; and, in the interface, event handlers
that act on the state of an earlier frame. `PROJECT.json` lists the hazards at
their lines with the properties that cover them.

## Modules

| module | models |
|---|---|
| `Traversal` | what any parallel walk promises, without threads or queues |
| `WorkPool` | `walk`, `run_worker`, `find_task`, `process_dir`; implements `Traversal` |
| `SizeWalk` | `walk_aggregated_sizes` on an instance of `WorkPool` |
| `FastWalk` | the fast mode of `main.rs` on an instance of `WorkPool` |
| `ReadDir` | what `DirReader::read_dir` promises to the pool |
| `DirRecords` | the records of the kernels and what the parsers make of one, as operators |
| `DirReaders` | the four readers of `platform/`; implements `ReadDir` |
| `ScanAll` | `scan_all`, `match_junk` and `marker_exists` on an instance of `WorkPool` |
| `TreeOps` | path order, sorting, `build_children_index`, and what a whole scan is, as operators |
| `Pipeline` | the sequential steps of `tui_app::run` after the scan |
| `PageOps` | the cursor arithmetic of both pages, as operators |
| `DeleteJobs` | the deletions of a page: the `rm` processes, their poll, the footer |
| `PageState` | what both pages keep besides: cursor, marks, the frame on the screen and its handlers |
| `JunkPage` | `junk_content` on `PageState`: one action per key, the wheel, the click |
| `TreeRows` | `build_visible_list` and `push_row`: the rows of the tree page, as operators |
| `TreePage` | `tree_content` on `PageState` and `TreeRows`: expansion, cursor, marks |
| `MC...` | the instances that TLC checks |
| `DataTheorems` | sums, closures, sorts, folds and path order, proved for data of any size |
| `WorkPool_proofs` | the termination protocol of the pool; no directory twice, the refinement of `Traversal`, the whole tree |
| `SizeWalk_proofs`, `FastWalk_proofs`, `ScanAll_proofs` | what is built on the pool |
| `Pipeline_proofs` | the steps after the scan |
| `Pages_proofs` | both pages, their deletions and the rows |
| `DirReaders_proofs` | the readers and the refinement of `ReadDir` |

**WorkPool.** One step is one access to shared memory. `pc[w]` is the place of a
worker: `pop`, `inject` and `steal` are the three sources of `find_task`, `idle`
the test of `done`, `open` and `visit` the call of the reader and its callbacks,
`push` and `store` the end of `process_dir`, `exit` a worker that has left. The
decrement of `active_dirs` (`FinishLeaf`) and the store of `done` (`StoreDone`)
are two steps, and so are the count of the children (`AddChildren`) and the push
of each (`PushChild`). `yield_now`, `sleep` and the idle counter change no shared
state. The deques of crossbeam are external: linearizable queues of which the
owner takes the newest task and a thief the oldest; a thief that meets a task may
be told `Retry` (`StealMissed`). All accesses are sequentially consistent in the
model; the code uses acquire and release orders on the atomics and the queues,
and every read that matters follows a release by the writer. `tree_count` is
relaxed; its load is taken to see the latest value.

What the reader yields is chosen once, in `yields`, from the constant `Yields`: a
reader that fails yields fewer entries. An entry is visited in any order of the
reader. The visitor's answer is free in `WorkPool`; the modules that use the pool
decide it. A path names one place in the tree (`TreeAssumption`): two directories
never yield the same path. A link that is followed leads to paths below the link.

**SizeWalk, FastWalk, ScanAll** instantiate `WorkPool` and replace `VisitEntry`
and `Return` by actions that do the same and what the visitor and the end of the
thread do besides. `SizeWalk` gives the pool tasks that are pairs of a root index
and a path, as `RootedDir`. `ScanAll` splits the visitor where it touches shared
state: the first `match_junk`, the second one, the load of `tree_count`, its
increment. `CreateMarker` and `DeleteMarker` are the rest of the system: a file that a
marker stands for appears or vanishes, one at a time, so that a glob can still match
through another file. Each `match_junk` is one step, taken when it finds its pattern.
`Misses` is what it can overlook of what is there then: a directory that cannot be
listed, an entry that cannot be read and a file whose state is refused count as no
marker in the code, and so does a file that has come while the directory was listed or
since an earlier pattern was tried. Each question may miss any of the patterns that ask
for a marker. Two history variables let the properties speak of this: `existed`, the
files that exist or have existed, and `calm`, that none has come or gone and no question
has missed one. The files behind markers are kept apart from those the walk lists.
`FastWalk` merges the five counters one by one and lets the process behind
stdout close it at any moment.

**DirReaders.** One `read_dir` call. `GetDents`, `GetAttrListBulk` and `NtQuery` are
the calls that fill the buffer: the kernel, which is external, returns as many
records as it likes of those that fit, in an order it has chosen, or fails
(`CallFails`). `ParseRecord` is one turn of the parser's loop with its checks against
the end of the buffer and of what was returned; the records are those a kernel writes,
so the checks of `parse_buffer` for records that contradict themselves (macos.rs
186-189, 198-201, 212-215, 225, 240 and 247) have no counterpart. `BatchDone` the check that ends the loop, `ReadDirEntry` and `ReadDirNull` the two
answers of `readdir(3)`. The buffer is a set of records by offset: a call overwrites
what it covers, and older records stay behind it, for `ATTR_BUF` those of a directory
the thread has read before. Lengths and offsets are those of the code in bytes,
with smaller buffers. A name is a sequence of characters because one reader takes
it from a wrong offset. On Windows every reparse point is reported as a link; the model
has links only, and no mount points or placeholders of files in a cloud. `ReadDir` is the contract: no entry twice, `Ok` only after
all of them, and the call returns. `WorkPool` takes its `Yields` from that
contract: all children after `Ok`, any part of them after `Err`. The directory does
not change while it is read.

**Pipeline** is sequential; its choices are those the code leaves open: the order
of entries of equal size after an unstable sort, and the input. The input is any list
that satisfies `WholeScan` of `TreeOps` (`ScanAssumption`); that `scan_all` returns one
unless it cuts the tree is the theorem `ResultIsWhole`.

A `sort_by` is `StableSort`: an element goes to the place that is one more than the
number of those that come before it. Unlike a sorting algorithm this can be reasoned
about without a recursion.

**JunkPage, TreePage.** kou-ui calls the content function of a page for every
frame. The function reads the states, polls the deletions and builds handlers
that own copies of what it read. `frame` is that copy; `Render` is the call, and
the handlers (`Scroll`, `Toggle`, `Delete`...) read `frame` and write the states.
kou-ui is not part of the repository: the models take from its use that a `set`
asks for a frame, that the value is seen by the next frame, and that more than
one event may reach the handlers of one frame (`EventsPerFrame`). The deletions
stand twice in the code, word for word, with states of their own; `DeleteJobs` has
them once. Both pages extend `PageState`, which has what they share; the actions of
the tree page that the junk page has too are named `Tree...`, so that one module can
prove theorems about both. `RmEnds` is a process that ends between two
polls. `page - 1` wraps on a terminal of five lines or fewer, as in a release build.
`adrift` records that a resize, or a click on a frame that was already scrolled
away, may have left the cursor off the screen.
`VisibleLists` tabulates the visible list for each set of expanded directories; the
recursion of `push_row` is a function on rows, which is defined because the children
of an entry come after it in the tree.

Operators named `X_...` beside an action `X` are faults that the code does not
have. They are used to see that a property can fail: with `X` replaced by the
fault TLC finds the property violated (`mutants` in `PROJECT.json`).

## Runs

| run | instance | shows |
|---|---|---|
| `pool` | 4 workers, 9 paths, 4 readers | `TypeOK`, `PoolInv`, `SignalNotLost`, `DoneMeansDrained`, `TaskInv`, `ReadOnce`, `DoneIsFinal` |
| `pool_live` | 3 workers, links followed, fairness | `Termination`, `ImplementsTraversal` |
| `size_walk` | 3 workers, 2 roots, 3 readers, fairness | `BytesConserved`, `SizesAddUp`, `Termination` |
| `fast_walk` | 2 workers, a buffer of 2 lines, links followed | `CountersConserved`, `ReportExact`, `ParentListedFirst`, `NoSilentLoss` |
| `scan_all` | 2 workers, a cap of 2, a literal marker, two globs, four files, one of them not there at first | `OvershootBounded`, `AncestorsRecorded`, `JunkStaysClosed`, `MarksMatchHits`, `ResultComplete` |
| `index_after_cap` | 3 workers, a cap of 4 | a counterexample to `ChildrenLieInParent` |
| `pipeline` | all scans of up to 6 entries, ties included | `DirsAddUp`, `JunkSizesMatch`, `IndexPartitionsTree` |
| `junk_page` | 2 hits, 2 deletions, 2 events per frame, fairness | `CursorOnScreen`, `JobsWithinTotal`, `MessageTellsState`, `PollingGoesOn` |
| `tree_page` | 2 nested directories and a file, 1 deletion, a list cut behind 3 rows | `TreeTypeOK`, `RowsNest`, `MessageTellsState` |
| `tree_cursor` | the same | a counterexample to `CursorOnRow` |
| `dir_readers` | directories of 2 and 4 entries in any order, 4 readers, fairness | `ReportsTrue`, `ErrorsAreReal`, `ImplementsReadDir` |
| `linux_names` | the Linux reader, a name of one character and one of six | a counterexample to `NamesAreExact` |

A type invariant is checked in each passing run but `pool_live`, which shares it with `pool`.

Bounds. The pool's hazards need a worker that pushes while a second steals and a
third goes idle; a fourth makes a sweep with several victims, some of which
answer `Retry`. The trees have directories with two children (counted together),
one child (not counted), none, and a reader that fails at the root, below it and
half way. Two roots are enough for a size to land in the wrong slot, sizes are
powers of two so that sums cannot agree by accident. The cap of `scan_all` is
below the number of entries in one instance of the reader and equal to it in the
other; two workers are the fewest that pass the test of the cap together. Of the files
beside junk, two satisfy one glob, and one that another glob looks for has yet to be
created; all four may come and go any number of times. The
buffer of `fast_walk` fills within the four lines of its tree. `pipeline` takes
every prefix-closed subset of six paths on three levels.

In `junk_page` the terminal has room for no row or for one, the two cases in
which the viewport has to move; the second deletion (`MaxBatches`) is the one
that can replace running jobs, and a second event on one frame is the first that
is stale. `UsizeSpan` stands for 2^64 and exceeds every row count. In `tree_page`
the file occurs at three indents, so that a row can be collapsed through its parent
while the parent is also shown elsewhere, and the list grows from 3 to 5 rows, past
the length of the tree and the smaller screen. `MaxRows`, 3 in place of the 100000
of the code, cuts the largest expansion and no other. The tree page takes one event
per frame: its handlers read nothing but `frame`, and staleness is the matter of
`junk_page`; and it deletes once, so that one batch replaces another only there. A
terminal without a row for the list (`page` is 0, and `page - 1` wraps) is in
`junk_page` too: `CursorOnScreen` says nothing of it, `TypeOK` that the viewport stays in
the list. A deletion whose `rm` cannot be started is part of both runs:
`MessageTellsState` holds of it, as it allows "Done" to count it and "Deleting 0" to
stay when none was started.

In `dir_readers` a buffer has room for three or four records: a directory of four
entries and the dots takes at least two calls, a later batch can be shorter than
an earlier one, and old records begin exactly where the new ones end. The last
record of Windows can begin 72 bytes before the end of the buffer and be shorter
than the struct. One entry in each listing where that can be comes without a type,
one without a size. The names on Linux have six characters, one more than the
reader loses, so that all entries are still told apart; what it does to their names
is `linux_names`.

Deadlock is checked in every run: a system that has returned stutters by
`Finished`, the pages never stop, and any other state without a step is an error.

Fairness. `FairSpec` asks that each worker, when it can take a step for ever,
takes one (`WF_vars(RunWorker(w))`), and that the end of the scope is noticed.
The operating system schedules every thread, a sleeping worker wakes after 20
microseconds, and no lock is held while a thread waits. Nothing stronger is
needed: `Retry` is only answered while the victim has a task, and a worker whose
deque is not empty is not in a sweep, so it goes on to consume the task. The
mutex of the writer and of `FlushOnDrop` is held for one step each.
For the readers, `FairSpec` asks that every call of the kernel answers.
For the pages, `FairSpec` asks that a frame that was asked for is drawn, which is
the loop of kou-ui, and that every `rm` ends.

## What the three counterexamples say

`index_after_cap`: threads that pass the test of `tree_count` together record
more than `TREE_MAX_ENTRIES` entries. `scan_all` then truncates the merged list
before sorting it, so a directory may go while its content stays.
`build_children_index` relies on "the top is our nearest ancestor" and indexes
that content below the directory that comes before it in path order. The actual
cap is four million entries.

`tree_cursor`: expand the directories, click a row far down, and collapse with
`h`. The visible list becomes shorter than the cursor. No row is highlighted any
more, `l` and `h` do nothing, and Space changes the mark of entry 0
(tui_app.rs 502), an entry the user has not chosen and may later delete. The
comment before `vis_last` says "Recalculate last for visible list length", but
`vis_last` is not used: all bounds are those of the whole tree. For the same
reason `j` and `G` do not reach the rows behind the length of the tree.

`linux_names`: `LinuxDirent64Header` is `repr(C)` and padded to 24 bytes, while the
name begins at byte 19. The reader takes the name from byte 24: it loses five
characters, an entry with a name of five or fewer is not reported, and `statx` is
asked about a name that does not exist. The comment in the struct says "d_name
follows immediately". README.md calls the Linux reader a stub that compiles and has
not been tested.

Three remarks that no run is spent on. The comment at scan.rs 161 says that the lists
given to `apply_junk_sizes_to_tree` are both sorted by path, but `run` has sorted
the hits by size just before; the function uses a map and not a merge, so the sizes
are right (`JunkSizesMatch`). The comment at platform/mod.rs 21 says that `with_size`
selects `ATTR_FILE_DATALENGTH`, but macos.rs 124 asks for `ATTR_FILE_ALLOCSIZE`, the room
a file takes; a size is any number in the models. And junk.rs 8 imports `std::os::unix` on every system,
so the Windows reader is not part of a build that compiles.

## Proofs

Seven modules prove theorems of the specifications, for all values of the
constants that satisfy the named assumptions; `DataTheorems` holds lemmas
they share. Each theorem of an invariant has the same shape: the initial states
satisfy an inductive invariant, each action keeps it, and it implies what is
claimed. The inductive invariants that are definitions of the model (`PoolInv`,
`TaskInv`) are also checked by TLC in `pool`.

**The pool** (`WorkPool_proofs`): `TypeCorrect`, `PoolInvariant`, `SignalCorrect`,
`DrainedWhenDone`, `FinalWhenDone`. Each directory in flight is given a token that
says where it is: a position of the injector or of a deque, the hands of a worker,
or the list of children a worker has counted and not yet pushed.
`ActiveCountsTokens` says that `active_dirs` is the number of tokens. It is not
inductive alone: that a worker in `push` still has children and that a worker in
`open` or `visit` holds a directory is `LocalsMatchPhase`; that a thief's own deque
is empty is `ThiefHasEmptyDeque`; that nobody leaves before `done` is
`LeavesAfterDone`. Then `SignalNotLost` follows step by step: the counter becomes
zero only in a `FinishLeaf` that saw 1, which goes on to store `done`, and at zero
there is no token, so no step can take, count or push one. These theorems do not
use `TreeAssumption`: termination does not depend on the directories being different.

**Tasks and tree** (`WorkPool_proofs`, under `TreeAssumption` besides): `TaskInv`
says that a directory has one place in the pool at a time, is known only from a
parent that has been opened, and that the entries of a directory being read are
known to its reader alone. From it:

- `DirsReadOnce`: no directory is opened twice;
- `PoolTraverses`: initial states map to initial states of `Traversal`, and each
  step of the pool is a step of `Traversal` or a stutter. The directories that
  `Traversal` has listed are those whose readers have ended;
- `WholeTreeVisited`: a walk whose visitor skips nothing has, when it returns, opened
  each directory and visited each entry the reader yields below the roots, and
  nothing else. What is visited lies in every set that is closed under the yields of
  its directories, so it is in the tree; and the tree, which is computed level by
  level, can have no first level on which something has not been visited.

**On top of the pool.** `SizeWalk`, `FastWalk` and `ScanAll` instantiate `WorkPool`
with their own visitors, so their proofs show first that each of their steps is a
step of that pool or leaves it alone, and then use the theorems of the pool. That
the constants of the instance satisfy what `WorkPool` assumes is the
`PoolAssumption` of each module, the same five conditions. Then:

- `SizeTypes`, `NoByteLost`, `SizesOfSubtrees`: what lies in the totals and the slots
  not yet flushed is, root by root, the sum of the sizes of what was visited. Each
  step changes one summand on each side. At the return every slot is flushed and the
  whole forest visited;
- `FastTypes`, `NoCountLost`, `ReportIsExact`, `ParentsFirst`, `SuccessIsComplete`: the
  same for the five counters, which a thread merges one by one, and for the lines,
  of which the shared buffer and stdout hold what has been listed, in order;
- `ScanTypes`, `CapHolds`, `TreeIsClosed`, `JunkIsClosed`, `MarksMatch`: the number of
  recorded entries differs from `tree_count` by the threads between the push and the
  increment, and each of these has seen a count below the cap; while the count is
  below the cap nothing visited is missing from the tree (`NoneLost`), so the parent
  of what is recorded has been recorded before; a hit is never accepted, and below a
  path that is not accepted nothing is visited: the shortest visited path below it
  would lie in an opened directory that is the hit itself or a shorter such path. A hit
  and its label are explained by the files that have existed (`Justified`), which only
  become more; that its label is the first one is claimed only of a calm scan, as a
  question that fails can take the label from a hit whose markers are all there;
- `ResultIsComplete`: what `scan_all` returns. `MergeInv` says that the shared vector
  holds the lists of the threads that have left, each once, and that no path is
  recorded twice, by one thread or by two. So with the last thread the merged tree has
  as many entries as were recorded; a list of different paths, all visited, that is as
  long as the set of the visited ones has them all; the sort is a permutation, and
  `dedup_by` finds nothing to remove;
- `ResultIsWhole`: below the cap the two lists are a `WholeScan`, which is what the
  pipeline assumes. The directory an entry lies in has been entered, so it is in the
  list, is a directory and no hit.

**Pipeline** (`Pipeline_proofs`): `TypesKept`, `JunkSizesAreMeasured`, `SizesAddUp`,
`IndexIsPartition`, for every `WholeScan` and all sizes of the junk. `PipelineInv` says
that the tree is that of the scan with other sizes, that the hits are those of the scan
in another order with the sizes measured, that after the accumulation each directory
has the sum of its children's sizes (`AddedUp`), and that `by_size` and the index are
permutations of what they were made from.

- The index: while entry i is placed, the stack holds the ancestors of i - 1 among the
  directories, one on each depth (`Indexed`). In path order what lies between a
  directory and an entry below it lies below it too (`BetweenIsBelow`), so a directory
  is never popped while entries below it follow. That each entry finds its own parent on
  top needs the parent in the list, which a cut list does not promise
  (`index_after_cap`).
- The sizes: the entries below a directory are those of its children's subtrees, which
  are disjoint (`ChildSubtrees`, `SubtreesApart`), and a directory has no size of its
  own. Accumulation gives each directory the sum over all entries below it, computed
  from the sizes before the step; cut into the parts of the children this is the sum
  of what the children show.
- The junk: a junk directory has no size and lies above nothing, so it gets what its
  hit has, found by path; a sort by size has put the hits in another order, but it is a
  permutation and each path is in it once.
- The unstable sorts: whatever order comes out of `Orders` is a list of all indices,
  each once, sorted (`OrdersAreLists`).

**Pages** (`Pages_proofs`). The junk page: `PageTypes`, `CursorStays`, `JobsStayWithin`,
`MessageIsTrue`, for any number of hits, any heights and any number of events on one
stale frame. The frame is a state that once was drawn, so its cursor and viewport
index a hit; that is what each handler relies on. For the deletions, what still
runs is among the jobs and these are counted in the total.

The tree page: `TreeTypes`, `RowsAlwaysNest`, `TreeMessageIsTrue`, for any tree, any
index of children that come after their directory (the index of a list that was cut
included), any order of size and any number of events on one frame. The lemmas about
deletions are those of the junk page. The rows of an entry are a `Block`: the row
itself, and behind it rows that are further in, each of which hangs from a row one step
further out with nothing as far out between them (`Hangs`). A smallest entry for which
this were wrong cannot be, as the blocks of its children, put behind one another, hang
from its row (`BroodBelow`). The list is a `Forest`: after k entries it has k blocks, or
fewer and more than `MaxRows` rows (`Built`). In such a list the row that a row hangs
from is the nearest one further out (`ForestNests`), which is what `RowsNest` says.

**Directory readers** (`DirReaders_proofs`): `ReaderTypes`, `ErrorsStayReal`,
`ReportsStayTrue`, `ReadableReported`, `ContractKept`, for any directories, any batches
and any size of the buffer that is a multiple of 8. The invariant `DirInv` says that,
while a batch is parsed, its records lie in the buffer one behind the other, what older
calls have left begins behind them, the reader stands at the start of the j-th record,
and what it has reported are the readings of the entries before that, each once. That
the reader leaves the loop only behind the last record is arithmetic about its bounds:
on Windows a last record that is shorter than the struct still passes the check of 72
bytes, because offsets and buffers are multiples of 8.

On Linux the names are cut (`linux_names`), and an entry with a name of five characters
or fewer is never reported, so the Linux reader does not implement `ReadDir` in every
directory. `ContractKept`, the safety part of `ImplementsReadDir`, is therefore a theorem
about macOS and Windows, where it holds for all names. `ReadableReported` is about all
four readers, without a condition: it is the same contract for the entries that the
reader finds a name for (`Shown`), so what linux.rs loses it loses by cutting names and
in no other way. The instance of `dir_readers` has longer names on Linux, for which the
two contracts are the same. `ReportsStayTrue` needs a hypothesis on Linux: that the cut
name of an entry whose type the kernel does not give is not the name of another one
(`NamesApart`).

Assumptions. About the pool: `ConfigAssumption`, `PathAssumption`, `RootAssumption`,
`ReaderAssumption`, `TreeAssumption`. About what is on top of it: `ListingAssumption`,
`SizeAssumption`, `PatternAssumption`, `MarkerAssumption`, `CapAssumption` (types of the
constants; sizes are natural numbers, and no reader reports one above 0 for a
directory). About the pipeline: `ScanAssumption` (a whole scan, see `ResultIsWhole`) and
`JunkAssumption` (each hit is a root of the size walk and gets a size). About the pages:
`PageAssumption`, `HitsAssumption`, `UsizeAssumption`, `BatchAssumption`,
`RowsAssumption` (children come after their directory, by_size has every entry). About
the readers: `SystemsAssumption`, `BufAssumption` and `EntryAssumption` (what a file
system can tell of an entry; a record of Windows has its attributes). TLC evaluates all
of them in the runs.

Induction over data is out of the prover's reach, so sums and closures are
handled by smallest counterexamples: a finite set whose sum, or a level of a closure
that, would be wrong has a smallest one below which all is right
(`DataTheorems`). Sequences of records are treated the same way in
`DirReaders_proofs`, the trees of `Pipeline` in `Pipeline_proofs`, the rows of the tree
page in `Pages_proofs`.

Only model-checked: all liveness (`Termination`, `PollingGoesOn`, and the fairness
in `ImplementsTraversal` and `ImplementsReadDir`), as the prover has no rule for
fairness. Every invariant of a passing run is a theorem.

## Plan

Done: models of all parts named above, and proofs of all their invariants. What is
left:

1. the fast mode with a stdout that fails for a while and works again (main.rs 143);
2. the tree page with two events per frame in TLC's instance, as the proofs have it.

## Not modelled, and why

The `lstat` of `ReaddirReader::with_size` (macos.rs 346-367), which
`build_reader` never asks for. Directories that change while they are read. The
keys of the shell that change the page: whether kou-ui keeps the states of a
page that is left cannot be told from this repository. The detection of the
number of cores, the parsing of arguments, the text and colours of the output,
and the kou-ui crate, which is not part of the repository. The table of junk
patterns is data. Memory exhaustion and panics of a thread are left out: a
release build aborts on a panic (`panic = "abort"` in Cargo.toml). Links that
form a cycle are followed by the code until the system refuses the path, which
is a longer finite tree.
