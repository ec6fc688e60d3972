------------------------------ MODULE ScanAll ------------------------------
(***************************************************************************)
(* `scan_all` of src/src/scan.rs: one walk of the pool whose visitor       *)
(* records junk directories and tree entries in storage of its thread,     *)
(* keeps out of junk directories, and stops recording tree entries when a  *)
(* counter shared by all threads reaches TREE_MAX_ENTRIES.  When a thread  *)
(* leaves, its two lists are pushed on a shared vector; after the walk     *)
(* they are merged, cut to the cap and sorted.                             *)
(*                                                                         *)
(* The markers of junk patterns are files that other programs can create   *)
(* and delete while the scan runs, and a question about one can fail; they *)
(* are kept apart from what the walk lists.                                *)
(***************************************************************************)
EXTENDS TreeOps

CONSTANTS
  ConfigThreads,  \* AppState::threads
  Path,           \* the root <<>> and paths below it
  Kind,           \* the EntryKind of each path
  Name,           \* the file name of each path
  Listings,       \* what the reader can yield: functions from a path to paths
  Size,           \* the size reported with a path, 0 for none
  Patterns,       \* PATTERNS: records of dir_name, ecosystem and marker
  NoMarker,       \* Option::None in a pattern
  GlobOf,         \* the extension that a marker "*.ext" asks for, NoMarker for a literal
  Extension,      \* the extension of the files that may lie beside a directory
  Beside,         \* the pairs <<directory, file>> that can exist
  Markers,        \* those that exist when the scan starts
  TreeMaxEntries, \* TREE_MAX_ENTRIES
  NoDir

ASSUME CapAssumption == TreeMaxEntries \in Nat \ {0}

\* No size with a directory: Linux reads none, getattrlistbulk has none of a directory,
\* and the EndOfFile of a directory is 0.
ASSUME SizeAssumption ==
  /\ Path \subseteq Seq(Nat) /\ Size \in [Path -> Nat]
  /\ \A e \in Path : Kind[e] = "Dir" => Size[e] = 0

\* child.push(name): a directory yields paths one component longer than its own.
ASSUME ListingAssumption ==
  \A y \in Listings : \A d \in Path : \A e \in y[d] : e # <<>> /\ Parent(e) = d

ASSUME MarkerAssumption == Markers \subseteq Beside

\* The label of a hit when match_junk answers None: unwrap_or("").
NoLabel == ""

\* Labels are strings, and every pattern of the table has one.
ASSUME PatternAssumption ==
  /\ DOMAIN Patterns \subseteq Nat
  /\ {Patterns[i].ecosystem : i \in DOMAIN Patterns} \cup {NoLabel} \subseteq STRING
  /\ \A i \in DOMAIN Patterns : Patterns[i].ecosystem # NoLabel

VARIABLES
  yields, injector, deque, activeDirs, done, pc, offset, anyRetry, dir, pending,
  subDirs, opened, visited, returned,
  present,    \* the files that exist now
  existed,    \* history: those that exist or have existed
  calm,       \* history: no file came or went, and no question about one has failed
  step,       \* step[w]: where the visitor of worker w is
  entry,      \* entry[w]: the entry it was called with
  isJunk,     \* isJunk[w]: its local is_junk
  hits,       \* hits[w]: the junk hits of worker w
  tree,       \* tree[w]: the tree entries of worker w
  treeCount,  \* the shared tree_count
  allLocals,  \* the shared vector of both lists of each thread
  result      \* what scan_all returns

poolVars == <<yields, injector, deque, activeDirs, done, pc, offset, anyRetry, dir, pending,
              subDirs, opened, visited, returned>>
fileVars == <<present, existed, calm>>
visitVars == <<step, entry, isJunk>>
scanVars == <<hits, tree, treeCount, allLocals, result>>
vars == <<poolVars, fileVars, visitVars, scanVars>>

Pool == INSTANCE WorkPool WITH
  FollowSymlinks <- FALSE,
  Node      <- Path,
  RootTasks <- << <<>> >>,
  Yields    <- Listings

\* What WorkPool assumes holds of what stands for its constants here.
ASSUME PoolAssumption ==
  /\ Pool!ConfigOK
  /\ Pool!PathsOK
  /\ Pool!RootsOK
  /\ Pool!ReaderOK
  /\ Pool!TreeOK

Workers == Pool!Workers

\* marker_exists, of the files given: the file itself, or for a glob any file of that
\* extension.
MarkerExists(files, parent, marker) ==
  IF GlobOf[marker] = NoMarker
  THEN <<parent, marker>> \in files
  ELSE \E m \in files : m[1] = parent /\ Extension[m[2]] = GlobOf[marker]

Named(e) == {i \in DOMAIN Patterns : Patterns[i].dir_name = Name[e]}

Unmarked(e) == {i \in Named(e) : Patterns[i].marker = NoMarker}

\* The patterns of that name without a marker or with one that is beside the directory.
Matches(files, e) ==
  {i \in Named(e) : i \in Unmarked(e) \/ MarkerExists(files, Parent(e), Patterns[i].marker)}

\* A directory that cannot be listed, an entry that cannot be read and a file whose
\* state is refused count as no marker: the patterns that a question can miss.
Misses(e) == SUBSET (Matches(present, e) \ Unmarked(e))

\* match_junk: the first pattern that matches; NoLabel when there is none.
MatchJunk(e, missed) ==
  LET found == Matches(present, e) \ missed
  IN  IF found = {} THEN NoLabel ELSE Patterns[Min(found)].ecosystem

NewHit(e, label) == [path |-> e, ecosystem |-> label, size_bytes |-> 0]

Init ==
  /\ Pool!Init
  /\ present = Markers
  /\ existed = Markers
  /\ calm = TRUE
  /\ step = [w \in Workers |-> "free"]
  /\ entry = [w \in Workers |-> NoDir]
  /\ isJunk = [w \in Workers |-> FALSE]
  /\ hits = [w \in Workers |-> <<>>]
  /\ tree = [w \in Workers |-> <<>>]
  /\ treeCount = 0
  /\ allLocals = <<>>
  /\ result = [hits |-> <<>>, tree |-> <<>>]

-----------------------------------------------------------------------------
(* The visitor                                                             *)

\* It is called with an entry and asks match_junk about a directory.
CheckJunk(w, e) ==
  /\ pc[w] = "visit"
  /\ step[w] = "free"
  /\ e \in pending[w]
  /\ \E missed \in Misses(e) :
       LET junk == Kind[e] = "Dir" /\ MatchJunk(e, missed) # NoLabel IN
         /\ isJunk' = [isJunk EXCEPT ![w] = junk]
         /\ step' = [step EXCEPT ![w] = IF junk THEN "hit" ELSE "tree"]
         /\ calm' = (calm /\ missed = {})
  /\ entry' = [entry EXCEPT ![w] = e]
  /\ UNCHANGED <<poolVars, present, existed, scanVars>>

\* Faults: the name is stored for the label; a hit without a label is not recorded.
RecordHit_StoresName(w) ==
  /\ step[w] = "hit"
  /\ hits' = [hits EXCEPT ![w] = Append(@, NewHit(entry[w], Name[entry[w]]))]
  /\ step' = [step EXCEPT ![w] = "tree"]
  /\ UNCHANGED <<poolVars, fileVars, entry, isJunk, tree, treeCount, allLocals, result>>

RecordHit_IfLabelled(w) ==
  /\ step[w] = "hit"
  /\ \E missed \in Misses(entry[w]) :
       LET label == MatchJunk(entry[w], missed) IN
         /\ hits' = IF label = NoLabel THEN hits
                    ELSE [hits EXCEPT ![w] = Append(@, NewHit(entry[w], label))]
         /\ calm' = (calm /\ missed = {})
  /\ step' = [step EXCEPT ![w] = "tree"]
  /\ UNCHANGED <<poolVars, present, existed, entry, isJunk, tree, treeCount, allLocals, result>>

\* match_junk is asked again, now for the label.
RecordHit(w) ==
  /\ step[w] = "hit"
  /\ \E missed \in Misses(entry[w]) :
       LET label == MatchJunk(entry[w], missed) IN
         /\ hits' = [hits EXCEPT ![w] = Append(@, NewHit(entry[w], label))]
         /\ calm' = (calm /\ missed = {})
  /\ step' = [step EXCEPT ![w] = "tree"]
  /\ UNCHANGED <<poolVars, present, existed, entry, isJunk, tree, treeCount, allLocals, result>>

TreeEntry(e, junk) ==
  [path |-> e, kind |-> Kind[e], depth |-> Len(e), size |-> Size[e], is_junk |-> junk]

\* Faults: the cap is tested with <=; each thread tests the length of its own list.
RecordEntry_AtMost(w) ==
  /\ step[w] = "tree"
  /\ treeCount <= TreeMaxEntries
  /\ tree' = [tree EXCEPT ![w] = Append(@, TreeEntry(entry[w], isJunk[w]))]
  /\ step' = [step EXCEPT ![w] = "count"]
  /\ UNCHANGED <<poolVars, fileVars, entry, isJunk, hits, treeCount, allLocals, result>>

RecordEntry_OwnCap(w) ==
  /\ step[w] = "tree"
  /\ Len(tree[w]) < TreeMaxEntries
  /\ tree' = [tree EXCEPT ![w] = Append(@, TreeEntry(entry[w], isJunk[w]))]
  /\ step' = [step EXCEPT ![w] = "count"]
  /\ UNCHANGED <<poolVars, fileVars, entry, isJunk, hits, treeCount, allLocals, result>>

\* tree_count.load() is below the cap: the entry is pushed, the count follows.
RecordEntry(w) ==
  /\ step[w] = "tree"
  /\ treeCount < TreeMaxEntries
  /\ tree' = [tree EXCEPT ![w] = Append(@, TreeEntry(entry[w], isJunk[w]))]
  /\ step' = [step EXCEPT ![w] = "count"]
  /\ UNCHANGED <<poolVars, fileVars, entry, isJunk, hits, treeCount, allLocals, result>>

\* Fault: match_junk is asked a third time for the answer to the pool.
LeaveVisitor_AsksAgain(w) ==
  /\ \E missed \in Misses(entry[w]) :
       /\ Pool!VisitEntry(w, entry[w],
                          Kind[entry[w]] = "Dir" /\ MatchJunk(entry[w], missed) # NoLabel)
       /\ calm' = (calm /\ missed = {})
  /\ step' = [step EXCEPT ![w] = "free"]
  /\ entry' = [entry EXCEPT ![w] = NoDir]
  /\ isJunk' = [isJunk EXCEPT ![w] = FALSE]
  /\ UNCHANGED <<present, existed, hits, tree, allLocals, result>>

\* The visitor returns is_junk: the pool does not descend into junk.
LeaveVisitor(w) ==
  /\ Pool!VisitEntry(w, entry[w], isJunk[w])
  /\ step' = [step EXCEPT ![w] = "free"]
  /\ entry' = [entry EXCEPT ![w] = NoDir]
  /\ isJunk' = [isJunk EXCEPT ![w] = FALSE]
  /\ UNCHANGED <<fileVars, hits, tree, allLocals, result>>

\* tree_count.fetch_add(1).
CountEntry(w) ==
  /\ step[w] = "count"
  /\ treeCount' = treeCount + 1
  /\ LeaveVisitor(w)

\* The cap is reached: no tree entry.
TreeFull(w) ==
  /\ step[w] = "tree"
  /\ treeCount >= TreeMaxEntries
  /\ UNCHANGED treeCount
  /\ LeaveVisitor(w)

PoolStep(w) ==
  /\ \/ Pool!FindTask(w)
     \/ Pool!CheckDone(w)
     \/ Pool!OpenDir(w)
     \/ Pool!FinishLeaf(w)
     \/ Pool!AddChildren(w)
     \/ \E child \in subDirs[w] : Pool!PushChild(w, child)
     \/ Pool!StoreDone(w)
  /\ UNCHANGED <<fileVars, visitVars, scanVars>>

-----------------------------------------------------------------------------
(* The end of a thread and of the scan                                     *)

Flushed(w) == step[w] = "dropped"

\* FlushOnDrop: the visitor is dropped and its lists are pushed under the mutex.
FlushOnDrop(w) ==
  /\ pc[w] = "exit"
  /\ ~Flushed(w)
  /\ allLocals' = Append(allLocals, [hits |-> hits[w], tree |-> tree[w]])
  /\ step' = [step EXCEPT ![w] = "dropped"]
  /\ UNCHANGED <<poolVars, fileVars, entry, isJunk, hits, tree, treeCount, result>>

AllHits == FlattenSeq([i \in DOMAIN allLocals |-> allLocals[i].hits])
AllTree == FlattenSeq([i \in DOMAIN allLocals |-> allLocals[i].tree])

\* Vec::truncate
Truncate(s, n) == IF Len(s) > n THEN SubSeq(s, 1, n) ELSE s

\* dedup_by on neighbours with the same path.
Dedup(s) ==
  LET Keep(kept, h) == IF kept # <<>> /\ Last(kept).path = h.path THEN kept ELSE Append(kept, h)
  IN  FoldLeft(Keep, <<>>, s)

\* Fault: the lists are merged before every thread has dropped its visitor.
Return_BeforeDrops ==
  /\ Pool!Return
  /\ result' = [hits |-> Dedup(SortByPath(AllHits)),
                tree |-> SortByPath(Truncate(AllTree, TreeMaxEntries))]
  /\ UNCHANGED <<fileVars, visitVars, hits, tree, treeCount, allLocals>>

\* thread::scope ends with the last thread; both lists are merged, the hits sorted
\* and deduplicated, the tree cut to the cap and then sorted.
Return ==
  /\ Pool!Return
  /\ \A w \in Workers : Flushed(w)
  /\ result' = [hits |-> Dedup(SortByPath(AllHits)),
                tree |-> SortByPath(Truncate(AllTree, TreeMaxEntries))]
  /\ UNCHANGED <<fileVars, visitVars, hits, tree, treeCount, allLocals>>

\* Another program creates or deletes one of the files.
CreateMarker ==
  /\ \E m \in Beside \ present : present' = present \cup {m} /\ existed' = existed \cup {m}
  /\ calm' = FALSE
  /\ UNCHANGED <<poolVars, visitVars, scanVars>>

DeleteMarker ==
  /\ \E m \in present : present' = present \ {m}
  /\ calm' = FALSE
  /\ UNCHANGED <<poolVars, existed, visitVars, scanVars>>

Visitor(w) ==
  \/ \E e \in pending[w] : CheckJunk(w, e)
  \/ RecordHit(w)
  \/ RecordEntry(w)
  \/ CountEntry(w)
  \/ TreeFull(w)

Finished == returned /\ UNCHANGED vars

Next ==
  \/ \E w \in Workers : PoolStep(w) \/ Visitor(w) \/ FlushOnDrop(w)
  \/ Return
  \/ CreateMarker
  \/ DeleteMarker
  \/ Finished

Spec == Init /\ [][Next]_vars

-----------------------------------------------------------------------------
Hit == [path : Path, ecosystem : {Patterns[i].ecosystem : i \in DOMAIN Patterns} \cup {NoLabel},
        size_bytes : Nat]

Entry == [path : Path, kind : Pool!EntryKind, depth : Nat, size : Nat, is_junk : BOOLEAN]

\* Every variable keeps its type; a hit has the label of a pattern or none (scan.rs 83).
TypeOK ==
  /\ Pool!TypeOK
  /\ present \subseteq existed /\ existed \subseteq Beside
  /\ calm \in BOOLEAN
  /\ step \in [Workers -> {"free", "hit", "tree", "count", "dropped"}]
  /\ entry \in [Workers -> Path \cup {NoDir}]
  /\ isJunk \in [Workers -> BOOLEAN]
  /\ hits \in [Workers -> Seq(Hit)]
  /\ tree \in [Workers -> Seq(Entry)]
  /\ treeCount \in Nat
  /\ allLocals \in Seq([hits : Seq(Hit), tree : Seq(Entry)])
  /\ DOMAIN result = {"hits", "tree"}

Recorded == UNION {ToSet(tree[w]) : w \in Workers}

Found == UNION {ToSet(hits[w]) : w \in Workers}

TotalEntries == SumFunction([w \in Workers |-> Len(tree[w])])

\* The load and the fetch_add of tree_count are two steps, so threads that pass the
\* test together overshoot the cap; never by more than one entry each, and one of
\* them is within it (scan.rs 89-100).
OvershootBounded ==
  /\ TotalEntries = treeCount + Cardinality({w \in Workers : step[w] = "count"})
  /\ TotalEntries <= TreeMaxEntries + Pool!NumThreads - 1

\* Until it is cut, the tree has the parent of each of its entries: the count only
\* grows, and a directory is recorded before anything below it is visited.
AncestorsRecorded ==
  \A t \in Recorded : Len(t.path) > 1 => \E d \in Recorded : d.path = Parent(t.path)

\* Nothing below a junk directory is visited, even when its marker disappears after
\* the test: no hit lies inside another, so none is measured or deleted twice.
JunkStaysClosed ==
  \A h \in Found : \A e \in visited : ~IsStrictPrefix(h.path, e)

\* The mark in the tree and the list of hits agree, though match_junk is asked twice
\* (scan.rs 71 and 83).  In a calm scan a hit has the label of its first pattern.  Whatever
\* comes, goes or fails, it is of a pattern that asks for no marker or whose marker was
\* there at some time, and it has the label of such a pattern; or none, which a pattern
\* without a marker excludes.
MarksMatchHits ==
  /\ \A t \in Recorded : t.is_junk <=> \E h \in Found : h.path = t.path
  /\ \A h \in Found :
       /\ calm => h.ecosystem = MatchJunk(h.path, {}) /\ h.ecosystem # NoLabel
       /\ Matches(existed, h.path) # {}
       /\ IF h.ecosystem = NoLabel THEN Unmarked(h.path) = {}
          ELSE \E i \in Matches(existed, h.path) : h.ecosystem = Patterns[i].ecosystem

\* What scan_all returns: below the cap every visited entry once, above it as many
\* entries as the cap allows, and every hit once, as recorded and in path order.
ResultComplete ==
  returned =>
    /\ Len(result.tree) = IF TotalEntries > TreeMaxEntries THEN TreeMaxEntries ELSE TotalEntries
    /\ Cardinality(visited) <= TreeMaxEntries => {t.path : t \in ToSet(result.tree)} = visited
    /\ {h.path : h \in ToSet(result.hits)} = {h.path : h \in Found}
    /\ ToSet(result.tree) \subseteq Recorded /\ ToSet(result.hits) \subseteq Found
    /\ \A i \in DOMAIN result.tree \ {1} : PathBefore(result.tree[i - 1].path, result.tree[i].path)
    /\ \A i \in DOMAIN result.hits \ {1} : PathBefore(result.hits[i - 1].path, result.hits[i].path)

\* What build_children_index says of the tree it is given: "the top is our nearest
\* ancestor" (tui_app.rs 97), so a child one level down lies in its parent.
ChildrenLieInParent ==
  returned =>
    LET children == ChildLists(result.tree) IN
      \A i \in DOMAIN result.tree : \A c \in ToSet(children[i]) :
        Parent(result.tree[c].path) = result.tree[i].path
=============================================================================
