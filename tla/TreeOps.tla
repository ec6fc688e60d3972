------------------------------- MODULE TreeOps -------------------------------
(***************************************************************************)
(* The flat list of entries that a scan produces and what is computed from *)
(* it: src/src/scan.rs and `build_children_index` of src/src/tui_app.rs.   *)
(*                                                                         *)
(* A path is the sequence of its components below the scanned root, each   *)
(* component a number in the order of the names; an entry is a record of a *)
(* path, a kind, a depth, a size (0 when the reader gave none) and the     *)
(* is_junk mark.  Indices start at 1, where the code's start at 0.         *)
(***************************************************************************)
EXTENDS Integers, SequencesExt

\* Path::cmp: component by component, a prefix first.
PathBefore(p, q) ==
  \/ IsStrictPrefix(p, q)
  \/ \E k \in DOMAIN p \cap DOMAIN q :
       /\ SubSeq(p, 1, k - 1) = SubSeq(q, 1, k - 1)
       /\ p[k] < q[k]

\* The place of index i when R orders the indices 1 .. n, and s in the order of R.
RankIn(R, n, i) == 1 + Cardinality({j \in 1 .. n : <<j, i>> \in R})
Arrange(s, R) == [k \in 1 .. Len(s) |-> s[CHOOSE i \in 1 .. Len(s) : RankIn(R, Len(s), i) = k]]

\* sort_by: the pairs of indices in before are put in order, and what it does not order
\* stays as it stood.
Pairs(s) == (1 .. Len(s)) \X (1 .. Len(s))
StableSort(s, before) ==
  Arrange(s, {x \in Pairs(s) : x \in before \/ (<<x[2], x[1]>> \notin before /\ x[1] < x[2])})

\* The paths of a scan are all different: a sort_unstable_by does the same.
SortByPath(entries) ==
  StableSort(entries, {x \in Pairs(entries) : PathBefore(entries[x[1]].path, entries[x[2]].path)})

\* PathBuf::parent, of a path below the root.
Parent(p) == Front(p)

(***************************************************************************)
(* build_children_index: one pass over the tree with a stack of directory  *)
(* indices.  Entries at the same depth or deeper are popped; what is left  *)
(* on top is taken for the parent if it is one level up.                   *)
(***************************************************************************)
PopSiblings(tree, stack, depth) ==
  LET kept == {k \in 0 .. Len(stack) : k = 0 \/ tree[stack[k]].depth < depth}
  IN  SubSeq(stack, 1, Max(kept))

IndexEntry(tree, acc, i) ==
  LET stack == PopSiblings(tree, acc.stack, tree[i].depth)
      top   == Last(stack)
      child == stack # <<>> /\ tree[i].depth = tree[top].depth + 1
  IN  [stack    |-> IF tree[i].kind = "Dir" THEN Append(stack, i) ELSE stack,
       children |-> IF child THEN [acc.children EXCEPT ![top] = Append(@, i)]
                             ELSE acc.children]

\* The direct children of each entry, in tree order.
ChildLists(tree) ==
  LET start == [stack |-> <<>>, children |-> [i \in DOMAIN tree |-> <<>>]]
      Index(acc, i) == IndexEntry(tree, acc, i)
  IN  FoldLeft(Index, start, [i \in DOMAIN tree |-> i]).children

(***************************************************************************)
(* What a scan that has not been cut returns (scan.rs 67-132), and what    *)
(* the functions above rely on: hits and entries of different paths, the   *)
(* entries in path order, each below a directory that is in the list and   *)
(* is not junk, junk directories among the hits, and no size with a        *)
(* directory (Linux reads no sizes, getattrlistbulk none of a directory,   *)
(* and the EndOfFile of a directory record is 0).                          *)
(***************************************************************************)
HitRecord == [path : Seq(Nat), ecosystem : STRING, size_bytes : Nat]

EntryRecord == [path : Seq(Nat) \ {<<>>}, kind : {"File", "Dir", "Symlink", "Other"},
                depth : Nat, size : Nat, is_junk : BOOLEAN]

OneHitEach(hits) == \A i, j \in DOMAIN hits : hits[i].path = hits[j].path => i = j

InPathOrder(tree) == \A i, j \in DOMAIN tree : i < j => PathBefore(tree[i].path, tree[j].path)

DepthsMatch(tree) == \A i \in DOMAIN tree : tree[i].depth = Len(tree[i].path)

OpenParents(tree) ==
  \A i \in DOMAIN tree : Len(tree[i].path) > 1 =>
    \E j \in DOMAIN tree : /\ tree[j].path = Parent(tree[i].path)
                           /\ tree[j].kind = "Dir" /\ ~tree[j].is_junk

JunkIsHit(hits, tree) ==
  \A i \in DOMAIN tree : tree[i].is_junk =>
    tree[i].kind = "Dir" /\ \E k \in DOMAIN hits : hits[k].path = tree[i].path

DirsUnsized(tree) == \A i \in DOMAIN tree : tree[i].kind = "Dir" => tree[i].size = 0

WholeScan(hits, tree) ==
  /\ hits \in Seq(HitRecord) /\ OneHitEach(hits)
  /\ tree \in Seq(EntryRecord) /\ InPathOrder(tree) /\ DepthsMatch(tree)
  /\ OpenParents(tree) /\ JunkIsHit(hits, tree) /\ DirsUnsized(tree)
=============================================================================
