------------------------------ MODULE Pipeline ------------------------------
(***************************************************************************)
(* What `run` of src/src/tui_app.rs does between the scan and the launch   *)
(* of the user interface: measure the junk, order it by size, copy the     *)
(* sizes into the tree, roll them up to the directories above, then order  *)
(* the tree by size and index the children of each directory.  When stdout *)
(* is not a terminal it lists the hits and stops there.                    *)
(*                                                                         *)
(* Two of the sorts are unstable: any order of entries of equal size can   *)
(* come out.  The sizes of the junk are those of SizeWalk.                 *)
(***************************************************************************)
EXTENDS TreeOps

CONSTANTS
  Scans,      \* what scan_all can return: records of hits and tree, in path order
  JunkBytes,  \* what walk_aggregated_sizes can find: functions from a path to a size
  NoIndex     \* before the vectors of the interface are built

ASSUME ScanAssumption == \A scan \in Scans : WholeScan(scan.hits, scan.tree)

\* Each hit is a root of the size walk, so it gets a size.
ASSUME JunkAssumption ==
  \A scan \in Scans : \A found \in JunkBytes : \A i \in DOMAIN scan.hits :
    found[scan.hits[i].path] \in Nat

VARIABLES
  stage,      \* the next step of run
  isatty,     \* is stdout a terminal?
  bytes,      \* what the junk directories hold
  hits, tree, \* the two lists, as run changes them
  bySize,     \* indices into tree, biggest entry first
  children    \* children[i]: indices of the direct children of entry i

vars == <<stage, isatty, bytes, hits, tree, bySize, children>>

Stage == {"measure", "sortHits", "apply", "accumulate", "order", "index", "launched", "listed"}

Init ==
  /\ stage = "measure"
  /\ isatty \in BOOLEAN
  /\ bytes \in JunkBytes
  /\ \E scan \in Scans : hits = scan.hits /\ tree = scan.tree
  /\ bySize = NoIndex
  /\ children = NoIndex

Advance(from, to) == stage = from /\ stage' = to

\* compute_sizes: one root for each hit, the sizes zipped back in the same order.
ComputeSizes ==
  /\ Advance("measure", "sortHits")
  /\ hits' = [i \in DOMAIN hits |-> [hits[i] EXCEPT !.size_bytes = bytes[hits[i].path]]]
  /\ UNCHANGED <<isatty, bytes, tree, bySize, children>>

\* Biggest first, hits of the same size as they stood.
SortHits ==
  /\ Advance("sortHits", "apply")
  /\ LET bigger == {x \in Pairs(hits) : hits[x[1]].size_bytes > hits[x[2]].size_bytes}
     IN  hits' = StableSort(hits, bigger)
  /\ UNCHANGED <<isatty, bytes, tree, bySize, children>>

\* Fault: the two lists are merged position by position, as sorted lists.
ApplyJunkSizes_ByPosition ==
  /\ Advance("apply", "accumulate")
  /\ LET junk == {i \in DOMAIN tree : tree[i].is_junk}
         nth(i) == Cardinality({j \in junk : j <= i})
     IN  tree' = [i \in DOMAIN tree |->
                    IF i \in junk /\ nth(i) <= Len(hits)
                    THEN [tree[i] EXCEPT !.size = hits[nth(i)].size_bytes] ELSE tree[i]]
  /\ UNCHANGED <<isatty, bytes, hits, bySize, children>>

\* apply_junk_sizes_to_tree: a junk entry without a size takes that of its hit.
ApplyJunkSizes ==
  /\ Advance("apply", "accumulate")
  /\ LET sizes(e) == {h.size_bytes : h \in {x \in ToSet(hits) : x.path = e.path}} IN
       tree' = [i \in DOMAIN tree |->
                  IF tree[i].is_junk /\ tree[i].size = 0 /\ sizes(tree[i]) # {}
                  THEN [tree[i] EXCEPT !.size = Max(sizes(tree[i]))] ELSE tree[i]]
  /\ UNCHANGED <<isatty, bytes, hits, bySize, children>>

\* The sizes of the entries that have directory d among their ancestors.
SizeBelow(d) ==
  LET below == {i \in DOMAIN tree : IsStrictPrefix(d.path, tree[i].path)}
  IN  SumFunctionOnSet([i \in DOMAIN tree |-> tree[i].size], below)

\* Fault: sizes are added while the list is scanned, so what a directory has got is
\* passed on again.
Accumulate_InPlace ==
  /\ stage = "accumulate"
  /\ stage' = IF isatty THEN "order" ELSE "listed"
  /\ LET Add(t, i) ==
           [k \in DOMAIN t |->
              IF t[k].kind = "Dir" /\ IsStrictPrefix(t[k].path, t[i].path)
              THEN [t[k] EXCEPT !.size = @ + t[i].size] ELSE t[k]]
     IN  tree' = FoldLeft(Add, tree, [i \in DOMAIN tree |-> Len(tree) + 1 - i])
  /\ UNCHANGED <<isatty, bytes, hits, bySize, children>>

\* accumulate_dir_sizes: every size is added to all directories above it, after all
\* additions have been collected.  Then headless_output, or the interface.
Accumulate ==
  /\ stage = "accumulate"
  /\ stage' = IF isatty THEN "order" ELSE "listed"
  /\ tree' = [i \in DOMAIN tree |->
                IF tree[i].kind = "Dir" THEN [tree[i] EXCEPT !.size = @ + SizeBelow(tree[i])]
                ELSE tree[i]]
  /\ UNCHANGED <<isatty, bytes, hits, bySize, children>>

\* The orders in which an unstable sort by size, descending, can leave the indices.
Orders(indices) ==
  LET Sorted(s) == \A k \in DOMAIN s \ {1} : tree[s[k - 1]].size >= tree[s[k]].size
      Place(i, orders) ==
        {s \in UNION {{InsertAt(o, k, i) : k \in 1 .. Len(o) + 1} : o \in orders} : Sorted(s)}
  IN  FoldSet(Place, {<<>>}, indices)

\* Fault: as many indices as there are hits.
OrderBySize_OfHits ==
  /\ Advance("order", "index")
  /\ bySize' \in Orders(DOMAIN hits \cap DOMAIN tree)
  /\ UNCHANGED <<isatty, bytes, hits, tree, children>>

OrderBySize ==
  /\ Advance("order", "index")
  /\ bySize' \in Orders(DOMAIN tree)
  /\ UNCHANGED <<isatty, bytes, hits, tree, children>>

\* Fault: the children stay in the order of the tree.
IndexChildren_Unsorted ==
  /\ Advance("index", "launched")
  /\ children' = ChildLists(tree)
  /\ UNCHANGED <<isatty, bytes, hits, tree, bySize>>

\* build_children_index, each list sorted by size, and the set() of the statics that
\* the interface reads.  The lists are disjoint, so their orders fit in one.
IndexChildren ==
  /\ Advance("index", "launched")
  /\ LET lists == ChildLists(tree) IN
       \E order \in Orders(DOMAIN tree) :
         LET place(c)  == CHOOSE k \in DOMAIN order : order[k] = c
             before(l) == {x \in Pairs(l) : place(l[x[1]]) < place(l[x[2]])}
         IN  children' = [i \in DOMAIN tree |-> StableSort(lists[i], before(lists[i]))]
  /\ UNCHANGED <<isatty, bytes, hits, tree, bySize>>

Finished == stage \in {"launched", "listed"} /\ UNCHANGED vars

Next ==
  \/ ComputeSizes \/ SortHits \/ ApplyJunkSizes \/ Accumulate
  \/ OrderBySize \/ IndexChildren \/ Finished

Spec == Init /\ [][Next]_vars

-----------------------------------------------------------------------------
Indices(s) == IsInjective(s) /\ ToSet(s) \subseteq DOMAIN tree

\* Every variable keeps its type; the index and by_size hold indices of the tree, none twice.
TypeOK ==
  /\ stage \in Stage
  /\ isatty \in BOOLEAN
  /\ \A i \in DOMAIN hits : hits[i].size_bytes \in Nat
  /\ \A i \in DOMAIN tree : tree[i].size \in Nat /\ tree[i].is_junk \in BOOLEAN
  /\ bySize # NoIndex => Indices(bySize) /\ Len(bySize) = Len(tree)
  /\ children # NoIndex => \A i \in DOMAIN tree : Indices(children[i])

SizeSum(indices) == SumFunctionOnSet([i \in DOMAIN tree |-> tree[i].size], indices)

Accumulated == stage \in {"order", "index", "launched", "listed"}

\* What a directory shows is what its direct children show together: accumulation,
\* which climbs from each entry through all its ancestors, agrees with the index,
\* which finds children with a stack of depths; no size counts twice.
DirsAddUp ==
  Accumulated =>
    LET lists == ChildLists(tree) IN
      \A i \in DOMAIN tree : tree[i].kind = "Dir" /\ ~tree[i].is_junk =>
        tree[i].size = SizeSum(ToSet(lists[i]))

\* Each junk directory shows in the tree what was measured for its own hit, although
\* the hits have been put in another order in between (tui_app.rs 45-49).
JunkSizesMatch ==
  Accumulated =>
    /\ \A h \in ToSet(hits) : h.size_bytes = bytes[h.path]
    /\ \A t \in ToSet(tree) : t.is_junk => t.size = bytes[t.path]

\* Expanding directories from the top shows every entry in one place: an entry below
\* the first level is in the list of its parent and in no other, biggest first.
IndexPartitionsTree ==
  stage = "launched" =>
    \A i \in DOMAIN tree :
      /\ ToSet(children[i]) = {c \in DOMAIN tree : Len(tree[c].path) > 1
                                                /\ Parent(tree[c].path) = tree[i].path}
      /\ \A k \in DOMAIN children[i] \ {1} :
           tree[children[i][k - 1]].size >= tree[children[i][k]].size
=============================================================================
