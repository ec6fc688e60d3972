------------------------------ MODULE TreeRows ------------------------------
(***************************************************************************)
(* The rows of the tree page in size mode: `build_visible_list` and        *)
(* `push_row` of src/src/tui_app.rs.  Every entry has a row of its own,    *)
(* biggest first, and an expanded directory has its children below each of *)
(* its rows.                                                               *)
(***************************************************************************)
EXTENDS Integers, SequencesExt

CONSTANTS
  TreeLen,        \* TREE.len()
  IsDir,          \* which entries are directories
  BySize,         \* TREE_BY_SIZE: the entries, biggest first
  Children,       \* TREE_CHILDREN: the children of each entry, biggest first
  MaxRows,        \* build_visible_list stops behind this many rows
  NoParent        \* Option::None

Data == 0 .. TreeLen - 1

\* An index built from a list in path order: children come after their directory.
ASSUME RowsAssumption ==
  /\ TreeLen \in Nat /\ MaxRows \in Nat
  /\ IsDir \subseteq Data /\ NoParent \notin Data
  /\ BySize \in Seq(Data) /\ ToSet(BySize) = Data /\ Len(BySize) = TreeLen
  /\ \A d \in Data : /\ Children[d] \in Seq(Data)
                     /\ \A k \in DOMAIN Children[d] : Children[d][k] > d

VisibleRow == [data_idx : Data, indent : Nat, parent_data_idx : Data \cup {NoParent}]

TopRow(d) == [data_idx |-> d, indent |-> 0, parent_data_idx |-> NoParent]

\* Fault: a row further in names what its directory's row hangs from.
ChildRow_OuterParent(row, k) ==
  [data_idx |-> Children[row.data_idx][k], indent |-> row.indent + 1,
   parent_data_idx |-> row.parent_data_idx]

\* The row of the k-th child of the directory whose row this is.
ChildRow(row, k) ==
  [data_idx |-> Children[row.data_idx][k], indent |-> row.indent + 1,
   parent_data_idx |-> row.data_idx]

\* push_row: an entry, and below an expanded one the rows of its children.
RowsOf(open) ==
  LET rows[row \in VisibleRow] ==
        LET below == [k \in DOMAIN Children[row.data_idx] |-> rows[ChildRow(row, k)]]
        IN  <<row>> \o (IF row.data_idx \in open THEN FlattenSeq(below) ELSE <<>>)
  IN  [d \in Data |-> rows[TopRow(d)]]

\* build_visible_list: the rows of each entry in turn, until there are too many.
VisibleList(open) ==
  LET rows == RowsOf(open)
      Push(list, d) == IF Len(list) > MaxRows THEN list ELSE list \o rows[d]
  IN  FoldLeft(Push, <<>>, BySize)

\* All lists there can be.
VisibleLists == [open \in SUBSET IsDir |-> VisibleList(open)]

-----------------------------------------------------------------------------
(* What such a list looks like                                             *)

TopRows(list) == {k \in DOMAIN list : list[k].indent = 0}

\* The rows at the top are the entries in order of size, all of them unless there are
\* more than MaxRows rows.
TopsInOrder(list) ==
  /\ \A k \in TopRows(list) :
       list[k].data_idx = BySize[Cardinality({j \in TopRows(list) : j <= k})]
  /\ Cardinality(TopRows(list)) < TreeLen => Len(list) > MaxRows

\* A row further in belongs to the nearest row above it that is further out: it is one
\* step further out, and its expanded directory.
Nested(list, open) ==
  \A k \in DOMAIN list : list[k].indent > 0 =>
    LET Outer == {j \in 1 .. k - 1 : list[j].indent < list[k].indent}
        up    == list[Max(Outer)]
    IN  /\ Outer # {}
        /\ up.indent = list[k].indent - 1
        /\ up.data_idx = list[k].parent_data_idx
        /\ up.data_idx \in open
        /\ list[k].data_idx \in ToSet(Children[up.data_idx])
=============================================================================
