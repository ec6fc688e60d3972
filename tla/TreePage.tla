------------------------------ MODULE TreePage ------------------------------
(***************************************************************************)
(* The tree page of src/src/tui_app.rs: `tree_content` with its two lists. *)
(* In size mode its rows are those of TreeRows; in tree mode the rows are  *)
(* the entries in path order.  What has a namesake in JunkPage begins with *)
(* Tree: the two are read side by side in the proofs.                      *)
(***************************************************************************)
EXTENDS TreeRows, PageState

LastEntry == SatSub(TreeLen, 1)

VARIABLES
  sizeMode,    \* size_mode: BY SIZE or TREE
  expanded     \* the set of expanded entries

treePageVars == <<cursor, viewport, sizeMode, selected, expanded>>
treeVars == <<treePageVars, message, jobVars, height, frame, handled, dirty>>

-----------------------------------------------------------------------------
\* The row under a cursor, which counts from 0.
Row(list, c) == list[c + 1]

VisLen(inSizes, open) == IF inSizes THEN Len(VisibleLists[open]) ELSE TreeLen

TreeSnapshot(page) ==
  [cursor |-> cursor, viewport |-> viewport, sizeMode |-> sizeMode,
   selected |-> selected, expanded |-> expanded, page |-> page]

\* The use_state calls: by size, nothing marked, nothing expanded.
TreeInit ==
  /\ cursor = 0
  /\ viewport = 0
  /\ sizeMode = TRUE
  /\ selected = {}
  /\ expanded = {}
  /\ height \in Heights
  /\ frame = [cursor |-> 0, viewport |-> 0, sizeMode |-> TRUE, selected |-> {},
              expanded |-> {}, page |-> PageOf(height)]
  /\ handled = 0
  /\ InitJobs

TreeRender ==
  /\ dirty
  /\ Poll
  /\ frame' = TreeSnapshot(PageOf(height))
  /\ handled' = 0
  /\ UNCHANGED <<treePageVars, batchVars, height>>

TreeMove(c, v) ==
  /\ cursor' = c
  /\ viewport' = v
  /\ UNCHANGED <<sizeMode, selected, expanded, message, jobVars>>

\* j, k, PageUp, PageDown and the wheel, within the length of the tree.
TreeScroll ==
  /\ Handle
  /\ \E delta \in {1, -1, frame.page, -frame.page, 3, -3} :
       LET c == MovedCursor(delta, frame.cursor, LastEntry)
       IN  TreeMove(c, MovedViewport(c, frame.viewport, frame.page))

TreeHome == Handle /\ TreeMove(0, 0)

\* G: to the last index of the tree.
TreeEnd == Handle /\ TreeMove(LastEntry, SatSub(LastEntry, Pred(frame.page)))

\* s: the other list, from its top.
SwitchMode ==
  /\ Handle
  /\ sizeMode' = ~frame.sizeMode
  /\ cursor' = 0
  /\ viewport' = 0
  /\ UNCHANGED <<selected, expanded, message, jobVars>>

\* Fault: whatever is under the cursor is expanded.
Expand_Anything ==
  LET list == VisibleLists[frame.expanded] IN
  /\ Handle
  /\ frame.sizeMode
  /\ frame.cursor < Len(list)
  /\ expanded' = frame.expanded \cup {Row(list, frame.cursor).data_idx}
  /\ UNCHANGED <<cursor, viewport, sizeMode, selected, message, jobVars>>

\* l: the directory under the cursor shows its children.
Expand ==
  LET list == VisibleLists[frame.expanded] IN
  /\ Handle
  /\ frame.sizeMode
  /\ frame.cursor < Len(list)
  /\ Row(list, frame.cursor).data_idx \in IsDir
  /\ expanded' = frame.expanded \cup {Row(list, frame.cursor).data_idx}
  /\ UNCHANGED <<cursor, viewport, sizeMode, selected, message, jobVars>>

\* h: the directory under the cursor hides them, or else the one the row lies in.
Collapse ==
  LET list == VisibleLists[frame.expanded]
      row  == Row(list, frame.cursor)
  IN
  /\ Handle
  /\ frame.sizeMode
  /\ frame.cursor < Len(list)
  /\ expanded' = IF row.data_idx \in frame.expanded THEN frame.expanded \ {row.data_idx}
                 ELSE frame.expanded \ {row.parent_data_idx}
  /\ UNCHANGED <<cursor, viewport, sizeMode, selected, message, jobVars>>

\* The entry a key acts on: that of the row under the cursor, and entry 0 when the
\* cursor is behind the visible list.
EntryAtCursor ==
  LET list == VisibleLists[frame.expanded] IN
  IF ~frame.sizeMode THEN frame.cursor
  ELSE IF frame.cursor < Len(list) THEN Row(list, frame.cursor).data_idx ELSE 0

\* Space: the mark of that entry changes.
TreeToggle ==
  /\ Handle
  /\ EntryAtCursor < TreeLen
  /\ selected' = Flip(frame.selected, EntryAtCursor)
  /\ UNCHANGED <<cursor, viewport, sizeMode, expanded, message, jobVars>>

\* a: nothing stays marked if something was, else all is marked.
TreeToggleAll ==
  /\ Handle
  /\ selected' = IF frame.selected # {} THEN {} ELSE Data
  /\ UNCHANGED <<cursor, viewport, sizeMode, expanded, message, jobVars>>

\* A click on a row of the frame.
TreeClick ==
  LET list == VisibleLists[frame.expanded] IN
  /\ Handle
  /\ \E v \in frame.viewport .. frame.viewport + frame.page - 1 :
       /\ v < VisLen(frame.sizeMode, frame.expanded)
       /\ cursor' = v
       /\ selected' = Flip(frame.selected,
                           IF frame.sizeMode THEN Row(list, v).data_idx ELSE v)
  /\ UNCHANGED <<viewport, sizeMode, expanded, message, jobVars>>

\* d or Enter: what is marked, whether or not a row shows it.
TreeDelete ==
  /\ Handle
  /\ StartJobs(frame.selected) \/ StartNothing(frame.selected)
  /\ UNCHANGED treePageVars

TreeJobEnds ==
  /\ \E i \in running : RmEnds(i)
  /\ UNCHANGED <<treePageVars, height, frame, handled>>

TreeResize ==
  /\ height' \in Heights \ {height}
  /\ dirty' = TRUE
  /\ UNCHANGED <<treePageVars, message, jobVars, frame, handled>>

TreeEvent ==
  \/ TreeScroll \/ TreeHome \/ TreeEnd \/ SwitchMode \/ Expand \/ Collapse
  \/ TreeToggle \/ TreeToggleAll \/ TreeClick \/ TreeDelete

TreeNext == TreeRender \/ TreeEvent \/ TreeResize \/ TreeJobEnds

TreeSpec == TreeInit /\ [][TreeNext]_treeVars

-----------------------------------------------------------------------------
\* Every state keeps its type; only directories are ever expanded (tui_app.rs 476).
TreeTypeOK ==
  /\ cursor \in Nat /\ viewport \in Nat
  /\ sizeMode \in BOOLEAN
  /\ selected \subseteq Data
  /\ expanded \subseteq IsDir
  /\ height \in Heights
  /\ frame.expanded \subseteq IsDir /\ frame.selected \subseteq Data
  /\ handled \in 0 .. EventsPerFrame
  /\ JobsTypeOK(Data)

\* The rows of the frame are a forest in preorder: the rows at the top are the entries
\* in order of size, all of them unless there are more than MaxRows rows, and a row
\* further in belongs to the nearest row above it that is further out, which is its
\* expanded directory (tui_app.rs 378-410).
RowsNest ==
  LET list == VisibleLists[frame.expanded]
  IN  TopsInOrder(list) /\ Nested(list, frame.expanded)

\* "Recalculate last for visible list length" (tui_app.rs 548): the cursor is within
\* the visible list, so that Space marks the row it is on and not entry 0.
CursorOnRow == frame.cursor < VisLen(frame.sizeMode, frame.expanded)
=============================================================================
