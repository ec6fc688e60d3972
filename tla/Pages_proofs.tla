---------------------------- MODULE Pages_proofs ----------------------------
(***************************************************************************)
(* Proofs about the two pages, for any number of hits and entries, any     *)
(* heights of the terminal, and any number of events that reach the        *)
(* handlers of one frame.  The lemmas about deletions speak of any finite  *)
(* set of entries; those about the rows of the tree page need no states.   *)
(* The two specifications share the variables of PageState and DeleteJobs. *)
(***************************************************************************)
EXTENDS JunkPage, TreePage, DataTheorems

-----------------------------------------------------------------------------
(* Deletions                                                               *)

\* What still runs is among the jobs: none is forgotten before it has ended.
JobsInv(entries) ==
  JobsTypeOK(entries) /\ running \subseteq jobs /\ JobsWithinTotal /\ MessageTellsState

LEMMA SubsetSizes ==
  ASSUME NEW E, IsFiniteSet(E), NEW S \in SUBSET E, NEW T \in SUBSET S
  PROVE  /\ Cardinality(T) \in Nat /\ Cardinality(S) \in Nat /\ Cardinality(E) \in Nat
         /\ Cardinality(T) <= Cardinality(S) /\ Cardinality(S) <= Cardinality(E)
         /\ T # {} => Cardinality(T) # 0
<1>1. IsFiniteSet(S) /\ IsFiniteSet(T)
  BY FS_Subset
<1> QED BY <1>1, FS_Subset, FS_CardinalityType, FS_EmptySet

LEMMA InitialJobs ==
  ASSUME NEW E, IsFiniteSet(E), InitJobs
  PROVE  JobsInv(E)
<1>1. Cardinality(E) \in Nat /\ Cardinality({}) = 0
  BY FS_CardinalityType, FS_EmptySet
<1>2. 0 \in 0 .. Cardinality(E) /\ 0 \in 0 .. MaxBatches
  BY <1>1, BatchAssumption
<1>3. /\ message.text = "none" /\ message.k = 0 /\ message.n = 0
      /\ jobs = {} /\ total = 0 /\ running = {} /\ started = {} /\ batches = 0 /\ dirty = FALSE
  BY DEF InitJobs, Say
<1>4. JobsTypeOK(E)
  BY <1>2, <1>3 DEF JobsTypeOK, Text
<1>5. JobsWithinTotal
  BY <1>1, <1>3 DEF JobsWithinTotal
<1>6. MessageTellsState /\ running \subseteq jobs
  BY <1>3 DEF MessageTellsState
<1> QED BY <1>4, <1>5, <1>6 DEF JobsInv

LEMMA PollKeeps ==
  ASSUME NEW E, IsFiniteSet(E), JobsInv(E), Poll, UNCHANGED batchVars
  PROVE  JobsInv(E)'
<1> DEFINE still == jobs \cap running
<1>1. /\ jobs \subseteq E /\ running \subseteq jobs /\ Cardinality(jobs) <= total
      /\ total \in 0 .. Cardinality(E)
      /\ UNCHANGED <<total, running, started, batches>>
  BY DEF JobsInv, JobsTypeOK, JobsWithinTotal, batchVars
<1>2. still = running
  BY <1>1
<1>3. CASE jobs = {}
  BY <1>1, <1>3 DEF Poll, JobsInv, JobsTypeOK, JobsWithinTotal, MessageTellsState
<1>4. CASE jobs # {}
  <2>1. /\ Cardinality(running) \in Nat /\ Cardinality(jobs) \in Nat /\ Cardinality(E) \in Nat
        /\ Cardinality(running) <= Cardinality(jobs) /\ Cardinality(jobs) <= Cardinality(E)
    BY <1>1, SubsetSizes
  <2>2. PICK n : n = Cardinality(running)
    OBVIOUS
  <2>3. /\ message' = IF running = {} THEN Say("done", total - n, total)
                      ELSE Say("deleting", total - n, total)
        /\ jobs' = running /\ dirty' = TRUE
    BY <1>2, <1>4, <2>2 DEF Poll
  <2>4. total - n \in 0 .. Cardinality(E) /\ n <= total
    BY <1>1, <2>1, <2>2
  <2>5. running = {} => n = 0 /\ total - n = total
    BY <1>1, <2>2, FS_EmptySet
  <2>6. JobsTypeOK(E)'
    BY <1>1, <2>3, <2>4 DEF JobsInv, JobsTypeOK, Say, Text
  <2>7. JobsWithinTotal' /\ running' \subseteq jobs'
    BY <1>1, <2>2, <2>3, <2>4 DEF JobsWithinTotal
  <2>8. MessageTellsState'
    BY <1>1, <2>3, <2>5 DEF MessageTellsState, Say
  <2> QED BY <2>6, <2>7, <2>8 DEF JobsInv
<1> QED BY <1>3, <1>4

LEMMA StartKeeps ==
  ASSUME NEW E, IsFiniteSet(E), JobsInv(E), NEW marked \in SUBSET E, StartJobs(marked),
         dirty' \in BOOLEAN
  PROVE  JobsInv(E)'
<1>1. PICK spawned \in SUBSET marked : jobs' = spawned /\ running' = spawned /\ started' = spawned
  BY DEF StartJobs
<1>2. /\ total' = Cardinality(marked) /\ message' = Say("deleting", 0, total')
      /\ batches < MaxBatches /\ batches' = batches + 1
  BY DEF StartJobs
<1>3. /\ Cardinality(spawned) \in Nat /\ Cardinality(marked) \in Nat /\ Cardinality(E) \in Nat
      /\ Cardinality(spawned) <= Cardinality(marked) /\ Cardinality(marked) <= Cardinality(E)
  BY SubsetSizes
<1>4. total' \in 0 .. Cardinality(E) /\ 0 \in 0 .. Cardinality(E)
  BY <1>2, <1>3
<1>5. batches' \in 0 .. MaxBatches
  BY <1>2, BatchAssumption DEF JobsInv, JobsTypeOK
<1>6. JobsTypeOK(E)'
  BY <1>1, <1>2, <1>4, <1>5 DEF JobsTypeOK, Say, Text
<1>7. JobsWithinTotal' /\ running' \subseteq jobs' /\ MessageTellsState'
  BY <1>1, <1>2, <1>3 DEF JobsWithinTotal, MessageTellsState, Say
<1> QED BY <1>6, <1>7 DEF JobsInv

LEMMA NothingKeeps ==
  ASSUME NEW E, IsFiniteSet(E), JobsInv(E), NEW marked, StartNothing(marked), dirty' \in BOOLEAN
  PROVE  JobsInv(E)'
<1>1. 0 \in 0 .. Cardinality(E)
  BY FS_CardinalityType
<1> QED BY <1>1
    DEF StartNothing, jobVars, batchVars, Say, JobsInv, JobsTypeOK, Text, JobsWithinTotal,
        MessageTellsState

LEMMA EndKeeps ==
  ASSUME NEW E, JobsInv(E), NEW i, RmEnds(i)
  PROVE  JobsInv(E)'
BY DEF RmEnds, JobsInv, JobsTypeOK, JobsWithinTotal, MessageTellsState

LEMMA OtherKeeps ==
  ASSUME NEW E, JobsInv(E), UNCHANGED <<message, jobVars>>, dirty' \in BOOLEAN
  PROVE  JobsInv(E)'
BY DEF jobVars, batchVars, JobsInv, JobsTypeOK, JobsWithinTotal, MessageTellsState

-----------------------------------------------------------------------------
(* The cursor                                                              *)

LEMMA CursorMoves ==
  ASSUME NEW delta \in Int, NEW maxIdx \in Nat, NEW c \in 0 .. maxIdx
  PROVE  MovedCursor(delta, c, maxIdx) \in 0 .. maxIdx
BY DEF MovedCursor, SatSub

LEMMA PredOf == ASSUME NEW page \in 1 .. UsizeSpan - 1 PROVE Pred(page) = page - 1
<1>1. page - 1 \in 0 .. UsizeSpan - 1 /\ UsizeSpan \in Nat \ {0}
  BY UsizeAssumption
<1> QED BY <1>1 DEF Pred

LEMMA PredNat == ASSUME NEW page \in 0 .. UsizeSpan - 1 PROVE Pred(page) \in Nat
<1>1. page - 1 \in Int /\ UsizeSpan \in Nat \ {0}
  BY UsizeAssumption
<1>2. (page - 1) % UsizeSpan \in 0 .. UsizeSpan - 1
  BY <1>1
<1> QED BY <1>1, <1>2 DEF Pred

\* The viewport follows the cursor: it stays in the list and shows the row.
LEMMA ViewportFollows ==
  ASSUME NEW c \in Nat, NEW v \in Nat, NEW page \in 0 .. UsizeSpan - 1
  PROVE  /\ MovedViewport(c, v, page) \in 0 .. c
         /\ page > 0 => c < MovedViewport(c, v, page) + page
<1>1. page \in Nat /\ Pred(page) \in Nat /\ (page > 0 => Pred(page) = page - 1)
  BY PredOf, PredNat, UsizeAssumption
<1> QED BY <1>1 DEF MovedViewport, SatSub

\* What every handler relies on: the frame is one that was drawn.
PageInv ==
  /\ selected \subseteq Hits
  /\ cursor \in 0 .. LastHit /\ viewport \in 0 .. LastHit
  /\ height \in Heights
  /\ frame.selected \subseteq Hits
  /\ frame.cursor \in 0 .. LastHit /\ frame.viewport \in 0 .. LastHit
  /\ frame.page \in 0 .. UsizeSpan - 1
  /\ handled \in 0 .. EventsPerFrame
  /\ adrift \in BOOLEAN
  /\ CursorOnScreen

LEMMA ListFacts ==
  /\ LastHit \in Nat /\ IsFiniteSet(Hits) /\ Hits \subseteq 0 .. LastHit
  /\ \A h \in Heights : PageOf(h) \in 0 .. UsizeSpan - 1
<1>1. NumHits \in Nat /\ NumHits - 1 \in Int
  BY HitsAssumption
<1>2. IsFiniteSet(Hits)
  BY <1>1, FS_Interval DEF Hits
<1>3. LastHit \in Nat /\ Hits \subseteq 0 .. LastHit
  BY <1>1 DEF Hits, LastHit, SatSub
<1>4. \A h \in Heights : PageOf(h) \in 0 .. UsizeSpan - 1
  BY PageAssumption, UsizeAssumption DEF PageOf, SatSub
<1> QED BY <1>2, <1>3, <1>4
LEMMA InitialPage == Init => PageInv /\ JobsInv(Hits)
<1> SUFFICES ASSUME Init PROVE PageInv /\ JobsInv(Hits)
  OBVIOUS
<1>1. JobsInv(Hits)
  BY ListFacts, InitialJobs DEF Init
<1>2. /\ selected = Hits /\ cursor = 0 /\ viewport = 0 /\ height \in Heights /\ handled = 0
      /\ frame.selected = Hits /\ frame.cursor = 0 /\ frame.viewport = 0
      /\ frame.page = PageOf(height) /\ adrift = FALSE
  BY DEF Init
<1>3. /\ 0 \in 0 .. LastHit /\ 0 \in 0 .. EventsPerFrame
      /\ frame.page \in 0 .. UsizeSpan - 1
  BY <1>2, ListFacts, PageAssumption
<1>4. CursorOnScreen
  BY <1>2, <1>3 DEF CursorOnScreen
<1> QED BY <1>1, <1>2, <1>3, <1>4 DEF PageInv

LEMMA RenderKeeps ==
  ASSUME PageInv, JobsInv(Hits), Render
  PROVE  PageInv' /\ JobsInv(Hits)'
<1>1. JobsInv(Hits)'
  BY ListFacts, PollKeeps DEF Render
<1>2. /\ frame'.selected = selected /\ frame'.cursor = cursor /\ frame'.viewport = viewport
      /\ frame'.page = PageOf(height) /\ handled' = 0
      /\ adrift' = (adrift \/ PageOf(height) # frame.page)
      /\ UNCHANGED <<selected, cursor, viewport, height>>
  BY DEF Render, Snapshot, pageVars
<1>3. frame'.page \in 0 .. UsizeSpan - 1 /\ 0 \in 0 .. EventsPerFrame
  BY <1>2, ListFacts, PageAssumption DEF PageInv
<1>4. CursorOnScreen'
  BY <1>2 DEF PageInv, CursorOnScreen
<1> QED BY <1>1, <1>2, <1>3, <1>4 DEF PageInv

\* What all handlers leave alone or count.
LEMMA HandlerFacts ==
  ASSUME PageInv, Handle
  PROVE  /\ handled' \in 0 .. EventsPerFrame /\ dirty' \in BOOLEAN
         /\ UNCHANGED <<height, frame>>
BY PageAssumption DEF PageInv, Handle

LEMMA MoveKeeps ==
  ASSUME PageInv, JobsInv(Hits), Handle, NEW c \in 0 .. LastHit, NEW v \in 0 .. c, Move(c, v),
         frame.page > 0 => c < v + frame.page
  PROVE  PageInv' /\ JobsInv(Hits)'
<1>1. /\ cursor' = c /\ viewport' = v /\ adrift' = FALSE
      /\ UNCHANGED <<selected, message, jobVars>>
  BY DEF Move
<1>2. JobsInv(Hits)'
  BY <1>1, HandlerFacts, OtherKeeps
<1>3. v \in 0 .. LastHit /\ v <= c
  BY ListFacts
<1>4. CursorOnScreen'
  BY <1>1, <1>3, HandlerFacts DEF CursorOnScreen
<1> QED BY <1>1, <1>2, <1>3, <1>4, HandlerFacts DEF PageInv

\* The marks change, or a row of the frame is clicked.
LEMMA MarkKeeps ==
  ASSUME PageInv, JobsInv(Hits), Handle, UNCHANGED <<viewport, message, jobVars>>,
         selected' \subseteq Hits,
         \/ UNCHANGED <<cursor, adrift>>
         \/ /\ cursor' \in Hits
            /\ frame.viewport <= cursor' /\ cursor' < frame.viewport + frame.page
            /\ adrift' = (viewport # frame.viewport)
  PROVE  PageInv' /\ JobsInv(Hits)'
<1>1. JobsInv(Hits)'
  BY HandlerFacts, OtherKeeps
<1>2. cursor' \in 0 .. LastHit /\ adrift' \in BOOLEAN
  BY ListFacts DEF PageInv
<1>3. CursorOnScreen'
  BY HandlerFacts DEF PageInv, CursorOnScreen
<1> QED BY <1>1, <1>2, <1>3, HandlerFacts DEF PageInv

LEMMA EventKeeps ==
  ASSUME PageInv, JobsInv(Hits), Event
  PROVE  PageInv' /\ JobsInv(Hits)'
<1>1. CASE Scroll
  <2>1. PICK delta \in {1, -1, frame.page, -frame.page, 3, -3} :
          LET c == MovedCursor(delta, frame.cursor, LastHit)
          IN  Move(c, MovedViewport(c, frame.viewport, frame.page))
    BY <1>1 DEF Scroll
  <2>2. PICK c, v : /\ c = MovedCursor(delta, frame.cursor, LastHit)
                    /\ v = MovedViewport(c, frame.viewport, frame.page)
    OBVIOUS
  <2>3. c \in 0 .. LastHit
    <3>1. delta \in Int
      BY <2>1 DEF PageInv
    <3>2. PICK k \in 0 .. LastHit : k = frame.cursor
      BY DEF PageInv
    <3> QED BY <2>2, <3>1, <3>2, ListFacts, CursorMoves
  <2>4. v \in 0 .. c /\ (frame.page > 0 => c < v + frame.page)
    <3>1. PICK w \in Nat, page \in 0 .. UsizeSpan - 1 : w = frame.viewport /\ page = frame.page
      BY DEF PageInv
    <3>2. c \in Nat
      BY <2>3, ListFacts
    <3> QED BY <2>2, <3>1, <3>2, ViewportFollows
  <2> QED BY <1>1, <2>1, <2>2, <2>3, <2>4, MoveKeeps DEF Scroll
<1>2. CASE Home
  <2>1. 0 \in 0 .. LastHit /\ 0 \in 0 .. 0 /\ (frame.page > 0 => 0 < 0 + frame.page)
    BY ListFacts DEF PageInv
  <2>2. Handle /\ Move(0, 0)
    BY <1>2 DEF Home
  <2> QED BY <2>1, <2>2, MoveKeeps
<1>3. CASE End
  <2>1. PICK page \in 0 .. UsizeSpan - 1 : page = frame.page
    BY DEF PageInv
  <2>2. page \in Nat /\ Pred(page) \in Nat /\ (page > 0 => Pred(page) = page - 1)
    BY PredOf, PredNat, UsizeAssumption
  <2>3. PICK v : v = SatSub(LastHit, Pred(page))
    OBVIOUS
  <2>4. v \in 0 .. LastHit /\ (page > 0 => LastHit < v + page)
    BY <2>2, <2>3, ListFacts DEF SatSub
  <2>5. LastHit \in 0 .. LastHit /\ Handle /\ Move(LastHit, v)
    BY <1>3, <2>1, <2>3, ListFacts DEF End
  <2> QED BY <2>1, <2>4, <2>5, MoveKeeps
<1>4. CASE Toggle
  <2>1. frame.cursor \in Hits
    BY <1>4, HitsAssumption DEF Toggle, PageInv, Hits, LastHit, SatSub
  <2>2. selected' \subseteq Hits
    BY <1>4, <2>1 DEF Toggle, Flip, PageInv
  <2> QED BY <1>4, <2>2, MarkKeeps DEF Toggle
<1>5. CASE ToggleAll
  <2>1. selected' \subseteq Hits
    BY <1>5 DEF ToggleAll
  <2> QED BY <1>5, <2>1, MarkKeeps DEF ToggleAll
<1>6. CASE Click
  <2>1. /\ cursor' \in Hits /\ selected' = Flip(frame.selected, cursor')
        /\ frame.viewport <= cursor' /\ cursor' < frame.viewport + frame.page
        /\ adrift' = (viewport # frame.viewport) /\ UNCHANGED <<viewport, message, jobVars>>
    BY <1>6 DEF Click
  <2>2. selected' \subseteq Hits
    BY <2>1 DEF Flip, PageInv
  <2> QED BY <1>6, <2>1, <2>2, MarkKeeps DEF Click
<1>7. CASE Delete
  <2>1. JobsInv(Hits)'
    <3>1. PICK marked \in SUBSET Hits : StartJobs(marked) \/ StartNothing(marked)
      BY <1>7 DEF Delete, PageInv
    <3> QED BY <1>7, <3>1, ListFacts, HandlerFacts, StartKeeps, NothingKeeps DEF Delete
  <2>2. UNCHANGED <<pageVars, adrift, height, frame>> /\ handled' \in 0 .. EventsPerFrame
    BY <1>7, HandlerFacts DEF Delete
  <2> QED BY <2>1, <2>2 DEF pageVars, PageInv, CursorOnScreen
<1> QED BY <1>1, <1>2, <1>3, <1>4, <1>5, <1>6, <1>7 DEF Event

LEMMA PageStep == PageInv /\ JobsInv(Hits) /\ [Next]_vars => PageInv' /\ JobsInv(Hits)'
<1> SUFFICES ASSUME PageInv, JobsInv(Hits), [Next]_vars PROVE PageInv' /\ JobsInv(Hits)'
  OBVIOUS
<1>1. CASE JobEnds
  BY <1>1, EndKeeps DEF JobEnds, pageVars, PageInv, CursorOnScreen
<1>2. CASE Resize
  <2>1. JobsInv(Hits)'
    BY <1>2, OtherKeeps DEF Resize
  <2> QED BY <1>2, <2>1 DEF Resize, pageVars, PageInv, CursorOnScreen
<1>3. CASE UNCHANGED vars
  <2>1. JobsInv(Hits)'
    BY <1>3, OtherKeeps DEF vars, JobsInv, JobsTypeOK
  <2> QED BY <1>3, <2>1 DEF vars, pageVars, PageInv, CursorOnScreen
<1> QED BY <1>1, <1>2, <1>3, RenderKeeps, EventKeeps DEF Next

-----------------------------------------------------------------------------
(* Theorems about the junk page                                            *)

LEMMA PageInvariant == Spec => [](PageInv /\ JobsInv(Hits))
BY InitialPage, PageStep, PTL DEF Spec

\* The types: the cursor and the viewport index a hit whatever stale frame an event
\* acts on (tui_app.rs 261-264).
THEOREM PageTypes == Spec => []TypeOK
<1>1. PageInv /\ JobsInv(Hits) => TypeOK
  BY DEF PageInv, JobsInv, TypeOK
<1> QED BY <1>1, PageInvariant, PTL

\* The cursor is on the screen unless a resize or a stale click took it away, for every
\* height, also where page - 1 wraps (tui_app.rs 201-205).
THEOREM CursorStays == Spec => []CursorOnScreen
<1>1. PageInv => CursorOnScreen
  BY DEF PageInv
<1> QED BY <1>1, PageInvariant, PTL

\* total - still_running.len() never wraps (tui_app.rs 236).
THEOREM JobsStayWithin == Spec => []JobsWithinTotal
<1>1. JobsInv(Hits) => JobsWithinTotal
  BY DEF JobsInv
<1> QED BY <1>1, PageInvariant, PTL

\* "Done" comes only when no rm of the last batch runs, and the numbers are those of
\* that batch (tui_app.rs 226-247).
THEOREM MessageIsTrue == Spec => []MessageTellsState
<1>1. JobsInv(Hits) => MessageTellsState
  BY DEF JobsInv
<1> QED BY <1>1, PageInvariant, PTL
-----------------------------------------------------------------------------
(* The rows below an entry                                                 *)

RowsFrom(n) == {row \in VisibleRow : row.data_idx >= n}

RowsBelow(g, row) == [k \in DOMAIN Children[row.data_idx] |-> g[ChildRow(row, k)]]

RowsAt(g, row, open) ==
  <<row>> \o (IF row.data_idx \in open THEN FlattenSeq(RowsBelow(g, row)) ELSE <<>>)

\* The function inside RowsOf, for the entries from n on.
IsRows(g, open, n) == g = [row \in RowsFrom(n) |-> RowsAt(g, row, open)]

LEMMA ChildFacts ==
  ASSUME NEW row \in VisibleRow, NEW k \in DOMAIN Children[row.data_idx]
  PROVE  /\ ChildRow(row, k) \in VisibleRow
         /\ ChildRow(row, k).data_idx > row.data_idx
         /\ ChildRow(row, k).data_idx \in ToSet(Children[row.data_idx])
         /\ ChildRow(row, k).indent = row.indent + 1
         /\ ChildRow(row, k).parent_data_idx = row.data_idx
<1>1. PICK d \in Data : d = row.data_idx
  BY DEF VisibleRow
<1>2. Children[d] \in Seq(Data) /\ Children[d][k] > d
  BY <1>1, RowsAssumption
<1>3. k \in DOMAIN Children[d] /\ Children[d][k] \in Data
  BY <1>1, <1>2
<1>4. Children[d][k] \in ToSet(Children[d])
  BY <1>3 DEF ToSet
<1>5. row.indent \in Nat
  BY DEF VisibleRow
<1> QED BY <1>1, <1>2, <1>3, <1>4, <1>5 DEF ChildRow, VisibleRow

LEMMA RowsStep ==
  ASSUME NEW g, NEW open, NEW n, IsRows(g, open, n), NEW row \in RowsFrom(n)
  PROVE  g[row] = RowsAt(g, row, open)
BY Zenon DEF IsRows

LEMMA RowsExist ==
  ASSUME NEW open
  PROVE  \E g : IsRows(g, open, 0)
<1>1. TreeLen \in Nat
  BY RowsAssumption
<1> DEFINE T == {n \in 0 .. TreeLen : \E g : IsRows(g, open, n)}
<1>2. TreeLen \in T
  <2>1. RowsFrom(TreeLen) = {}
    BY <1>1 DEF RowsFrom, VisibleRow, Data
  <2> DEFINE g == [row \in {} |-> 0]
  <2>2. g = [row \in {} |-> RowsAt(g, row, open)]
    OBVIOUS
  <2>3. IsRows(g, open, TreeLen)
    BY <2>1, <2>2 DEF IsRows
  <2> QED BY <1>1, <2>3
<1>3. PICK m \in T : \A k \in T : m <= k
  <2>1. T \in SUBSET Nat /\ T # {}
    BY <1>2
  <2> HIDE DEF T
  <2> QED BY <2>1, LeastNumber
<1>4. m \in 0 .. TreeLen
  OBVIOUS
<1>5. PICK g : IsRows(g, open, m)
  BY <1>3
<1>6. ASSUME m # 0 PROVE FALSE
  <2> DEFINE h == [row \in RowsFrom(m - 1) |->
                     IF row \in RowsFrom(m) THEN g[row] ELSE RowsAt(g, row, open)]
  <2>1. m - 1 \in 0 .. TreeLen /\ ~(m <= m - 1)
    BY <1>1, <1>4, <1>6
  <2>2. \A row \in RowsFrom(m) : h[row] = g[row]
    BY <1>4 DEF RowsFrom, VisibleRow, Data
  <2>3. \A row \in RowsFrom(m - 1) : h[row] = RowsAt(g, row, open)
    BY <1>5, RowsStep
  <2>4. h = [row \in RowsFrom(m - 1) |-> h[row]]
    OBVIOUS
  <2> HIDE DEF h
  <2>5. ASSUME NEW row \in RowsFrom(m - 1) PROVE RowsAt(h, row, open) = RowsAt(g, row, open)
    <3>1. \A k \in DOMAIN Children[row.data_idx] : ChildRow(row, k) \in RowsFrom(m)
      <4>1. row \in VisibleRow /\ row.data_idx >= m - 1 /\ row.data_idx \in Int
        BY DEF RowsFrom, VisibleRow, Data
      <4>2. \A k \in DOMAIN Children[row.data_idx] :
              /\ ChildRow(row, k) \in VisibleRow /\ ChildRow(row, k).data_idx > row.data_idx
              /\ ChildRow(row, k).data_idx \in Int
        BY <4>1, ChildFacts DEF VisibleRow, Data
      <4>3. ASSUME NEW d \in Int, NEW e \in Int, d >= m - 1, e > d PROVE e >= m
        BY <1>4, <4>3
      <4> QED BY <4>1, <4>2, <4>3 DEF RowsFrom
    <3>2. RowsBelow(h, row) = RowsBelow(g, row)
      BY <2>2, <3>1 DEF RowsBelow
    <3> QED BY <3>2 DEF RowsAt
  <2>6. h = [row \in RowsFrom(m - 1) |-> RowsAt(h, row, open)]
    BY <2>3, <2>4, <2>5
  <2>7. IsRows(h, open, m - 1)
    BY <2>6 DEF IsRows
  <2>8. m - 1 \in T
    BY <2>1, <2>7
  <2> HIDE DEF T
  <2> QED BY <1>3, <2>1, <2>8
<1> QED BY <1>5, <1>6

LEMMA RowsFunction ==
  ASSUME NEW open
  PROVE  \E g : /\ \A row \in VisibleRow : g[row] = RowsAt(g, row, open)
                /\ RowsOf(open) = [d \in Data |-> g[TopRow(d)]]
<1> DEFINE Copies(g) ==
             g = [row \in VisibleRow |->
                    <<row>> \o (IF row.data_idx \in open
                                THEN FlattenSeq([k \in DOMAIN Children[row.data_idx] |->
                                                   g[ChildRow(row, k)]])
                                ELSE <<>>)]
           g == CHOOSE g : Copies(g)
<1>1. \A row \in VisibleRow : row.data_idx >= 0
  BY RowsAssumption DEF VisibleRow, Data
<1>2. RowsFrom(0) = VisibleRow
  BY <1>1 DEF RowsFrom
<1>3. PICK h : IsRows(h, open, 0)
  BY RowsExist
<1>4. Copies(h)
  BY <1>2, <1>3 DEF IsRows, RowsAt, RowsBelow
<1>5. Copies(g)
  <2> HIDE DEF Copies
  <2> QED BY <1>4
<1>6. RowsOf(open) = [d \in Data |-> g[TopRow(d)]]
  BY Zenon DEF RowsOf
<1> HIDE DEF g
<1>7. \A row \in VisibleRow : g[row] = RowsAt(g, row, open)
  BY <1>5 DEF RowsAt, RowsBelow
<1> QED BY <1>6, <1>7

\* Row k of a list belongs to row j, which is one step further out, and no row between
\* them is further out than k.
Hangs(list, open, k, j) ==
  /\ j \in 1 .. k - 1
  /\ list[j].indent = list[k].indent - 1
  /\ \A i \in j + 1 .. k - 1 : list[i].indent >= list[k].indent
  /\ list[j].data_idx = list[k].parent_data_idx
  /\ list[j].data_idx \in open
  /\ list[k].data_idx \in ToSet(Children[list[j].data_idx])

\* What push_row appends for a row: the row, and others further in.
Block(list, row, open) ==
  /\ list \in Seq(VisibleRow) /\ Len(list) >= 1 /\ list[1] = row
  /\ \A k \in 2 .. Len(list) : list[k].indent > row.indent /\ \E j : Hangs(list, open, k, j)

IsChildRow(r, row) ==
  /\ r.indent = row.indent + 1
  /\ r.parent_data_idx = row.data_idx
  /\ r.data_idx \in ToSet(Children[row.data_idx])

\* What stands below an expanded row.
Brood(list, row, open) ==
  \A k \in 1 .. Len(list) : \/ IsChildRow(list[k], row)
                            \/ list[k].indent > row.indent + 1 /\ \E j : Hangs(list, open, k, j)

LEMMA RowTypes ==
  ASSUME NEW list \in Seq(VisibleRow), NEW k \in 1 .. Len(list)
  PROVE  /\ list[k] \in VisibleRow /\ list[k].indent \in Nat /\ list[k].data_idx \in Data
<1>1. list[k] \in VisibleRow
  BY ElementOfSeq
<1> QED BY <1>1 DEF VisibleRow

LEMMA JoinedRows ==
  ASSUME NEW E, NEW a \in Seq(E), NEW b \in Seq(E)
  PROVE  /\ a \o b \in Seq(E) /\ Len(a \o b) = Len(a) + Len(b)
         /\ Len(a) \in Nat /\ Len(b) \in Nat
         /\ \A i \in 1 .. Len(a) : (a \o b)[i] = a[i]
         /\ \A i \in 1 .. Len(b) : (a \o b)[Len(a) + i] = b[i]
<1>1. /\ a \o b \in Seq(E) /\ Len(a \o b) = Len(a) + Len(b)
      /\ Len(a) \in Nat /\ Len(b) \in Nat
      /\ \A i \in 1 .. Len(a) + Len(b) :
           (a \o b)[i] = IF i <= Len(a) THEN a[i] ELSE b[i - Len(a)]
  BY ConcatProperties, LenProperties
<1> DEFINE c == a \o b
<1> HIDE DEF c
<1>2. PICK m, n \in Nat : m = Len(a) /\ n = Len(b)
  BY <1>1
<1>3. \A i \in 1 .. m + n : c[i] = IF i <= m THEN a[i] ELSE b[i - m]
  BY <1>1, <1>2 DEF c
<1>4. \A i \in 1 .. m : c[i] = a[i]
  BY <1>3
<1>5. \A i \in 1 .. n : c[m + i] = b[i]
  <2> TAKE i \in 1 .. n
  <2>1. m + i \in 1 .. m + n /\ ~(m + i <= m) /\ (m + i) - m = i
    OBVIOUS
  <2> QED BY <1>3, <2>1
<1> QED BY <1>1, <1>2, <1>4, <1>5 DEF c

\* Rows keep what they hang from when rows are appended, or put before them.
LEMMA HangsLeft ==
  ASSUME NEW a \in Seq(VisibleRow), NEW b \in Seq(VisibleRow), NEW open,
         NEW k \in 1 .. Len(a), NEW j, Hangs(a, open, k, j)
  PROVE  Hangs(a \o b, open, k, j)
<1>1. \A i \in 1 .. Len(a) : (a \o b)[i] = a[i]
  BY JoinedRows
<1> DEFINE c == a \o b
<1> HIDE DEF c
<1>2. Len(a) \in Nat /\ j \in 1 .. k - 1 /\ j \in 1 .. Len(a)
  BY LenProperties DEF Hangs
<1>3. c[j] = a[j] /\ c[k] = a[k] /\ \A i \in j + 1 .. k - 1 : c[i] = a[i]
  BY <1>1, <1>2 DEF c
<1>4. Hangs(c, open, k, j)
  BY <1>3 DEF Hangs
<1> QED BY <1>4 DEF c

LEMMA HangsRight ==
  ASSUME NEW a \in Seq(VisibleRow), NEW b \in Seq(VisibleRow), NEW open,
         NEW k \in 1 .. Len(b), NEW j, Hangs(b, open, k, j)
  PROVE  Hangs(a \o b, open, Len(a) + k, Len(a) + j)
<1>1. /\ \A i \in 1 .. Len(b) : (a \o b)[Len(a) + i] = b[i]
      /\ Len(a) \in Nat /\ Len(b) \in Nat
  BY JoinedRows
<1> DEFINE c == a \o b
<1> HIDE DEF c
<1>2. PICK m \in Nat : m = Len(a)
  BY <1>1
<1>3. j \in 1 .. k - 1 /\ j \in 1 .. Len(b) /\ m + j \in 1 .. (m + k) - 1
  BY <1>1, <1>2 DEF Hangs
<1>4. c[m + j] = b[j] /\ c[m + k] = b[k]
  BY <1>1, <1>2, <1>3 DEF c
<1>5. ASSUME NEW i \in (m + j) + 1 .. (m + k) - 1 PROVE c[i].indent >= c[m + k].indent
  <2>1. i - m \in j + 1 .. k - 1 /\ i - m \in 1 .. Len(b) /\ m + (i - m) = i
    BY <1>1, <1>3, SMTT(30)
  <2>2. c[m + (i - m)] = b[i - m]
    BY <1>1, <1>2, <2>1 DEF c
  <2>3. b[i - m].indent >= b[k].indent
    BY <2>1 DEF Hangs
  <2> QED BY <1>4, <2>1, <2>2, <2>3
<1>6. Hangs(c, open, m + k, m + j)
  BY <1>3, <1>4, <1>5 DEF Hangs
<1> QED BY <1>2, <1>6 DEF c

LEMMA BroodsJoin ==
  ASSUME NEW row, NEW open, NEW a \in Seq(VisibleRow), NEW b \in Seq(VisibleRow),
         Brood(a, row, open), Brood(b, row, open)
  PROVE  a \o b \in Seq(VisibleRow) /\ Brood(a \o b, row, open)
<1>1. /\ a \o b \in Seq(VisibleRow) /\ Len(a \o b) = Len(a) + Len(b)
      /\ Len(a) \in Nat /\ Len(b) \in Nat
      /\ \A i \in 1 .. Len(a) : (a \o b)[i] = a[i]
      /\ \A i \in 1 .. Len(b) : (a \o b)[Len(a) + i] = b[i]
  BY JoinedRows
<1> DEFINE c == a \o b
<1>2. ASSUME NEW k \in 1 .. Len(c)
      PROVE  \/ IsChildRow(c[k], row)
             \/ c[k].indent > row.indent + 1 /\ \E j : Hangs(c, open, k, j)
  <2>1. CASE k \in 1 .. Len(a)
    <3>1. c[k] = a[k]
      BY <1>1, <2>1
    <3>2. \A j : Hangs(a, open, k, j) => Hangs(c, open, k, j)
      BY <2>1, HangsLeft
    <3> HIDE DEF c
    <3> QED BY <2>1, <3>1, <3>2 DEF Brood
  <2>2. CASE k \notin 1 .. Len(a)
    <3>1. PICK i \in 1 .. Len(b) : k = Len(a) + i
      <4>1. k - Len(a) \in 1 .. Len(b) /\ k = Len(a) + (k - Len(a))
        BY <1>1, <2>2
      <4> QED BY <4>1
    <3>2. c[k] = b[i]
      BY <1>1, <3>1
    <3>3. \A j : Hangs(b, open, i, j) => Hangs(c, open, k, Len(a) + j)
      BY <3>1, HangsRight
    <3> HIDE DEF c
    <3> QED BY <3>2, <3>3 DEF Brood
  <2> QED BY <2>1, <2>2
<1> HIDE DEF c
<1>3. Brood(c, row, open)
  BY <1>2 DEF Brood
<1> QED BY <1>1, <1>3 DEF c

LEMMA BlockIsBrood ==
  ASSUME NEW row \in VisibleRow, NEW open, NEW child \in VisibleRow, IsChildRow(child, row),
         NEW list, Block(list, child, open)
  PROVE  Brood(list, row, open)
<1>1. list \in Seq(VisibleRow) /\ row.indent \in Nat /\ child.indent = row.indent + 1
  BY DEF Block, IsChildRow, VisibleRow
<1>2. ASSUME NEW k \in 1 .. Len(list)
      PROVE  \/ IsChildRow(list[k], row)
             \/ list[k].indent > row.indent + 1 /\ \E j : Hangs(list, open, k, j)
  <2>1. CASE k = 1
    BY <2>1 DEF Block
  <2>2. CASE k # 1
    <3>1. k \in 2 .. Len(list)
      BY <2>2
    <3> QED BY <1>1, <3>1 DEF Block
  <2> QED BY <2>1, <2>2
<1> QED BY <1>2 DEF Brood

LEMMA BroodBelow ==
  ASSUME NEW row \in VisibleRow, NEW open, row.data_idx \in open,
         NEW list \in Seq(VisibleRow), Brood(list, row, open)
  PROVE  Block(<<row>> \o list, row, open)
<1> DEFINE one == <<row>>
           c == one \o list
<1>1. one \in Seq(VisibleRow) /\ Len(one) = 1 /\ one[1] = row
  OBVIOUS
<1> HIDE DEF one
<1>2. /\ c \in Seq(VisibleRow) /\ Len(c) = 1 + Len(list) /\ Len(list) \in Nat
      /\ c[1] = row /\ \A i \in 1 .. Len(list) : c[1 + i] = list[i]
  <2>1. /\ c \in Seq(VisibleRow) /\ Len(c) = Len(one) + Len(list) /\ Len(list) \in Nat
        /\ \A i \in 1 .. Len(one) : c[i] = one[i]
        /\ \A i \in 1 .. Len(list) : c[Len(one) + i] = list[i]
    <3>1. one \in Seq(VisibleRow)
      BY <1>1
    <3> QED BY <3>1, JoinedRows
  <2> HIDE DEF c
  <2> QED BY <1>1, <2>1
<1>3. \A i \in 1 .. Len(list) : \A j : Hangs(list, open, i, j) => Hangs(c, open, 1 + i, 1 + j)
  BY <1>1, HangsRight
<1> HIDE DEF c
<1>4. row.indent \in Nat
  BY DEF VisibleRow
<1>5. ASSUME NEW k \in 2 .. Len(c) PROVE c[k].indent > row.indent /\ \E j : Hangs(c, open, k, j)
  <2>1. PICK i \in 1 .. Len(list) : k = 1 + i
    <3>1. k - 1 \in 1 .. Len(list) /\ k = 1 + (k - 1)
      BY <1>2
    <3> QED BY <3>1
  <2>2. c[k] = list[i] /\ list[i].indent \in Nat
    BY <1>2, <2>1, RowTypes
  <2>3. CASE IsChildRow(list[i], row)
    <3>1. \A m \in 2 .. k - 1 : c[m].indent >= c[k].indent
      <4> SUFFICES ASSUME NEW m \in 2 .. k - 1 PROVE c[m].indent >= c[k].indent
        OBVIOUS
      <4>1. m - 1 \in 1 .. Len(list) /\ 1 + (m - 1) = m
        BY <1>2
      <4>2. c[m] = list[m - 1] /\ list[m - 1].indent \in Nat
        BY <1>2, <4>1, RowTypes
      <4>3. list[m - 1].indent >= row.indent + 1
        BY <1>4, <4>1, <4>2, SMTT(30) DEF Brood, IsChildRow
      <4> QED BY <2>2, <2>3, <4>2, <4>3 DEF IsChildRow
    <3>2. Hangs(c, open, k, 1)
      <4>1. 1 \in 1 .. k - 1
        OBVIOUS
      <4> QED BY <1>2, <1>4, <2>2, <2>3, <3>1, <4>1 DEF Hangs, IsChildRow
    <3> QED BY <1>4, <2>2, <2>3, <3>2 DEF IsChildRow
  <2>4. CASE list[i].indent > row.indent + 1 /\ \E j : Hangs(list, open, i, j)
    BY <1>3, <1>4, <2>1, <2>2, <2>4
  <2> QED BY <2>3, <2>4 DEF Brood
<1>6. Block(c, row, open)
  BY <1>2, <1>5 DEF Block
<1> QED BY <1>6 DEF c, one

\* Every row is followed by the rows below it.
LEMMA RowsAreBlocks ==
  ASSUME NEW open, NEW g, \A row \in VisibleRow : g[row] = RowsAt(g, row, open),
         NEW row \in VisibleRow
  PROVE  Block(g[row], row, open)
<1>1. TreeLen \in Nat /\ \A r \in VisibleRow : r.data_idx \in 0 .. TreeLen - 1
  BY RowsAssumption DEF VisibleRow, Data
<1> DEFINE Bad == {r \in VisibleRow : ~Block(g[r], r, open)}
           T == {TreeLen - r.data_idx : r \in Bad}
<1> SUFFICES ASSUME Bad # {} PROVE FALSE
  OBVIOUS
<1>2. PICK r \in Bad : \A q \in Bad : q.data_idx <= r.data_idx
  <2>1. T \in SUBSET Nat /\ T # {}
    BY <1>1
  <2>2. PICK m \in T : \A n \in T : m <= n
    <3> HIDE DEF T
    <3> QED BY <2>1, LeastNumber
  <2>3. PICK r \in Bad : m = TreeLen - r.data_idx
    OBVIOUS
  <2>4. \A q \in Bad : TreeLen - r.data_idx <= TreeLen - q.data_idx
    BY <2>2, <2>3
  <2>5. \A q \in Bad : q.data_idx <= r.data_idx
    BY <1>1, <2>4
  <2> QED BY <2>5
<1>3. r \in VisibleRow /\ ~Block(g[r], r, open)
  OBVIOUS
<1>4. \A q \in VisibleRow : q.data_idx > r.data_idx => Block(g[q], q, open)
  BY <1>1, <1>2
<1> HIDE DEF Bad, T
<1>5. g[r] = RowsAt(g, r, open)
  BY <1>3
<1>6. CASE r.data_idx \in open
  <2> DEFINE A == {list \in Seq(VisibleRow) : Brood(list, r, open)}
             kids == Children[r.data_idx]
             below == RowsBelow(g, r)
  <2>1. kids \in Seq(Data)
    BY <1>3, RowsAssumption DEF VisibleRow
  <2>2. \A k \in DOMAIN kids : g[ChildRow(r, k)] \in A
    <3> TAKE k \in DOMAIN kids
    <3>1. /\ ChildRow(r, k) \in VisibleRow /\ IsChildRow(ChildRow(r, k), r)
          /\ ChildRow(r, k).data_idx > r.data_idx
      BY <1>3, ChildFacts DEF IsChildRow
    <3>2. Block(g[ChildRow(r, k)], ChildRow(r, k), open)
      BY <1>4, <3>1
    <3>3. g[ChildRow(r, k)] \in Seq(VisibleRow)
      BY <3>2 DEF Block
    <3> QED BY <1>3, <3>1, <3>2, <3>3, BlockIsBrood
  <2>3. below \in Seq(A)
    <3>1. below = [k \in DOMAIN kids |-> g[ChildRow(r, k)]]
      BY DEF RowsBelow
    <3>2. DOMAIN kids = 1 .. Len(kids) /\ Len(kids) \in Nat
      BY <2>1
    <3> HIDE DEF A, below, kids
    <3> QED BY <2>2, <3>1, <3>2
  <2>4. A \in SUBSET Seq(VisibleRow)
    OBVIOUS
  <2>5. <<>> \in A
    BY EmptySeq DEF Brood
  <2>6. \A a, b \in A : a \o b \in A
    BY <1>3, BroodsJoin
  <2>7. FlattenSeq(below) \in A
    <3> HIDE DEF A, below
    <3> QED BY <2>3, <2>4, <2>5, <2>6, FlattenStays
  <2>8. Block(<<r>> \o FlattenSeq(below), r, open)
    <3>1. FlattenSeq(below) \in Seq(VisibleRow) /\ Brood(FlattenSeq(below), r, open)
      BY <2>7
    <3> HIDE DEF below, A
    <3> QED BY <1>3, <1>6, <3>1, BroodBelow
  <2> QED BY <1>3, <1>5, <1>6, <2>8 DEF RowsAt
<1>7. CASE r.data_idx \notin open
  <2> DEFINE one == <<r>>
  <2>1. g[r] = one \o <<>>
    BY <1>5, <1>7 DEF RowsAt
  <2>2. one \in Seq(VisibleRow) /\ Len(one) = 1 /\ one[1] = r
    BY <1>3
  <2> HIDE DEF one
  <2>3. g[r] = one
    BY <2>1, <2>2, ConcatEmptySeq
  <2>4. Block(one, r, open)
    BY <2>2 DEF Block
  <2> QED BY <1>3, <2>3, <2>4
<1> QED BY <1>6, <1>7

-----------------------------------------------------------------------------
(* The list of all rows                                                    *)

\* A list with the blocks of the m biggest entries.
Forest(list, m, open) ==
  /\ list \in Seq(VisibleRow)
  /\ m \in Nat /\ IsFiniteSet(TopRows(list)) /\ Cardinality(TopRows(list)) = m
  /\ \A k \in TopRows(list) :
       list[k].data_idx = BySize[Cardinality({j \in TopRows(list) : j <= k})]
  /\ \A k \in 1 .. Len(list) : list[k].indent > 0 => \E j : Hangs(list, open, k, j)

LEMMA NoForest == ASSUME NEW open PROVE Forest(<<>>, 0, open)
<1>1. TopRows(<<>>) = {} /\ <<>> \in Seq(VisibleRow) /\ 1 .. Len(<<>>) = {}
  BY EmptySeq DEF TopRows
<1> QED BY <1>1, FS_EmptySet DEF Forest

LEMMA ForestGrows ==
  ASSUME NEW open, NEW m \in Nat, NEW list, Forest(list, m, open),
         NEW d \in Data, d = BySize[m + 1], NEW block, Block(block, TopRow(d), open)
  PROVE  Forest(list \o block, m + 1, open)
<1> DEFINE c == list \o block
           n == Len(list)
<1>1. /\ c \in Seq(VisibleRow) /\ Len(c) = n + Len(block) /\ n \in Nat /\ Len(block) \in Nat
      /\ \A i \in 1 .. n : c[i] = list[i]
      /\ \A i \in 1 .. Len(block) : c[n + i] = block[i]
  BY JoinedRows DEF Forest, Block
<1>2. /\ list \in Seq(VisibleRow) /\ block \in Seq(VisibleRow) /\ Len(block) >= 1
      /\ block[1].indent = 0 /\ block[1].data_idx = d
  BY DEF Forest, Block, TopRow
<1>3. \A k \in 1 .. n : \A j : Hangs(list, open, k, j) => Hangs(c, open, k, j)
  BY <1>2, HangsLeft
<1>4. \A i \in 1 .. Len(block) : \A j : Hangs(block, open, i, j) => Hangs(c, open, n + i, n + j)
  BY <1>2, HangsRight
<1> HIDE DEF c, n
<1>5. \A k \in 1 .. Len(c) : k \in 1 .. n \/ \E i \in 1 .. Len(block) : k = n + i
  <2> TAKE k \in 1 .. Len(c)
  <2>1. CASE k <= n
    BY <1>1, <2>1
  <2>2. CASE ~(k <= n)
    <3>1. k - n \in 1 .. Len(block) /\ k = n + (k - n)
      BY <1>1, <2>2
    <3> QED BY <3>1
  <2> QED BY <2>1, <2>2
<1>6. \A i \in 2 .. Len(block) : block[i].indent > 0 /\ \E j : Hangs(block, open, i, j)
  <2>1. TopRow(d).indent = 0
    BY DEF TopRow
  <2> QED BY <2>1 DEF Block
<1>7. \A k \in 1 .. Len(c) : c[k].indent > 0 => \E j : Hangs(c, open, k, j)
  <2> SUFFICES ASSUME NEW k \in 1 .. Len(c), c[k].indent > 0 PROVE \E j : Hangs(c, open, k, j)
    OBVIOUS
  <2>1. CASE k \in 1 .. n
    BY <1>1, <1>3, <2>1 DEF Forest, n
  <2>2. CASE \E i \in 1 .. Len(block) : k = n + i
    <3>1. PICK i \in 1 .. Len(block) : k = n + i
      BY <2>2
    <3>2. i # 1
      BY <1>1, <1>2, <3>1
    <3>3. i \in 2 .. Len(block)
      BY <3>2
    <3> QED BY <1>4, <1>6, <3>1, <3>3
  <2> QED BY <1>5, <2>1, <2>2
<1> DEFINE S == TopRows(list)
<1>8. S \in SUBSET (1 .. n) /\ \A k \in S : list[k].indent = 0
  <2>1. DOMAIN list = 1 .. n
    BY <1>2 DEF n
  <2> QED BY <2>1 DEF TopRows
<1>9. TopRows(c) = S \cup {n + 1}
  <2>1. DOMAIN c = 1 .. Len(c) /\ DOMAIN list = 1 .. n
    BY <1>1, <1>2 DEF n
  <2>2. n + 1 \in 1 .. Len(c) /\ c[n + 1].indent = 0
    BY <1>1, <1>2
  <2>3. \A k \in 1 .. n : k \in 1 .. Len(c) /\ (c[k].indent = 0 <=> list[k].indent = 0)
    BY <1>1
  <2>4. ASSUME NEW i \in 1 .. Len(block), i # 1 PROVE c[n + i].indent # 0
    <3>1. i \in 2 .. Len(block)
      BY <2>4
    <3>2. c[n + i] = block[i]
      BY <1>1
    <3> QED BY <1>6, <3>1, <3>2
  <2> QED BY <1>5, <2>1, <2>2, <2>3, <2>4 DEF TopRows
<1>10. n + 1 \notin S
  BY <1>1, <1>8
<1>11. IsFiniteSet(S) /\ Cardinality(S) = m
  BY DEF Forest
<1> HIDE DEF S
<1>12. IsFiniteSet(S \cup {n + 1}) /\ Cardinality(S \cup {n + 1}) = m + 1
  BY <1>10, <1>11, FS_AddElement
<1>13. \A k \in S \cup {n + 1} :
         c[k].data_idx = BySize[Cardinality({j \in S \cup {n + 1} : j <= k})]
  <2>1. ASSUME NEW k \in S
        PROVE  c[k].data_idx = BySize[Cardinality({j \in S \cup {n + 1} : j <= k})]
    <3>1. {j \in S \cup {n + 1} : j <= k} = {j \in S : j <= k} /\ c[k] = list[k]
      BY <1>1, <1>8
    <3>2. list[k].data_idx = BySize[Cardinality({j \in S : j <= k})]
      BY DEF Forest, S
    <3> QED BY <3>1, <3>2
  <2>2. {j \in S \cup {n + 1} : j <= n + 1} = S \cup {n + 1} /\ c[n + 1].data_idx = d
    <3>1. \A j \in 1 .. n : j <= n + 1
      BY <1>1
    <3>2. \A j \in S : j <= n + 1
      BY <1>8, <3>1
    <3> QED BY <1>1, <1>2, <3>2
  <2> QED BY <1>12, <2>1, <2>2
<1>14. m + 1 \in Nat
  OBVIOUS
<1>15. Forest(c, m + 1, open)
  BY <1>1, <1>7, <1>9, <1>12, <1>13, <1>14 DEF Forest
<1> QED BY <1>15 DEF c

\* In a forest the nearest row further out is the one a row hangs from.
LEMMA ForestNests ==
  ASSUME NEW open, NEW m, NEW list, Forest(list, m, open)
  PROVE  Nested(list, open)
<1>1. list \in Seq(VisibleRow) /\ DOMAIN list = 1 .. Len(list) /\ Len(list) \in Nat
  BY DEF Forest
<1> SUFFICES ASSUME NEW k \in 1 .. Len(list), list[k].indent > 0
             PROVE  LET Outer == {j \in 1 .. k - 1 : list[j].indent < list[k].indent}
                        up    == list[Max(Outer)]
                    IN  /\ Outer # {}
                        /\ up.indent = list[k].indent - 1
                        /\ up.data_idx = list[k].parent_data_idx
                        /\ up.data_idx \in open
                        /\ list[k].data_idx \in ToSet(Children[up.data_idx])
  BY <1>1 DEF Nested
<1>2. PICK j : Hangs(list, open, k, j)
  BY DEF Forest
<1>3. \A i \in 1 .. Len(list) : list[i].indent \in Nat
  BY <1>1, RowTypes
<1> DEFINE Outer == {i \in 1 .. k - 1 : list[i].indent < list[k].indent}
<1>4. j \in Outer
  <2>1. j \in 1 .. k - 1 /\ j \in 1 .. Len(list)
    BY <1>1, <1>2 DEF Hangs
  <2> QED BY <1>2, <1>3, <2>1 DEF Hangs
<1>5. \A i \in Outer : i <= j /\ i \in 1 .. Len(list)
  <2> SUFFICES ASSUME NEW i \in Outer PROVE i <= j /\ i \in 1 .. Len(list)
    OBVIOUS
  <2>1. i \in 1 .. k - 1 /\ list[i].indent < list[k].indent /\ i \in 1 .. Len(list)
    BY <1>1
  <2>2. i \in j + 1 .. k - 1 => list[i].indent >= list[k].indent
    BY <1>2 DEF Hangs
  <2>3. i \notin j + 1 .. k - 1
    BY <1>3, <2>1, <2>2
  <2> QED BY <1>4, <2>1, <2>3
<1>6. Max(Outer) = j
  <2>1. \A i \in Outer : i \in Int
    OBVIOUS
  <2> HIDE DEF Outer
  <2>2. \A x \in Outer : (\A y \in Outer : x >= y) => x = j
    BY <1>4, <1>5, <2>1
  <2>3. j \in Outer /\ \A y \in Outer : j >= y
    BY <1>4, <1>5, <2>1
  <2> QED BY <2>2, <2>3 DEF Max
<1> QED BY <1>2, <1>4, <1>6 DEF Hangs

LEMMA RowsOfBlocks ==
  ASSUME NEW open, NEW d \in Data
  PROVE  Block(RowsOf(open)[d], TopRow(d), open)
<1>1. PICK g : /\ \A row \in VisibleRow : g[row] = RowsAt(g, row, open)
               /\ RowsOf(open) = [e \in Data |-> g[TopRow(e)]]
  BY RowsFunction
<1>2. TopRow(d) \in VisibleRow
  BY DEF TopRow, VisibleRow
<1>3. Block(g[TopRow(d)], TopRow(d), open)
  BY <1>1, <1>2, RowsAreBlocks
<1> QED BY <1>1, <1>3

\* The list after k entries: a forest of the biggest ones, all k of them unless the
\* list is already too long.
Built(list, k, open) ==
  \E m \in 0 .. k : Forest(list, m, open) /\ (m < k => Len(list) > MaxRows)

LEMMA BuiltGrows ==
  ASSUME NEW open, NEW k \in 1 .. TreeLen, NEW list, Built(list, k - 1, open)
  PROVE  Built(IF Len(list) > MaxRows THEN list ELSE list \o RowsOf(open)[BySize[k]], k, open)
<1>1. PICK m \in 0 .. k - 1 : Forest(list, m, open) /\ (m < k - 1 => Len(list) > MaxRows)
  BY DEF Built
<1>2. CASE Len(list) > MaxRows
  <2>1. m \in 0 .. k
    OBVIOUS
  <2> QED BY <1>1, <1>2, <2>1 DEF Built
<1>3. CASE ~(Len(list) > MaxRows)
  <2>1. m = k - 1 /\ m \in Nat /\ m + 1 = k /\ k \in 0 .. k /\ ~(k < k)
    BY <1>1, <1>3
  <2>2. BySize[k] \in Data
    BY RowsAssumption
  <2>3. Block(RowsOf(open)[BySize[k]], TopRow(BySize[k]), open)
    BY <2>2, RowsOfBlocks
  <2>4. Forest(list \o RowsOf(open)[BySize[k]], m + 1, open)
    BY <1>1, <2>1, <2>2, <2>3, ForestGrows
  <2> QED BY <1>3, <2>1, <2>4 DEF Built
<1> QED BY <1>2, <1>3

\* The fold over the entries in order of size.
LEMMA ListIsBuilt ==
  ASSUME NEW open
  PROVE  Built(VisibleList(open), TreeLen, open)
<1> DEFINE rows == RowsOf(open)
           Push(list, d) == IF Len(list) > MaxRows THEN list ELSE list \o rows[d]
           D == 1 .. TreeLen
           F == [x \in D \X Seq(VisibleRow) |-> Push(x[2], BySize[x[1]])]
           ch == Largest(TreeLen)
           Copies(g) == g = [t \in SUBSET D |->
                               IF t = {} THEN <<>> ELSE Push(g[t \ {Max(t)}], BySize[Max(t)])]
           g == CHOOSE g : Copies(g)
<1>1. TreeLen \in Nat /\ DOMAIN BySize = D /\ \A i \in D : BySize[i] \in Data
  BY RowsAssumption
<1>2. IsFiniteSet(D) /\ Chooses(ch, D)
  BY <1>1, FS_Interval, MaxOfInterval
<1>3. PICK h : IsFold(h, F, <<>>, ch, D)
  <2> HIDE DEF F, ch, D
  <2> QED BY <1>2, FoldExists
<1>4. \A t \in SUBSET D : h[t] \in Seq(VisibleRow)
  <2>1. <<>> \in Seq(VisibleRow)
    BY EmptySeq
  <2>2. ASSUME NEW x \in D, NEW a \in Seq(VisibleRow) PROVE F[<<x, a>>] \in Seq(VisibleRow)
    <3>1. rows[BySize[x]] \in Seq(VisibleRow)
      BY <1>1, RowsOfBlocks DEF Block
    <3>2. a \o rows[BySize[x]] \in Seq(VisibleRow)
      BY <3>1, ConcatProperties
    <3>3. F[<<x, a>>] = Push(a, BySize[x])
      OBVIOUS
    <3> QED BY <3>2, <3>3
  <2> HIDE DEF F, ch, D
  <2> QED BY <1>2, <1>3, <2>1, <2>2, FoldStays
<1>5. \A t \in SUBSET D : t # {} => Max(t) \in t /\ ch[t] = Max(t)
  BY <1>2 DEF Chooses, Largest
<1>6. Copies(h)
  <2>1. h = [t \in SUBSET D |-> IF t = {} THEN <<>> ELSE F[<<ch[t], h[t \ {ch[t]}]>>]]
    BY <1>3 DEF IsFold
  <2>2. ASSUME NEW t \in SUBSET D, t # {}
        PROVE  F[<<ch[t], h[t \ {ch[t]}]>>] = Push(h[t \ {Max(t)}], BySize[Max(t)])
    <3>1. Max(t) \in D /\ ch[t] = Max(t) /\ h[t \ {Max(t)}] \in Seq(VisibleRow)
      BY <1>4, <1>5, <2>2
    <3>2. \A i \in D : \A a \in Seq(VisibleRow) : F[<<i, a>>] = Push(a, BySize[i])
      OBVIOUS
    <3> HIDE DEF F, Push
    <3> QED BY <3>1, <3>2
  <2> HIDE DEF F, Push, ch
  <2>3. h = [t \in SUBSET D |-> IF t = {} THEN <<>> ELSE Push(h[t \ {Max(t)}], BySize[Max(t)])]
    BY <2>1, <2>2
  <2> QED BY <2>3
<1>7. Copies(g)
  <2> HIDE DEF Copies
  <2> QED BY <1>6
<1>8. VisibleList(open) = g[D]
  BY <1>1, Zenon DEF VisibleList, FoldLeft, MapThenFoldSet
<1> HIDE DEF g, F, ch, rows
<1>9. /\ g[{}] = <<>>
      /\ \A t \in SUBSET D : t # {} => g[t] = Push(g[t \ {Max(t)}], BySize[Max(t)])
  BY <1>7
<1> DEFINE T == {k \in 0 .. TreeLen : ~Built(g[1 .. k], k, open)}
<1>10. T = {}
  <2> SUFFICES ASSUME T # {} PROVE FALSE
    OBVIOUS
  <2>1. PICK k \in T : \A l \in T : k <= l
    <3>1. T \in SUBSET Nat
      OBVIOUS
    <3> HIDE DEF T
    <3> QED BY <3>1, LeastNumber
  <2>2. k \in 0 .. TreeLen /\ ~Built(g[1 .. k], k, open)
    OBVIOUS
  <2>3. CASE k = 0
    <3>1. 1 .. 0 = {} /\ 0 \in 0 .. 0 /\ ~(0 < 0)
      OBVIOUS
    <3>2. Built(<<>>, 0, open)
      BY <3>1, NoForest DEF Built
    <3>3. g[1 .. k] = <<>>
      BY <1>9, <2>3, <3>1
    <3> QED BY <2>2, <2>3, <3>2, <3>3
  <2>4. CASE k # 0
    <3>1. k - 1 \in 0 .. TreeLen /\ ~(k <= k - 1) /\ k \in 1 .. TreeLen
      BY <1>1, <2>2, <2>4
    <3>2. Built(g[1 .. k - 1], k - 1, open)
      BY <2>1, <3>1
    <3>3. Max(1 .. k) = k /\ (1 .. k) \ {k} = 1 .. k - 1
      BY <1>1, <3>1, MaxOfInterval
    <3>4. 1 .. k \in SUBSET D /\ 1 .. k # {}
      <4>1. \A i \in 1 .. k : i \in 1 .. TreeLen
        BY <1>1, <3>1
      <4>2. k \in 1 .. k
        BY <3>1
      <4> QED BY <4>1, <4>2
    <3>5. g[1 .. k] = Push(g[1 .. k - 1], BySize[k])
      BY <1>9, <3>3, <3>4
    <3>6. Built(Push(g[1 .. k - 1], BySize[k]), k, open)
      BY <3>1, <3>2, BuiltGrows DEF rows
    <3> QED BY <2>2, <3>5, <3>6
  <2> QED BY <2>3, <2>4
<1>11. TreeLen \in 0 .. TreeLen
  BY <1>1
<1> QED BY <1>8, <1>10, <1>11

\* The rows of size mode, whatever is expanded.
LEMMA ListsNest ==
  ASSUME NEW open
  PROVE  /\ VisibleList(open) \in Seq(VisibleRow)
         /\ TopsInOrder(VisibleList(open)) /\ Nested(VisibleList(open), open)
<1> DEFINE list == VisibleList(open)
<1>1. PICK m \in 0 .. TreeLen : Forest(list, m, open) /\ (m < TreeLen => Len(list) > MaxRows)
  BY ListIsBuilt DEF Built
<1> HIDE DEF list
<1>2. list \in Seq(VisibleRow) /\ TopsInOrder(list)
  BY <1>1 DEF Forest, TopsInOrder
<1>3. Nested(list, open)
  BY <1>1, ForestNests
<1> QED BY <1>2, <1>3 DEF list

-----------------------------------------------------------------------------
(* The tree page                                                           *)

\* What the handlers of the tree page rely on: the cursor may be behind the list.
TreeInv ==
  /\ cursor \in Nat /\ viewport \in Nat /\ sizeMode \in BOOLEAN
  /\ selected \subseteq Data /\ expanded \subseteq IsDir
  /\ height \in Heights /\ handled \in 0 .. EventsPerFrame
  /\ frame.cursor \in Nat /\ frame.viewport \in Nat /\ frame.page \in 0 .. UsizeSpan - 1
  /\ frame.selected \subseteq Data /\ frame.expanded \subseteq IsDir

LEMMA TreeFacts ==
  /\ LastEntry \in Nat /\ IsFiniteSet(Data)
  /\ \A c \in Nat : c < TreeLen => c \in Data
  /\ \A h \in Heights : PageOf(h) \in 0 .. UsizeSpan - 1
<1>1. TreeLen \in Nat /\ TreeLen - 1 \in Int
  BY RowsAssumption
<1>2. IsFiniteSet(Data)
  BY <1>1, FS_Interval DEF Data
<1>3. LastEntry \in Nat
  BY <1>1 DEF LastEntry, SatSub
<1>4. \A c \in Nat : c < TreeLen => c \in Data
  BY <1>1 DEF Data
<1> QED BY <1>2, <1>3, <1>4, ListFacts

LEMMA MovesWithin ==
  ASSUME NEW delta \in Int, NEW c \in Nat, NEW maxIdx \in Nat
  PROVE  MovedCursor(delta, c, maxIdx) \in Nat
BY DEF MovedCursor, SatSub

\* The rows that the page shows.
LEMMA RowTypesOfPage ==
  ASSUME NEW open, open \subseteq IsDir, NEW c \in Nat, c < Len(VisibleLists[open])
  PROVE  Row(VisibleLists[open], c).data_idx \in Data
<1>1. PICK list \in Seq(VisibleRow) : list = VisibleLists[open]
  BY ListsNest DEF VisibleLists
<1>2. c + 1 \in 1 .. Len(list)
  BY <1>1, LenProperties
<1>3. list[c + 1].data_idx \in Data
  BY <1>2, RowTypes
<1> QED BY <1>1, <1>3 DEF Row

LEMMA InitialTree == TreeInit => TreeInv /\ JobsInv(Data)
<1> SUFFICES ASSUME TreeInit PROVE TreeInv /\ JobsInv(Data)
  OBVIOUS
<1>1. JobsInv(Data)
  BY TreeFacts, InitialJobs DEF TreeInit
<1>2. /\ cursor = 0 /\ viewport = 0 /\ sizeMode = TRUE /\ selected = {} /\ expanded = {}
      /\ height \in Heights /\ handled = 0
      /\ frame.cursor = 0 /\ frame.viewport = 0 /\ frame.selected = {} /\ frame.expanded = {}
      /\ frame.page = PageOf(height)
  BY DEF TreeInit
<1>3. 0 \in 0 .. EventsPerFrame
  BY PageAssumption
<1> QED BY <1>1, <1>2, <1>3, TreeFacts DEF TreeInv

LEMMA TreeRenders ==
  ASSUME TreeInv, JobsInv(Data), TreeRender
  PROVE  TreeInv' /\ JobsInv(Data)'
<1>1. JobsInv(Data)'
  BY TreeFacts, PollKeeps DEF TreeRender
<1>2. /\ frame'.cursor = cursor /\ frame'.viewport = viewport
      /\ frame'.selected = selected /\ frame'.expanded = expanded
      /\ frame'.page = PageOf(height) /\ handled' = 0
      /\ UNCHANGED <<cursor, viewport, sizeMode, selected, expanded, height>>
  BY DEF TreeRender, TreeSnapshot, treePageVars
<1>3. 0 \in 0 .. EventsPerFrame
  BY PageAssumption
<1> QED BY <1>1, <1>2, <1>3, TreeFacts DEF TreeInv

\* A handler of the tree page that leaves the deletions alone.
LEMMA TreeHandles ==
  ASSUME TreeInv, JobsInv(Data), Handle, UNCHANGED <<message, jobVars>>,
         cursor' \in Nat, viewport' \in Nat, sizeMode' \in BOOLEAN,
         selected' \subseteq Data, expanded' \subseteq IsDir
  PROVE  TreeInv' /\ JobsInv(Data)'
<1>1. handled' \in 0 .. EventsPerFrame /\ dirty' \in BOOLEAN /\ UNCHANGED <<height, frame>>
  BY PageAssumption DEF TreeInv, Handle
<1>2. JobsInv(Data)'
  BY <1>1, OtherKeeps
<1> QED BY <1>1, <1>2 DEF TreeInv

LEMMA TreeMoves ==
  ASSUME TreeInv, JobsInv(Data), Handle, NEW c \in Nat, NEW v \in Nat, TreeMove(c, v)
  PROVE  TreeInv' /\ JobsInv(Data)'
<1>1. /\ cursor' = c /\ viewport' = v
      /\ UNCHANGED <<sizeMode, selected, expanded>> /\ UNCHANGED <<message, jobVars>>
  BY DEF TreeMove
<1> QED BY <1>1, TreeHandles DEF TreeInv

LEMMA TreeEvents ==
  ASSUME TreeInv, JobsInv(Data), TreeEvent
  PROVE  TreeInv' /\ JobsInv(Data)'
<1>1. PICK c \in Nat, v \in Nat, page \in 0 .. UsizeSpan - 1 :
        c = frame.cursor /\ v = frame.viewport /\ page = frame.page
  BY DEF TreeInv
<1>2. frame.selected \subseteq Data /\ frame.expanded \subseteq IsDir /\ IsDir \subseteq Data
  BY RowsAssumption DEF TreeInv
<1>3. page \in Nat
  BY UsizeAssumption
<1>4. CASE TreeScroll
  <2>1. PICK delta \in {1, -1, page, -page, 3, -3} :
          LET d == MovedCursor(delta, c, LastEntry)
          IN  TreeMove(d, MovedViewport(d, v, page))
    BY <1>1, <1>4 DEF TreeScroll
  <2>2. PICK d : d = MovedCursor(delta, c, LastEntry)
    OBVIOUS
  <2>3. delta \in Int
    BY <1>3, <2>1
  <2>4. d \in Nat
    BY <2>2, <2>3, TreeFacts, MovesWithin
  <2>5. MovedViewport(d, v, page) \in 0 .. d
    BY <2>4, ViewportFollows
  <2>6. MovedViewport(d, v, page) \in Nat
    BY <2>4, <2>5
  <2> QED BY <1>4, <2>1, <2>2, <2>4, <2>6, TreeMoves DEF TreeScroll
<1>5. CASE TreeHome
  BY <1>5, TreeMoves DEF TreeHome
<1>6. CASE TreeEnd
  <2>1. Pred(page) \in Nat
    BY PredNat
  <2>2. SatSub(LastEntry, Pred(page)) \in Nat
    BY <2>1, TreeFacts DEF SatSub
  <2> QED BY <1>1, <1>6, <2>2, TreeFacts, TreeMoves DEF TreeEnd
<1>7. CASE SwitchMode
  <2>1. /\ Handle /\ UNCHANGED <<message, jobVars>> /\ sizeMode' = ~frame.sizeMode
        /\ cursor' = 0 /\ viewport' = 0 /\ UNCHANGED <<selected, expanded>>
    BY <1>7 DEF SwitchMode
  <2>2. sizeMode' \in BOOLEAN /\ selected' \subseteq Data /\ expanded' \subseteq IsDir
    BY <2>1 DEF TreeInv
  <2> QED BY <2>1, <2>2, TreeHandles
<1>8. CASE Expand
  <2>1. /\ Handle /\ UNCHANGED <<message, jobVars>>
        /\ expanded' \subseteq IsDir /\ UNCHANGED <<cursor, viewport, sizeMode, selected>>
    BY <1>2, <1>8 DEF Expand
  <2> QED BY <2>1, TreeHandles DEF TreeInv
<1>9. CASE Collapse
  <2>1. /\ Handle /\ UNCHANGED <<message, jobVars>>
        /\ expanded' \subseteq IsDir /\ UNCHANGED <<cursor, viewport, sizeMode, selected>>
    BY <1>2, <1>9 DEF Collapse
  <2> QED BY <2>1, TreeHandles DEF TreeInv
<1>10. CASE TreeToggle
  <2>1. /\ Handle /\ UNCHANGED <<message, jobVars>>
        /\ selected' = Flip(frame.selected, EntryAtCursor)
        /\ EntryAtCursor < TreeLen
        /\ UNCHANGED <<cursor, viewport, sizeMode, expanded>>
    BY <1>10 DEF TreeToggle
  <2>2. EntryAtCursor \in Data
    BY <1>1, <1>2, <2>1, TreeFacts, RowTypesOfPage DEF EntryAtCursor
  <2>3. selected' \subseteq Data
    BY <1>2, <2>1, <2>2 DEF Flip
  <2> QED BY <2>1, <2>3, TreeHandles DEF TreeInv
<1>11. CASE TreeToggleAll
  <2>1. /\ Handle /\ UNCHANGED <<message, jobVars>>
        /\ selected' \subseteq Data /\ UNCHANGED <<cursor, viewport, sizeMode, expanded>>
    BY <1>11 DEF TreeToggleAll, Data, Data
  <2> QED BY <2>1, TreeHandles DEF TreeInv
<1>12. CASE TreeClick
  <2>1. /\ Handle /\ UNCHANGED <<message, jobVars>>
        /\ UNCHANGED <<viewport, sizeMode, expanded>>
        /\ cursor' \in v .. v + page - 1
        /\ cursor' < VisLen(frame.sizeMode, frame.expanded)
        /\ selected' = Flip(frame.selected,
                                 IF frame.sizeMode
                                 THEN Row(VisibleLists[frame.expanded], cursor').data_idx
                                 ELSE cursor')
    BY <1>1, <1>12 DEF TreeClick
  <2>2. cursor' \in Nat
    BY <1>3, <2>1
  <2>3. CASE frame.sizeMode
    <3>1. Row(VisibleLists[frame.expanded], cursor').data_idx \in Data
      BY <1>2, <2>1, <2>2, <2>3, RowTypesOfPage DEF VisLen
    <3>2. selected' \subseteq Data
      BY <1>2, <2>1, <2>3, <3>1 DEF Flip
    <3> QED BY <2>1, <2>2, <3>2, TreeHandles DEF TreeInv
  <2>4. CASE ~frame.sizeMode
    <3>1. cursor' \in Data
      BY <2>1, <2>2, <2>4, TreeFacts DEF VisLen
    <3>2. selected' \subseteq Data
      BY <1>2, <2>1, <2>4, <3>1 DEF Flip
    <3> QED BY <2>1, <2>2, <3>2, TreeHandles DEF TreeInv
  <2> QED BY <2>3, <2>4
<1>13. CASE TreeDelete
  <2>1. /\ Handle /\ UNCHANGED <<cursor, viewport, sizeMode, selected, expanded>>
        /\ StartJobs(frame.selected) \/ StartNothing(frame.selected)
    BY <1>13 DEF TreeDelete, treePageVars
  <2>2. handled' \in 0 .. EventsPerFrame /\ dirty' \in BOOLEAN /\ UNCHANGED <<height, frame>>
    BY <2>1, PageAssumption DEF TreeInv, Handle
  <2>3. JobsInv(Data)'
    BY <1>2, <2>1, <2>2, TreeFacts, StartKeeps, NothingKeeps
  <2> QED BY <2>1, <2>2, <2>3 DEF TreeInv
<1> QED BY <1>4, <1>5, <1>6, <1>7, <1>8, <1>9, <1>10, <1>11, <1>12, <1>13 DEF TreeEvent

LEMMA TreeStep ==
  TreeInv /\ JobsInv(Data) /\ [TreeNext]_treeVars => TreeInv' /\ JobsInv(Data)'
<1> SUFFICES ASSUME TreeInv, JobsInv(Data), [TreeNext]_treeVars
             PROVE  TreeInv' /\ JobsInv(Data)'
  OBVIOUS
<1>1. CASE TreeJobEnds
  <2>1. /\ \E i \in running : RmEnds(i)
        /\ UNCHANGED <<cursor, viewport, sizeMode, selected, expanded, height, frame, handled>>
    BY <1>1 DEF TreeJobEnds, treePageVars
  <2> QED BY <2>1, EndKeeps DEF TreeInv
<1>2. CASE TreeResize
  <2>1. /\ height' \in Heights /\ dirty' \in BOOLEAN /\ UNCHANGED <<message, jobVars>>
        /\ UNCHANGED <<cursor, viewport, sizeMode, selected, expanded, frame, handled>>
    BY <1>2 DEF TreeResize, treePageVars
  <2>2. JobsInv(Data)'
    BY <2>1, OtherKeeps
  <2> QED BY <2>1, <2>2 DEF TreeInv
<1>3. CASE UNCHANGED treeVars
  <2>1. /\ UNCHANGED <<cursor, viewport, sizeMode, selected, expanded, height, frame, handled>>
        /\ UNCHANGED <<message, jobVars>> /\ dirty' = dirty
    BY <1>3 DEF treeVars, treePageVars
  <2>2. JobsInv(Data)'
    BY <2>1, OtherKeeps DEF JobsInv, JobsTypeOK
  <2> QED BY <2>1, <2>2 DEF TreeInv
<1> QED BY <1>1, <1>2, <1>3, TreeRenders, TreeEvents DEF TreeNext

LEMMA TreeInvariant == TreeSpec => [](TreeInv /\ JobsInv(Data))
BY InitialTree, TreeStep, PTL DEF TreeSpec

-----------------------------------------------------------------------------
(* Theorems about the tree page                                            *)

\* The types: whatever stale frame a handler acts on, it marks entries that there are
\* and expands only directories (tui_app.rs 471-480, 499-506).
THEOREM TreeTypes == TreeSpec => []TreeTypeOK
<1>1. TreeInv /\ JobsInv(Data) => TreeTypeOK
  BY DEF TreeInv, JobsInv, TreeTypeOK
<1> QED BY <1>1, TreeInvariant, PTL

\* The rows are a forest in preorder with the entries in order of size at the top, for
\* every index of children, every order of size and every set of expanded directories,
\* also where the list is cut (tui_app.rs 378-410).
THEOREM RowsAlwaysNest == TreeSpec => []RowsNest
<1>1. TreeInv => RowsNest
  <2> SUFFICES ASSUME TreeInv PROVE RowsNest
    OBVIOUS
  <2>1. frame.expanded \subseteq IsDir
    BY DEF TreeInv
  <2>2. VisibleLists[frame.expanded] = VisibleList(frame.expanded)
    BY <2>1 DEF VisibleLists
  <2>3. /\ TopsInOrder(VisibleList(frame.expanded))
        /\ Nested(VisibleList(frame.expanded), frame.expanded)
    BY ListsNest
  <2> QED BY <2>2, <2>3 DEF RowsNest
<1> QED BY <1>1, TreeInvariant, PTL

\* The footer of the tree page tells the truth as well (tui_app.rs 426-440).
THEOREM TreeMessageIsTrue == TreeSpec => []MessageTellsState
<1>1. JobsInv(Data) => MessageTellsState
  BY DEF JobsInv
<1> QED BY <1>1, TreeInvariant, PTL

=============================================================================
