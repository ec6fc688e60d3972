------------------------------ MODULE JunkPage ------------------------------
(***************************************************************************)
(* The junk page of src/src/tui_app.rs: `junk_content` with its handlers.  *)
(***************************************************************************)
EXTENDS PageState

CONSTANT NumHits  \* HITS.len()

ASSUME HitsAssumption == NumHits \in Nat

Hits == 0 .. NumHits - 1

LastHit == SatSub(NumHits, 1)

VARIABLE adrift  \* may the cursor be off the screen?

pageVars == <<selected, cursor, viewport>>
vars == <<pageVars, message, jobVars, height, frame, handled, dirty, adrift>>

Snapshot(page) ==
  [selected |-> selected, cursor |-> cursor, viewport |-> viewport, page |-> page]

\* The use_state calls: every hit is marked.
Init ==
  /\ selected = Hits
  /\ cursor = 0
  /\ viewport = 0
  /\ InitJobs
  /\ height \in Heights
  /\ frame = [selected |-> Hits, cursor |-> 0, viewport |-> 0, page |-> PageOf(height)]
  /\ handled = 0
  /\ adrift = FALSE

-----------------------------------------------------------------------------
(* A frame                                                                 *)

Render ==
  /\ dirty
  /\ Poll
  /\ frame' = Snapshot(PageOf(height))
  /\ handled' = 0
  /\ adrift' = (adrift \/ PageOf(height) # frame.page)
  /\ UNCHANGED <<pageVars, batchVars, height>>

-----------------------------------------------------------------------------
(* The handlers of the frame on the screen                                 *)

\* The cursor and the viewport are set together, for the page of the frame.
Move(c, v) ==
  /\ cursor' = c
  /\ viewport' = v
  /\ adrift' = FALSE
  /\ UNCHANGED <<selected, message, jobVars>>

\* j, k, PageUp, PageDown and the wheel.
Scroll ==
  /\ Handle
  /\ \E delta \in {1, -1, frame.page, -frame.page, 3, -3} :
       LET c == MovedCursor(delta, frame.cursor, LastHit)
       IN  Move(c, MovedViewport(c, frame.viewport, frame.page))

Home == Handle /\ Move(0, 0)

\* Fault: the cursor goes behind the last hit.
End_BehindLast == Handle /\ Move(NumHits, SatSub(NumHits, Pred(frame.page)))

End == Handle /\ Move(LastHit, SatSub(LastHit, Pred(frame.page)))

\* Space: the mark under the cursor changes.
Toggle ==
  /\ Handle
  /\ frame.cursor < NumHits
  /\ selected' = Flip(frame.selected, frame.cursor)
  /\ UNCHANGED <<cursor, viewport, message, jobVars, adrift>>

\* a: all marks on, or all off when all are on.
ToggleAll ==
  /\ Handle
  /\ selected' = IF frame.selected = Hits THEN {} ELSE Hits
  /\ UNCHANGED <<cursor, viewport, message, jobVars, adrift>>

\* A click on a row of the frame: the cursor goes there and the mark changes; the
\* viewport stays as it is now.
Click ==
  /\ Handle
  /\ \E i \in Hits :
       /\ frame.viewport <= i /\ i < frame.viewport + frame.page
       /\ cursor' = i
       /\ selected' = Flip(frame.selected, i)
  /\ adrift' = (viewport # frame.viewport)
  /\ UNCHANGED <<viewport, message, jobVars>>

\* d or Enter.
Delete ==
  /\ Handle
  /\ StartJobs(frame.selected) \/ StartNothing(frame.selected)
  /\ UNCHANGED <<pageVars, adrift>>

-----------------------------------------------------------------------------
JobEnds ==
  /\ \E i \in running : RmEnds(i)
  /\ UNCHANGED <<pageVars, height, frame, handled, adrift>>

\* The user changes the size of the terminal: kou-ui draws another frame.
Resize ==
  /\ height' \in Heights \ {height}
  /\ dirty' = TRUE
  /\ UNCHANGED <<pageVars, message, jobVars, frame, handled, adrift>>

Event ==
  \/ Scroll \/ Home \/ End \/ Toggle \/ ToggleAll \/ Click \/ Delete

Next == Render \/ Event \/ Resize \/ JobEnds

Spec == Init /\ [][Next]_vars

\* A frame that was asked for is drawn, and every rm ends.
FairSpec ==
  /\ Spec
  /\ WF_vars(Render)
  /\ \A i \in Hits : WF_vars(RmEnds(i) /\ UNCHANGED <<pageVars, height, frame, handled, adrift>>)

-----------------------------------------------------------------------------
\* Every state keeps its type; the cursor and the viewport index a hit (tui_app.rs 261-264).
TypeOK ==
  /\ selected \subseteq Hits
  /\ cursor \in 0 .. LastHit
  /\ viewport \in 0 .. LastHit
  /\ JobsTypeOK(Hits)
  /\ height \in Heights
  /\ frame.cursor \in 0 .. LastHit
  /\ handled \in 0 .. EventsPerFrame
  /\ adrift \in BOOLEAN

\* Only a resize, or a click on a frame that an earlier event has scrolled away, takes
\* the cursor off the screen, and the next move brings it back (tui_app.rs 201-205).
CursorOnScreen ==
  ~adrift /\ frame.page > 0 => viewport <= cursor /\ cursor < viewport + frame.page
=============================================================================
