------------------------------- MODULE PageOps -------------------------------
(***************************************************************************)
(* The cursor arithmetic that both pages of src/src/tui_app.rs share.  The *)
(* numbers are usize: a release build wraps, saturating_sub stops at zero. *)
(***************************************************************************)
EXTENDS Integers

CONSTANT UsizeSpan  \* 2^64, or any number above all row counts

ASSUME UsizeAssumption == UsizeSpan \in Nat \ {0}

SatSub(a, b) == IF b > a THEN 0 ELSE a - b

\* page - 1, which wraps on a terminal that leaves no row.
Pred(page) == (page - 1) % UsizeSpan

\* The page that a terminal of so many lines has room for.
PageOf(lines) == SatSub(lines, 5)

\* scroll_by: the cursor moves by delta within 0 .. maxIdx ...
MovedCursor(delta, cursor, maxIdx) ==
  IF delta > 0
  THEN IF cursor + delta < maxIdx THEN cursor + delta ELSE maxIdx
  ELSE SatSub(cursor, -delta)

\* Fault: the row below the last visible one is taken for visible.
MovedViewport_OneLate(cursor, viewport, page) ==
  LET low == IF cursor > viewport + page THEN SatSub(cursor, Pred(page)) ELSE viewport
  IN  IF cursor < low THEN cursor ELSE low

\* ... and the viewport follows it.
MovedViewport(cursor, viewport, page) ==
  LET low == IF cursor >= viewport + page THEN SatSub(cursor, Pred(page)) ELSE viewport
  IN  IF cursor < low THEN cursor ELSE low
=============================================================================
