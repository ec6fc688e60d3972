----------------------------- MODULE PageState ------------------------------
(***************************************************************************)
(* What the two pages of src/src/tui_app.rs have in common besides their   *)
(* deletions.  The content function of a page is called for every frame,   *)
(* reads the states that kou-ui keeps for it, and builds handlers that     *)
(* close over the values of that frame.                                    *)
(*                                                                         *)
(* kou-ui is external.  Up to EventsPerFrame events reach the handlers of  *)
(* one frame; from the second on they act on values that an earlier one    *)
(* has replaced.                                                           *)
(***************************************************************************)
EXTENDS PageOps, DeleteJobs

CONSTANTS
  Heights,        \* the heights of terminal the user can choose
  EventsPerFrame

\* A height is a usize like the rows.
ASSUME PageAssumption ==
  /\ Heights \subseteq 0 .. UsizeSpan - 1
  /\ EventsPerFrame \in Nat

VARIABLES
  selected,    \* the set of marked entries (a Vec<bool> in the code)
  cursor, viewport,
  height,      \* the height of the terminal
  frame,       \* the values the handlers on the screen close over
  handled      \* events handled since that frame

\* A handler of the frame on the screen is called, and what it sets asks for a frame.
Handle ==
  /\ handled < EventsPerFrame
  /\ handled' = handled + 1
  /\ dirty' = TRUE
  /\ UNCHANGED <<height, frame>>

\* A mark changes.
Flip(set, i) == IF i \in set THEN set \ {i} ELSE set \cup {i}
=============================================================================
