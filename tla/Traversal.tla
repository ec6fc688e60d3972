----------------------------- MODULE Traversal -----------------------------
(***************************************************************************)
(* What a parallel directory walk promises, whatever the pool does: from   *)
(* the root tasks on, every directory accepted for descent is listed       *)
(* exactly once, all it yields is reported once, and the walk returns only *)
(* when nothing is left to list.  WorkPool implements it.                  *)
(***************************************************************************)
EXTENDS Sequences

CONSTANTS
  Enterable,    \* the entries a walk may descend into, by their kind
  RootTasks     \* the directories the walk starts from

VARIABLES
  yields,       \* yields[d]: what reading directory d yields in this walk
  frontier,     \* directories still to be listed
  listed,       \* directories whose listing is complete
  reported,     \* entries handed to the caller
  returned      \* has the walk returned?

vars == <<yields, frontier, listed, reported, returned>>

Init ==
  /\ frontier = {RootTasks[i] : i \in DOMAIN RootTasks}
  /\ listed = {}
  /\ reported = {}
  /\ returned = FALSE

(***************************************************************************)
(* A directory of the frontier is listed: all that the reader yields for   *)
(* it is new, and the entries in sub join the frontier.                    *)
(***************************************************************************)
List(d, sub) ==
  /\ d \in frontier \ listed
  /\ yields[d] \cap reported = {}
  /\ frontier' = (frontier \ {d}) \cup sub
  /\ listed' = listed \cup {d}
  /\ reported' = reported \cup yields[d]
  /\ UNCHANGED <<yields, returned>>

Return ==
  /\ frontier = {}
  /\ returned' = TRUE
  /\ UNCHANGED <<yields, frontier, listed, reported>>

Next ==
  \/ \E d \in frontier : \E sub \in SUBSET (yields[d] \cap Enterable) : List(d, sub)
  \/ Return

Spec == Init /\ [][Next]_vars /\ WF_vars(Next)
=============================================================================
