------------------------------ MODULE ReadDir ------------------------------
(***************************************************************************)
(* What `DirReader::read_dir` (src/src/walker.rs 37-43) promises to the    *)
(* pool, whatever the platform: children of the directory are reported     *)
(* one by one, none twice; Ok means that all have been, Err may come after *)
(* any part of them; and it returns.  WorkPool's Yields are the results of *)
(* such calls, DirReaders implements them.                                 *)
(***************************************************************************)
EXTENDS Sequences

VARIABLES
  children,   \* the entries of the directory
  reported,   \* the sequence of entries handed to each_entry
  outcome     \* "none" while read_dir runs, then "ok" or "err"

vars == <<children, reported, outcome>>

Init ==
  /\ reported = <<>>
  /\ outcome = "none"

Report(e) ==
  /\ outcome = "none"
  /\ \A k \in DOMAIN reported : reported[k] # e
  /\ reported' = Append(reported, e)
  /\ UNCHANGED <<children, outcome>>

Succeed ==
  /\ outcome = "none"
  /\ \A e \in children : \E k \in DOMAIN reported : reported[k] = e
  /\ outcome' = "ok"
  /\ UNCHANGED <<children, reported>>

Fail ==
  /\ outcome = "none"
  /\ outcome' = "err"
  /\ UNCHANGED <<children, reported>>

Next == (\E e \in children : Report(e)) \/ Succeed \/ Fail

Spec == Init /\ [][Next]_vars /\ WF_vars(Next)
=============================================================================
