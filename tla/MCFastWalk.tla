----------------------------- MODULE MCFastWalk -----------------------------
(***************************************************************************)
(* A root with a directory "a" and a symbolic link "l" to a directory;     *)
(* each holds one entry.  "a" may be unreadable.                           *)
(***************************************************************************)
EXTENDS FastWalk

MCPath == {"r", "a", "l", "f", "p"}

MCKind ==
  [n \in MCPath |-> CASE n \in {"r", "a"} -> "Dir"
                      [] n = "l"          -> "Symlink"
                      [] n = "f"          -> "File"
                      [] OTHER            -> "Other"]

MCSize == [n \in MCPath |-> CASE n = "f" -> 3 [] n = "p" -> 5 [] OTHER -> 0]

Full ==
  [n \in MCPath |-> CASE n = "r" -> {"a", "l"}
                      [] n = "a" -> {"f"}
                      [] n = "l" -> {"p"}
                      [] OTHER   -> {}]

MCListings == {Full, [Full EXCEPT !["a"] = {}]}
=============================================================================
