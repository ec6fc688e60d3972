----------------------------- MODULE MCSizeWalk -----------------------------
(***************************************************************************)
(* Two junk directories "p" and "q", each with a file and a directory that *)
(* holds another file; a directory has no size.  One reader yields all,    *)
(* one cannot open "d", one fails within "p".                              *)
(***************************************************************************)
EXTENDS SizeWalk

MCPath == {"p", "q", "d", "e", "f", "g", "h", "k"}

MCKind ==
  [n \in MCPath |-> CASE n \in {"p", "q", "d", "e"} -> "Dir" [] OTHER -> "File"]

MCRoots == <<"p", "q">>

\* Powers of two: a sum tells which sizes it is made of.
MCSize ==
  [n \in MCPath |-> CASE n = "f" -> 1 [] n = "g" -> 2 [] n = "h" -> 4 [] n = "k" -> 8 [] OTHER -> NoSize]

Full ==
  [n \in MCPath |-> CASE n = "p" -> {"d", "f"}
                      [] n = "d" -> {"g"}
                      [] n = "q" -> {"e", "h"}
                      [] n = "e" -> {"k"}
                      [] OTHER   -> {}]

MCListings == {Full, [Full EXCEPT !["d"] = {}], [Full EXCEPT !["p"] = {"d"}]}
=============================================================================
