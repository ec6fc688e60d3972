----------------------------- MODULE MCWorkPool -----------------------------
(***************************************************************************)
(* A small file system for WorkPool: the root "r" holds the directories    *)
(* "a" and "b" and a file; "a" holds two directories, "b" a symbolic link  *)
(* to a directory.  A directory can be unreadable, or fail half way.       *)
(***************************************************************************)
EXTENDS WorkPool

MCNode == {"r", "a", "b", "f", "c", "d", "h", "l", "g"}

MCKind ==
  [n \in MCNode |-> CASE n \in {"r", "a", "b", "c", "d"} -> "Dir"
                      [] n = "l"                    -> "Symlink"
                      [] OTHER                      -> "File"]

MCRootTasks == <<"r">>

Full ==
  [n \in MCNode |-> CASE n = "r" -> {"a", "b", "f"}
                      [] n = "a" -> {"c", "d"}
                      [] n = "c" -> {"h"}
                      [] n = "b" -> {"l"}
                      [] n = "l" -> {"g"}
                      [] OTHER   -> {}]

\* All is readable; the root fails after one entry; "a" cannot be opened; nor can
\* the root.
MCYields ==
  { Full,
    [Full EXCEPT !["r"] = {"b"}],
    [Full EXCEPT !["a"] = {}],
    [Full EXCEPT !["r"] = {}] }
=============================================================================
