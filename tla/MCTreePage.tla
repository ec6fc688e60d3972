----------------------------- MODULE MCTreePage -----------------------------
(***************************************************************************)
(* A directory in a directory with a file: all have its size.  The list is *)
(* cut in the largest expansion.  A terminal with room for four rows or    *)
(* for nine.                                                               *)
(***************************************************************************)
EXTENDS TreePage

MCIsDir == {0, 1}

MCBySize == <<0, 1, 2>>

MCChildren == [d \in Data |-> IF d \in IsDir THEN <<d + 1>> ELSE <<>>]

MCHeights == {9, 14}
=============================================================================
