----------------------------- MODULE MCJunkPage -----------------------------
(***************************************************************************)
(* Two hits on a terminal with room for none of them or for one.           *)
(***************************************************************************)
EXTENDS JunkPage

MCHeights == {5, 6}
=============================================================================
