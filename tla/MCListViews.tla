----------------------------- MODULE MCListViews -----------------------------
(***************************************************************************)
(* Indices from below the list to past its end.  One view variable is      *)
(* enough for a view of a view: it is cut again out of itself, and the loop *)
(* keeps the window it had before.                                         *)
(***************************************************************************)
EXTENDS ListViews, TLC

MCIndices == -1 .. 1

\* The elements are only moved and compared with themselves.
ItemSymmetry == Permutations(Items)
=============================================================================
