------------------------------ MODULE MCUpdate ------------------------------
(***************************************************************************)
(* Instances of Update for TLC.  Three coordinates in two cells, so that a *)
(* node can move inside its cell and to another one; a third cell value is *)
(* the garbage an uninitialised prev_cell can hold beside the real cells.  *)
(***************************************************************************)
EXTENDS AugmentedDiff, TLC

CONSTANTS a1, a2, b

MCCellOf == [loc \in Loc |-> IF loc = b THEN "B" ELSE "A"]

Symmetry ==
  Permutations(Node) \cup Permutations(Way) \cup Permutations(Relation)
=============================================================================
