--------------------------- MODULE MCReplication ---------------------------
(***************************************************************************)
(* Instances of Replication for TLC: diffs that overwrite each other's     *)
(* objects in part.                                                        *)
(***************************************************************************)
EXTENDS Replication

CONSTANTS x, y

MCTouches == [d \in 1..MaxSeq |-> IF d % 2 = 1 THEN {x, y} ELSE {x}]

\* A file made by expand from a planet with a number, or from any file.
Numbered == {Base}
NumberedOrNot == {NoSeq, Base}
=============================================================================
