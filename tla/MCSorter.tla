------------------------------ MODULE MCSorter ------------------------------
(***************************************************************************)
(* An instance of Sorter for TLC: runs of two pairs and transactions of    *)
(* two writes, so that five puts make three runs with pairs in common.     *)
(***************************************************************************)
EXTENDS Sorter

MCPair == ({0} \X {0, 1}) \cup ({1} \X {0, 1, 2}) \cup {<<2, 1>>}
=============================================================================
