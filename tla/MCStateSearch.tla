--------------------------- MODULE MCStateSearch ---------------------------
(***************************************************************************)
(* Instances of StateSearch for TLC; the servers are chosen by Init.       *)
(***************************************************************************)
EXTENDS StateSearch
=============================================================================
