------------------------------- MODULE Diffs -------------------------------
(***************************************************************************)
(* The diffs of a replication server and what applying them does to the    *)
(* data: each object is represented by the diff that wrote it last, as a   *)
(* set of none or one.  That a diff overwrites the objects it names and no *)
(* others, all at once, is what module Update is checked and proved to do. *)
(***************************************************************************)
EXTENDS Integers

CONSTANTS Object,    \* the objects of the database
          MaxSeq,    \* the last diff the server publishes
          Touches,   \* the objects each diff has a version of
          Base       \* the diff up to which the first data reaches

ASSUME DiffAssumption ==
  /\ MaxSeq \in Nat
  /\ Touches \in [1..MaxSeq -> SUBSET Object]
  /\ Base \in 0..MaxSeq

Data == [Object -> SUBSET (1..MaxSeq)]

Applied(data, seq) ==
  [o \in Object |-> IF o \in Touches[seq] THEN {seq} ELSE data[o]]

\* The data after the diffs 1..seq.
DataAt(seq) ==
  [o \in Object |->
     {d \in 1..seq : o \in Touches[d] /\ \A e \in d + 1 .. seq : o \notin Touches[e]}]
=============================================================================
