------------------------------ MODULE Follower ------------------------------
(***************************************************************************)
(* What the replication client promises: a database that follows a server. *)
(* Its data are at every moment those of its sequence number, diffs are    *)
(* applied one by one, and the database catches up with the server.        *)
(***************************************************************************)
EXTENDS Diffs

VARIABLES seq,     \* the sequence number readers see
          data,    \* the data readers see
          latest   \* the last diff the server has published

vars == <<seq, data, latest>>

Init ==
  /\ seq = Base
  /\ data = DataAt(Base)
  /\ latest = Base

Publish ==
  /\ latest < MaxSeq
  /\ latest' = latest + 1
  /\ UNCHANGED <<seq, data>>

Advance ==
  /\ seq < latest
  /\ seq' = seq + 1
  /\ data' = DataAt(seq')
  /\ UNCHANGED latest

Next == Publish \/ Advance

Spec == Init /\ [][Next]_vars /\ WF_vars(Advance)
=============================================================================
