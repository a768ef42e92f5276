----------------------------- MODULE IndexBuild -----------------------------
(***************************************************************************)
(* What building an index table promises, without runs, merges and         *)
(* batches: entries are collected, then published in key order, some at a  *)
(* time, until the table holds them all.  The disk may lose entries while  *)
(* they are collected, or the build may hang before it publishes any.      *)
(***************************************************************************)
EXTENDS Integers

CONSTANT Pair   \* the pairs an index can hold, pairs of numbers

VARIABLES entries,   \* the entries collected
          built,     \* the entries readers see in the table
          stage

vars == <<entries, built, stage>>

Before(a, b) == a[1] < b[1] \/ (a[1] = b[1] /\ a[2] < b[2])

\* S holds every entry of T that comes before one of its own.
IsPrefix(S, T) == S \subseteq T /\ \A a \in S, b \in T : Before(b, a) => b \in S

Init ==
  /\ entries = {}
  /\ built = {}
  /\ stage = "collecting"

Lose(held) == entries' \in SUBSET held

Collect(e) ==
  /\ stage = "collecting"
  /\ Lose(entries \cup {e})
  /\ UNCHANGED <<built, stage>>

Seal ==
  /\ stage = "collecting"
  /\ stage' \in {"publishing", "hanging"}
  /\ Lose(entries)
  /\ UNCHANGED built

Publish ==
  /\ stage = "publishing"
  /\ \E more \in SUBSET entries :
       /\ IsPrefix(built \cup more, entries)
       /\ built' = built \cup more
  /\ UNCHANGED <<entries, stage>>

Finish ==
  /\ stage = "publishing"
  /\ built' = entries
  /\ stage' = "complete"
  /\ UNCHANGED entries

Next == (\E e \in Pair : Collect(e)) \/ Seal \/ Publish \/ Finish

Spec == Init /\ [][Next]_vars /\ WF_vars(Seal) /\ WF_vars(Finish)
=============================================================================
