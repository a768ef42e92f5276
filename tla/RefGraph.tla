------------------------------ MODULE RefGraph ------------------------------
(***************************************************************************)
(* What the index tables of an .osmx file promise, without the tables: the *)
(* file maps each OSM object to the set of things that lead to it (the     *)
(* cell of a node, the nodes of a way, the members of a relation).  A      *)
(* writer edits a private draft of the map, one object at a time, and a    *)
(* reader sees a draft entirely or not at all.                             *)
(***************************************************************************)
CONSTANTS Object, Source

VARIABLES published,  \* the map readers see
          draft,      \* the map of the running writer
          writing     \* is there a running writer

vars == <<published, draft, writing>>

Map == [Object -> SUBSET Source]

Init ==
  /\ published \in Map
  /\ draft = published
  /\ writing = FALSE

Open ==
  /\ ~writing
  /\ writing' = TRUE
  /\ UNCHANGED <<published, draft>>

\* A new version of one object replaces all that led to its old version, and
\* touches nothing else.
Replace(o) ==
  /\ writing
  /\ draft' \in Map
  /\ \A other \in Object \ {o} : draft'[other] = draft[other]
  /\ UNCHANGED <<published, writing>>

Publish ==
  /\ writing
  /\ published' = draft
  /\ writing' = FALSE
  /\ UNCHANGED draft

Discard ==
  /\ writing
  /\ draft' = published
  /\ writing' = FALSE
  /\ UNCHANGED published

Next ==
  \/ Open
  \/ \E o \in Object : Replace(o)
  \/ Publish
  \/ Discard

Spec == Init /\ [][Next]_vars
=============================================================================
