------------------------------- MODULE Query -------------------------------
(***************************************************************************)
(* The query command (src/cmd.cpp): what it answers from the committed     *)
(* tables.  It reads in one read transaction and changes nothing.          *)
(*                                                                         *)
(* An answer is what has been printed, and whether the command came to its *)
(* end: a failed CHECK, of a table that does not exist or of a row that is *)
(* not there, aborts it after what it has printed.                         *)
(***************************************************************************)
EXTENDS Storage, Integers, Sequences, FiniteSetsExt

Answer(printed, ended) == [printed |-> printed, ended |-> ended]

Silence == Answer(<<>>, FALSE)

\* The location comes first, the undefined one of a node that is not there too;
\* then getReader looks for the tags, which only tagged nodes have.
QueryNode(d, tables, id) ==
  IF "locations" \notin tables THEN Silence
  ELSE LET place == IF Exists(d.locations, id) THEN {d.locations[id]} ELSE {}
       IN  Answer(<<place>>, "nodes" \in tables /\ id \in d.nodes)

QueryRow(rows, exists, id) ==
  IF exists /\ Exists(rows, id) THEN Answer(<<rows[id]>>, TRUE) ELSE Silence

QueryWay(d, tables, id) == QueryRow(d.ways, "ways" \in tables, id)

QueryRelation(d, tables, id) == QueryRow(d.relations, "relations" \in tables, id)

\* query timestamp and query seqnum.
QueryStamp(d, tables) ==
  IF "metadata" \in tables THEN Answer(<<d.metadata>>, TRUE) ELSE Silence

\* The tables in the order of their counts.
StatTables == <<"locations", "nodes", "ways", "relations", "cell_node",
                "node_way", "node_relation", "way_relation", "relation_relation">>

Count(d, name) ==
  Cardinality(IF name \in {"locations", "ways", "relations"} THEN DOMAIN d[name]
                                                             ELSE d[name])

\* Without a lookup: a count for each table, until one does not exist.
QueryStat(d, tables) ==
  LET opened == Max({n \in 0..Len(StatTables) :
                       \A i \in 1..n : StatTables[i] \in tables})
  IN  Answer([i \in 1..opened |-> Count(d, StatTables[i])],
             opened = Len(StatTables) /\ "metadata" \in tables)
=============================================================================
