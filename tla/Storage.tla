------------------------------ MODULE Storage ------------------------------
(***************************************************************************)
(* The tables of an .osmx file (src/storage.cpp, include/osmx/storage.h)   *)
(* and the elementary operations on them.                                  *)
(*                                                                         *)
(* A database is one record with a field per LMDB sub-database.  Element   *)
(* tables are partial functions from ids to rows, index tables (DUPSORT)   *)
(* are sets of <<key, osm_id>> pairs.  A way's row is abstracted to the    *)
(* set of nodes it references, a relation's row to its tags and the sets   *)
(* of its members of each type, a tagged node's row to its presence.       *)
(***************************************************************************)
EXTENDS FiniteSets

CONSTANTS Node,          \* node ids
          Way,           \* way ids
          Relation,      \* relation ids
          Loc,           \* coordinates
          Cell,          \* values a cell id variable can hold
          CellOf,        \* the level 16 cell of each coordinate
          RelationTags,  \* what the code distinguishes in a relation's tags
          Stamp          \* values of the replication metadata

ASSUME CellOfAssumption == CellOf \in [Loc -> Cell]

NoStamp == "NoStamp"
ASSUME StampAssumption == NoStamp \notin Stamp

----------------------------------------------------------------------------
(* Element tables: put overwrites, del of an absent id is a no-op.         *)

Table(K, V) == UNION {[ids -> V] : ids \in SUBSET K}

Exists(table, id) == id \in DOMAIN table

Put(table, id, row) ==
  [k \in DOMAIN table \cup {id} |-> IF k = id THEN row ELSE table[k]]

Del(table, id) == [k \in DOMAIN table \ {id} |-> table[k]]

(* Index tables.                                                           *)

IndexPut(index, from, id) == index \cup {<<from, id>>}

\* Mutant: mdb_del without the value, which deletes all entries of the key.
IndexDelKey(index, from, id) == {e \in index : e[1] # from}

IndexDel(index, from, id) == index \ {<<from, id>>}

TraverseReverse(index, from) == {e[2] : e \in {x \in index : x[1] = from}}

----------------------------------------------------------------------------
(* The rows and the database.                                              *)

RelationRow == [tags : RelationTags, node : SUBSET Node,
                way : SUBSET Way, relation : SUBSET Relation]

Database ==
  [locations : Table(Node, Loc),
   nodes : SUBSET Node,
   ways : Table(Way, SUBSET Node),
   relations : Table(Relation, RelationRow),
   cell_node : SUBSET (Cell \X Node),
   node_way : SUBSET (Node \X Way),
   node_relation : SUBSET (Node \X Relation),
   way_relation : SUBSET (Way \X Relation),
   relation_relation : SUBSET (Relation \X Relation),
   metadata : Stamp \cup {NoStamp}]

(* The members of each type, as a table from relation ids to sets of ids.  *)
NodeMembers(d) == [r \in DOMAIN d.relations |-> d.relations[r].node]
WayMembers(d) == [r \in DOMAIN d.relations |-> d.relations[r].way]
RelationMembers(d) == [r \in DOMAIN d.relations |-> d.relations[r].relation]

----------------------------------------------------------------------------
(* What the index tables mean: each is the inverse of an element table.    *)

Backrefs(refs) == UNION {refs[id] \X {id} : id \in DOMAIN refs}

CellIndexExact(d) ==
  d.cell_node = Backrefs([n \in DOMAIN d.locations |-> {CellOf[d.locations[n]]}])

MemberIndexesExact(d) ==
  /\ d.node_way = Backrefs(d.ways)
  /\ d.node_relation = Backrefs(NodeMembers(d))
  /\ d.way_relation = Backrefs(WayMembers(d))
  /\ d.relation_relation = Backrefs(RelationMembers(d))

TaggedAreLocated(d) == d.nodes \subseteq DOMAIN d.locations

WellIndexed(d) ==
  /\ CellIndexExact(d)
  /\ TaggedAreLocated(d)
  /\ MemberIndexesExact(d)

\* The database with these element rows and the index tables derived from them.
Expanded(locations, nodes, ways, relations, metadata) ==
  [locations |-> locations, nodes |-> nodes,
   ways |-> ways, relations |-> relations,
   cell_node |-> Backrefs([n \in DOMAIN locations |-> {CellOf[locations[n]]}]),
   node_way |-> Backrefs(ways),
   node_relation |-> Backrefs([r \in DOMAIN relations |-> relations[r].node]),
   way_relation |-> Backrefs([r \in DOMAIN relations |-> relations[r].way]),
   relation_relation |-> Backrefs([r \in DOMAIN relations |-> relations[r].relation]),
   metadata |-> metadata]

IsExpanded(d) ==
  \E locations \in Table(Node, Loc), ways \in Table(Way, SUBSET Node),
     relations \in Table(Relation, RelationRow), metadata \in Stamp \cup {NoStamp} :
    \E nodes \in SUBSET DOMAIN locations :
      d = Expanded(locations, nodes, ways, relations, metadata)
=============================================================================
