------------------------------- MODULE Update -------------------------------
(***************************************************************************)
(* The update command (src/update.cpp): one LMDB write transaction applies *)
(* the changes of an .osc file in file order, sets the replication         *)
(* metadata and commits, or is rolled back.  LMDB gives every reader the   *)
(* last committed database, so `db' is what readers see, and `txn' is the  *)
(* database as the running transaction sees it.                            *)
(***************************************************************************)
EXTENDS Storage, Naturals

CONSTANT MaxChanges   \* the number of changes of one .osc file

ASSUME MaxChangesAssumption == MaxChanges \in Nat

VARIABLES db,       \* the committed database
          txn,      \* the transaction's view of the database
          active,   \* is there a write transaction (LMDB allows one)
          applied   \* number of changes applied by the transaction

vars == <<db, txn, active, applied>>

----------------------------------------------------------------------------
(* DataUpdate's handlers, as functions of the database.                    *)

\* The values prev_cell may hold.  It is uninitialised when the node is not
\* in the locations table: then it is whatever the stack holds.
PrevCell(d, id) ==
  IF Exists(d.locations, id) THEN {CellOf[d.locations[id]]} ELSE Cell

NodeDeleted(d, id, prev_cell) ==
  [d EXCEPT !.locations = Del(@, id),
            !.nodes = @ \ {id},
            !.cell_node = IndexDel(@, prev_cell, id)]

\* Mutant: a node that moves stays in its old cell too.
StaysInOldCell(index, id, prev_cell, new_cell) ==
  IF prev_cell # new_cell THEN IndexPut(index, new_cell, id) ELSE index

MovedCell(index, id, prev_cell, new_cell) ==
  IF prev_cell # new_cell
  THEN IndexPut(IndexDel(index, prev_cell, id), new_cell, id)
  ELSE index

NodePut(d, id, loc, tagged) ==
  [d EXCEPT !.locations = Put(@, id, loc),
            !.nodes = IF tagged THEN @ \cup {id} ELSE @ \ {id},
            !.cell_node =
              IF Exists(d.locations, id)
              THEN MovedCell(@, id, CellOf[d.locations[id]], CellOf[loc])
              ELSE IndexPut(@, CellOf[loc], id)]

\* Mutant: entries of the old version are never deleted.
ReindexNoDel(index, id, prev, new) == index \cup (new \X {id})

\* The set differences at the end of way() and relation(): entries are
\* deleted and put only where the old and the new version differ.
Reindex(index, id, prev, new) ==
  (index \ ((prev \ new) \X {id})) \cup ((new \ prev) \X {id})

PrevNodes(d, id) == IF Exists(d.ways, id) THEN d.ways[id] ELSE {}

WayDeleted(d, id) ==
  [d EXCEPT !.ways = Del(@, id),
            !.node_way = Reindex(@, id, PrevNodes(d, id), {})]

\* Mutant: nodes that are not in the database yet are left out.
WayPutKnownNodes(d, id, new_nodes) ==
  LET known == new_nodes \cap DOMAIN d.locations
  IN  [d EXCEPT !.ways = Put(@, id, known),
                !.node_way = Reindex(@, id, PrevNodes(d, id), known)]

WayPut(d, id, new_nodes) ==
  [d EXCEPT !.ways = Put(@, id, new_nodes),
            !.node_way = Reindex(@, id, PrevNodes(d, id), new_nodes)]

NoMembers == [node |-> {}, way |-> {}, relation |-> {}]

PrevMembers(d, id) ==
  IF Exists(d.relations, id) THEN d.relations[id] ELSE NoMembers

RelationReindexed(d, id, prev, new) ==
  [d EXCEPT !.node_relation = Reindex(@, id, prev.node, new.node),
            !.way_relation = Reindex(@, id, prev.way, new.way),
            !.relation_relation = Reindex(@, id, prev.relation, new.relation)]

RelationDeleted(d, id) ==
  [RelationReindexed(d, id, PrevMembers(d, id), NoMembers)
     EXCEPT !.relations = Del(@, id)]

RelationPut(d, id, row) ==
  [RelationReindexed(d, id, PrevMembers(d, id), row)
     EXCEPT !.relations = Put(@, id, row)]

----------------------------------------------------------------------------
(* The command.                                                            *)

Init ==
  /\ IsExpanded(db)
  /\ txn = db
  /\ active = FALSE
  /\ applied = 0

\* mdb_txn_begin takes LMDB's writer lock.
Begin ==
  /\ ~active
  /\ active' = TRUE
  /\ txn' = db
  /\ applied' = 0
  /\ UNCHANGED db

\* The next object of the .osc file has been handled, leaving database d.
Apply(d) ==
  /\ active
  /\ applied < MaxChanges
  /\ txn' = d
  /\ applied' = applied + 1
  /\ UNCHANGED <<db, active>>

DeleteNode ==
  \E id \in Node : \E prev_cell \in PrevCell(txn, id) :
    Apply(NodeDeleted(txn, id, prev_cell))

PutNode ==
  \E id \in Node, loc \in Loc, tagged \in BOOLEAN :
    Apply(NodePut(txn, id, loc, tagged))

DeleteWay == \E id \in Way : Apply(WayDeleted(txn, id))

PutWay == \E id \in Way, nodes \in SUBSET Node : Apply(WayPut(txn, id, nodes))

DeleteRelation == \E id \in Relation : Apply(RelationDeleted(txn, id))

PutRelation ==
  \E id \in Relation, row \in RelationRow : Apply(RelationPut(txn, id, row))

\* --commit: the metadata is written in the transaction of the data.
Commit(stamp) ==
  /\ active
  /\ txn' = [txn EXCEPT !.metadata = stamp]
  /\ db' = txn'
  /\ active' = FALSE
  /\ applied' = 0

\* Mutant: the aborted transaction's view is not discarded.
RollbackKeepsTxn ==
  /\ active
  /\ active' = FALSE
  /\ applied' = 0
  /\ UNCHANGED <<db, txn>>

\* Without --commit the transaction is aborted; a failed CHECK, an exception
\* of the .osc reader or a kill ends the process and loses the transaction.
Rollback ==
  /\ active
  /\ txn' = db
  /\ active' = FALSE
  /\ applied' = 0
  /\ UNCHANGED db

Next ==
  \/ Begin
  \/ DeleteNode \/ PutNode
  \/ DeleteWay \/ PutWay
  \/ DeleteRelation \/ PutRelation
  \/ \E stamp \in Stamp : Commit(stamp)
  \/ Rollback

Spec == Init /\ [][Next]_vars
----------------------------------------------------------------------------
(* Properties.                                                             *)

\* Types of the four variables.
TypeOK ==
  /\ db \in Database
  /\ txn \in Database
  /\ active \in BOOLEAN
  /\ applied \in 0..MaxChanges
  /\ ~active => txn = db

\* Whatever sequence of changes was applied, the cell_node table holds exactly
\* one entry for each located node, under the cell of its present location,
\* and none for another node: in the transaction at every moment, and in
\* the database readers see (DataUpdate::node, which never rebuilds the table).
CellIndexIntegrity ==
  \A d \in {db, txn} : CellIndexExact(d) /\ TaggedAreLocated(d)

\* The same for the four member tables: each is exactly the inverse of the
\* element rows it indexes, although way() and relation() only write the
\* differences between two versions.
MemberIndexIntegrity == \A d \in {db, txn} : MemberIndexesExact(d)

\* Deleting a node the database does not know changes nothing, whatever value
\* the uninitialised prev_cell of DataUpdate::node happens to hold.
StrayCellHarmless ==
  \A id \in Node \ DOMAIN txn.locations :
    \A prev_cell \in Cell : NodeDeleted(txn, id, prev_cell) = txn

(* A change as an .osc file states it, and the databases handling it can    *)
(* give.                                                                    *)
Deletion(type, ids) == [type : {type}, id : ids, visible : {FALSE}]

Change ==
  Deletion("node", Node) \cup Deletion("way", Way)
    \cup Deletion("relation", Relation)
    \cup [type : {"node"}, id : Node, visible : {TRUE},
          loc : Loc, tagged : BOOLEAN]
    \cup [type : {"way"}, id : Way, visible : {TRUE}, nodes : SUBSET Node]
    \cup [type : {"relation"}, id : Relation, visible : {TRUE}, row : RelationRow]

Outcomes(d, c) ==
  CASE c.type = "node" /\ c.visible -> {NodePut(d, c.id, c.loc, c.tagged)}
    [] c.type = "node" /\ ~c.visible ->
         {NodeDeleted(d, c.id, prev_cell) : prev_cell \in PrevCell(d, c.id)}
    [] c.type = "way" /\ c.visible -> {WayPut(d, c.id, c.nodes)}
    [] c.type = "way" /\ ~c.visible -> {WayDeleted(d, c.id)}
    [] c.type = "relation" /\ c.visible -> {RelationPut(d, c.id, c.row)}
    [] c.type = "relation" /\ ~c.visible -> {RelationDeleted(d, c.id)}

SameTarget(c1, c2) == c1.type = c2.type /\ c1.id = c2.id

Outcomes2(d, c1, c2) == UNION {Outcomes(e, c2) : e \in Outcomes(d, c1)}

\* Of two changes to one object the second alone decides the result: no trace
\* of the superseded version stays in any table.  So an object that occurs
\* several times in a diff, and a diff applied a second time after a failure,
\* leave what the last version says (update has no version check).
LastVersionWins ==
  ~active => \A c1, c2 \in Change :
    SameTarget(c1, c2) => Outcomes2(db, c1, c2) = Outcomes(db, c2)

\* Changes to distinct objects can be applied in either order: an .osc file
\* may list a way before its nodes, or delete a member before its parent.
ChangesCommute ==
  ~active => \A c1, c2 \in Change :
    ~SameTarget(c1, c2) => Outcomes2(db, c1, c2) = Outcomes2(db, c2, c1)

(* What a reader finds through the index tables, as the abstract map.       *)
Object == ({"node"} \X Node) \cup ({"way"} \X Way) \cup ({"relation"} \X Relation)

Source == ({"cell"} \X Cell) \cup Object

Entries(index, from, to) ==
  {<< <<from, e[1]>>, <<to, e[2]>> >> : e \in index}

AllEntries(d) ==
  Entries(d.cell_node, "cell", "node")
    \cup Entries(d.node_way, "node", "way")
    \cup Entries(d.node_relation, "node", "relation")
    \cup Entries(d.way_relation, "way", "relation")
    \cup Entries(d.relation_relation, "relation", "relation")

Lookup(d) == [o \in Object |-> {s \in Source : <<s, o>> \in AllEntries(d)}]

Graph == INSTANCE RefGraph WITH published <- Lookup(db), draft <- Lookup(txn),
                                writing <- active

\* The update command implements the reference map: a handler changes what
\* leads to its own object only, nothing of a transaction is visible before
\* its commit, and a rolled back one leaves no trace.
ImplementsGraph == Graph!Spec
=============================================================================
