---------------------------- MODULE UpdateProofs ----------------------------
(***************************************************************************)
(* Proofs about Update, for every set of ids, coordinates and cells and    *)
(* for .osc files of every length, and about the augmented diff made from  *)
(* such a file.                                                            *)
(***************************************************************************)
EXTENDS AugmentedDiff, StorageProofs

----------------------------------------------------------------------------
(* Lemmas on what the handlers do to an index.                             *)

\* Writing the differences keeps an index an index.
LEMMA ReindexType ==
  ASSUME NEW X, NEW Y, NEW index \in SUBSET (X \X Y),
         NEW id \in Y, NEW prev, NEW new \in SUBSET X
  PROVE  Reindex(index, id, prev, new) \in SUBSET (X \X Y)
  BY DEF Reindex

\* Writing the differences between the old and the new references of an
\* object leaves the inverse of the table with its new row.
LEMMA ReindexPut ==
  ASSUME NEW refs, NEW id, NEW prev, NEW new,
         prev = IF id \in DOMAIN refs THEN refs[id] ELSE {}
  PROVE  Reindex(Backrefs(refs), id, prev, new) = Backrefs(Put(refs, id, new))
<1> DEFINE before == Backrefs(refs)
           after  == Backrefs(Put(refs, id, new))
           left   == Reindex(before, id, prev, new)
<1>1. \A x, o : <<x, o>> \in before <=> o \in DOMAIN refs /\ x \in refs[o]
  BY BackrefsPairs
<1>2. \A x, o : <<x, o>> \in after
                  <=> o \in DOMAIN Put(refs, id, new) /\ x \in Put(refs, id, new)[o]
  BY BackrefsPairs
<1>3. \A x, o : <<x, o>> \in after
                  <=> IF o = id THEN x \in new ELSE o \in DOMAIN refs /\ x \in refs[o]
  BY <1>2 DEF Put
<1>4. \A x, o : <<x, o>> \in left
                  <=> IF o = id THEN x \in new ELSE o \in DOMAIN refs /\ x \in refs[o]
  BY <1>1 DEF Reindex
<1>5. /\ \A e \in before : e = <<e[1], e[2]>>
      /\ \A e \in after : e = <<e[1], e[2]>>
  BY BackrefsPairs
<1>6. \A e \in left : e = <<e[1], e[2]>>
  BY <1>5 DEF Reindex
<1>7. left = after
  <2> HIDE DEF before, after, left
  <2> QED  BY <1>3, <1>4, <1>5, <1>6, PairsEqual
<1> QED
  BY <1>7

\* Removing all references of a deleted object leaves the inverse of the
\* table without its row.
LEMMA ReindexDel ==
  ASSUME NEW refs, NEW id, NEW prev,
         prev = IF id \in DOMAIN refs THEN refs[id] ELSE {}
  PROVE  Reindex(Backrefs(refs), id, prev, {}) = Backrefs(Del(refs, id))
<1> DEFINE before == Backrefs(refs)
           after  == Backrefs(Del(refs, id))
           left   == Reindex(before, id, prev, {})
<1>1. \A x, o : <<x, o>> \in before <=> o \in DOMAIN refs /\ x \in refs[o]
  BY BackrefsPairs
<1>2. \A x, o : <<x, o>> \in after
                  <=> o \in DOMAIN Del(refs, id) /\ x \in Del(refs, id)[o]
  BY BackrefsPairs
<1>3. \A x, o : <<x, o>> \in after <=> o # id /\ o \in DOMAIN refs /\ x \in refs[o]
  BY <1>2 DEF Del
<1>4. \A x, o : <<x, o>> \in left <=> o # id /\ o \in DOMAIN refs /\ x \in refs[o]
  BY <1>1 DEF Reindex
<1>5. /\ \A e \in before : e = <<e[1], e[2]>>
      /\ \A e \in after : e = <<e[1], e[2]>>
  BY BackrefsPairs
<1>6. \A e \in left : e = <<e[1], e[2]>>
  BY <1>5 DEF Reindex
<1>7. left = after
  <2> HIDE DEF before, after, left
  <2> QED  BY <1>3, <1>4, <1>5, <1>6, PairsEqual
<1> QED
  BY <1>7

----------------------------------------------------------------------------
(* The handlers keep a database well formed and well indexed.              *)

\* A handler that leaves the relations alone leaves their three indexes exact.
LEMMA NodePutKeeps ==
  ASSUME NEW d \in Database, WellIndexed(d),
         NEW id \in Node, NEW loc \in Loc, NEW tagged \in BOOLEAN
  PROVE  /\ NodePut(d, id, loc, tagged) \in Database
         /\ WellIndexed(NodePut(d, id, loc, tagged))
<1> DEFINE e == NodePut(d, id, loc, tagged)
           refs == [n \in DOMAIN d.locations |-> {CellOf[d.locations[n]]}]
           prev == IF id \in DOMAIN refs THEN refs[id] ELSE {}
<1>1. d.locations \in Table(Node, Loc) /\ d.cell_node \in SUBSET (Cell \X Node)
  BY DEF Database
<1>2. Put(d.locations, id, loc) \in Table(Node, Loc)
  BY <1>1, PutTable
<1>3. \A n \in DOMAIN d.locations : d.locations[n] \in Loc
  BY <1>1, RowOfTable
<1>4. e.cell_node = Reindex(d.cell_node, id, prev, {CellOf[loc]})
  BY <1>3 DEF NodePut, MovedCell, IndexPut, IndexDel, Reindex, Exists, Database
<1>5. e.cell_node = Backrefs(Put(refs, id, {CellOf[loc]}))
  <2>1. d.cell_node = Backrefs(refs)
    BY DEF WellIndexed, CellIndexExact
  <2> HIDE DEF e, refs
  <2> QED  BY <1>4, <2>1, ReindexPut
<1>6. Put(refs, id, {CellOf[loc]})
        = [n \in DOMAIN e.locations |-> {CellOf[e.locations[n]]}]
  BY DEF NodePut, Put, Database
<1>7. e.cell_node \in SUBSET (Cell \X Node)
  BY <1>1, <1>3, CellOfAssumption
     DEF NodePut, MovedCell, IndexPut, IndexDel, Exists, Database
<1>8. e \in Database
  BY <1>2, <1>7 DEF NodePut, Database
<1>9. TaggedAreLocated(e)
  BY DEF Put, NodePut, TaggedAreLocated, WellIndexed, Database
<1>10. MemberIndexesExact(e)
  BY DEF WellIndexed, MemberIndexesExact, NodeMembers, WayMembers,
         RelationMembers, NodePut, Database
<1>11. CellIndexExact(e)
  BY <1>5, <1>6 DEF CellIndexExact
<1> QED
  BY <1>8, <1>9, <1>10, <1>11 DEF WellIndexed

\* Deleting an unknown node changes nothing, whatever prev_cell is (DataUpdate::node).
LEMMA StrayDelete ==
  ASSUME NEW d \in Database, WellIndexed(d),
         NEW id \in Node, id \notin DOMAIN d.locations, NEW prev_cell
  PROVE  NodeDeleted(d, id, prev_cell) = d
<1>1. d.locations \in Table(Node, Loc)
  BY DEF Database
<1>2. Del(d.locations, id) = d.locations
  <2>1. PICK ids \in SUBSET Node : d.locations \in [ids -> Loc]
    BY <1>1 DEF Table
  <2> QED  BY <2>1 DEF Del
<1>3. d.nodes \ {id} = d.nodes
  BY DEF WellIndexed, TaggedAreLocated
<1>4. IndexDel(d.cell_node, prev_cell, id) = d.cell_node
  <2>1. <<prev_cell, id>> \notin d.cell_node
    BY BackrefsPairs DEF WellIndexed, CellIndexExact
  <2> QED  BY <2>1 DEF IndexDel
<1> QED
  BY <1>2, <1>3, <1>4 DEF NodeDeleted, Database

\* Deleting a node keeps every index exact.
LEMMA NodeDeletedKeeps ==
  ASSUME NEW d \in Database, WellIndexed(d),
         NEW id \in Node, NEW prev_cell \in PrevCell(d, id)
  PROVE  /\ NodeDeleted(d, id, prev_cell) \in Database
         /\ WellIndexed(NodeDeleted(d, id, prev_cell))
<1> DEFINE e == NodeDeleted(d, id, prev_cell)
           refs == [n \in DOMAIN d.locations |-> {CellOf[d.locations[n]]}]
<1>1. CASE id \notin DOMAIN d.locations
  BY <1>1, StrayDelete
<1>2. CASE id \in DOMAIN d.locations
  <2>1. d.locations \in Table(Node, Loc)
    BY DEF Database
  <2>2. Del(d.locations, id) \in Table(Node, Loc)
    BY <2>1, DelTable
  <2>3. prev_cell = CellOf[d.locations[id]]
    BY <1>2 DEF PrevCell, Exists
  <2>4. e.cell_node = Reindex(d.cell_node, id, {CellOf[d.locations[id]]}, {})
    BY <2>3 DEF NodeDeleted, IndexDel, Reindex, Database
  <2>5. e.cell_node = Backrefs(Del(refs, id))
    <3>1. d.cell_node = Backrefs(refs)
      BY DEF WellIndexed, CellIndexExact
    <3>2. {CellOf[d.locations[id]]} = IF id \in DOMAIN refs THEN refs[id] ELSE {}
      BY <1>2
    <3> HIDE DEF e, refs
    <3> QED  BY <2>4, <3>1, <3>2, ReindexDel
  <2>6. Del(refs, id) = [n \in DOMAIN e.locations |-> {CellOf[e.locations[n]]}]
    BY DEF NodeDeleted, Del, Database
  <2>7. e \in Database
    BY <2>2 DEF NodeDeleted, IndexDel, Database
  <2>8. TaggedAreLocated(e)
    BY DEF Del, NodeDeleted, TaggedAreLocated, WellIndexed, Database
  <2>9. MemberIndexesExact(e)
    BY DEF WellIndexed, MemberIndexesExact, NodeMembers, WayMembers,
           RelationMembers, NodeDeleted, Database
  <2>10. CellIndexExact(e)
    BY <2>5, <2>6 DEF CellIndexExact
  <2> QED
    BY <2>7, <2>8, <2>9, <2>10 DEF WellIndexed
<1> QED
  BY <1>1, <1>2

\* The references a way had before are those its row holds.
LEMMA WayPutKeeps ==
  ASSUME NEW d \in Database, WellIndexed(d),
         NEW id \in Way, NEW new_nodes \in SUBSET Node
  PROVE  /\ WayPut(d, id, new_nodes) \in Database
         /\ WellIndexed(WayPut(d, id, new_nodes))
<1> DEFINE e == WayPut(d, id, new_nodes)
<1>1. d.ways \in Table(Way, SUBSET Node)
  BY DEF Database
<1>2. Put(d.ways, id, new_nodes) \in Table(Way, SUBSET Node)
  BY <1>1, PutTable
<1>3. e.node_way = Backrefs(Put(d.ways, id, new_nodes))
  <2>1. d.node_way = Backrefs(d.ways)
    BY DEF WellIndexed, MemberIndexesExact
  <2>2. e.node_way = Reindex(d.node_way, id, PrevNodes(d, id), new_nodes)
    BY DEF WayPut, Database
  <2> HIDE DEF e
  <2> QED  BY <2>1, <2>2, ReindexPut DEF PrevNodes, Exists
<1>4. e \in Database
  BY <1>2 DEF WayPut, Reindex, Database
<1>5. MemberIndexesExact(e)
  BY <1>3 DEF WellIndexed, MemberIndexesExact, NodeMembers, WayMembers,
              RelationMembers, WayPut, Database
<1>6. CellIndexExact(e) /\ TaggedAreLocated(e)
  BY DEF WellIndexed, CellIndexExact, TaggedAreLocated, WayPut, Database
<1> QED
  BY <1>4, <1>5, <1>6 DEF WellIndexed

\* Deleting a way keeps every index exact.
LEMMA WayDeletedKeeps ==
  ASSUME NEW d \in Database, WellIndexed(d), NEW id \in Way
  PROVE  /\ WayDeleted(d, id) \in Database
         /\ WellIndexed(WayDeleted(d, id))
<1> DEFINE e == WayDeleted(d, id)
<1>1. d.ways \in Table(Way, SUBSET Node)
  BY DEF Database
<1>2. Del(d.ways, id) \in Table(Way, SUBSET Node)
  BY <1>1, DelTable
<1>3. e.node_way = Backrefs(Del(d.ways, id))
  <2>1. d.node_way = Backrefs(d.ways)
    BY DEF WellIndexed, MemberIndexesExact
  <2>2. e.node_way = Reindex(d.node_way, id, PrevNodes(d, id), {})
    BY DEF WayDeleted, Database
  <2> HIDE DEF e
  <2> QED  BY <2>1, <2>2, ReindexDel DEF PrevNodes, Exists
<1>4. e \in Database
  BY <1>2 DEF WayDeleted, Reindex, Database
<1>5. MemberIndexesExact(e)
  BY <1>3 DEF WellIndexed, MemberIndexesExact, NodeMembers, WayMembers,
              RelationMembers, WayDeleted, Database
<1>6. CellIndexExact(e) /\ TaggedAreLocated(e)
  BY DEF WellIndexed, CellIndexExact, TaggedAreLocated, WayDeleted, Database
<1> QED
  BY <1>4, <1>5, <1>6 DEF WellIndexed

\* A new version of a relation keeps every index exact.
LEMMA RelationPutKeeps ==
  ASSUME NEW d \in Database, WellIndexed(d),
         NEW id \in Relation, NEW row \in RelationRow
  PROVE  /\ RelationPut(d, id, row) \in Database
         /\ WellIndexed(RelationPut(d, id, row))
<1> DEFINE e == RelationPut(d, id, row)
           prev == PrevMembers(d, id)
<1>1. d.relations \in Table(Relation, RelationRow)
  BY DEF Database
<1>2. Put(d.relations, id, row) \in Table(Relation, RelationRow)
  BY <1>1, PutTable
<1>3. /\ e.relations = Put(d.relations, id, row)
      /\ e.node_relation = Reindex(d.node_relation, id, prev.node, row.node)
      /\ e.way_relation = Reindex(d.way_relation, id, prev.way, row.way)
      /\ e.relation_relation
           = Reindex(d.relation_relation, id, prev.relation, row.relation)
  BY DEF RelationPut, RelationReindexed, Database
<1>4. /\ NodeMembers(e) = Put(NodeMembers(d), id, row.node)
      /\ WayMembers(e) = Put(WayMembers(d), id, row.way)
      /\ RelationMembers(e) = Put(RelationMembers(d), id, row.relation)
  BY <1>3 DEF NodeMembers, WayMembers, RelationMembers, Put
<1>5. /\ prev.node = IF id \in DOMAIN NodeMembers(d)
                     THEN NodeMembers(d)[id] ELSE {}
      /\ prev.way = IF id \in DOMAIN WayMembers(d)
                    THEN WayMembers(d)[id] ELSE {}
      /\ prev.relation = IF id \in DOMAIN RelationMembers(d)
                         THEN RelationMembers(d)[id] ELSE {}
  BY DEF PrevMembers, Exists, NoMembers, NodeMembers, WayMembers, RelationMembers
<1>6. MemberIndexesExact(e)
  <2>1. /\ d.node_relation = Backrefs(NodeMembers(d))
        /\ d.way_relation = Backrefs(WayMembers(d))
        /\ d.relation_relation = Backrefs(RelationMembers(d))
        /\ d.node_way = Backrefs(d.ways)
    BY DEF WellIndexed, MemberIndexesExact
  <2>2. e.node_way = d.node_way /\ e.ways = d.ways
    BY DEF RelationPut, RelationReindexed, Database
  <2> HIDE DEF e, prev
  <2>3. e.node_relation = Backrefs(NodeMembers(e))
    BY <1>3, <1>4, <1>5, <2>1, ReindexPut
  <2>4. e.way_relation = Backrefs(WayMembers(e))
    BY <1>3, <1>4, <1>5, <2>1, ReindexPut
  <2>5. e.relation_relation = Backrefs(RelationMembers(e))
    BY <1>3, <1>4, <1>5, <2>1, ReindexPut
  <2> QED
    BY <2>1, <2>2, <2>3, <2>4, <2>5 DEF MemberIndexesExact
<1>7. e \in Database
  <2>1. /\ d.node_relation \in SUBSET (Node \X Relation)
        /\ d.way_relation \in SUBSET (Way \X Relation)
        /\ d.relation_relation \in SUBSET (Relation \X Relation)
    BY DEF Database
  <2>2. /\ row.node \in SUBSET Node
        /\ row.way \in SUBSET Way
        /\ row.relation \in SUBSET Relation
    BY DEF RelationRow
  <2>3. /\ e.node_relation \in SUBSET (Node \X Relation)
        /\ e.way_relation \in SUBSET (Way \X Relation)
        /\ e.relation_relation \in SUBSET (Relation \X Relation)
    <3> HIDE DEF e, prev
    <3>1. e.node_relation \in SUBSET (Node \X Relation)
      BY <1>3, <2>1, <2>2, ReindexType
    <3>2. e.way_relation \in SUBSET (Way \X Relation)
      BY <1>3, <2>1, <2>2, ReindexType
    <3>3. e.relation_relation \in SUBSET (Relation \X Relation)
      BY <1>3, <2>1, <2>2, ReindexType
    <3> QED  BY <3>1, <3>2, <3>3
  <2> QED
    BY <1>2, <2>3 DEF RelationPut, RelationReindexed, Database
<1>8. CellIndexExact(e) /\ TaggedAreLocated(e)
  BY DEF WellIndexed, CellIndexExact, TaggedAreLocated, RelationPut,
         RelationReindexed, Database
<1> QED
  BY <1>6, <1>7, <1>8 DEF WellIndexed

\* Deleting a relation keeps every index exact.
LEMMA RelationDeletedKeeps ==
  ASSUME NEW d \in Database, WellIndexed(d), NEW id \in Relation
  PROVE  /\ RelationDeleted(d, id) \in Database
         /\ WellIndexed(RelationDeleted(d, id))
<1> DEFINE e == RelationDeleted(d, id)
           prev == PrevMembers(d, id)
<1>1. d.relations \in Table(Relation, RelationRow)
  BY DEF Database
<1>2. Del(d.relations, id) \in Table(Relation, RelationRow)
  BY <1>1, DelTable
<1>3. /\ e.relations = Del(d.relations, id)
      /\ e.node_relation = Reindex(d.node_relation, id, prev.node, {})
      /\ e.way_relation = Reindex(d.way_relation, id, prev.way, {})
      /\ e.relation_relation = Reindex(d.relation_relation, id, prev.relation, {})
  BY DEF RelationDeleted, RelationReindexed, NoMembers, Database
<1>4. /\ NodeMembers(e) = Del(NodeMembers(d), id)
      /\ WayMembers(e) = Del(WayMembers(d), id)
      /\ RelationMembers(e) = Del(RelationMembers(d), id)
  BY <1>3 DEF NodeMembers, WayMembers, RelationMembers, Del
<1>5. /\ prev.node = IF id \in DOMAIN NodeMembers(d)
                     THEN NodeMembers(d)[id] ELSE {}
      /\ prev.way = IF id \in DOMAIN WayMembers(d)
                    THEN WayMembers(d)[id] ELSE {}
      /\ prev.relation = IF id \in DOMAIN RelationMembers(d)
                         THEN RelationMembers(d)[id] ELSE {}
  BY DEF PrevMembers, Exists, NoMembers, NodeMembers, WayMembers, RelationMembers
<1>6. MemberIndexesExact(e)
  <2>1. /\ d.node_relation = Backrefs(NodeMembers(d))
        /\ d.way_relation = Backrefs(WayMembers(d))
        /\ d.relation_relation = Backrefs(RelationMembers(d))
        /\ d.node_way = Backrefs(d.ways)
    BY DEF WellIndexed, MemberIndexesExact
  <2>2. e.node_way = d.node_way /\ e.ways = d.ways
    BY DEF RelationDeleted, RelationReindexed, Database
  <2> HIDE DEF e, prev
  <2>3. e.node_relation = Backrefs(NodeMembers(e))
    BY <1>3, <1>4, <1>5, <2>1, ReindexDel
  <2>4. e.way_relation = Backrefs(WayMembers(e))
    BY <1>3, <1>4, <1>5, <2>1, ReindexDel
  <2>5. e.relation_relation = Backrefs(RelationMembers(e))
    BY <1>3, <1>4, <1>5, <2>1, ReindexDel
  <2> QED
    BY <2>1, <2>2, <2>3, <2>4, <2>5 DEF MemberIndexesExact
<1>7. e \in Database
  <2>1. /\ d.node_relation \in SUBSET (Node \X Relation)
        /\ d.way_relation \in SUBSET (Way \X Relation)
        /\ d.relation_relation \in SUBSET (Relation \X Relation)
    BY DEF Database
  <2>2. /\ e.node_relation \in SUBSET (Node \X Relation)
        /\ e.way_relation \in SUBSET (Way \X Relation)
        /\ e.relation_relation \in SUBSET (Relation \X Relation)
    <3>1. \A S : {} \in SUBSET S
      OBVIOUS
    <3> HIDE DEF e, prev
    <3>2. e.node_relation \in SUBSET (Node \X Relation)
      BY <1>3, <2>1, <3>1, ReindexType
    <3>3. e.way_relation \in SUBSET (Way \X Relation)
      BY <1>3, <2>1, <3>1, ReindexType
    <3>4. e.relation_relation \in SUBSET (Relation \X Relation)
      BY <1>3, <2>1, <3>1, ReindexType
    <3> QED  BY <3>2, <3>3, <3>4
  <2> QED
    BY <1>2, <2>2 DEF RelationDeleted, RelationReindexed, Database
<1>8. CellIndexExact(e) /\ TaggedAreLocated(e)
  BY DEF WellIndexed, CellIndexExact, TaggedAreLocated, RelationDeleted,
         RelationReindexed, Database
<1> QED
  BY <1>6, <1>7, <1>8 DEF WellIndexed

----------------------------------------------------------------------------
(* The invariants.                                                         *)

\* The inductive invariant: the two views are databases, both are well
\* indexed, and they agree when no transaction runs.
Inv == TypeOK /\ WellIndexed(db) /\ WellIndexed(txn)

\* The invariant holds in the databases update starts from.
LEMMA InvInit == Init => Inv
<1>1. 0 \in 0..MaxChanges
  BY MaxChangesAssumption
<1> QED
  BY <1>1, ExpandedIsWellIndexed DEF Init, Inv, TypeOK

\* A change leaves the transaction's view in the invariant whenever the
\* handler's result is a well-indexed database.
LEMMA InvApply ==
  ASSUME Inv, NEW d, Apply(d), d \in Database, WellIndexed(d)
  PROVE  Inv'
<1>1. applied' \in 0..MaxChanges
  BY MaxChangesAssumption DEF Inv, TypeOK, Apply
<1>2. WellIndexed(db)' /\ WellIndexed(txn)'
  BY DEF Inv, Apply
<1> QED
  BY <1>1, <1>2 DEF Inv, TypeOK, Apply

\* Every step of the update command keeps the invariant.
LEMMA InvNext == Inv /\ [Next]_vars => Inv'
<1> SUFFICES ASSUME Inv, [Next]_vars PROVE Inv'
  OBVIOUS
<1> USE DEF Inv
<1>1. txn \in Database /\ db \in Database /\ 0 \in 0..MaxChanges
  BY MaxChangesAssumption DEF TypeOK
<1>2. CASE Begin
  BY <1>1, <1>2 DEF Begin, TypeOK
<1>3. CASE DeleteNode
  BY <1>1, <1>3, NodeDeletedKeeps, InvApply DEF DeleteNode
<1>4. CASE PutNode
  BY <1>1, <1>4, NodePutKeeps, InvApply DEF PutNode
<1>5. CASE DeleteWay
  BY <1>1, <1>5, WayDeletedKeeps, InvApply DEF DeleteWay
<1>6. CASE PutWay
  BY <1>1, <1>6, WayPutKeeps, InvApply DEF PutWay
<1>7. CASE DeleteRelation
  BY <1>1, <1>7, RelationDeletedKeeps, InvApply DEF DeleteRelation
<1>8. CASE PutRelation
  BY <1>1, <1>8, RelationPutKeeps, InvApply DEF PutRelation
<1>9. ASSUME NEW stamp \in Stamp, Commit(stamp) PROVE Inv'
  <2> DEFINE e == [txn EXCEPT !.metadata = stamp]
  <2>1. e \in Database
    BY <1>1 DEF Database
  <2>2. WellIndexed(e)
    BY <1>1 DEF Database, WellIndexed, CellIndexExact, TaggedAreLocated,
                MemberIndexesExact, NodeMembers, WayMembers, RelationMembers
  <2>3. db' = e /\ txn' = e /\ active' = FALSE /\ applied' = 0
    BY <1>9 DEF Commit
  <2> HIDE DEF e
  <2> QED
    BY <1>1, <2>1, <2>2, <2>3 DEF TypeOK
<1>10. CASE Rollback
  BY <1>1, <1>10 DEF Rollback, TypeOK
<1>11. CASE UNCHANGED vars
  BY <1>11 DEF vars, TypeOK
<1> QED
  BY <1>2, <1>3, <1>4, <1>5, <1>6, <1>7, <1>8, <1>9, <1>10, <1>11 DEF Next

\* The inductive invariant holds for ever.
LEMMA Invariance == Spec => []Inv
  BY InvInit, InvNext, PTL DEF Spec

\* The variables of Update keep their types.
THEOREM TypeCorrect == Spec => []TypeOK
<1>1. Inv => TypeOK
  BY DEF Inv
<1> QED
  BY <1>1, Invariance, PTL

\* The cell index is exact after any number of changes and transactions.
THEOREM CellIndexCorrect == Spec => []CellIndexIntegrity
<1>1. Inv => CellIndexIntegrity
  BY DEF Inv, WellIndexed, CellIndexIntegrity
<1> QED
  BY <1>1, Invariance, PTL

\* The four member indexes are exact after any number of changes and
\* transactions.
THEOREM MemberIndexesCorrect == Spec => []MemberIndexIntegrity
<1>1. Inv => MemberIndexIntegrity
  BY DEF Inv, WellIndexed, MemberIndexIntegrity
<1> QED
  BY <1>1, Invariance, PTL

\* The uninitialised prev_cell never matters.
THEOREM StrayCellNeverMatters == Spec => []StrayCellHarmless
<1>1. Inv => StrayCellHarmless
  BY StrayDelete DEF Inv, TypeOK, StrayCellHarmless
<1> QED
  BY <1>1, Invariance, PTL

----------------------------------------------------------------------------
(* The laws of pairs of changes.                                           *)

SameRows(d, e) ==
  /\ d.locations = e.locations /\ d.nodes = e.nodes
  /\ d.ways = e.ways /\ d.relations = e.relations
  /\ d.metadata = e.metadata

\* Exact indexes leave no choice: the rows determine the database.
LEMMA RowsDetermine ==
  ASSUME NEW d \in Database, NEW e \in Database,
         WellIndexed(d), WellIndexed(e), SameRows(d, e)
  PROVE  d = e
<1>1. d.cell_node = e.cell_node
  BY DEF WellIndexed, CellIndexExact, SameRows
<1>2. /\ d.node_way = e.node_way
      /\ d.node_relation = e.node_relation
      /\ d.way_relation = e.way_relation
      /\ d.relation_relation = e.relation_relation
  BY DEF WellIndexed, MemberIndexesExact, NodeMembers, WayMembers,
         RelationMembers, SameRows
<1> QED
  BY <1>1, <1>2 DEF SameRows, Database

\* A change puts or deletes a row.
SetRow(table, id, visible, row) == IF visible THEN Put(table, id, row) ELSE Del(table, id)

\* Of two changes to a row the second decides.
LEMMA LastRowWins ==
  ASSUME NEW K, NEW V, NEW table \in Table(K, V), NEW id,
         NEW v1, NEW row1, NEW v2, NEW row2
  PROVE  SetRow(SetRow(table, id, v1, row1), id, v2, row2) = SetRow(table, id, v2, row2)
<1>1. PICK ids \in SUBSET K : table \in [ids -> V]
  BY DEF Table
<1> QED
  BY <1>1 DEF SetRow, Put, Del

\* Changes to two rows commute.
LEMMA RowsCommute ==
  ASSUME NEW table, NEW id1, NEW id2, id1 # id2,
         NEW v1, NEW row1, NEW v2, NEW row2
  PROVE  SetRow(SetRow(table, id1, v1, row1), id2, v2, row2)
           = SetRow(SetRow(table, id2, v2, row2), id1, v1, row1)
<1>1. Put(Put(table, id1, row1), id2, row2) = Put(Put(table, id2, row2), id1, row1)
  BY DEF Put
<1>2. Put(Del(table, id1), id2, row2) = Del(Put(table, id2, row2), id1)
  BY DEF Put, Del
<1>3. Del(Put(table, id1, row1), id2) = Put(Del(table, id2), id1, row1)
  BY DEF Put, Del
<1>4. Del(Del(table, id1), id2) = Del(Del(table, id2), id1)
  BY DEF Del
<1> QED
  BY <1>1, <1>2, <1>3, <1>4 DEF SetRow

\* What a change makes of the database, whatever prev_cell is.
Result(d, c) ==
  CASE c.type = "node" /\ c.visible -> NodePut(d, c.id, c.loc, c.tagged)
    [] c.type = "node" /\ ~c.visible ->
         IF Exists(d.locations, c.id)
         THEN NodeDeleted(d, c.id, CellOf[d.locations[c.id]]) ELSE d
    [] c.type = "way" /\ c.visible -> WayPut(d, c.id, c.nodes)
    [] c.type = "way" /\ ~c.visible -> WayDeleted(d, c.id)
    [] c.type = "relation" /\ c.visible -> RelationPut(d, c.id, c.row)
    [] c.type = "relation" /\ ~c.visible -> RelationDeleted(d, c.id)

\* The kinds of changes.
LEMMA ChangeCases ==
  ASSUME NEW c \in Change
  PROVE  \/ c.type = "node" /\ c.id \in Node /\ c.visible /\ c.loc \in Loc
              /\ c.tagged \in BOOLEAN
         \/ c.type = "node" /\ c.id \in Node /\ ~c.visible
         \/ c.type = "way" /\ c.id \in Way /\ c.visible /\ c.nodes \in SUBSET Node
         \/ c.type = "way" /\ c.id \in Way /\ ~c.visible
         \/ c.type = "relation" /\ c.id \in Relation /\ c.visible /\ c.row \in RelationRow
         \/ c.type = "relation" /\ c.id \in Relation /\ ~c.visible
  BY DEF Change, Deletion

\* The result is a well-indexed database.
LEMMA ResultKeeps ==
  ASSUME NEW d \in Database, WellIndexed(d), NEW c \in Change
  PROVE  Result(d, c) \in Database /\ WellIndexed(Result(d, c))
<1>1. CASE c.type = "node" /\ c.visible
  BY <1>1, ChangeCases, NodePutKeeps DEF Result
<1>2. CASE c.type = "node" /\ ~c.visible
  BY <1>2, ChangeCases, NodeDeletedKeeps DEF Result, PrevCell
<1>3. CASE c.type = "way" /\ c.visible
  BY <1>3, ChangeCases, WayPutKeeps DEF Result
<1>4. CASE c.type = "way" /\ ~c.visible
  BY <1>4, ChangeCases, WayDeletedKeeps DEF Result
<1>5. CASE c.type = "relation" /\ c.visible
  BY <1>5, ChangeCases, RelationPutKeeps DEF Result
<1>6. CASE c.type = "relation" /\ ~c.visible
  BY <1>6, ChangeCases, RelationDeletedKeeps DEF Result
<1> QED
  BY <1>1, <1>2, <1>3, <1>4, <1>5, <1>6, ChangeCases

\* e has the rows of d with the row of c put or deleted.
Changed(d, c, e) ==
  /\ e.locations = IF c.type # "node" THEN d.locations
                   ELSE SetRow(d.locations, c.id, c.visible, c.loc)
  /\ e.nodes = IF c.type # "node" THEN d.nodes
               ELSE IF c.visible /\ c.tagged THEN d.nodes \cup {c.id}
               ELSE d.nodes \ {c.id}
  /\ e.ways = IF c.type # "way" THEN d.ways
              ELSE SetRow(d.ways, c.id, c.visible, c.nodes)
  /\ e.relations = IF c.type # "relation" THEN d.relations
                   ELSE SetRow(d.relations, c.id, c.visible, c.row)
  /\ e.metadata = d.metadata

\* The rows of the result: one table has one row put or deleted.
LEMMA ResultRows ==
  ASSUME NEW d \in Database, WellIndexed(d), NEW c \in Change
  PROVE  Changed(d, c, Result(d, c))
<1> USE DEF Changed, SetRow
<1>1. CASE c.type = "node" /\ c.visible
  BY <1>1 DEF Result, NodePut, Database
<1>2. CASE c.type = "node" /\ ~c.visible /\ Exists(d.locations, c.id)
  BY <1>2 DEF Result, NodeDeleted, Database
<1>3. CASE c.type = "node" /\ ~c.visible /\ ~Exists(d.locations, c.id)
  <2>1. Result(d, c) = d
    BY <1>3 DEF Result
  <2>2. Del(d.locations, c.id) = d.locations
    <3>1. PICK ids \in SUBSET Node : d.locations \in [ids -> Loc]
      BY DEF Database, Table
    <3> QED
      BY <1>3, <3>1 DEF Del, Exists
  <2>3. d.nodes \ {c.id} = d.nodes
    BY <1>3 DEF WellIndexed, TaggedAreLocated, Exists
  <2> QED
    BY <1>3, <2>1, <2>2, <2>3
<1>4. CASE c.type = "way" /\ c.visible
  BY <1>4 DEF Result, WayPut, Database
<1>5. CASE c.type = "way" /\ ~c.visible
  BY <1>5 DEF Result, WayDeleted, Database
<1>6. CASE c.type = "relation" /\ c.visible
  BY <1>6 DEF Result, RelationPut, RelationReindexed, Database
<1>7. CASE c.type = "relation" /\ ~c.visible
  BY <1>7 DEF Result, RelationDeleted, RelationReindexed, Database
<1> QED
  BY <1>1, <1>2, <1>3, <1>4, <1>5, <1>6, <1>7, ChangeCases

\* A change has one outcome; when there is no cell there is no location either,
\* and no value for the prev_cell of a deleted node.
LEMMA OneOutcome ==
  ASSUME NEW d \in Database, WellIndexed(d), NEW c \in Change
  PROVE  Outcomes(d, c) = IF c.type = "node" /\ Cell = {} THEN {} ELSE {Result(d, c)}
<1>1. \A n \in DOMAIN d.locations : CellOf[d.locations[n]] \in Cell
  BY RowOfTable, CellOfAssumption DEF Database
<1>2. CASE c.type = "node" /\ c.visible
  <2>1. CellOf[c.loc] \in Cell
    BY <1>2, ChangeCases, CellOfAssumption
  <2> QED
    BY <1>2, <2>1 DEF Outcomes, Result
<1>3. CASE c.type = "node" /\ ~c.visible /\ Exists(d.locations, c.id)
  BY <1>1, <1>3 DEF Outcomes, Result, PrevCell, Exists
<1>4. CASE c.type = "node" /\ ~c.visible /\ ~Exists(d.locations, c.id)
  <2>1. Outcomes(d, c) = {NodeDeleted(d, c.id, prev_cell) : prev_cell \in Cell}
    BY <1>4 DEF Outcomes, PrevCell
  <2>2. \A prev_cell \in Cell : NodeDeleted(d, c.id, prev_cell) = d
    BY <1>4, ChangeCases, StrayDelete DEF Exists
  <2>3. Result(d, c) = d
    BY <1>4 DEF Result
  <2> QED
    BY <1>4, <2>1, <2>2, <2>3
<1>5. CASE c.type = "way"
  BY <1>5, ChangeCases DEF Outcomes, Result
<1>6. CASE c.type = "relation"
  BY <1>6, ChangeCases DEF Outcomes, Result
<1> QED
  BY <1>2, <1>3, <1>4, <1>5, <1>6, ChangeCases

\* So have two changes.
LEMMA OneOutcome2 ==
  ASSUME NEW d \in Database, WellIndexed(d), NEW c1 \in Change, NEW c2 \in Change
  PROVE  Outcomes2(d, c1, c2) =
           IF "node" \in {c1.type, c2.type} /\ Cell = {} THEN {}
           ELSE {Result(Result(d, c1), c2)}
<1> DEFINE e == Result(d, c1)
<1>1. e \in Database /\ WellIndexed(e)
  BY ResultKeeps
<1>2. Outcomes(d, c1) = IF c1.type = "node" /\ Cell = {} THEN {} ELSE {e}
  BY OneOutcome
<1>3. Outcomes(e, c2) = IF c2.type = "node" /\ Cell = {} THEN {} ELSE {Result(e, c2)}
  BY <1>1, OneOutcome
<1> HIDE DEF e
<1>4. CASE c1.type = "node" /\ Cell = {}
  BY <1>2, <1>4 DEF Outcomes2
<1>5. CASE ~(c1.type = "node" /\ Cell = {})
  <2>1. Outcomes2(d, c1, c2) = Outcomes(e, c2)
    BY <1>2, <1>5 DEF Outcomes2
  <2> QED
    BY <1>3, <1>5, <2>1 DEF e
<1> QED
  BY <1>4, <1>5

\* Of two changes to an object the second decides.
THEOREM LastVersionAlwaysWins == Spec => []LastVersionWins
<1>1. ASSUME Inv, NEW c1 \in Change, NEW c2 \in Change, SameTarget(c1, c2)
      PROVE  Outcomes2(db, c1, c2) = Outcomes(db, c2)
  <2> DEFINE d == db
             one == Result(d, c1)
             both == Result(one, c2)
             last == Result(d, c2)
  <2>1. d \in Database /\ WellIndexed(d)
    BY <1>1 DEF Inv, TypeOK
  <2>2. one \in Database /\ WellIndexed(one) /\ last \in Database /\ WellIndexed(last)
    BY <2>1, ResultKeeps
  <2>3. both \in Database /\ WellIndexed(both)
    BY <2>2, ResultKeeps
  <2>4. Changed(d, c1, one) /\ Changed(one, c2, both) /\ Changed(d, c2, last)
    BY <2>1, <2>2, ResultRows
  <2>5. /\ d.locations \in Table(Node, Loc) /\ d.ways \in Table(Way, SUBSET Node)
        /\ d.relations \in Table(Relation, RelationRow)
    BY <2>1 DEF Database
  <2>6. c1.type = c2.type /\ c1.id = c2.id
    BY <1>1 DEF SameTarget
  <2> HIDE DEF one, both, last, d
  <2>7. SameRows(both, last)
    <3>1. both.locations = last.locations
      BY <2>4, <2>5, <2>6, LastRowWins DEF Changed
    <3>2. both.nodes = last.nodes
      BY <2>4, <2>6 DEF Changed
    <3>3. both.ways = last.ways
      BY <2>4, <2>5, <2>6, LastRowWins DEF Changed
    <3>4. both.relations = last.relations
      BY <2>4, <2>5, <2>6, LastRowWins DEF Changed
    <3>5. both.metadata = last.metadata
      BY <2>4 DEF Changed
    <3> QED
      BY <3>1, <3>2, <3>3, <3>4, <3>5 DEF SameRows
  <2>8. both = last
    BY <2>2, <2>3, <2>7, RowsDetermine
  <2> QED
    BY <1>1, <2>1, <2>6, <2>8, OneOutcome, OneOutcome2 DEF one, both, last, d
<1>2. Inv => LastVersionWins
  BY <1>1 DEF LastVersionWins
<1> QED
  BY <1>2, Invariance, PTL

\* Changes to two objects commute.
THEOREM ChangesAlwaysCommute == Spec => []ChangesCommute
<1>1. ASSUME Inv, NEW c1 \in Change, NEW c2 \in Change, ~SameTarget(c1, c2)
      PROVE  Outcomes2(db, c1, c2) = Outcomes2(db, c2, c1)
  <2> DEFINE d == db
             one == Result(d, c1)
             two == Result(d, c2)
             left == Result(one, c2)
             right == Result(two, c1)
  <2>1. d \in Database /\ WellIndexed(d)
    BY <1>1 DEF Inv, TypeOK
  <2>2. one \in Database /\ WellIndexed(one) /\ two \in Database /\ WellIndexed(two)
    BY <2>1, ResultKeeps
  <2>3. left \in Database /\ WellIndexed(left) /\ right \in Database /\ WellIndexed(right)
    BY <2>2, ResultKeeps
  <2>4. /\ Changed(d, c1, one) /\ Changed(one, c2, left)
        /\ Changed(d, c2, two) /\ Changed(two, c1, right)
    BY <2>1, <2>2, ResultRows
  <2>5. c1.type = c2.type => c1.id # c2.id
    BY <1>1 DEF SameTarget
  <2> HIDE DEF one, two, left, right, d
  <2>6. SameRows(left, right)
    <3>1. left.locations = right.locations
      BY <2>4, <2>5, RowsCommute DEF Changed
    <3>2. left.nodes = right.nodes
      BY <2>4, <2>5 DEF Changed
    <3>3. left.ways = right.ways
      BY <2>4, <2>5, RowsCommute DEF Changed
    <3>4. left.relations = right.relations
      BY <2>4, <2>5, RowsCommute DEF Changed
    <3>5. left.metadata = right.metadata
      BY <2>4 DEF Changed
    <3> QED
      BY <3>1, <3>2, <3>3, <3>4, <3>5 DEF SameRows
  <2>7. left = right
    BY <2>3, <2>6, RowsDetermine
  <2> QED
    BY <2>1, <2>7, OneOutcome2 DEF one, two, left, right, d
<1>2. Inv => ChangesCommute
  BY <1>1 DEF ChangesCommute
<1> QED
  BY <1>2, Invariance, PTL

----------------------------------------------------------------------------
(* The augmented diff.                                                     *)

\* The entries that count of a file of two: the second alone when both are about
\* one object.
LEMMA FileOfTwo ==
  ASSUME NEW e1, NEW e2, e1.version = 1, e2.version = 2
  PROVE  Actions(<<e1, e2>>) = IF Key(e1) = Key(e2) THEN {e2} ELSE {e1, e2}
<1> DEFINE osc == <<e1, e2>>
<1>1. DOMAIN osc = {1, 2} /\ osc[1] = e1 /\ osc[2] = e2
  OBVIOUS
<1> HIDE DEF osc
<1>2. 2 \in Newest(osc)
  BY <1>1 DEF Newest
<1>3. 1 \in Newest(osc) <=> Key(e1) # Key(e2)
  BY <1>1 DEF Newest
<1>4. Newest(osc) = IF Key(e1) = Key(e2) THEN {2} ELSE {1, 2}
  BY <1>1, <1>2, <1>3 DEF Newest
<1> QED
  BY <1>1, <1>4 DEF Actions, osc

\* The files that lead from the database to the next state, and that state.
LEMMA UpdateIs ==
  ASSUME NEW d \in Database, WellIndexed(d), NEW u \in Updates(d)
  PROVE  \E c1, c2 \in Change :
           \E e1 \in EntriesFor(d, d, 1, c1), e2 \in EntriesFor(d, Result(d, c1), 2, c2) :
             /\ u.osc = <<e1, e2>>
             /\ u.after = Result(Result(d, c1), c2)
<1> DEFINE Made(e1, e2, after) == [osc |-> <<e1, e2>>, after |-> after]
           Files(c1, c2, now) ==
             {Made(e1, e2, after) :
                e1 \in EntriesFor(d, d, 1, c1), e2 \in EntriesFor(d, now, 2, c2),
                after \in Outcomes(now, c2)}
           Pairs(c1, c2) == UNION {Files(c1, c2, now) : now \in Outcomes(d, c1)}
<1>0. PICK c1 \in Change, c2 \in Change : u \in Pairs(c1, c2)
  <2>1. Updates(d) = UNION {Pairs(c1, c2) : c1, c2 \in Change}
    BY DEF Updates
  <2> HIDE DEF Pairs
  <2> QED
    BY <2>1
<1>6. PICK now \in Outcomes(d, c1) : u \in Files(c1, c2, now)
  <2> HIDE DEF Files
  <2> QED
    BY <1>0
<1>1. PICK e1 \in EntriesFor(d, d, 1, c1), e2 \in EntriesFor(d, now, 2, c2),
           after \in Outcomes(now, c2) : u = Made(e1, e2, after)
  BY <1>6
<1>2. now = Result(d, c1)
  BY OneOutcome
<1>3. now \in Database /\ WellIndexed(now)
  BY <1>2, ResultKeeps
<1>4. after = Result(now, c2)
  BY <1>3, OneOutcome
<1>5. u.osc = <<e1, e2>> /\ u.after = after
  BY <1>1
<1> QED
  BY <1>2, <1>4, <1>5

\* The file of an update holds these two entries, which lead from d over now to
\* what the update leaves.
Leads(d, u, e1, now, e2) ==
  /\ Actions(u.osc) = IF Key(e1) = Key(e2) THEN {e2} ELSE {e1, e2}
  /\ e1.change \in Change /\ e2.change \in Change
  /\ e1.block \in Blocks(d, d, e1.change) /\ e2.block \in Blocks(d, now, e2.change)
  /\ \A a \in {e1, e2} : a.coordinates \/ (a.change.type = "node" /\ ~a.change.visible)
  /\ Changed(d, e1.change, now) /\ Changed(now, e2.change, u.after)

\* A row of another object is not touched.
LEMMA OtherRow ==
  ASSUME NEW table, NEW id, NEW visible, NEW row, NEW new,
         new = SetRow(table, id, visible, row),
         NEW k \in DOMAIN new, k # id
  PROVE  k \in DOMAIN table /\ new[k] = table[k]
<1>1. CASE visible
  BY <1>1 DEF SetRow, Put
<1>2. CASE ~visible
  BY <1>2 DEF SetRow, Del
<1> QED
  BY <1>1, <1>2

\* Nor is one lost.
LEMMA OtherRowStays ==
  ASSUME NEW table, NEW id, NEW visible, NEW row, NEW new,
         new = SetRow(table, id, visible, row),
         NEW k \in DOMAIN table, k # id
  PROVE  k \in DOMAIN new /\ new[k] = table[k]
<1>1. CASE visible
  BY <1>1 DEF SetRow, Put
<1>2. CASE ~visible
  BY <1>2 DEF SetRow, Del
<1> QED
  BY <1>1, <1>2

\* An update has such entries.
LEMMA UpdateLeads ==
  ASSUME NEW d \in Database, WellIndexed(d), NEW u \in Updates(d)
  PROVE  \E e1, now, e2 : Leads(d, u, e1, now, e2)
<1>1. PICK c1 \in Change, c2 \in Change :
        \E e1 \in EntriesFor(d, d, 1, c1), e2 \in EntriesFor(d, Result(d, c1), 2, c2) :
          /\ u.osc = <<e1, e2>>
          /\ u.after = Result(Result(d, c1), c2)
  BY UpdateIs
<1>2. PICK e1 \in EntriesFor(d, d, 1, c1), e2 \in EntriesFor(d, Result(d, c1), 2, c2) :
        /\ u.osc = <<e1, e2>>
        /\ u.after = Result(Result(d, c1), c2)
  BY <1>1
<1> DEFINE now == Result(d, c1)
<1>3. /\ e1.version = 1 /\ e1.change = c1 /\ e1.block \in Blocks(d, d, c1)
      /\ e2.version = 2 /\ e2.change = c2 /\ e2.block \in Blocks(d, now, c2)
      /\ \A a \in {e1, e2} : a.coordinates \/ (a.change.type = "node" /\ ~a.change.visible)
  BY DEF EntriesFor
<1>4. now \in Database /\ WellIndexed(now)
  BY ResultKeeps
<1>5. Changed(d, c1, now) /\ Changed(now, c2, u.after)
  BY <1>2, <1>4, ResultRows
<1> HIDE DEF now
<1>6. Actions(u.osc) = IF Key(e1) = Key(e2) THEN {e2} ELSE {e1, e2}
  BY <1>2, <1>3, FileOfTwo
<1>8. Leads(d, u, e1, now, e2)
  BY <1>3, <1>5, <1>6 DEF Leads
<1> QED
  BY <1>8

\* A node that the update moves is taken for moved: the entry that counts for it
\* is a modify with another location.
LEMMA NodeMoved ==
  ASSUME NEW d, NEW u, NEW e1, NEW now, NEW e2, Leads(d, u, e1, now, e2),
         NEW n, n \in DOMAIN d.locations, n \in DOMAIN u.after.locations,
         d.locations[n] # u.after.locations[n]
  PROVE  n \in Moved(d, u.osc)
<1> DEFINE c1 == e1.change
           c2 == e2.change
<1>1. Changed(d, c1, now) /\ Changed(now, c2, u.after)
  BY DEF Leads
<1>2. ASSUME NEW a \in Actions(u.osc), a.change.type = "node", a.change.id = n,
             a.block = "modify", a.change.loc # d.locations[n]
      PROVE  n \in Moved(d, u.osc)
  <2>1. a.change \in Modified(d, u.osc, "node")
    BY <1>2 DEF Modified, InDb, Exists
  <2> QED
    BY <1>2, <2>1 DEF Moved
<1>3. CASE c2.type = "node" /\ c2.id = n
  <2>1. c2.visible /\ u.after.locations[n] = c2.loc
    BY <1>1, <1>3 DEF Changed, SetRow, Put, Del
  <2>2. e2.block = "modify"
    BY <1>3, <2>1 DEF Leads, Blocks, InDb, Exists
  <2>3. e2 \in Actions(u.osc)
    BY DEF Leads
  <2> QED
    BY <1>2, <1>3, <2>1, <2>2, <2>3
<1>4. CASE ~(c2.type = "node" /\ c2.id = n)
  <2>1. n \in DOMAIN now.locations /\ u.after.locations[n] = now.locations[n]
    <3>1. CASE c2.type # "node"
      BY <1>1, <3>1 DEF Changed
    <3>2. CASE c2.type = "node"
      <4>1. u.after.locations = SetRow(now.locations, c2.id, c2.visible, c2.loc)
        BY <1>1, <3>2 DEF Changed
      <4> QED
        BY <1>4, <3>2, <4>1, OtherRow
    <3> QED
      BY <3>1, <3>2
  <2>2. c1.type = "node" /\ c1.id = n
    BY <1>1, <2>1 DEF Changed, SetRow, Put, Del
  <2>3. c1.visible /\ now.locations[n] = c1.loc
    BY <1>1, <2>1, <2>2 DEF Changed, SetRow, Put, Del
  <2>4. e1.block = "modify"
    BY <2>2, <2>3 DEF Leads, Blocks, InDb, Exists
  <2>5. Key(e1) # Key(e2)
    BY <1>4, <2>2 DEF Key
  <2>6. e1 \in Actions(u.osc)
    BY <2>5 DEF Leads
  <2> QED
    BY <1>2, <2>1, <2>2, <2>3, <2>4, <2>6
<1> QED
  BY <1>3, <1>4

\* The nodes of a way after the update are those of its entry that counts, if the
\* file has one.
LEMMA WayAfter ==
  ASSUME NEW d, NEW u, NEW e1, NEW now, NEW e2, Leads(d, u, e1, now, e2),
         NEW w, w \in DOMAIN u.after.ways
  PROVE  \/ /\ w \notin InFile(u.osc, "way")
            /\ w \in DOMAIN d.ways /\ u.after.ways[w] = d.ways[w]
         \/ \E a \in Actions(u.osc) :
              /\ a.change.type = "way" /\ a.change.id = w
              /\ a.change.visible /\ a.change.nodes = u.after.ways[w]
              /\ w \in DOMAIN d.ways => a.block = "modify"
<1> DEFINE c1 == e1.change
           c2 == e2.change
<1>1. Changed(d, c1, now) /\ Changed(now, c2, u.after)
  BY DEF Leads
<1>2. CASE c2.type = "way" /\ c2.id = w
  <2>1. c2.visible /\ u.after.ways[w] = c2.nodes
    BY <1>1, <1>2 DEF Changed, SetRow, Put, Del
  <2>2. w \in DOMAIN d.ways => e2.block = "modify"
    BY <1>2, <2>1 DEF Leads, Blocks, InDb, Exists
  <2>3. e2 \in Actions(u.osc)
    BY DEF Leads
  <2> QED
    BY <1>2, <2>1, <2>2, <2>3
<1>3. CASE ~(c2.type = "way" /\ c2.id = w)
  <2>1. w \in DOMAIN now.ways /\ u.after.ways[w] = now.ways[w]
    BY <1>1, <1>3 DEF Changed, SetRow, Put, Del
  <2>2. CASE c1.type = "way" /\ c1.id = w
    <3>1. c1.visible /\ now.ways[w] = c1.nodes
      BY <1>1, <2>1, <2>2 DEF Changed, SetRow, Put, Del
    <3>2. w \in DOMAIN d.ways => e1.block = "modify"
      BY <2>2, <3>1 DEF Leads, Blocks, InDb, Exists
    <3>3. Key(e1) # Key(e2)
      BY <1>3, <2>2 DEF Key
    <3>4. e1 \in Actions(u.osc)
      BY <3>3 DEF Leads
    <3> QED
      BY <2>1, <2>2, <3>1, <3>2, <3>4
  <2>3. CASE ~(c1.type = "way" /\ c1.id = w)
    <3>1. w \in DOMAIN d.ways /\ now.ways[w] = d.ways[w]
      <4>1. CASE c1.type # "way"
        BY <1>1, <2>1, <4>1 DEF Changed
      <4>2. CASE c1.type = "way"
        <5>1. now.ways = SetRow(d.ways, c1.id, c1.visible, c1.nodes)
          BY <1>1, <4>2 DEF Changed
        <5> QED
          BY <2>3, <2>1, <4>2, <5>1, OtherRow
      <4> QED
        BY <4>1, <4>2
    <3>2. \A a \in Actions(u.osc) : a.change = c1 \/ a.change = c2
      BY DEF Leads
    <3>3. w \notin InFile(u.osc, "way")
      BY <1>3, <2>3, <3>2 DEF InFile
    <3> QED
      BY <2>1, <3>1, <3>3
  <2> QED
    BY <2>2, <2>3
<1> QED
  BY <1>2, <1>3

\* A way whose nodes the update changes is taken for rewired.
LEMMA WayRewired ==
  ASSUME NEW d, NEW u, NEW e1, NEW now, NEW e2, Leads(d, u, e1, now, e2),
         NEW w, w \in DOMAIN d.ways, w \in DOMAIN u.after.ways,
         d.ways[w] # u.after.ways[w]
  PROVE  w \in Rewired(d, u.osc)
<1>1. PICK a \in Actions(u.osc) :
        /\ a.change.type = "way" /\ a.change.id = w
        /\ a.change.nodes = u.after.ways[w] /\ a.block = "modify"
  BY WayAfter
<1>2. a.change \in Modified(d, u.osc, "way")
  BY <1>1 DEF Modified, InDb, Exists
<1> QED
  BY <1>1, <1>2 DEF Rewired

\* The nodes that an augmented way is drawn with are those it has after the update.
LEMMA NewNodesAre ==
  ASSUME NEW d, NEW u, NEW e1, NEW now, NEW e2, Leads(d, u, e1, now, e2),
         NEW w, w \in DOMAIN u.after.ways
  PROVE  NewNodes(d, u.osc, w) = u.after.ways[w]
<1>1. CASE w \notin InFile(u.osc, "way")
  <2>1. \A a \in Actions(u.osc) : ~(a.change.type = "way" /\ a.change.id = w)
    BY <1>1 DEF InFile
  <2>2. u.after.ways[w] = d.ways[w]
    BY <2>1, WayAfter
  <2> QED
    BY <1>1, <2>2 DEF NewNodes
<1>2. CASE w \in InFile(u.osc, "way")
  <2>1. PICK a \in Actions(u.osc) :
          /\ a.change.type = "way" /\ a.change.id = w
          /\ a.change.visible /\ a.change.nodes = u.after.ways[w]
    BY <1>2, WayAfter
  <2>2. \A x \in Actions(u.osc) : x.change.type = "way" /\ x.change.id = w => x = a
    BY <2>1 DEF Leads, Key
  <2> DEFINE Fits(x) == x.type = "way" /\ x.id = w
             changes == {x.change : x \in Actions(u.osc)}
             c == CHOOSE x \in changes : Fits(x)
  <2>3. a.change \in changes /\ Fits(a.change)
    BY <2>1
  <2>4. \A x \in changes : Fits(x) => x = a.change
    BY <2>2
  <2>5. c = a.change
    <3> HIDE DEF changes, Fits
    <3> QED
      BY <2>3, <2>4
  <2> QED
    BY <1>2, <2>1, <2>5 DEF NewNodes
<1> QED
  BY <1>1, <1>2

\* A node that is located after the update was, or is in the file.
LEMMA LocatedBefore ==
  ASSUME NEW d, NEW u, NEW e1, NEW now, NEW e2, Leads(d, u, e1, now, e2),
         NEW n, n \in DOMAIN u.after.locations
  PROVE  n \in DOMAIN d.locations \cup InFile(u.osc, "node")
<1> DEFINE c1 == e1.change
           c2 == e2.change
<1>1. Changed(d, c1, now) /\ Changed(now, c2, u.after)
  BY DEF Leads
<1>2. \A a \in Actions(u.osc) :
        a.change.type = "node" /\ a.change.id = n => n \in InFile(u.osc, "node")
  BY DEF InFile
<1>3. CASE c2.type = "node" /\ c2.id = n
  BY <1>2, <1>3 DEF Leads
<1>4. CASE ~(c2.type = "node" /\ c2.id = n)
  <2>1. n \in DOMAIN now.locations
    <3>1. CASE c2.type # "node"
      BY <1>1, <3>1 DEF Changed
    <3>2. CASE c2.type = "node"
      <4>1. u.after.locations = SetRow(now.locations, c2.id, c2.visible, c2.loc)
        BY <1>1, <3>2 DEF Changed
      <4> QED
        BY <1>4, <3>2, <4>1, OtherRow
    <3> QED
      BY <3>1, <3>2
  <2>2. CASE c1.type = "node" /\ c1.id = n
    <3>1. Key(e1) # Key(e2)
      BY <1>4, <2>2 DEF Key
    <3> QED
      BY <1>2, <2>2, <3>1 DEF Leads
  <2>3. CASE ~(c1.type = "node" /\ c1.id = n)
    <3>1. CASE c1.type # "node"
      BY <1>1, <2>1, <3>1 DEF Changed
    <3>2. CASE c1.type = "node"
      <4>1. now.locations = SetRow(d.locations, c1.id, c1.visible, c1.loc)
        BY <1>1, <3>2 DEF Changed
      <4> QED
        BY <2>1, <2>3, <3>2, <4>1, OtherRow
    <3> QED
      BY <3>1, <3>2
  <2> QED
    BY <2>2, <2>3
<1> QED
  BY <1>3, <1>4

\* A relation that is not in the file stays as it is.
LEMMA RelationKept ==
  ASSUME NEW d, NEW u, NEW e1, NEW now, NEW e2, Leads(d, u, e1, now, e2),
         NEW r, r \in DOMAIN d.relations,
         \A a \in Actions(u.osc) : Key(a) # <<"relation", r>>
  PROVE  /\ r \in DOMAIN u.after.relations
         /\ u.after.relations[r] = d.relations[r]
<1> DEFINE c1 == e1.change
           c2 == e2.change
<1>1. Changed(d, c1, now) /\ Changed(now, c2, u.after)
  BY DEF Leads
<1>2. ~(c1.type = "relation" /\ c1.id = r) /\ ~(c2.type = "relation" /\ c2.id = r)
  BY DEF Leads, Key
<1>3. r \in DOMAIN now.relations /\ now.relations[r] = d.relations[r]
  BY <1>1, <1>2 DEF Changed, SetRow, Put, Del
<1> QED
  BY <1>1, <1>2, <1>3 DEF Changed, SetRow, Put, Del

\* What the fourth pass finds through the inverse of a table.
LEMMA AffectedThrough ==
  ASSUME NEW refs, NEW index, index = Backrefs(refs), NEW ids, NEW x
  PROVE  x \in ReferringTo(index, ids) <=>
           (x \in DOMAIN refs /\ \E n \in ids : n \in refs[x])
<1>1. \A n : <<n, x>> \in Backrefs(refs) <=> (x \in DOMAIN refs /\ n \in refs[x])
  BY BackrefsPairs
<1>2. \A e \in Backrefs(refs) : e = <<e[1], e[2]>>
  BY BackrefsPairs
<1>3. \A n : x \in TraverseReverse(index, n) <=> <<n, x>> \in index
  <2> TAKE n
  <2>1. <<n, x>> \in index => x \in TraverseReverse(index, n)
    <3> DEFINE e == <<n, x>>
    <3>1. e[1] = n /\ e[2] = x
      OBVIOUS
    <3> HIDE DEF e
    <3>2. e \in index => x \in TraverseReverse(index, n)
      BY <3>1 DEF TraverseReverse
    <3> QED
      BY <3>2 DEF e
  <2> QED
    BY <1>2, <2>1 DEF TraverseReverse
<1> QED
  BY <1>1, <1>3 DEF ReferringTo

\* A way that is whole before and after the update and changes its geometry is
\* rewired, or the pass finds it through a node that moved.
LEMMA WayNoticed ==
  ASSUME NEW d, WellIndexed(d),
         NEW u, NEW e1, NEW now, NEW e2, Leads(d, u, e1, now, e2),
         NEW w, WayComplete(d, w), WayComplete(u.after, w),
         WayGeometry(d, w) # WayGeometry(u.after, w)
  PROVE  w \in Rewired(d, u.osc) \cup ReferringTo(d.node_way, Moved(d, u.osc))
<1>1. /\ w \in DOMAIN d.ways /\ d.ways[w] \subseteq DOMAIN d.locations
      /\ w \in DOMAIN u.after.ways /\ u.after.ways[w] \subseteq DOMAIN u.after.locations
  BY DEF WayComplete, Exists
<1>2. CASE d.ways[w] # u.after.ways[w]
  BY <1>1, <1>2, WayRewired
<1>3. CASE d.ways[w] = u.after.ways[w]
  <2>1. PICK n \in d.ways[w] : d.locations[n] # u.after.locations[n]
    BY <1>3 DEF WayGeometry
  <2>2. n \in Moved(d, u.osc)
    BY <1>1, <1>3, <2>1, NodeMoved
  <2>3. d.node_way = Backrefs(d.ways)
    BY DEF WellIndexed, MemberIndexesExact
  <2> QED
    BY <1>1, <2>1, <2>2, <2>3, AffectedThrough
<1> QED
  BY <1>2, <1>3

\* Rewired ways are in the file.
LEMMA RewiredInFile ==
  ASSUME NEW d, NEW osc
  PROVE  Rewired(d, osc) \subseteq InFile(osc, "way")
  BY DEF Rewired, Modified, InFile

\* No way is missed: a way whose geometry an update changes, and which was whole
\* before and is whole after it, has an action when the script does not fail.
THEOREM DiffsPropagateToWays == Spec => []PropagatesToWays
<1>1. ASSUME Inv, NEW u \in Updates(db), NEW w \in Way, WayMissed(u, w)
      PROVE  FALSE
  <2>1. db \in Database /\ WellIndexed(db)
    BY <1>1 DEF Inv, TypeOK
  <2>2. PICK e1, now, e2 : Leads(db, u, e1, now, e2)
    BY <2>1, UpdateLeads
  <2>3. w \in Rewired(db, u.osc) \cup ReferringTo(db.node_way, Moved(db, u.osc))
    BY <1>1, <2>1, <2>2, WayNoticed DEF WayMissed
  <2>4. <<"way", w>> \notin Reported(db, u.osc)
    BY <1>1 DEF WayMissed
  <2>5. w \notin InFile(u.osc, "way")
    BY <2>4 DEF Reported, InFile, Key
  <2>6. w \in AffectedWays(db, u.osc)
    BY <2>3, <2>5, RewiredInFile DEF AffectedWays
  <2> QED
    BY <2>4, <2>6 DEF Reported
<1>2. Inv => PropagatesToWays
  BY <1>1 DEF PropagatesToWays
<1> QED
  BY <1>2, Invariance, PTL

\* The entry that counts for an object has the last word on its row.
LEMMA CountsLast ==
  ASSUME NEW d, NEW u, NEW e1, NEW now, NEW e2, Leads(d, u, e1, now, e2),
         NEW a \in Actions(u.osc), NEW c, c = a.change
  PROVE  /\ c.type = "node" /\ ~c.visible => c.id \notin DOMAIN u.after.locations
         /\ c.type = "way" /\ c.visible
              => c.id \in DOMAIN u.after.ways /\ u.after.ways[c.id] = c.nodes
         /\ c.type = "relation" /\ c.visible
              => c.id \in DOMAIN u.after.relations /\ u.after.relations[c.id] = c.row
<1>1. Changed(d, e1.change, now) /\ Changed(now, e2.change, u.after)
  BY DEF Leads
<1>2. CASE a = e2
  BY <1>1, <1>2 DEF Changed, SetRow, Put, Del
<1>3. CASE a # e2
  <2>1. a = e1 /\ ~(e2.change.type = c.type /\ e2.change.id = c.id)
    BY <1>3 DEF Leads, Key
  <2>2. CASE c.type = "node" /\ ~c.visible
    <3>1. c.id \notin DOMAIN now.locations
      BY <1>1, <2>1, <2>2 DEF Changed, SetRow, Del
    <3>2. CASE e2.change.type # "node"
      BY <1>1, <2>2, <3>1, <3>2 DEF Changed
    <3>3. CASE e2.change.type = "node"
      <4>1. /\ u.after.locations
                 = SetRow(now.locations, e2.change.id, e2.change.visible, e2.change.loc)
            /\ c.id # e2.change.id
        BY <1>1, <2>1, <2>2, <3>3 DEF Changed
      <4>2. c.id \notin DOMAIN u.after.locations
        BY <3>1, <4>1, OtherRow
      <4> QED
        BY <2>2, <4>2
    <3> QED
      BY <3>2, <3>3
  <2>3. CASE c.type = "way" /\ c.visible
    <3>1. c.id \in DOMAIN now.ways /\ now.ways[c.id] = c.nodes
      BY <1>1, <2>1, <2>3 DEF Changed, SetRow, Put
    <3>2. CASE e2.change.type # "way"
      BY <1>1, <2>3, <3>1, <3>2 DEF Changed
    <3>3. CASE e2.change.type = "way"
      <4>1. /\ u.after.ways = SetRow(now.ways, e2.change.id, e2.change.visible, e2.change.nodes)
            /\ c.id # e2.change.id
        BY <1>1, <2>1, <2>3, <3>3 DEF Changed
      <4> QED
        BY <2>3, <3>1, <4>1, OtherRowStays
    <3> QED
      BY <3>2, <3>3
  <2>4. CASE c.type = "relation" /\ c.visible
    <3>1. c.id \in DOMAIN now.relations /\ now.relations[c.id] = c.row
      BY <1>1, <2>1, <2>4 DEF Changed, SetRow, Put
    <3>2. CASE e2.change.type # "relation"
      BY <1>1, <2>4, <3>1, <3>2 DEF Changed
    <3>3. CASE e2.change.type = "relation"
      <4>1. /\ u.after.relations = SetRow(now.relations, e2.change.id, e2.change.visible, e2.change.row)
            /\ c.id # e2.change.id
        BY <1>1, <2>1, <2>4, <3>3 DEF Changed
      <4> QED
        BY <2>4, <3>1, <4>1, OtherRowStays
    <3> QED
      BY <3>2, <3>3
  <2> QED
    BY <2>2, <2>3, <2>4
<1> QED
  BY <1>2, <1>3

\* A node for which the script has no coordinates is gone after the update.
LEMMA BareIsGone ==
  ASSUME NEW d, NEW u, NEW e1, NEW now, NEW e2, Leads(d, u, e1, now, e2),
         NEW n, GetLatLon(d, u.osc, n, TRUE) = "none"
  PROVE  n \notin DOMAIN u.after.locations
<1>1. n \in Bare(u.osc)
  BY DEF GetLatLon
<1>2. PICK a \in Actions(u.osc) : a.change.type = "node" /\ ~a.coordinates /\ a.change.id = n
  BY <1>1 DEF Bare
<1>3. ~a.change.visible
  BY <1>2 DEF Leads
<1> QED
  BY <1>2, <1>3, CountsLast

\* A way that the script draws with new nodes has them after the update, so all of
\* them have coordinates when nothing lacks a node then.
LEMMA NewNodesStay ==
  ASSUME NEW d, NEW u, NEW e1, NEW now, NEW e2, Leads(d, u, e1, now, e2),
         NEW w, w \in InFile(u.osc, "way") \cup DOMAIN d.ways, NodesPresent(u.after)
  PROVE  ~Blank(d, u.osc, NewNodes(d, u.osc, w))
<1>1. SUFFICES ASSUME NEW n \in NewNodes(d, u.osc, w), GetLatLon(d, u.osc, n, TRUE) = "none"
               PROVE  FALSE
  BY DEF Blank
<1>2. n \notin DOMAIN u.after.locations
  BY <1>1, BareIsGone
<1>3. w \in DOMAIN u.after.ways
  <2>1. CASE w \notin InFile(u.osc, "way")
    <3>1. ~(e1.change.type = "way" /\ e1.change.id = w) /\ ~(e2.change.type = "way" /\ e2.change.id = w)
      BY <2>1 DEF Leads, InFile, Key
    <3>2. Changed(d, e1.change, now) /\ Changed(now, e2.change, u.after)
      BY DEF Leads
    <3>3. w \in DOMAIN now.ways
      BY <2>1, <3>1, <3>2 DEF Changed, SetRow, Put, Del
    <3> QED
      BY <3>1, <3>2, <3>3 DEF Changed, SetRow, Put, Del
  <2>2. CASE w \in InFile(u.osc, "way")
    <3> DEFINE Fits(x) == x.type = "way" /\ x.id = w
               changes == {x.change : x \in Actions(u.osc)}
               c == CHOOSE x \in changes : Fits(x)
    <3>1. \E x \in changes : Fits(x)
      BY <2>2 DEF InFile
    <3>2. c \in changes /\ Fits(c)
      <4> HIDE DEF changes, Fits
      <4> QED
        BY <3>1
    <3>3. NewNodes(d, u.osc, w) = IF c.visible THEN c.nodes ELSE {}
      BY <2>2 DEF NewNodes
    <3> HIDE DEF c
    <3>4. c.visible
      BY <1>1, <3>3
    <3> QED
      BY <3>2, <3>4, CountsLast
  <2> QED
    BY <2>1, <2>2
<1>4. NewNodes(d, u.osc, w) = u.after.ways[w]
  BY <1>3, NewNodesAre
<1> QED
  BY <1>1, <1>2, <1>3, <1>4 DEF NodesPresent, WayComplete

\* The same of a relation after the update.
LEMMA NewMembersStay ==
  ASSUME NEW d, NEW u, NEW e1, NEW now, NEW e2, Leads(d, u, e1, now, e2),
         NEW r \in DOMAIN u.after.relations, NodesPresent(u.after)
  PROVE  ~BlankRelation(d, u.osc, u.after.relations[r])
<1> DEFINE row == u.after.relations[r]
<1>1. row.node \subseteq DOMAIN u.after.locations
  BY DEF NodesPresent
<1>2. ~Blank(d, u.osc, row.node)
  BY <1>1, BareIsGone DEF Blank
<1>3. \A w \in row.way : w \in InFile(u.osc, "way") \/ Exists(d.ways, w)
                         => ~Blank(d, u.osc, NewNodes(d, u.osc, w))
  BY NewNodesStay DEF Exists
<1> QED
  BY <1>2, <1>3 DEF BlankRelation

\* The script does not fail where the data are whole, whatever entries the file has.
THEOREM DiffsEndOnWholeData == Spec => []EndsOnWholeData
<1>1. ASSUME Inv, NEW u \in Updates(db), \A w \in DOMAIN db.ways : WayComplete(db, w),
             NodesPresent(u.after), Fails(db, u.osc)
      PROVE  FALSE
  <2>1. db \in Database /\ WellIndexed(db)
    BY <1>1 DEF Inv, TypeOK
  <2>2. PICK e1, now, e2 : Leads(db, u, e1, now, e2)
    BY <2>1, UpdateLeads
  <2>3. AffectedWays(db, u.osc) \subseteq DOMAIN db.ways
    <3>1. db.node_way = Backrefs(db.ways)
      BY <2>1 DEF WellIndexed, MemberIndexesExact
    <3> QED
      BY <3>1, AffectedThrough DEF AffectedWays
  <2>4. AffectedRelations(db, u.osc) \subseteq DOMAIN db.relations
    <3>1. /\ db.node_relation = Backrefs(NodeMembers(db))
          /\ db.way_relation = Backrefs(WayMembers(db))
      BY <2>1 DEF WellIndexed, MemberIndexesExact
    <3>2. DOMAIN NodeMembers(db) = DOMAIN db.relations /\ DOMAIN WayMembers(db) = DOMAIN db.relations
      BY DEF NodeMembers, WayMembers
    <3> QED
      BY <3>1, <3>2, AffectedThrough DEF AffectedRelations
  <2>5. CASE \E w \in AffectedWays(db, u.osc) \cup {c.id : c \in Modified(db, u.osc, "way")} :
               \E n \in db.ways[w] : GetLatLon(db, u.osc, n, FALSE) # "coordinates"
    <3>1. PICK w \in AffectedWays(db, u.osc) \cup {c.id : c \in Modified(db, u.osc, "way")} :
                 \E n \in db.ways[w] : GetLatLon(db, u.osc, n, FALSE) # "coordinates"
      BY <2>5
    <3>2. w \in DOMAIN db.ways
      BY <2>3, <3>1 DEF Modified, InDb, Exists
    <3> QED
      BY <1>1, <3>1, <3>2 DEF WayComplete, GetLatLon, Exists
  <2>6. CASE \E w \in AffectedWays(db, u.osc) \cup InFile(u.osc, "way") :
               Blank(db, u.osc, NewNodes(db, u.osc, w))
    BY <1>1, <2>2, <2>3, <2>6, NewNodesStay
  <2>7. CASE \E a \in Actions(u.osc) :
               /\ a.change.type = "relation" /\ a.change.visible
               /\ BlankRelation(db, u.osc, a.change.row)
    BY <1>1, <2>2, <2>7, CountsLast, NewMembersStay
  <2>8. CASE \E r \in AffectedRelations(db, u.osc) :
               BlankRelation(db, u.osc, db.relations[r])
    <3>1. PICK r \in AffectedRelations(db, u.osc) :
                 BlankRelation(db, u.osc, db.relations[r])
      BY <2>8
    <3>2. \A a \in Actions(u.osc) : Key(a) # <<"relation", r>>
      BY <3>1 DEF AffectedRelations, InFile, Key
    <3>3. r \in DOMAIN u.after.relations /\ u.after.relations[r] = db.relations[r]
      BY <2>2, <2>4, <3>1, <3>2, RelationKept
    <3> QED
      BY <1>1, <2>2, <3>1, <3>3, NewMembersStay
  <2> QED
    BY <1>1, <2>5, <2>6, <2>7, <2>8 DEF Fails
<1>2. Inv => EndsOnWholeData
  BY <1>1 DEF EndsOnWholeData
<1> QED
  BY <1>2, Invariance, PTL

\* No relation is missed but through a way that the file holds with the same nodes
\* while one of them moves (the finding about augmented_diff.py): what the fourth
\* pass does for the relation itself, its nodes and its other ways is right.
THEOREM DiffsPropagateUnlessHidden == Spec => []PropagatesUnlessHidden
<1>1. ASSUME Inv, NEW u \in Updates(db), NEW r \in Relation, RelationMissed(u, r),
             \A w \in db.relations[r].way : ~HiddenByWay(u, w)
      PROVE  FALSE
  <2>1. db \in Database /\ WellIndexed(db)
    BY <1>1 DEF Inv, TypeOK
  <2>2. PICK e1, now, e2 : Leads(db, u, e1, now, e2)
    BY <2>1, UpdateLeads
  <2> DEFINE row == db.relations[r]
             ways == AffectedWays(db, u.osc) \cup Rewired(db, u.osc)
  <2>3. /\ r \in DOMAIN db.relations /\ row.node \subseteq DOMAIN db.locations
        /\ \A w \in row.way : WayComplete(db, w)
    BY <1>1 DEF RelationMissed, RelationComplete, Exists
  <2>4. <<"relation", r>> \notin Reported(db, u.osc)
    BY <1>1 DEF RelationMissed
  <2>5. \A a \in Actions(u.osc) : Key(a) # <<"relation", r>>
    BY <2>4 DEF Reported
  <2>6. u.after.relations[r] = row
    BY <2>2, <2>3, <2>5, RelationKept
  <2>7. /\ row.node \subseteq DOMAIN u.after.locations
        /\ \A w \in row.way : WayComplete(u.after, w)
    BY <1>1, <2>6 DEF RelationMissed, RelationComplete
  <2>8. \/ \E n \in row.node : db.locations[n] # u.after.locations[n]
        \/ \E w \in row.way : WayGeometry(db, w) # WayGeometry(u.after, w)
    <3> DEFINE nodes(d) == [n \in row.node |-> d.locations[n]]
               lines(d) == [w \in row.way |-> WayGeometry(d, w)]
    <3>1. /\ RelationGeometry(db, r) = <<nodes(db), lines(db)>>
          /\ RelationGeometry(u.after, r) = <<nodes(u.after), lines(u.after)>>
      BY <2>6 DEF RelationGeometry
    <3>2. nodes(db) # nodes(u.after) \/ lines(db) # lines(u.after)
      BY <1>1, <3>1 DEF RelationMissed
    <3> QED
      BY <3>2
  <2>9. r \in ReferringTo(db.node_relation, Moved(db, u.osc))
          \cup ReferringTo(db.way_relation, ways)
    <3>1. CASE \E n \in row.node : db.locations[n] # u.after.locations[n]
      <4>1. PICK n \in row.node : db.locations[n] # u.after.locations[n]
        BY <3>1
      <4>2. n \in Moved(db, u.osc)
        BY <2>2, <2>3, <2>7, <4>1, NodeMoved
      <4>3. db.node_relation = Backrefs(NodeMembers(db))
        BY <2>1 DEF WellIndexed, MemberIndexesExact
      <4>4. r \in DOMAIN NodeMembers(db) /\ NodeMembers(db)[r] = row.node
        BY <2>3 DEF NodeMembers
      <4> HIDE DEF row
      <4>5. r \in ReferringTo(db.node_relation, Moved(db, u.osc))
        BY <4>1, <4>2, <4>3, <4>4, AffectedThrough
      <4> QED
        BY <4>5
    <3>2. CASE \E w \in row.way : WayGeometry(db, w) # WayGeometry(u.after, w)
      <4>1. PICK w \in row.way : WayGeometry(db, w) # WayGeometry(u.after, w)
        BY <3>2
      <4>2. w \in Rewired(db, u.osc) \cup ReferringTo(db.node_way, Moved(db, u.osc))
        BY <2>1, <2>2, <2>3, <2>7, <4>1, WayNoticed
      <4>3. w \in ways
        BY <1>1, <4>1, <4>2 DEF HiddenByWay, AffectedWays
      <4>4. db.way_relation = Backrefs(WayMembers(db))
        BY <2>1 DEF WellIndexed, MemberIndexesExact
      <4>5. r \in DOMAIN WayMembers(db) /\ WayMembers(db)[r] = row.way
        BY <2>3 DEF WayMembers
      <4> HIDE DEF row, ways
      <4>6. r \in ReferringTo(db.way_relation, ways)
        BY <4>1, <4>3, <4>4, <4>5, AffectedThrough
      <4> QED
        BY <4>6
    <3> QED
      BY <2>8, <3>1, <3>2
  <2>10. r \notin InFile(u.osc, "relation")
    BY <2>5 DEF InFile, Key
  <2>11. r \in AffectedRelations(db, u.osc)
    BY <2>9, <2>10 DEF AffectedRelations
  <2>12. Augmentable(db, u.osc, row)
    <3>1. ASSUME NEW w \in row.way
          PROVE  /\ Exists(db.ways, w) /\ Located(db, u.osc, db.ways[w], FALSE)
                 /\ Located(db, u.osc, NewNodes(db, u.osc, w), TRUE)
      <4>1. Exists(db.ways, w) /\ Located(db, u.osc, db.ways[w], FALSE)
        BY <2>3 DEF WayComplete, Located, GetLatLon, Exists
      <4>2. /\ w \in DOMAIN u.after.ways
            /\ u.after.ways[w] \subseteq DOMAIN u.after.locations
        BY <2>7 DEF WayComplete, Exists
      <4>3. NewNodes(db, u.osc, w) = u.after.ways[w]
        BY <2>2, <4>2, NewNodesAre
      <4>4. \A n \in u.after.ways[w] : n \in DOMAIN db.locations \cup InFile(u.osc, "node")
        BY <2>2, <4>2, LocatedBefore
      <4>5. Located(db, u.osc, NewNodes(db, u.osc, w), TRUE)
        BY <4>3, <4>4 DEF Located, GetLatLon, Exists
      <4> QED
        BY <4>1, <4>5
    <3>2. Located(db, u.osc, row.node, FALSE)
      BY <2>3 DEF Located, GetLatLon, Exists
    <3> HIDE DEF row
    <3> QED
      BY <3>1, <3>2 DEF Augmentable, OldAugmentable
  <2> QED
    BY <2>4, <2>11, <2>12 DEF Reported
<1>2. Inv => PropagatesUnlessHidden
  BY <1>1 DEF PropagatesUnlessHidden
<1> QED
  BY <1>2, Invariance, PTL

----------------------------------------------------------------------------
(* Refinement of the reference map.                                        *)

\* Two indexes that differ only in the entries of object id.
SameBut(index1, index2, id) ==
  \A e \in index1 \cup index2 : e[2] # id => (e \in index1 <=> e \in index2)

\* Indexes that differ at one object lead to the other objects alike.
LEMMA EntriesSame ==
  ASSUME NEW index1, NEW index2, NEW id, SameBut(index1, index2, id),
         NEW from, NEW to, NEW s, NEW o, o # <<to, id>>
  PROVE  <<s, o>> \in Entries(index1, from, to)
           <=> <<s, o>> \in Entries(index2, from, to)
  BY DEF Entries, SameBut

\* Writing the differences of an object changes no entry of another object.
LEMMA ReindexSameBut ==
  ASSUME NEW index, NEW id, NEW prev, NEW new
  PROVE  SameBut(index, Reindex(index, id, prev, new), id)
  BY DEF SameBut, Reindex

\* The entries of the other kinds of objects do not depend on an index.
LEMMA EntriesKind ==
  ASSUME NEW index, NEW from, NEW to, NEW kind, NEW id, NEW s, kind # to
  PROVE  <<s, <<kind, id>> >> \notin Entries(index, from, to)
  BY DEF Entries

\* A step that changes the entries of one object only is a Replace step.
LEMMA ReplaceStep ==
  ASSUME NEW object \in Object, active, NEW d, Apply(d),
         \A s, o : o # object => (<<s, o>> \in AllEntries(txn)
                                    <=> <<s, o>> \in AllEntries(d))
  PROVE  Graph!Replace(object)
<1>1. Lookup(db)' = Lookup(db) /\ active' = active /\ Lookup(txn)' = Lookup(d)
  BY DEF Apply, Lookup
<1>2. Lookup(d) \in Graph!Map
  BY DEF Lookup, Graph!Map
<1>3. \A o \in Object \ {object} : Lookup(d)[o] = Lookup(txn)[o]
  BY DEF Lookup
<1> QED
  BY <1>1, <1>2, <1>3 DEF Graph!Replace

\* The handlers of an object change the entries of that object only.
LEMMA NodeHandlersLocal ==
  ASSUME NEW d \in Database, NEW id \in Node, NEW loc, NEW tagged,
         NEW prev_cell, NEW s, NEW o, o # <<"node", id>>
  PROVE  /\ <<s, o>> \in AllEntries(d)
              <=> <<s, o>> \in AllEntries(NodePut(d, id, loc, tagged))
         /\ <<s, o>> \in AllEntries(d)
              <=> <<s, o>> \in AllEntries(NodeDeleted(d, id, prev_cell))
<1>1. SameBut(d.cell_node, NodePut(d, id, loc, tagged).cell_node, id)
  BY DEF SameBut, NodePut, MovedCell, IndexPut, IndexDel, Database
<1>2. SameBut(d.cell_node, NodeDeleted(d, id, prev_cell).cell_node, id)
  BY DEF SameBut, NodeDeleted, IndexDel, Database
<1>3. /\ <<s, o>> \in Entries(d.cell_node, "cell", "node")
           <=> <<s, o>> \in Entries(NodePut(d, id, loc, tagged).cell_node, "cell", "node")
      /\ <<s, o>> \in Entries(d.cell_node, "cell", "node")
           <=> <<s, o>> \in Entries(NodeDeleted(d, id, prev_cell).cell_node, "cell", "node")
  BY <1>1, <1>2, EntriesSame
<1> QED
  BY <1>3 DEF AllEntries, NodePut, NodeDeleted, Database

\* The handlers of a way change the entries of that way only.
LEMMA WayHandlersLocal ==
  ASSUME NEW d \in Database, NEW id \in Way, NEW new_nodes,
         NEW s, NEW o, o # <<"way", id>>
  PROVE  /\ <<s, o>> \in AllEntries(d)
              <=> <<s, o>> \in AllEntries(WayPut(d, id, new_nodes))
         /\ <<s, o>> \in AllEntries(d)
              <=> <<s, o>> \in AllEntries(WayDeleted(d, id))
<1>1. /\ WayPut(d, id, new_nodes).node_way
           = Reindex(d.node_way, id, PrevNodes(d, id), new_nodes)
      /\ WayDeleted(d, id).node_way = Reindex(d.node_way, id, PrevNodes(d, id), {})
  BY DEF WayPut, WayDeleted, Database
<1>2. /\ <<s, o>> \in Entries(d.node_way, "node", "way")
           <=> <<s, o>> \in Entries(WayPut(d, id, new_nodes).node_way, "node", "way")
      /\ <<s, o>> \in Entries(d.node_way, "node", "way")
           <=> <<s, o>> \in Entries(WayDeleted(d, id).node_way, "node", "way")
  BY <1>1, ReindexSameBut, EntriesSame
<1> QED
  BY <1>2 DEF AllEntries, WayPut, WayDeleted, Database

\* Replacing a relation's members in the three indexes.
LEMMA RelationReindexLocal ==
  ASSUME NEW d \in Database, NEW id \in Relation, NEW prev, NEW new,
         NEW s, NEW o, o # <<"relation", id>>
  PROVE  <<s, o>> \in AllEntries(d)
           <=> <<s, o>> \in AllEntries(RelationReindexed(d, id, prev, new))
<1> DEFINE e == RelationReindexed(d, id, prev, new)
<1>1. /\ e.node_relation = Reindex(d.node_relation, id, prev.node, new.node)
      /\ e.way_relation = Reindex(d.way_relation, id, prev.way, new.way)
      /\ e.relation_relation
           = Reindex(d.relation_relation, id, prev.relation, new.relation)
      /\ e.cell_node = d.cell_node
      /\ e.node_way = d.node_way
  BY DEF RelationReindexed, Database
<1> HIDE DEF e
<1>2. /\ <<s, o>> \in Entries(d.node_relation, "node", "relation")
           <=> <<s, o>> \in Entries(e.node_relation, "node", "relation")
      /\ <<s, o>> \in Entries(d.way_relation, "way", "relation")
           <=> <<s, o>> \in Entries(e.way_relation, "way", "relation")
      /\ <<s, o>> \in Entries(d.relation_relation, "relation", "relation")
           <=> <<s, o>> \in Entries(e.relation_relation, "relation", "relation")
  BY <1>1, ReindexSameBut, EntriesSame
<1> QED
  BY <1>1, <1>2 DEF AllEntries, e

\* The handlers of a relation change the entries of that relation only.
LEMMA RelationHandlersLocal ==
  ASSUME NEW d \in Database, NEW id \in Relation, NEW row,
         NEW s, NEW o, o # <<"relation", id>>
  PROVE  /\ <<s, o>> \in AllEntries(d)
              <=> <<s, o>> \in AllEntries(RelationPut(d, id, row))
         /\ <<s, o>> \in AllEntries(d)
              <=> <<s, o>> \in AllEntries(RelationDeleted(d, id))
<1>1. /\ AllEntries(RelationPut(d, id, row))
           = AllEntries(RelationReindexed(d, id, PrevMembers(d, id), row))
      /\ AllEntries(RelationDeleted(d, id))
           = AllEntries(RelationReindexed(d, id, PrevMembers(d, id), NoMembers))
  BY DEF RelationPut, RelationDeleted, RelationReindexed, AllEntries, Database
<1> QED
  BY <1>1, RelationReindexLocal

\* Every step of the command is a step of the reference map or a stutter.
LEMMA GraphStep ==
  ASSUME TypeOK, [Next]_vars
  PROVE  [Graph!Next]_Graph!vars
<1> USE DEF Graph!Next, Graph!vars
<1>1. txn \in Database
  BY DEF TypeOK
<1>2. CASE Begin
  <2>1. db' = db /\ txn' = txn /\ ~active /\ active' = TRUE
    BY <1>2 DEF Begin, TypeOK
  <2>2. Lookup(db)' = Lookup(db) /\ Lookup(txn)' = Lookup(txn)
    BY <2>1 DEF Lookup
  <2> QED  BY <2>1, <2>2 DEF Graph!Open
<1>3. CASE DeleteNode
  <2>0. PICK id \in Node : \E prev_cell \in PrevCell(txn, id) :
          Apply(NodeDeleted(txn, id, prev_cell))
    BY <1>3 DEF DeleteNode
  <2>1. PICK prev_cell \in PrevCell(txn, id) :
          Apply(NodeDeleted(txn, id, prev_cell))
    BY <2>0
  <2>2. <<"node", id>> \in Object
    BY DEF Object
  <2>3. active
    BY <2>1 DEF Apply
  <2> QED  BY <1>1, <2>1, <2>2, <2>3, NodeHandlersLocal, ReplaceStep
<1>4. CASE PutNode
  <2>1. PICK id \in Node, loc \in Loc, tagged \in BOOLEAN :
          Apply(NodePut(txn, id, loc, tagged))
    BY <1>4 DEF PutNode
  <2>2. <<"node", id>> \in Object
    BY DEF Object
  <2>3. active
    BY <2>1 DEF Apply
  <2> QED  BY <1>1, <2>1, <2>2, <2>3, NodeHandlersLocal, ReplaceStep
<1>5. CASE DeleteWay
  <2>1. PICK id \in Way : Apply(WayDeleted(txn, id))
    BY <1>5 DEF DeleteWay
  <2>2. <<"way", id>> \in Object
    BY DEF Object
  <2>3. active
    BY <2>1 DEF Apply
  <2> QED  BY <1>1, <2>1, <2>2, <2>3, WayHandlersLocal, ReplaceStep
<1>6. CASE PutWay
  <2>1. PICK id \in Way, nodes \in SUBSET Node : Apply(WayPut(txn, id, nodes))
    BY <1>6 DEF PutWay
  <2>2. <<"way", id>> \in Object
    BY DEF Object
  <2>3. active
    BY <2>1 DEF Apply
  <2> QED  BY <1>1, <2>1, <2>2, <2>3, WayHandlersLocal, ReplaceStep
<1>7. CASE DeleteRelation
  <2>1. PICK id \in Relation : Apply(RelationDeleted(txn, id))
    BY <1>7 DEF DeleteRelation
  <2>2. <<"relation", id>> \in Object
    BY DEF Object
  <2>3. active
    BY <2>1 DEF Apply
  <2> QED  BY <1>1, <2>1, <2>2, <2>3, RelationHandlersLocal, ReplaceStep
<1>8. CASE PutRelation
  <2>1. PICK id \in Relation, row \in RelationRow :
          Apply(RelationPut(txn, id, row))
    BY <1>8 DEF PutRelation
  <2>2. <<"relation", id>> \in Object
    BY DEF Object
  <2>3. active
    BY <2>1 DEF Apply
  <2> QED  BY <1>1, <2>1, <2>2, <2>3, RelationHandlersLocal, ReplaceStep
<1>9. ASSUME NEW stamp \in Stamp, Commit(stamp) PROVE Graph!Publish
  <2> DEFINE e == [txn EXCEPT !.metadata = stamp]
  <2>1. AllEntries(e) = AllEntries(txn)
    BY <1>1 DEF AllEntries, Database
  <2>2. db' = e /\ txn' = e /\ active /\ active' = FALSE
    BY <1>9 DEF Commit
  <2>3. Lookup(db)' = Lookup(txn) /\ Lookup(txn)' = Lookup(txn)
    BY <2>1, <2>2 DEF Lookup
  <2> QED  BY <2>2, <2>3 DEF Graph!Publish
<1>10. CASE Rollback
  <2>1. db' = db /\ txn' = db /\ active /\ active' = FALSE
    BY <1>10 DEF Rollback
  <2>2. Lookup(db)' = Lookup(db) /\ Lookup(txn)' = Lookup(db)
    BY <2>1 DEF Lookup
  <2> QED  BY <2>1, <2>2 DEF Graph!Discard
<1>11. CASE UNCHANGED vars
  BY <1>11 DEF vars, Lookup
<1> QED
  BY <1>2, <1>3, <1>4, <1>5, <1>6, <1>7, <1>8, <1>9, <1>10, <1>11 DEF Next

\* The update command implements the reference map.
THEOREM UpdateImplementsGraph == Spec => ImplementsGraph
<1>1. Init => Graph!Init
  BY DEF Init, Graph!Init, Graph!Map, Lookup
<1>2. TypeOK /\ [Next]_vars => [Graph!Next]_Graph!vars
  BY GraphStep
<1> QED
  BY <1>1, <1>2, TypeCorrect, PTL DEF Spec, Graph!Spec, ImplementsGraph

=============================================================================
