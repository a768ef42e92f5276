---------------------------- MODULE StorageProofs ---------------------------
(***************************************************************************)
(* Lemmas about the tables of Storage that the proofs of several           *)
(* components rest on.                                                     *)
(***************************************************************************)
EXTENDS Storage, TLAPS

----------------------------------------------------------------------------
(* Lemmas on tables and indexes.                                           *)

\* put keeps an element table a table.
LEMMA PutTable ==
  ASSUME NEW K, NEW V, NEW table \in Table(K, V), NEW id \in K, NEW row \in V
  PROVE  Put(table, id, row) \in Table(K, V)
<1>1. PICK ids \in SUBSET K : table \in [ids -> V]
  BY DEF Table
<1>2. Put(table, id, row) \in [ids \cup {id} -> V]
  BY <1>1 DEF Put
<1>3. ids \cup {id} \in SUBSET K
  OBVIOUS
<1> QED
  BY <1>2, <1>3 DEF Table

\* del keeps an element table a table.
LEMMA DelTable ==
  ASSUME NEW K, NEW V, NEW table \in Table(K, V), NEW id
  PROVE  Del(table, id) \in Table(K, V)
<1>1. PICK ids \in SUBSET K : table \in [ids -> V]
  BY DEF Table
<1>2. Del(table, id) \in [ids \ {id} -> V]
  BY <1>1 DEF Del
<1>3. ids \ {id} \in SUBSET K
  OBVIOUS
<1> QED
  BY <1>2, <1>3 DEF Table

\* A row of an element table.
LEMMA RowOfTable ==
  ASSUME NEW K, NEW V, NEW table \in Table(K, V)
  PROVE  /\ DOMAIN table \subseteq K
         /\ \A id \in DOMAIN table : table[id] \in V
<1>1. PICK ids \in SUBSET K : table \in [ids -> V]
  BY DEF Table
<1> QED
  BY <1>1

\* The inverse of a table, pair by pair.
LEMMA BackrefsPairs ==
  ASSUME NEW refs
  PROVE  /\ \A x, o : <<x, o>> \in Backrefs(refs) <=> o \in DOMAIN refs /\ x \in refs[o]
         /\ \A e \in Backrefs(refs) : e = <<e[1], e[2]>>
  BY DEF Backrefs

\* One pair of an inverse.
LEMMA BackrefsPair ==
  ASSUME NEW refs, NEW x, NEW o
  PROVE  <<x, o>> \in Backrefs(refs) <=> o \in DOMAIN refs /\ x \in refs[o]
  BY DEF Backrefs

\* The inverse of a table of references is an index.
LEMMA BackrefsType ==
  ASSUME NEW X, NEW Y, NEW refs, DOMAIN refs \subseteq Y,
         \A o \in DOMAIN refs : refs[o] \in SUBSET X
  PROVE  Backrefs(refs) \in SUBSET (X \X Y)
  BY DEF Backrefs

\* Two sets of pairs are equal when they hold the same pairs.
LEMMA PairsEqual ==
  ASSUME NEW S, NEW T,
         \A e \in S : e = <<e[1], e[2]>>,
         \A e \in T : e = <<e[1], e[2]>>,
         \A x, o : <<x, o>> \in S <=> <<x, o>> \in T
  PROVE  S = T
  OBVIOUS

\* The database expand leaves has exact indexes.
LEMMA ExpandedIsWellIndexed ==
  ASSUME NEW d, IsExpanded(d)
  PROVE  d \in Database /\ WellIndexed(d)
<1>1. PICK locations \in Table(Node, Loc), ways \in Table(Way, SUBSET Node),
           relations \in Table(Relation, RelationRow),
           metadata \in Stamp \cup {NoStamp} :
         \E nodes \in SUBSET DOMAIN locations :
           d = Expanded(locations, nodes, ways, relations, metadata)
  BY DEF IsExpanded
<1>2. PICK nodes \in SUBSET DOMAIN locations :
        d = Expanded(locations, nodes, ways, relations, metadata)
  BY <1>1
<1>3. WellIndexed(d)
  BY <1>2 DEF Expanded, WellIndexed, CellIndexExact, TaggedAreLocated,
              MemberIndexesExact, NodeMembers, WayMembers, RelationMembers
<1>4. /\ DOMAIN locations \subseteq Node
      /\ \A n \in DOMAIN locations : locations[n] \in Loc
  BY RowOfTable
<1>5. /\ DOMAIN ways \subseteq Way
      /\ \A w \in DOMAIN ways : ways[w] \in SUBSET Node
  BY RowOfTable
<1>6. /\ DOMAIN relations \subseteq Relation
      /\ \A r \in DOMAIN relations : relations[r] \in RelationRow
  BY RowOfTable
<1>7. Backrefs([n \in DOMAIN locations |-> {CellOf[locations[n]]}])
        \in SUBSET (Cell \X Node)
  <2>1. \A n \in DOMAIN locations : {CellOf[locations[n]]} \in SUBSET Cell
    BY <1>4, CellOfAssumption
  <2> QED  BY <1>4, <2>1, BackrefsType
<1>8. Backrefs(ways) \in SUBSET (Node \X Way)
  BY <1>5, BackrefsType
<1>9. \A r \in DOMAIN relations : /\ relations[r].node \in SUBSET Node
                                  /\ relations[r].way \in SUBSET Way
                                  /\ relations[r].relation \in SUBSET Relation
  BY <1>6 DEF RelationRow
<1>10. Backrefs([r \in DOMAIN relations |-> relations[r].node])
         \in SUBSET (Node \X Relation)
  BY <1>6, <1>9, BackrefsType
<1>11. Backrefs([r \in DOMAIN relations |-> relations[r].way])
         \in SUBSET (Way \X Relation)
  BY <1>6, <1>9, BackrefsType
<1>12. Backrefs([r \in DOMAIN relations |-> relations[r].relation])
         \in SUBSET (Relation \X Relation)
  BY <1>6, <1>9, BackrefsType
<1>13. d \in Database
  BY <1>2, <1>4, <1>7, <1>8, <1>10, <1>11, <1>12 DEF Expanded, Database
<1> QED
  BY <1>3, <1>13
=============================================================================
