\* Two nodes in a cell, a way and a relation: entries in all five indexes.
CONSTANTS
  Node = {1, 2}
  Way = {1}
  Relation = {1}
  Loc = {"a"}
  Cell = {"A"}
  CellOf <- MCCellOf
  RelationTags = {"other"}
  Stamp = {"s1"}
  Expander = {e1, e2, e3}
  Source <- MCSources
SYMMETRY Symmetry
SPECIFICATION Spec
INVARIANTS
  TypeOK
  TempDirExclusive
  DoneIsExpanded
  EntriesAreTrue
  IndexesInOrder
  QueriesAreFinal
