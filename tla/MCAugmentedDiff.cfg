\* Does a diff propagate to relations?
CONSTANTS
  a1 = a1
  a2 = a2
  b = b
  Node = {n1}
  Way = {w1}
  Relation = {r1}
  Loc = {a1, b}
  Cell = {"A", "B"}
  CellOf <- MCCellOf
  RelationTags = {"other"}
  Respelled = {}
  Stamp = {"s1"}
  MaxChanges = 1
SYMMETRY Symmetry
SPECIFICATION Spec
INVARIANT
  PropagatesToRelations
