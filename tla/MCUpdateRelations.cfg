\* Two relations that can contain each other and themselves, a node and a way.
CONSTANTS
  a1 = a1
  a2 = a2
  b = b
  Node = {n1}
  Way = {w1}
  Relation = {r1, r2}
  Loc = {a1}
  Cell = {"A"}
  CellOf <- MCCellOf
  RelationTags = {"other"}
  Respelled = {}
  Stamp = {"s1"}
  MaxChanges = 1
SYMMETRY Symmetry
SPECIFICATION Spec
INVARIANTS
  MemberIndexIntegrity
  LastVersionWins
  ChangesCommute
