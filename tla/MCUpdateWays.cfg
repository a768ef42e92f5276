\* Two nodes and a way: every pair of changes in a transaction, any number
\* of transactions.
CONSTANTS
  a1 = a1
  a2 = a2
  b = b
  Node = {n1, n2}
  Way = {w1}
  Relation = {}
  Loc = {a1, a2, b}
  Cell = {"A", "B", "stray"}
  CellOf <- MCCellOf
  RelationTags = {"other"}
  Respelled = {b}
  Stamp = {"s1"}
  MaxChanges = 2
SYMMETRY Symmetry
SPECIFICATION Spec
PROPERTY
  ImplementsGraph
INVARIANTS
  TypeOK
  CellIndexIntegrity
  StrayCellHarmless
  LastVersionWins
  ChangesCommute
  PropagatesToWays
  EndsOnWholeData
