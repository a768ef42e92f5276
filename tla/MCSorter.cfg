CONSTANTS
  Pair <- MCPair
  MaxRunSize = 1
  BatchSize = 1
  MaxPuts = 5
SPECIFICATION Spec
INVARIANTS
  TypeOK
  NeverAborts
PROPERTY
  BuildsIndex
