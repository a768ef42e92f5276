\* Does a request that fails lead beyond the timestamp?
CONSTANTS
  Last = 4
  MaxTime = 3
SPECIFICATION Spec
INVARIANT
  ContainsTimestamp
