\* Every server with five states, any of whose files are missing, with and
\* without requests that fail.
CONSTANTS
  Last = 4
  MaxTime = 3
SPECIFICATION Spec
INVARIANTS
  TypeOK
  Brackets
  Exact
PROPERTY
  Ends
