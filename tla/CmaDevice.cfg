SPECIFICATION Spec
CONSTANTS
  PageSize = 2
  Size = 4
  Buffers = {b1, b2, b3, b4}
  Requests <- MCRequests
SYMMETRY MCSymmetry
INVARIANTS
  TypeOK
  Partition
PROPERTIES
  ImplementsPool
\* Every buffer may be used up.
CHECK_DEADLOCK FALSE
