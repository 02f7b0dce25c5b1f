SPECIFICATION MCSpec
CONSTANTS
  a1 = a1
  a2 = a2
  a3 = a3
  a4 = a4
  d1 = d1
  d2 = d2
  NULL = NULL
  Addr <- MCAddr
  Data <- MCData
  Capacity = 3
INVARIANTS
  TypeOK
  ListShape
  ElementsOwned
PROPERTY ImplementsFifo
