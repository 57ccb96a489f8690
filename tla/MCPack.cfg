CONSTANTS
  PACK_SIZE = 4
  NULL = NULL
SPECIFICATION PackSpec
INVARIANTS
  NoDuplicates
PROPERTY ImplementsSet
