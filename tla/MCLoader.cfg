CONSTANTS
  bidMaxBid = 7
  h1 = h1
  h2 = h2
  NULL = NULL
  AnyName <- Any
  Weak = Weak
  Any = Any
  n1C = n1C
  n1D = n1D
  nP1C = nP1C
  n1C1D = n1C1D
  Broken = Broken
  Hand <- MCHand
  Node <- MCNode
  Root <- MCRoot
  Name <- MCName
  Calls <- MCCalls
  BidSequences <- MCBidSequences
  Files <- MCFiles
SPECIFICATION Spec
INVARIANTS
  TypeOK
  TreeIsWellFormed
  NodesMeanTheirNames
  NegationsAreFinal
CHECK_DEADLOCK FALSE
