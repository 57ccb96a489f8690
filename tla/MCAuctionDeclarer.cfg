CONSTANTS
  bidMaxBid = 11
  h1 = h1
  h2 = h2
  h3 = h3
  NULL = NULL
  Hand <- MCHand
  Node <- MCNode
  Root <- MCRoot
  RunLists <- MCRunLists
  ScoreTables <- MCScoreTables
SPECIFICATION Spec
INVARIANT OwnDeclarer
CHECK_DEADLOCK FALSE
