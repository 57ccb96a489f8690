CONSTANTS
  bidMaxBid = 11
  h1 = h1
  h2 = h2
  h3 = h3
  NULL = NULL
  Hand <- MCHand
  Node <- MCNode
  Root <- MCRoot
  RunLists <- MCRunLists
  ScoreTables <- MCScoreTables
SPECIFICATION Spec
INVARIANTS
  TypeOK
  RulesExact
  ContractHasDeclarer
  FirstRunDeclarer
  CutoffIsPrefix
  NorthGuessIsBest
  ColumnsTellTheAuction
  CoverageCounts
  WalkKnowsTheHand
  ReportsTellTheAuction
PROPERTIES
  RefinesAscendingAuction
  DealFinishes
CHECK_DEADLOCK FALSE
