CONSTANTS
  c1 = c1
  c2 = c2
  c3 = c3
  c4 = c4
  Card <- MCCard
  HandSize = 1
  MAXTRIES = 5
  totHandsToCheck = 3
  maxHandsPerRound = 2
  numRuns = 2
  numBoards = 2
  RuleMaps <- MCRuleMaps
  Inferred <- MCInferred
  PartnerRules <- MCPartnerRules
  bidMaxBid = 7
SPECIFICATION Spec
INVARIANTS
  TypeOK
  SamplesAreWhole
  SamplesObeyRules
  BatchAccounting
  BoardObeysRules
CHECK_DEADLOCK FALSE
