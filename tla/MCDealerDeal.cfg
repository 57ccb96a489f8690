CONSTANTS
  c1 = c1
  c2 = c2
  c3 = c3
  c4 = c4
  Card <- MCCard
  HandSize = 1
  MAXTRIES = 4
  EWiters = 2
  reps = 2
  HandsFiles <- MCHandsFiles
  Commands <- MCCommands
  PartnerRules <- MCPartnerRules
  Vuls = {"none", "ns"}
  NoVul = NoVul
  NoRule = NoRule
SPECIFICATION Spec
INVARIANTS
  DealsAreWhole
  DealsAsAsked
  ShortRowIsLast
PROPERTY AnalysisEnds
CHECK_DEADLOCK FALSE
