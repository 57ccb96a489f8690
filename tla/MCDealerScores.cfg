SPECIFICATION Spec
CONSTANTS
  part = part
  majors = majors
  notrump = notrump
  slam = slam
  nothing = nothing
  Deal = {part, majors, notrump, slam, nothing}
  Unset = Unset
  Solution <- MCSolution
  Garbage <- MCGarbage
  nhands = 3
  maxHandsPerRound = 2
INVARIANTS
  ScoresAreLawful
  TablesAgree
  TricksAreOfTheDeal
  ParOfDealIsBest
CHECK_DEADLOCK FALSE
