CONSTANTS
  North = North
  South = South
  NULL = NULL
  Seat = {North, South}
  Capacity = 2
  MaxPermanent = 2
  MaxNodes = 4
  MaxRuns = 2
  MaxBoards = 3
SPECIFICATION Spec
INVARIANTS
  HeldNodesIntact
  BlocksReused
CHECK_DEADLOCK FALSE
