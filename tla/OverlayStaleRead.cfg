CONSTANTS
  t1 = t1
  t2 = t2
  r1 = r1
  r2 = r2
  None = None
  Tiles <- MCTiles
  CapCells = 2
  ShortAppends = FALSE
  Requests <- TwoRequests
  MaxRev = 0
  MaxCells = 4
SPECIFICATION Spec
INVARIANT ServesTheTileAsked
CHECK_DEADLOCK FALSE
