CONSTANTS
  t1 = t1
  t2 = t2
  r1 = r1
  r2 = r2
  None = None
  Tiles <- MCTiles
  CapCells = 2
  ShortAppends = TRUE
  Requests <- TwoRequests
  MaxRev = 0
  MaxCells = 5
SPECIFICATION Spec
INVARIANTS
  TypeOK
  OnlyAClearMakesAReadStale
SYMMETRY Symmetry
CHECK_DEADLOCK FALSE
