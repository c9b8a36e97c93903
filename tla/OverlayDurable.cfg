CONSTANTS
  t1 = t1
  t2 = t2
  r1 = r1
  r2 = r2
  None = None
  Tiles <- MCTiles
  CapCells = 0
  ShortAppends = TRUE
  Requests <- OneRequest
  MaxRev = 1
  MaxCells = 5
SPECIFICATION Spec
INVARIANT AnswersSurviveRestart
PROPERTY KeepsWhatWasSaved
SYMMETRY Symmetry
CHECK_DEADLOCK FALSE
