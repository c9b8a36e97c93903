CONSTANTS
  MaxZoom = 2
  Columns = 2
  Word = 65536
SPECIFICATION BakeSpec
INVARIANT AnswersTheTileAsked
CHECK_DEADLOCK FALSE
