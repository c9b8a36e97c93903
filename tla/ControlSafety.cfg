\* Two grids let a flush meet one of them free and the other one taken, with the
\* controllers of both and the main task competing.
CONSTANTS
  N = 2
  Flushes = {f1}
  Renders = {r1}
  Cap = 1
  MaxPending = 1
  Interval = TRUE
  Disconnects = TRUE
  Failures = TRUE
SPECIFICATION Spec
INVARIANTS
  TypeOK
  OneCompactionPerGrid
  TruncatesWhatItFolded
  FlushLeavesNothingBehind
CHECK_DEADLOCK FALSE
