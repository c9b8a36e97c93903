CONSTANTS
  N = 1
  Flushes = {f1}
  Renders = {r1}
  Cap = 1
  MaxPending = 2
  Interval = TRUE
  Disconnects = TRUE
  Failures = FALSE
SPECIFICATION FairSpec
PROPERTY OwnershipIsReleased
CHECK_DEADLOCK FALSE
