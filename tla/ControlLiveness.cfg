\* A cap of one: a second or a third save wakes the controller, and a replay may have left more.
CONSTANTS
  N = 1
  Flushes = {f1}
  Renders = {r1}
  Cap = 1
  MaxPending = 3
  Interval = TRUE
  Disconnects = TRUE
  Failures = TRUE
SPECIFICATION FairSpec
PROPERTIES
  CapIsEnforced
  OwnerReleases
  ShutdownEnds
CHECK_DEADLOCK FALSE
