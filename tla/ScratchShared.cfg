CONSTANTS
  roads = roads
  rivers = rivers
  Nothing = Nothing
  Jobs <- TwoJobs
  Stem <- SameStem
  Chunks = 2
SPECIFICATION ScratchSpec
INVARIANT
  ArchivesAreWhole
CHECK_DEADLOCK FALSE
