SPECIFICATION Spec
CONSTANTS
  Axes <- MCAxes
  Shift <- MCShift
  NorthingFirstCrs <- MCNorthingFirst
  Offsets <- MCOffsets
  Estate <- MCEstate
  Starts <- MCStarts
  Zooms = 3
  World = 16384
  NotANumber = NotANumber
  Infinite = Infinite
INVARIANTS
  OneTileOneAddress
  LimitsMatchContent
  MapShowsTheWindow
  ClickHitsOneParcel
  
CHECK_DEADLOCK FALSE
