CONSTANTS
  NoTile = NoTile
  Hash <- MCHash
  TileIds <- MCIds
  Blobs <- MCBlobs
  Tiles <- MCTiles
  From = 2
  To = 4
  MaxZoom = 2
  Columns = 2
  Word = 65536
  Layers <- MCLayers
  LazyBytes = 40
  ChunkEntries = 4
  TileCap = 2
  ChunkCap = 2
  Files <- MCFiles
  Windows <- MCWindows
  Threshold = 3
  CPUs = 2
  IndexLazyBytes = 20
  IndexChunk = 8
  MaxFeatures = 2
  CommitEvery = 2
  Infinity = 1000
  EXTENT = 16
  Sub = 4
  World = 64
  GridCrs = 3857
  DisplayPx = 4
  MaxShift = 10
  CellFidBase = 1000
  QueryCap = 7
  ClassOrder <- MCClasses
  Coverages <- MCCoverages
  Addresses <- MCAddresses
  Cuts <- MCCuts
  MaxChain = 2
  Sites <- MCSites
  Unit <- MCUnit
  ConnectTimeout = 1
  PoolWait = 1
  Margin = 1
SPECIFICATION TerraServeSpec
INVARIANTS
  HoldsWhatWasGiven
  IsCompact
  VerifyTellsTheTruth
  KeepsTheTiles
  IsTheHilbertCurve
  AnswersAddressableTiles
  BakesInAscendingOrder
  RenderShowsTheRaster
  InfoIsThePixel
  WindowedReadsAgree
  TilesHoldTheirFeatures
  MosaicShowsTheTopClass
  DissolveIsTheUnion
  SubsetsLoseNothing
  QueriesAnswerOrFail
CHECK_DEADLOCK FALSE
