----------------------------- MODULE TerraServe -----------------------------
(***************************************************************************)
(* The parts of the program that share no state with one another, put side *)
(* by side: the subcommands of main.rs that work on data, each run of the  *)
(* binary being one of them, and the sources and layers a server opens,    *)
(* each with caches of its own.  A behaviour is the life of one part.      *)
(***************************************************************************)
EXTENDS Recompress, TileIds, PostgisSource

CONSTANTS Layers, LazyBytes, ChunkEntries, TileCap, ChunkCap,       \* RasterRender
          Files, Windows, Threshold, CPUs, IndexLazyBytes, IndexChunk,
          MaxFeatures, CommitEvery, Infinity,                       \* FeatureFiles
          Coverages, Addresses, Cuts, MaxChain, EXTENT, Sub, World, GridCrs,
          DisplayPx, MaxShift, CellFidBase, QueryCap, ClassOrder    \* VectorTiles

VARIABLES
    part,                                               \* the part this behaviour is of
    layer, cog, whole, program, tiles, chunks, shown,   \* RasterRender
    file, source, indexCache, replied,                  \* FeatureFiles
    coverage, opened, told, served                      \* VectorTiles

Raster_ == INSTANCE RasterRender
Files_ == INSTANCE FeatureFiles
Tiles_ == INSTANCE VectorTiles

Parts == {"recompress", "bake", "raster", "files", "tiles", "remote"}
rasterVars == <<layer, cog, whole, program, tiles, chunks, shown>>
filesVars == <<file, source, indexCache, replied>>
tilesVars == <<coverage, opened, told, served>>
every == <<part, allVars, bakeVars, rasterVars, filesVars, tilesVars, remoteVars>>

Idle(p) ==
    CASE p = "recompress" -> CommandInit /\ ~foreign
      [] p = "bake" -> /\ box = 0 /\ zoom = 0 /\ bakeStage = "idle" /\ lastId = 0
                       /\ baked = NothingYet /\ answer = NothingAsked
      [] p = "raster" -> /\ layer = 0 /\ cog = <<>> /\ whole = TRUE /\ program = <<>>
                         /\ tiles = <<>> /\ chunks = <<>> /\ shown = <<>>
      [] p = "files" -> file = 0 /\ source = <<>> /\ indexCache = <<>> /\ replied = <<>>
      [] p = "tiles" -> coverage = 0 /\ opened = <<>> /\ told = <<>> /\ served = <<>>
      [] p = "remote" -> site = 0 /\ remote = <<>> /\ link = 0 /\ outages = 0 /\ idle = <<>> /\ calls = <<>>

Still(p) ==
    CASE p = "recompress" -> UNCHANGED allVars
      [] p = "bake" -> UNCHANGED bakeVars
      [] p = "raster" -> UNCHANGED rasterVars
      [] p = "files" -> UNCHANGED filesVars
      [] p = "tiles" -> UNCHANGED tilesVars
      [] p = "remote" -> UNCHANGED remoteVars

Only(p) == part = p /\ \A q \in Parts \ {p} : Idle(q)
Others(p) == UNCHANGED part /\ \A q \in Parts \ {p} : Still(q)

TerraServeInit ==
    \/ Only("recompress") /\ CommandInit
    \/ Only("bake") /\ BakeInit
    \/ Only("raster") /\ Raster_!RasterInit
    \/ Only("files") /\ Files_!FilesInit
    \/ Only("tiles") /\ Tiles_!TilesInit
    \/ Only("remote") /\ RemoteInit

Recompressing == part = "recompress" /\ CommandNext /\ Others("recompress")
Baking == part = "bake" /\ BakeNext /\ Others("bake")
Rendering == part = "raster" /\ Raster_!RasterNext /\ Others("raster")
Querying == part = "files" /\ Files_!FilesNext /\ Others("files")
Tiling == part = "tiles" /\ Tiles_!TilesNext /\ Others("tiles")
AskingTheDatabase == part = "remote" /\ RemoteNext /\ Others("remote")
TerraServeNext == Recompressing \/ Baking \/ Rendering \/ Querying \/ Tiling \/ AskingTheDatabase
TerraServeSpec == TerraServeInit /\ [][TerraServeNext]_every

\* A raster layer: every map answered shows the raster (RasterRender).
RenderShowsTheRaster == part = "raster" => Raster_!RenderShowsTheRaster
\* A raster layer: a point query reports the pixel (RasterRender).
InfoIsThePixel == part = "raster" => Raster_!InfoIsThePixel

\* A file source: every query returns what the file holds (FeatureFiles).
WindowedReadsAgree == part = "files" => Files_!WindowedReadsAgree

\* A vector layer: a tile holds its part of every feature (VectorTiles).
TilesHoldTheirFeatures == part = "tiles" => Tiles_!TilesHoldTheirFeatures
\* A vector layer: an overview mosaic shows the top class (VectorTiles).
MosaicShowsTheTopClass == part = "tiles" => Tiles_!MosaicShowsTheTopClass
\* A vector layer: dissolved polygons cover what theirs did (VectorTiles).
DissolveIsTheUnion == part = "tiles" => Tiles_!DissolveIsTheUnion
\* A subset serves the tiles of its source (VectorTiles).
SubsetsLoseNothing == part = "tiles" => Tiles_!SubsetsLoseNothing
=============================================================================
