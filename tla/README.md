# TerraServe: a verification project

TerraServe is a map server in Rust: it reads Cloud-Optimized GeoTIFFs, vector
files and PostGIS tables, and answers WMS, WMTS, TMS and Mapbox vector tile
requests, from pre-baked PMTiles archives, from a write-through tile cache, or
by rendering. This directory holds TLA+ models of the parts of it in which
order, concurrency, failure or arithmetic at a boundary decide whether it is
right, the TLC runs that check them on small instances, and TLAPS proofs for
all values of the constants. Paths below are relative to the crate
(`src/src/...` in the repository layout used by `PROJECT.json`, whose `map`
names the source lines behind the definitions; a helper whose lines lie within
those of a definition it serves is listed with that definition).

    tlc -workers 2 -config OverlayReads.cfg MCTileOverlay    # a run
    tlapm TileOverlayProofs.tla                              # a proof module

## 1. Inventory

### Components with state between requests

| component | state | operations | who calls it, and how |
|---|---|---|---|
| Write-through overlay (`vector/pmtiles/overlay.rs`) | per (layer, grid): the log file, its in-RAM index and length, the open reader of the base archive, the `compacting` flag, a `Notify` | `open`, `get_raw`, `put`, `snapshot_ids`, `compact`, `clear`, `try_begin_compaction`, `end_compaction`, `compactor_woken` | blocking render threads get and put; a controller task per grid, flush handlers and the main task compact. One mutex; the log is *read* without it |
| Compaction control (`server.rs` `serve`, `mvt_flush_handler`, `run`) | where each task is, the blocking job it awaits, the latched wake-up | tick, wake, flush, SIGTERM, drain deadline, final compaction, exit of the runtime | tokio tasks, dropped at an await when their client disconnects; blocking threads, which are not |
| PMTiles writer and its files (`vector/pmtiles/write.rs`) | scratch file, dedup table, entries; `<archive>.pmtiles.tmp` | `new`, `add`, `finish`, `Drop` | bakes, the overlay's compaction, recompression; several at once in one process |
| PMTiles directories and reader (`codec.rs`, `read.rs`) | immutable archive | `get_raw`, `raw_tile_by_id`, `all_tile_ids`, `tile_entries` | everything that reads an archive |
| Tile ids and bakes (`pmtiles/mod.rs`, `generate.rs`, `raster.rs`, `tms.rs`) | the writer's last id | `zxy_to_tileid`, `tileid_to_zxy`, the bake loops | offline bakes; every tile request, for the lookup |
| Recompression (`recompress.rs`, `cmd/pmtiles.rs`) | input, output, position | copy run by run, verify | offline |
| Render admission (`server.rs`) | `render_limiter` (a FIFO semaphore), the blocking pool, the byte caches for WMS, WMTS and TMS images | acquire, spawn, cache lookup, single-flight render, release | every rendering handler |
| Vector tile delivery (`mvt_http.rs`, `server.rs`) | byte cache of live tiles and of transcodes; validators | lookup, encode, `deliver`, `tile_response` | tile handlers; HTTP caches in front of the server |
| PostGIS source (`vector/postgis.rs`, `pg_uri.rs`) | connection pool, and on each connection a statement that may still be running | checks before the server listens; window queries with five timers | renders, from inside their blocking thread |
| COG reader and raster layers (`cog.rs`, `cache.rs`, `render.rs`) | a cache of decoded tiles and one of tile-index chunks, both bounded, per layer | open, map, point query | renders, several at once; reads of the file or of S3 that may fail |
| FlatGeobuf reader (`vector/fgb/`) | a bounded cache of index chunks | window query | renders |
| HTTP byte cache beside the raster routes (`server.rs`) | PNG bytes by front end and address | look-up, insert, eviction | every front end, each with keys of its own |

### Components without state between requests

Request parsing and service documents, tile grids, band math, the MVT encoder,
the vector parsers, configuration and layer loading: pure functions, modelled as
operators and checked inside the component that calls them. SLD styling and
drawing, the topology tool, the Python bindings and the build script are not
modelled; `PROJECT.json` gives the reason for each.

### What is hard here

* A lock released between two uses of what was read under it: an index lookup
  and the read of the log; `is_compacting` and `put`; `snapshot_ids().is_empty()`
  and `try_begin_compaction`.
* Futures dropped at an await, with blocking work that goes on: the flush
  handler and its flag, the tile handler and its permit.
* Process death between any two file operations, and replay of what is left.
* Threads that hold permits while they wait for each other's renders.
* Wake-ups latched, consumed, or consumed by somebody who then cannot act.
* One tile in several codings, under several cache keys, over a changing source.
* Caches shared by levels, arrays and requests, filled by requests that then
  fail, dropped at any time: a wrong key shows up as a wrong pixel much later.
* Timers that race each other, and queries given up whose statement goes on.
* One address read by four front ends, each with its own parser, row order, axis
  order and check.
* Work that every tile does by itself and that neighbours must agree on:
  selection, rounding, cells, borders.
* A reader of several formats that must give one answer, with or without an
  index, whole or by windows, and never an empty one for a read that failed.
* Off-by-ones: runs and leaf boundaries in directories, the Hilbert turn outside
  its square, empty blobs.

`PROJECT.json`, "hazards", lists them one by one with their lines, the properties
that would catch them, and for those without one, why.

## 2. The models

| module | models | used by |
|---|---|---|
| `TileStore` | what the overlay promises: a map from tiles to the blob kept, which changes only when a blob that a request offered is saved; and what is left of that after an append cut short | the abstract view of `TileOverlay` |
| `TileOverlay` | one overlay: files, RAM, requests, one compaction at a time, death and restart | |
| `CompactionControl` | all overlays of a layer, with every task that may compact them; the inside of a compaction is "fold and truncate" | |
| `CompactionScratch` | the files of compactions of *different* overlays in one process | |
| `RenderAdmission` | permits, threads, single flight, the byte cache | |
| `MvtDelivery` | one tile address from archive, overlay, cache or source to clients behind a shared cache | |
| `PmtilesFormat`, `PmtilesArchive` | the archive format as functions on byte sequences; one run of the writer | `Recompress` |
| `Recompress` | recompression of such an archive, or of another program's | `TerraServe`, which extends it |
| `TileIds` | the numbering, the bake and the request that uses it | `TerraServe`, which extends it |
| `Crs` | CRS names, axis order, shifts between CRSs | `WmsRequests`, `TileMatrixSets` |
| `TileMatrixSets` | grids: presets, cut from a COG, read from an OGC document; tile boxes and limits | `Loading` |
| `Loading` | flags, configuration and environment to published layers or complaints | `TileRequests` |
| `WmsRequests` | GetCapabilities, GetMap, GetFeatureInfo, GetLegendGraphic, and their exceptions | `TileRequests` |
| `TileRequests` | TMS, WMTS (REST and KVP), vector tile addresses, TileJSON, styles, grid documents | `Services` |
| `Services` | a server from start to answers, asked by a client who believes the documents, with the byte cache | |
| `CogReader` | parsing, index look-up and block decoding of a COG over reads that may fail | `RasterRender` |
| `BandMath` | the expression compiler, its evaluation, ramps | `RasterRender` |
| `RasterRender` | one raster layer of a running server: open, map, point query, with its caches | `TerraServe` |
| `Geometries` | features, WKB, GeoJSON | everything below |
| `FgbReader`, `GeoPackage` | FlatGeobuf; GeoPackage, read and written | `FeatureFiles`, `MvtTiles` |
| `FeatureFiles` | a file source: opening, window queries, failing reads, the index cache | `TerraServe` |
| `MvtGeometry` | clipping, rounding, the command stream | `MvtCoverage` |
| `MvtCoverage` | the cell mosaic and the dissolve | `MvtTiles` |
| `MvtTiles` | settings, selection and assembly of a tile | `VectorTiles` |
| `VectorTiles` | a layer, its tiles, and subsets cut from it and served in its place | `TerraServe` |
| `PostgisSource` | a layer on a table: the URI, the checks at start, queries through the pool | `TerraServe`, which extends it |
| `TerraServe` | the parts that share no state, side by side: a behaviour is the life of one of them | |

`MC*` modules give the constants their values where a `.cfg` cannot; `*Proofs`
modules hold the theorems. `TerraServe` *extends* the modules whose assumptions
on constants the proofs use, so that TLC evaluates them on every run of it.

The three compaction models share one boundary: `TileOverlay` has the
inside of a compaction and one owner at a time, `CompactionControl` shows that
there is one owner at a time, and `CompactionScratch` has the writer's files, of
which `TileOverlay` sees the rename.

### TileOverlay and the code

The log is a sequence of cells, two for a record: the 16-byte prefix (id,
length, CRC) and the blob. Offsets are cell numbers; 0 is "no entry". An append
lands at the end of the file (`O_APPEND`) but is indexed from `log_len`, so the two
can differ, as they can in the code. A blob is its tile and the revision of the
source it was encoded from.

An append that fails may have written a part of its record (`AppendFails`). The
process lives on, `log_len` does not count the part, and every later record of
this process lands behind the offset its index entry gets: the entry is *astray*
(`Astray`; `cut` remembers where the log was cut short). Such an entry reads the
wrong cells (`ReadAt`: a blob of another record, or `Garbage`), a compaction
folds what it reads, and a restart drops the records. A truncation or a restart
ends it. The properties except the tiles whose entries are astray, and no
others. `TileStore` says the same without the mechanism: a request `Offer`s a
blob, and the map changes only in `Save`, for the tile of that blob and to that
blob; `Drop` is a put that is skipped or fails; after `CutShort`, offers
`GoAstray` and `Publish`, a compaction, may change the tiles astray, these
only, until it or `Die` ends it. Without a short append `Publish` is never
enabled, and no compaction, crash or restart changes anything.

| action | code |
|---|---|
| `Open` | `TileOverlay::open`: header, scan to the first record that does not parse, cut there, index with the last record of a tile winning |
| `Lookup`, `ReadLog`, `ReadBase` | `get_raw` / `get_by_id_raw`: the index under the lock, the log read without it, the base under a second acquisition |
| `Encode`, `Put`, `AppendFails` | `render_mvt_tile`'s write-through branch and `put`: skip while compacting, append and index under the lock, which also yields the length; then, without it, wake over the cap |
| `ControllerTick`, `ControllerWake`, `Flush`, `FlushAbandoned`, `End` | who takes the `compacting` flag and who gives it back |
| `Snapshot`, `MergeOne`, `Rename`, `Clear`, `CompactionFails` | `compact`: the union of the ids, overlay over base tile by tile, rename, then truncation, index and base under one lock |
| `Crash`, `CrashInPut`, `CrashCreating` | death of the process between two steps, inside an append, between creating the log and writing its header |

Simplifications: `ControllerTick` takes "is the log empty" and the flag in one
step (`CompactionControl` has them apart); merging has no order; a compaction
that fails may stop at any tile. `Put` wakes the controller in the step that
appends (`overlay.rs:230-237` does it right after the lock is released): a wake
that comes later starts a compaction that a tick could have started.

### CompactionControl and the code

Each task has a program counter whose labels are the points between which other
tasks can run: the controller's select, the emptiness check, the
compare-and-set, the await, the loop's end; the flush handler's walk over the
grids; main's drain and its last compactions, which run on its own thread. The
blocking compaction is a `job` of its own, `queued` until a thread takes it: a
runtime that shuts down drops queued jobs and waits for running ones
(`JobStart` asks for `RuntimeAlive`, `Exit` for no running job). `FlushDropped`
is the handler dropped at its await. A log starts with any number of records,
below or above the cap: `open` replays what the last process left, the cap is
set after it (`serve.rs:434`), and neither wakes the controller.

### RenderAdmission and the code

`Acquire` is `render_limiter.acquire().await` in the semaphore's FIFO order,
followed by `spawn_blocking`. `Enter` is a blocking thread reaching the cache: a
hit, a wait for the thread already rendering this tile (`try_get_with`; not for
GetMap, which has look-up, render and insert apart), or a render. `Disconnect`
drops the handler: out of the queue, or with its permit given back while the
thread goes on.

### MvtDelivery and the code

`choose`, `Fallback` and `Accepts` are the negotiation in `mvt_http.rs`. The
bytes are the revision they were encoded from and the coding they are really
in; a body also has the label it is sent with, so that wrong labels can be
seen. `live` is the byte cache under the tile's key, `trans` the same cache
under `key#coding`. `Ask`, `Respond` and `shared` are an HTTP cache in front,
which behaves as `Vary: Accept-Encoding` and the ETag tell it to. A weak tag
(`W/`) counts as the strong one it is made of; `AnswerAny` is `If-None-Match: *`,
a 304 whatever the client holds, which asks for no bytes.

### PMTiles and the code

`Added` is `add`; `Assembled` is `finish`, with the directory flat or spilled
into leaves of any size (the code grows the leaves until the root fits in 16 KiB;
the model does not count compressed bytes and allows every size).
`serialize_directory` and `deserialize_directory` are the column coding with
id differences and the "follows on" offset 0. `Candidate` is `binary_search_by`
with `Err(i)` taken as `i - 1`. The data section is a byte sequence and a
lookup slices it, so a wrong length or offset gives different bytes. The input
of a recompression is either this program's archive or is written by
`ForeignAdd`, one tile after the other, by a writer that also stores empty blobs
and starts a new run where lengths differ; it is flat or spilled like the other.

`zxy_to_tileid` and `tileid_to_zxy` are recursive functions whose steps, `Turn`
and `Back`, are the bodies of the two loops, with unsigned subtraction that
wraps, as a release build does; `zoom_base` is the sum over the zooms before. The grid is 2:1
(`WorldCRS84Quad`) or square, and the layer's extent any rectangle in quarters
of the matrix.

### Services and the code

`Start` is `run_serve` with `Loading`'s stages: a stage is the set of its
complaints, and a layer exists when there is none. From then on a client reads
the documents (`wmts_capabilities`, `capabilities_multi`, `tilemapservice`,
`tile_matrix_set_doc`, `tilejson_doc`), forms an address from nothing else, and
asks it of a handler: `tms_tile_handler`, `wmts_rest_tile_handler`,
`wmts_kvp_handler`, `mvt_tile_handler`, `wms_handler`. The properties compare
what is answered with the ground the client meant (`ClientBox`, `Window`,
`Under`), computed from the documents alone. `AskMap` also sends queries spoilt
in ten ways, `AskTile` addresses outside matrix and limits, and a source may
fail under any request. Requests come one at a time: what concurrent ones do is
in `RenderAdmission`.

A client goes only where it can: a map in a CRS that PROJ does not know (a
layer's own may be such) is left out of `MapViews`. And it believes only what
says it is about its grid: `tile_matrix_set_doc` searches all layers, so a grid
of another layer with the same name and a tile size may answer; the document's
id tells, and `OneTileOneAddress` compares documents of the id asked.

`run_serve` checks neither that layers have distinct names nor that PROJ knows
their CRSs, and the model starts such servers. What then goes wrong is excused
where it shows, by name: `NamedTwice` (the documents list both layers of a name,
a request finds the first) wherever a layer is addressed, and `Placed` (a vector
layer in an unknown CRS is listed with the standard CRSs, and its maps are
answered, but every click on it fails; a layer in "CRS:84" lets 1.1.1 clicks in
that CRS through to layers that do not list it) for clicks on that layer. A grid
cut from a COG has its horizontal and vertical cell size apart, as
`from_cog` has.

### CogReader, BandMath, RasterRender and the code

A file is its bytes and, by offset, the fields of its directories; a read fails
when it touches an offset that is `bad` for now. `Open` is `cog::parse` with the
expression compiled beside it; `GetMap` and `GetFeatureInfo` are
`render_with_cog` and `sample_point_with_cog`, each a whole request against
caches that earlier ones left behind, which `Kept` may shrink to any subset
within the caps. `tile_location` with its resident arrays and its cached chunks
(`index_chunk_entry`) is `CogReader`'s, as are predictors, sample formats and the
expansion of bilevel rows; an uncompressed block shorter than its tile is an
error there, as the slice panics in the code. `BandMath`
compiles to the postfix program and evaluates it; the properties evaluate the
expression *tree* the configuration meant (`Meaning`), so that precedence and
the compiler are checked and not repeated. `layer.pixels` holds the raster
itself, from which the MC module builds the file.

### Geometries, FgbReader, GeoPackage, FeatureFiles and the code

Files in `MCFeatures` are made the way other programs make them: both byte
orders, envelopes and a third axis in WKB, NULL, empty and cut-off geometries,
table names that differ in case only, gaps in the row ids, corrupt records.
`Open` chooses window reader or whole file as `build_vector_layer` does;
`QueryFgb`, `QueryGpkg` and `QueryWhole` are `features_in_gated` of the three
kinds; `Break` and `Heal` make reads fail and recover, `Evict` drops an index
chunk. `query` is the walk of `rtree.rs` over nodes put together from cached
chunks.

### MvtGeometry, MvtCoverage, MvtTiles, VectorTiles and the code

Projected points are whole numbers of 1/Sub of a grid unit, so that rounding is
real; a second CRS stretches the north, so that source windows and tiles differ.
`ServeTile` is `encode_tile_opt` over `features_for_tile`; `Extract` is
`cmd/extract.rs` up to the written GeoPackage, and `Restart` serves that file.
The properties do not look at rings: they decode the command stream and compare
the set of unit squares (or segments, or points) it covers with the feature
rounded to the grid by itself.

### PostgisSource and the code

| action | code |
|---|---|
| `RemoteInit`, `OpenLayer` | `parse_postgis_uri`, `PostgisSource::open`, `validate_columns`, the CRS and extent checks of `build_vector_layer_base` |
| `query_gated` | a request reaches `query_gated` on its blocking thread |
| `Get`, `Create` | `pool.get()`: a permit, an idle connection that is not known to be closed, or a new one |
| `Prepare`, `NextRow`, `Complete` | `query_raw` plans the statement and streams rows; each row is decoded or passed over |
| `PoolFails`, `CreateFails`, `StatementFails`, `BudgetFails` | the timers: pool wait, connect, the server's `statement_timeout`, `query_budget` |
| `ConnectionFails`, `Outage`, `Recover`, `Notice`, `CatchUp` | a connection that is gone, and when somebody notices; what a statement given up still owes |
| `Tick` | time: only when no timer that has run out is left unfired |

A statement that was given up leaves its connection *owing* an answer; whoever
gets that connection next waits for it. `statement_timeout` governs the planning
message and the execution each by itself: that is the state `slow`. The
statement has no `ORDER BY`: what a `LIMIT` leaves is any subset of that size
(`LimitTo`), of which rows are then streamed in table order; the properties do
not tell orders apart. `geometry_columns` is the set of columns registered.

The properties compare with what the operator *meant*, which a site states by
itself: the column `meant` and, for each row, the value `shown` for a column.
They can only hold where the URI and the catalogue are true of that column and
`shown` is the conversion documented for the type; these hypotheses are
`Truthful`, an assumption on the sites that TLC evaluates. An untruthful site
(a wrong `srid=` in the URI) is answered wrongly by any program.

## 3. The runs

| run | instance | distinct states | shows |
|---|---|---|---|
| `overlay_durable` | 2 tiles, 1 request, short appends, 1 source change, log of 5 cells, no cap | 822,164 | `AnswersSurviveRestart`, `KeepsWhatWasSaved` (refinement of `TileStore`) |
| `overlay_reads` | 2 tiles, 2 requests, short appends, no source change, log of 5 cells, cap at 2 | 3,685,291 | `TypeOK`, `OnlyAClearMakesAReadStale` |
| `overlay_stale_read` | 2 tiles, 2 requests, no short appends, log of 4 cells | - | *violated*: `ServesTheTileAsked` |
| `control_safety` | 2 grids, 1 flush, 1 render, tick, disconnects, failures | 1,144,801 | `TypeOK`, `OneCompactionPerGrid`, `TruncatesWhatItFolded`, `FlushLeavesNothingBehind` |
| `control_liveness` | 1 grid, cap of 1 in a log of 3, of any length at the start | 25,972 | `CapIsEnforced`, `OwnerReleases`, `ShutdownEnds` |
| `control_wedge` | 1 grid, disconnects, nothing fails | - | *violated*: `OwnershipIsReleased` |
| `admission` | 3 requests, 1 tile, 1 map, 1 permit, 2 threads | 151,814 | `TypeOK`, `OneRenderPerTile`, `ErrorsAreNeverPinned`, `RendersWithinPermits`, `EveryRequestIsAnswered` |
| `delivery` | 2 requests, clients with and without gzip and br, 1 source change, zstd archive, br preferred, `If-None-Match: *` | 380,759 | `TypeOK`, `NobodyGetsBytesItCannotDecode`, `NotModifiedIsExact`, `RepresentationsAgree` |
| `services` | 5 servers (one with two layers of one name, one with a layer in an unknown CRS and a COG of oblong cells), 1 more with zoom bands, 11 refused ones; 3 zooms; cache of 1 entry | 388,572 | `OneTileOneAddress`, `LimitsMatchContent`, `MapShowsTheWindow`, `ClickHitsOneParcel`, `AdvertisedIsServed` |
| `terraserve` | the six parts below | 116,798 | 15 invariants, by part |
| `tile_id_alias` | zooms 0 to 2, 2:1 grid | - | *violated*: `AnswersTheTileAsked` |
| `scratch_shared` | 2 archives of one stem, 2 chunks | - | *violated*: `ArchivesAreWhole` |

The parts of `terraserve`:

| part | instance | invariants |
|---|---|---|
| recompress | 4 ids, 3 tiles (one empty), own and foreign archives | `HoldsWhatWasGiven`, `IsCompact`, `VerifyTellsTheTruth`, `KeepsTheTiles` |
| bake | zooms 0 to 2, 2:1 grid, all 100 extents | `IsTheHilbertCurve`, `AnswersAddressableTiles`, `BakesInAscendingOrder` |
| raster | 4 COGs: 8-bit RGBA with an overview and a mask, two signed 16-bit bands behind an expression with a sparse tile and its index left in the file, 32 bits behind the floating-point predictor, an uncompressed bilevel one; both caches of 2, index chunks of 4 entries | `RenderShowsTheRaster`, `InfoIsThePixel` |
| files | 7 files: FlatGeobuf with a resident, a chunked and no index and a corrupt record, GeoPackage with and without R-tree, GeoJSON; cap of 2 features | `WindowedReadsAgree` |
| tiles | 8 layers, every tile of zooms 0 to 2 (16 grid units, 4 pixels), subsets of subsets | `TilesHoldTheirFeatures`, `MosaicShowsTheTopClass`, `DissolveIsTheUnion`, `SubsetsLoseNothing` |
| remote | 6 sites, 13 refused ones; timers of 1, statement timeout 2 or none | `QueriesAnswerOrFail` |

Why the bounds are enough to meet the cases:

* Overlay: a stale offset needs one tile's record to be replaced at the same
  offset by another's, hence two tiles and two records; a torn tail after a
  whole record, and a record superseded in the log, need four cells; a record
  put after an append cut short, before or after a whole one, needs a fifth. In
  `overlay_durable` the source changes once, so that a later save differs from
  an earlier one, and there is no cap: who starts a compaction does not matter
  to it, and the tick starts them all. In `overlay_reads`, which compares tiles
  and not revisions, it does not change. `MaxCells`, `MaxRev` bound the log and
  the revisions.
* Control: two grids are what it takes for a flush to find one free and one
  taken. In `control_safety` a log has room for one record, which is all that
  "folded" and "left behind" tell apart; in `control_liveness` it has room for
  three, so that the cap of one can be passed, and again by a log that a replay
  left above it. More flush handlers and renders
  than one add nothing to the *kinds* of interleaving (controller, flush and main
  already compete), and the safety properties are proved for any number.
* Admission: an abandoned render, a thread that joined it, and a third request
  in the queue need three requests; with one permit and two threads, the second
  thread can only be used because of a disconnect.
* Delivery: two clients, one of which accepts nothing, and a shared cache; one
  source change, to a revision that is empty on this tile.
* Services: the six CRSs differ in what PROJ says of their first axis (its name,
  its abbreviation, its direction) and in their origin, so a swapped or shifted
  box shows. Grids: two tile sizes of one preset, one cut from a COG, documents
  that declare or omit their axis order, a polar one, one with an undersized
  level. The raster's edges lie on tile edges of one grid and between them on
  another. Three parcels meet in one corner and a fourth fills a hole; clicks
  fall inside, on edges and on the corner. Two layers have one name, the
  vector layer first; a COG has cells taller than wide. One cache entry suffices, as a wrong
  key shows at the second request.
* Recompression: four ids hold two runs and a gap in either order, and a leaf
  boundary inside and next to a run; one blob is a prefix of another.
* Tile ids: at zoom 2 the curve turns at two levels, one inside the other; all
  100 rectangular extents are enumerated, on both halves of the 2:1 grid.
* Raster: with caches of two, a map of four tiles evicts what it reads; chunks
  of 4 entries make an index of six span two, the last one short; every level
  has partial tiles at its edges. Reads that fail hit a block, an index chunk or
  a directory.
* Files: three records in nodes of two make a tree of three levels; index chunks
  of 8 units put node ranges across chunk borders, the last one short; windows
  touch, contain and miss boxes.
* Tiles: features lie inside a tile, across two and across four, in its buffer
  and on its border; sizes lie on both sides of every threshold at some zoom;
  the caps are met at 2 features a tile and 7 a query.
* Remote: one connection for two callers, two for two, without a limit on
  statements, a cap below the number of rows, two outages in a row. Timers of
  one step make every pair of them meet; a statement may last two.

Runs end in states where nothing more happens (the process is down for good, the
log is full, everybody is answered), so deadlock is not checked, except in
`admission` and `delivery`, where it is.

### Fairness

Safety runs use `Spec`, without fairness. `CompactionControl!FairSpec` assumes
that tokio polls tasks that are ready (weak fairness of every task's steps, one
per task), that blocking threads run to their end, and that the drain deadline
passes. Nothing makes a client ask, wait or disconnect, the operator stop the
server, or the interval tick: `CapIsEnforced` must hold by the wake-up alone. It
is about the put that brings a log above the cap; a log that a replay left
there waits for the next put, tick or flush (section 4).
`RenderAdmission!FairSpec` assumes the same of handlers and threads, that the
blocking pool does not pass over one task for ever (strong fairness of `Start`:
the pool is first come, first served), and that from some point on no render
panics: a thread waiting for panicking renders starts over each time, and
nothing in the code bounds how often.

`OwnerReleases` and `CapIsEnforced` are conditional: on no flush being abandoned,
and on no compaction failing. Both conditions are necessary: `control_wedge`
shows the first one; after a failed compaction the wake-up it swallowed is gone
until the next put over the cap or the next tick.

## 4. What the code does otherwise than it says

Shown by a run, with the comment or test quoted in `PROJECT.json`:

1. `overlay_stale_read`: a request looks up an offset; a compaction truncates
   the log; another tile is saved at that offset; the request serves that tile.
   The existing test covers an offset past the end only.
2. `control_wedge`: a client that disconnects during `POST /flush` leaves
   `compacting` set until the process restarts: no save, no compaction.
3. `scratch_shared`: the "unique" scratch directory is named after process and
   file stem; `a/tiles.pmtiles` and `b/tiles.pmtiles` compacting at once mix.
4. `tile_id_alias`: the bake checks the layer's extent, the request the matrix;
   east of the square a 2:1 grid answers with a tile from elsewhere.

Visible in the models, without a run of their own:

* A permit is released when its handler is dropped, while its render goes on, so
  that more renders run than `--max-inflight`. `RendersWithinPermits` states the
  bound that does hold: permits plus abandoned renders (`server.rs:949`, against
  the doc of `render_limiter`).
* A crash between creating the log and writing its header leaves a file that no
  later start opens: `CrashCreating` disables `Open` for good (`overlay.rs:135`,
  "append-only crash-recoverable log").
* An append that fails half-way leaves `log_len` behind the end of the file, and
  later records are indexed at wrong offsets, answered and folded as other bytes,
  and lost at a restart (`overlay.rs:221`; "best-effort" to its
  caller, `mvt_http.rs:262`). The runs include it, and the properties say how far it reaches
  (`Astray`). Drop `~Astray(index[t])` from `AnswersSurviveRestart` to see it.
* A log that is above `--pmtiles-overlay-max-mib` when the server starts is not
  compacted until the next put, tick or flush: the cap is set after the replay
  and nobody is woken (`serve.rs:434`, against `serve.rs:112`, "Compact the
  write-through overlay once its log exceeds this many MiB").
* `recompress` passes an empty blob through; its offset is that of the next new
  blob, and `add` extends a run on equal offsets without comparing lengths
  (`write.rs:135`), so the id after it is counted into the empty run, or the
  empty one's neighbour answers for it. No archive of this program has an empty
  blob; drop the hypothesis about empty blobs from `KeepsTheTiles` to see it
  fail. The verification catches it.
* KVP GetTile and GetMap take a permit before asking the cache
  (`server.rs:1195`, against `cmd/serve.rs:319`); a warm live tile reads its
  source first and is a 500 when that fails (`mvt_http.rs:301`, against
  `cmd/serve.rs:300`).
* `overlay.rs` says in two comments that flush uses `notify_one`; it compacts
  itself.

Service documents and addresses:

* `capabilities_preamble` lists GML for GetFeatureInfo in 1.1.1 only and for all
  layers; a raster layer refuses it, a vector layer serves it in 1.3.0 too. The
  root CRS list of `capabilities_multi` is the first layer's.
* A grid is looked up by its id without the tile size (`tms_http.rs:52`,
  `wmts.rs:189`, `mvt_http.rs:72`): a `_512` grid listed first answers for the
  plain id (`Shadowed`, excused in the properties).
* Of two equal KVP parameters WMS takes the first, WMTS the last; a WMS request
  of one layer looks at the first name of the list it was given.
* Duplicate layer names are accepted: the documents list both layers, every
  request finds the first. So is a vector layer in a CRS that PROJ does not know,
  on which every click fails. Archives or zoom bands on a COG layer are accepted
  and ignored; raster archives of a layer that is loaded whole are dropped
  (`layer/mod.rs:1353`, against its comment at 628). The CRS check of zoom bands
  compares nothing when `src_crs` is declared.

Rasters:

* A tag whose read fails while a COG is opened gets its default
  (`cog.rs:493`): the layer may then show something else until it is reopened.
  The properties are stated for layers opened without a failed read (`whole`).
* A map two pixels wide or high is never read from an overview (`desired_factor`);
  with `nodata_transparent = false`, outside the raster a map is coloured like 0
  unless it is outside altogether.
* A point query of a bilevel raster reports whole bytes, not the bits a map shows:
  `decode_tile_samples` takes a sample for a byte at least (`decode.rs:171`,
  against `render.rs:111`, "Raw per-band values in physical order (exact)").
  `InfoIsThePixel` is about the other rasters; without that condition it fails.

Vector sources, tiles and subsets:

* A corrupt FlatGeobuf record is an error on an indexed file and skipped on one
  without an index; a malformed GeoPackage row fails a load and is skipped by a
  window read. The R-tree of a GeoPackage holds single-precision boxes, so it is
  no "exact per-feature overlap set" (`gpkg.rs:657`); capped answers that include
  skipped rows are not warned of.
* `features_for_tile` asks the source for what an extent of 4096 shows, while a
  fine tile has a larger extent (`extent_at`); the overscan of 1/16 is in source
  units, less than the tile's buffer where the projection stretches.
* The subset of `extract` is wider than "exactly what the encoder would have
  selected", and its cap check counts decoded features only. A text column's
  values take SQLite's column affinity.
* Half a unit rounds away from zero, so a vertex in two tiles' buffers may
  round differently. Buffer cells of a mosaic may differ from the neighbour's
  cells when a cell is larger than twice the buffer. Overlapping polygons of one
  class dissolve into holes.

PostGIS:

* The budget has room for one planning or one execution at the statement
  timeout, not both (`postgis.rs:645`, "can never pre-empt a legitimately slow
  query"): a slow plan before a slow statement is cut, which `Explained` allows
  as "planning".
* A query cut by the budget gives its connection back with the statement still
  running; the next one waits behind it.

## 5. The proofs

All are for arbitrary constants; the hypotheses are named.

**`TileOverlayProofs`**: `TypeCorrect`, `ReadsSafe`, `RestartSafe`, `Implements`.
No hypothesis but the three `ASSUME`s of the module: appends may be cut short or
not, and the exception for tiles gone astray is in the properties.
The properties are not inductive: that the index agrees with the log says
nothing about a compaction that has read half of it. The invariant adds:

* the log begins with whole records (`LogIsWhole`). As long as no append was cut
  short these are all of it and `logLen` is their length; afterwards a part that
  does not parse follows, which hides whatever is put behind it from a replay,
  and `logLen` never passes the end of the log, nor falls below where it was cut;
* `index[t]` is exactly `LastBlob(log, t)`, what `open` would rebuild, unless it
  is astray (`IndexIsReplay`);
* every lookup not in `raced` remembers an offset below the end and, unless it is
  astray, of a blob cell of its own tile;
* while a job merges, no put can happen (`compacting` is set), so each tile
  already in `job.out` is what it was, and what is held now;
* between rename and truncation the archive holds what the overlay answers, so
  replaying the log over it changes nothing.

The last two carry `Implements`: a rename followed by a crash leaves both the
new archive and the log, and the replay must be idempotent. A `Put` implements
`Save` of the blob offered, or `GoAstray`; `Rename` and `Clear` implement
`Publish` after a cut and a stutter otherwise. Before them come
lemmas on the scan of a log: what an appended record, a torn prefix, a cut do to
`LastBlob`.

**`CompactionControlProofs`**: `NeverTwoCompactions`, `NothingTruncatedUnfolded`,
`FlushIsThorough`, `OwnershipIsHandedBack`, `ControlTypes`, for any number of
grids, flushes and renders. A task *holds* its grid from `try_begin_compaction`
to `end_compaction`, also when it was dropped in between. The invariant says
that a holder has not moved on (`HoldersAwait`), that `compacting` is set for
its grid (`HoldersOwn`) and that no two tasks hold one grid (`OneHolder`).
`TruncatesWhatItFolded` follows as `MaySave` asks for the flag to be clear. For
`FlushIsThorough` a second invariant, `FlushRecord`, follows one flush: a line
for every grid visited, none before it is posted, and "ok" only where the log
was truncated since. `OwnershipIsHandedBack` is about steps: a grid never passes
from one task straight to another, and only its holder frees it, after its job
has ended. Whoever holds a grid after a step held it before or found it free
(`HeldOrFree`); with `OneHolder` and `HoldersOwn` that excludes the handover.
Clearing the flag when a flush is dropped, the obvious cure for `control_wedge`,
would break it while the job still runs.

**`RenderAdmissionProofs`**: `RenderedOnce`, `NeverPinned`, `Bounded`,
`PermitsNeverLeak`, `AdmissionTypes`, for any finite set of requests and any keys, permits and
threads. `PermitsNeverLeak` counts permits: free ones and handlers that hold one are
always `Permits`, through errors, panics and dropped handlers. The invariant has
that count, ties every render to a handler that holds a permit
or was dropped holding one (`JobsBelong`), and keeps the queue a sequence of
waiting handlers without repetition (`QueueOfWaiters`): otherwise a handler
dropped in the queue could be handed a permit later, with nobody to release it.

**`MvtDeliveryProofs`**: `Decodable`, `StrongValidator`, `OneVersionServed`,
`DeliveryTypes`, for
any requests, clients, revisions and configuration. `CachesSound` says what each
resting place knows of the coding its bytes are in: a transcode from its key, a
shared response from its variant, an empty live tile that it has none. `Sound`
says it of a request on its way. `OneVersion` holds every place to the version
in the live cache, which stays the first one encoded as long as nothing is
evicted.

**`PmtilesProofs`**: `ArchiveSound`, `ArchiveHolds`, `ArchiveIsCompact`,
`CommandSound`, `InputHolds`, `VerifyTruthful`, `CopyKeepsTheTiles`, for any ids,
blobs, codings and any length of a directory, flat or in leaves of any size. The
assumptions: ids are naturals, blobs of this program are not empty, hashes do
not collide (`HashAssumption`, `HashesApart`: 64-bit FNV in the code), a miss is
no value, and the input's blobs are the tiles in its coding. The writer and the
directories are recursive functions; what they compute is shown by induction
over the naturals, and that is derived from the well-foundedness of `<`
(`LeastElement`, `Induction`), as the library's induction theorems take an
operator, which no prover here can instantiate. The argument:

* the columns of a directory decode to what was encoded, although an offset of 0
  stands for "where the last one ended"; the search with `Err(i)` taken as
  `i - 1` finds the entry of an id; and a directory cut into leaves is searched
  through its root as if it were whole;
* `InputOK` is the invariant of a writer: entries in order, runs not overlapping
  and not joinable, the last one ending at `last` (`OrderOK`, `Maximal`); every
  record of the dedup table cuts the blob of its hash out of the data, and every
  entry points at such a record (`StoreOK`); what the entries answer is `given`
  (`Holds`). `Apart` adds that no two records start at one
  offset, which is what `add` relies on when it extends a run on equal offsets.
  It is false of a foreign archive with empty blobs, hence `InputOK` without
  it there, and the hypothesis of `CopyKeepsTheTiles`;
* `CommandInv` follows the copy: after `at` entries the copier holds exactly the
  tiles of those entries in the other coding, and a verdict is true of the two
  archives. `VerifyTruthful` needs no hypothesis on the input. `CommandInv` was
  model-checked before it was proved.

Its last section is about `CompactionScratch`: `WholeWhenApart` and
`NoneLeftWhenApart`, under `StemsApart`: no two archives share a stem. The
invariant follows the bytes: a compaction's path names its own file or none, the
file holds the chunks written so far, the `.tmp` those copied so far.
`scratch_shared` shows that `StemsApart` is needed. That model has no passing
run: the theorems take its place.

**`TileIdsProofs`**: `BakeSound`, `HilbertCurve`, `NeverBreaksOff`,
`AnswersTheTile`, `ArchiveGrowsAtItsEnd`, for any number of zooms, columns and
any extent of the layer, under `TheGrid`: ids fit the integers, which 64 bits do
for 31 zooms and a few columns. Powers come from a library recursion that the
provers do not unfold; `2^n` doubles with `n` because it is the number of subsets
of `1 .. n`. Recursive functions are shown to exist, value by value, by
induction. For the curve, the coordinates after k steps of the walk, taken
modulo the side of the quadrant, determine the rest of it: a turn is a bijection
of the square, so ids of a zoom are distinct and below `4^z`; `Back` undoes
`Turn` digit by digit; entry and exit corner of each quadrant are neighbours of
the next one's, so consecutive ids share an edge. `BakeInv` has the zoom the bake
is at and its limits (`Stages`), an archive that holds tiles of the zooms
done, under their own ids (`OnlyItsTiles`), the writer's last id below the ids of
the zoom it is at (`LastOfAll`), and every tile the extent touches in the zooms
done (`AllTouched`). A later zoom starts above all ids of an earlier one, whatever
part of it was baked: the ascending-id check never fires, nothing is overwritten.
The hypothesis of `AnswersTheTile`, a tile inside the square, is the one
`tile_id_alias` shows to be necessary.

**`PostgisSourceProofs`**: `QueriesEndInTime`, `FailuresHaveACause`,
`ThePoolIsKept`, `AnswersOrErrors`, for any sites, callers, pools, tables and
timers, under `SitesConfigured` (the waits are positive, as `connect_timeout_ms`
and `pool_wait_timeout_ms` filter out 0) and, for the last one, `SitesTruthful`:
rows have distinct ids, boxes are four whole numbers, the unit of the CRS is
positive, `shown` is the conversion, and URI and catalogue are true of the column
meant, where they say anything at all. In time, and for a cause: `Calm` says that
while the database has answered all along, a caller that has waited for a
*returned* connection finds one (`Saturated`: the pool is full of connections, so
whoever gets a permit gets an idle one) and a caller that *makes* one has not
waited. So nobody waits for both, every caller reaches its statement within
`Patience` = connect + pool wait - 1, a plan not slow takes the margin at most,
and the budget has a step to spare (`BudgetFailsKeeps`). A wait for the pool can
only run out when all connections are held by others, which needs a pool smaller
than the callers (`PoolFailsKeeps`), and such a layer was warned of when it was
opened (`OpenedByALiveDatabase`). `TickKeeps` carries the ages: time passes only
when no timer is overdue. Right answers: a source that opens is of the table, the
column and the CRS meant, by whichever way the URI, the catalogue and the declared
CRS decide (`OpenedAsMeant`), so a statement selects exactly the rows in the
place that are visible (`SelectsThePlace`). `Streamed` is the invariant of one
query: the features so far are those of the rows already taken (`Gathered`), each
once, and the rest is still to come. At the end either all visible rows were
taken (`AllSeenIsRight`) or as many as the cap, with the warning. `AnswersOrErrors`
puts the parts together: it is the property the run checks.

**`ServicesProofs`**: `TileAddressed`, `LimitsHonest`, `WindowShown`,
`CacheKeepsAnswers`, `AdvertisedServed`, for any
arguments of an operator, any axes, shifts and grids, and any sequence of
requests, evictions and failed reads. The assumptions, which the run `services`
evaluates: `AxesAssumption` (what PROJ says of the first axis is true where it
says anything), `PlaneAssumption` and `NumbersAssumption` (places are pairs of
integers, CRSs are shifted against each other, NaN is no number),
`UnitAssumption` (the unit of length is small enough for whole cells) and
`StartsAssumption`. The last is the one an operator can break: layers have
names, and sizes are positive. Names need not be distinct, nor CRSs known to PROJ:
what goes wrong then is excused in the properties, for these layers alone
(section 2). The argument:

* what starts is well made (`LoadedIsWellMade`): every stage of `Loading` that
  does not complain hands on grids with whole positive cells, one per id, raster
  archives only for grids of their layer and of their tile size, data bounds
  only for rasters. All later lemmas are about any `WellMade` list of layers;
* every view a client can form has a layer and a grid behind it
  (`ViewsAreGrids`), found by name and id unless an earlier grid of that layer
  answers to the id (`BehindView`, `Shadowed`), with the axis order undone on
  both sides (`AxesAgree`, `ClientReckons`), and rows counted from the top and
  from the bottom meet (`TmsRow`);
* what a client writes comes back from the parser: the last pair of a key
  counts, a lost one is an error (`AskedIsParsed`, `SpoiltFails`, `SpoiltMap`);
* limits are the columns and rows whose boxes meet the data, as both divide
  the same differences and round the same way (`LimitsAreEdges`);
* a click is answered when each layer asked answers (`ClickJoins`), and a layer
  answers when the CRS is listed for it and the pixel is inside the map
  (`LayerClicked`).

The inductive invariant `IInv` is needed for the cache. That an answer is right
says nothing of the bytes a later request finds, so `CacheSound` follows every
entry: it is what its own front end answers to that key, with reads that worked.
Keys of TMS and WMTS differ in their first part, those of WMTS carry the style,
and a key determines the address (`TmsKey`, `WmtsKey`), so a hit is an answer to
the same question (`AgainSettles`). `Standing` ties the layers to the arguments;
`TileSound`, `MapSound` and `OthersSound` speak of the answer looked at.

**Only model-checked**:

* all liveness (`CapIsEnforced`, `OwnerReleases`, `ShutdownEnds`,
  `EveryRequestIsAnswered`), which TLAPS cannot do;
* `ClickHitsOneParcel`: that the crossings of a ray with the rings of parcels
  that tile an area are odd for exactly one of them is a theorem about plane
  geometry, by induction over edges;
* the rasters, the file sources, the vector tiles and subsets
  (`RenderShowsTheRaster`, `InfoIsThePixel`, `WindowedReadsAgree`,
  `TilesHoldTheirFeatures`, `MosaicShowsTheTopClass`, `DissolveIsTheUnion`,
  `SubsetsLoseNothing`). Their properties relate long compositions of operators
  on data (the expression compiler and its meaning, the tree walk and the
  boxes, command streams and the squares they cover) to a reference given by
  other operators. Several are recursive operators or folds, which the provers
  do not unfold; each would first have to be restated with recursive functions,
  as was done for PMTiles and tile ids.

## 6. Not modelled

* Power loss: a crash kills the process, not the kernel. Nothing is fsynced in
  the code, so the rename and the truncation could be reordered on disk.
* Hash collisions in the writer's dedup (64-bit FNV, not compared): the hash is
  taken as injective, likewise ETags.
* `clear` failing between truncation and the index swap; a log replayed over a
  rebaked archive, whose newer tiles it shadows (nothing ties one to the other).
* Header bytes, varints, byte limits on corrupt archives, archive metadata;
  FlatBuffers tables, SQLite and protobuf bytes.
* Concurrent requests of one raster or file layer: each works on a consistent
  snapshot of caches that hold immutable data, so one at a time, with caches in
  any state an eviction can leave, shows the same answers.
* Rasters: bilinear resampling and the warp to another CRS with its scale
  estimate, mask application, JPEG and WEBP, square roots, infinities apart
  from "not finite".
* Tiles: geometry not parallel to the axes (clipping then makes vertices off the
  grid), the Mercator formula and the simplification it scales, the size gate of
  the image path, cells smaller than a pixel, the clamp at 2^24 in the dissolve.
* PostGIS: SQL text and quoting, TLS, the catalogue queries for types, 64-bit
  integers beyond 2^53, edits of the table during a query.
* The XML, JSON and HTML text of documents, percent-decoding, the map page.
* SLD and drawing, label placement, legends as images: pixels of one request.
* The topology tool: an offline pass on floating-point arcs; its identities rest
  on the equality of floats.
* S3 signing and credentials; the Python bindings and the build script.

## 7. Plan

Done: the overlay, its control and scratch files with proofs; admission and
delivery with proofs; PMTiles, recompression and tile ids with proofs; configuration, grids and
all services, with proofs; the COG reader, band math and raster layers; file sources; vector
tiles and subsets; the PostGIS source with proofs.

Next, proving more:

1. `FgbReader`: the walk over the tree returns the records whose boxes meet the
   window, the first half of `WindowedReadsAgree`.
2. `CogReader`: the block found through cached chunks is the block of the
   resident index.
3. `PostgisSource`: with a limit on statements every query ends, as a liveness
   property under fairness of its timers (a run; the safety half is proved).

And extending the model:

1. `clear` failing half-way in `TileOverlay`; the bake's retry in
   `PmtilesArchive`.
2. `TileOverlay` and `MvtDelivery` composed: what a stale overlay read leaves in
   the transcode cache.
3. `PostgisSource` inside `RenderAdmission`: callers that are blocking threads
   holding permits.
