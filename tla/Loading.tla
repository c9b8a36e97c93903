------------------------------ MODULE Loading ------------------------------
(***************************************************************************)
(* From the operator's flags or configuration file to the layers a server  *)
(* publishes (config.rs, layer/mod.rs, cmd/serve.rs).  A check that fails  *)
(* stops the program before it listens, so a stage is the set of its       *)
(* complaints and a layer is built when there is none; which complaint is  *)
(* printed first is left out.  A path is a record of what lies there:      *)
(* [scheme, ext] name the format, the rest is the content.                 *)
(***************************************************************************)
EXTENDS TileMatrixSets, TLC

Absent == [kind |-> "absent"]
Given(x) == x # Absent
Complaints(checks) == {c[2] : c \in {d \in checks : d[1]}}
FromCog == <<"from_cog", 0>>

\* s3 and file say where the bytes are; any other scheme claims a format of its own.
classify(p) ==
    CASE p.scheme = "postgis" -> "PostGis"
      [] p.scheme \notin {"", "s3", "file", "postgis"} -> "Unsupported"
      [] p.ext = "fgb" -> "FlatGeoBuf"
      [] p.ext \in {"geojson", "json"} -> "GeoJson"
      [] OTHER -> "GeoPackage"

---------------------------------------------------------------------------
\* One entry of the configuration file.
validate(lc) ==
    \/ Given(lc.cog) /\ ~Given(lc.vector) /\ lc.style /\ lc.table = ""
    \/ ~Given(lc.cog) /\ Given(lc.vector) /\ lc.vec_style

\* The names of the bands in physical order; a position nobody names stays empty.
band_names_ordered(bands) ==
    [i \in 1..Max({0} \cup Range(bands)) |->
        IF \E b \in DOMAIN bands : bands[b] = i THEN CHOOSE b \in DOMAIN bands : bands[b] = i ELSE ""]

ExpressionWorks(lc) ==
    \/ lc.expression = {}
    \/ /\ band_names_ordered(lc.bands) # <<>>
       /\ \A i \in DOMAIN band_names_ordered(lc.bands) : band_names_ordered(lc.bands)[i] # ""
       /\ lc.expression \subseteq DOMAIN lc.bands

\* A grid of the configuration: the matrix sizes follow from extent, tile size and resolution.
to_tms(id, gc) ==
    LET size(side, r) == Max({Ceiling(side, gc.px * r), 1}) IN
    [id |-> id, crs |-> gc.crs, origin |-> gc.origin, tile_w |-> gc.px, tile_h |-> gc.px,
     levels |-> [k \in DOMAIN gc.resolutions |->
        Level(gc.resolutions[k], size(gc.extent[3] - gc.extent[1], gc.resolutions[k]),
              size(gc.extent[4] - gc.extent[2], gc.resolutions[k]))]]

\* A reference is an OGC document, taken at its word, or an id: from_cog, a preset, a custom grid.
GridById(id, px, cog, crs, custom) ==
    CASE id = FromCog -> IF Given(cog) THEN from_cog(cog, crs, px) ELSE NoGrid
      [] id # FromCog /\ id[1] \in PresetNames -> preset(id, px)
      [] OTHER -> IF id \in DOMAIN custom THEN to_tms(id, custom[id]) ELSE NoGrid

IfIndexable(g) == IF g # NoGrid /\ is_level_invariant(g) THEN g ELSE NoGrid
resolve_one(ref, px, cog, crs, custom) ==
    IF ref.doc # <<>> THEN from_ogc_json(ref.doc[1]) ELSE IfIndexable(GridById(ref.id, px, cog, crs, custom))

unique_grid_ids(grids) == \A i, j \in DOMAIN grids : grids[i].id = grids[j].id => i = j

\* <<>> when one of them does not resolve, or two have one id; a layer without grids is legal.
Accepted(grids) ==
    IF NoGrid \in ToSet(grids) \/ ~unique_grid_ids(grids) THEN [ok |-> FALSE, grids |-> <<>>]
    ELSE [ok |-> TRUE, grids |-> grids]
resolve_grids(refs, px, cog, crs, custom) ==
    Accepted([i \in DOMAIN refs |-> resolve_one(refs[i], px, cog, crs, custom)])

---------------------------------------------------------------------------
\* A raster layer.  Its native grid is renamed after the layer: several layers have one.
NativeId(name) == <<name \o "_native", 0>>

PublishedCogGrid(lc, crs, g) ==
    [tms |-> IF g.id = FromCog THEN [g EXCEPT !.id = NativeId(lc.name)] ELSE g,
     bounds |-> IF CanTransform(crs, g.crs) THEN bounds_in_grid_crs(lc.cog, crs, g.crs) ELSE <<>>]

DefaultCrs == "EPSG:3763"
WholeWorld == <<-World, -(World \div 2), World, World \div 2>>
Wgs84Of(crs, box) ==
    IF CanTransform(crs, "EPSG:4326") THEN crs_bounds(crs, "EPSG:4326", box) ELSE WholeWorld

\* Archives and zoom bands of a raster layer are not looked at.
RasterWrong(lc, crs, found) ==
    Complaints({<<~lc.cog.readable, "source">>, <<~ExpressionWorks(lc), "expression">>, <<~found.ok, "grids">>,
                <<\E g \in ToSet(found.grids) : ~CanTransform(g.crs, crs), "grid crs">>})

RasterLayer(lc, crs, grids) ==
    [kind |-> "cog", name |-> lc.name, styled |-> TRUE, crs |-> crs, features |-> <<>>,
     bounds |-> Wgs84Of(crs, bounds_in_grid_crs(lc.cog, crs, crs)),
     grids |-> [i \in DOMAIN grids |-> PublishedCogGrid(lc, crs, grids[i])],
     rasters |-> <<>>, archives |-> <<>>, fields |-> {}, rules |-> <<>>, bands |-> <<>>,
     read |-> "tiles", px |-> lc.px]

Unless(wrong, layer) == IF wrong # {} THEN [kind |-> "refused", why |-> wrong] ELSE layer

BuiltRaster(lc, crs, found) == Unless(RasterWrong(lc, crs, found), RasterLayer(lc, crs, found.grids))
RasterCrs(lc) == IF lc.src_crs = "" THEN DefaultCrs ELSE lc.src_crs
build_layer(lc, custom) ==
    BuiltRaster(lc, RasterCrs(lc), resolve_grids(lc.grids, lc.px, lc.cog, RasterCrs(lc), custom))

---------------------------------------------------------------------------
\* A vector layer.  An archive is [type, grid, px, tiles]; px is 0 when it does not say.
OneArchivePerGrid(ids) == Cardinality(ToSet(ids)) = Len(ids)
OpenArchives(paths) ==
    [g \in {a.grid : a \in ToSet(paths)} |-> (CHOOSE a \in ToSet(paths) : a.grid = g).tiles]

GridOfArchive(grids, a) ==
    FirstOf(grids, {i \in DOMAIN grids : a.grid \in {grids[i].id, strip_size_suffix(grids[i].id)}})

MvtArchivesWrong(paths) ==
    Complaints({<<\E a \in ToSet(paths) : a.type # "mvt", "archive type">>,
                <<~OneArchivePerGrid([i \in DOMAIN paths |-> paths[i].grid]), "two archives">>})

RasterPxFits(g, a) == a.px \in {0, g.tile_w}
RasterArchivesWrong(paths, grids) ==
    LET homeless == {a \in ToSet(paths) : GridOfArchive(grids, a) = <<>>}
        home(a) == GridOfArchive(grids, a)[1]
    IN  Complaints({<<\E a \in ToSet(paths) : a.type # "png", "archive type">>,
                    <<homeless # {}, "unpublished grid">>,
                    <<\E a \in ToSet(paths) \ homeless : ~RasterPxFits(home(a), a), "tile size">>,
                    <<homeless = {} /\ ~OneArchivePerGrid([i \in DOMAIN paths |-> home(paths[i]).id]),
                      "two archives">>})

\* Filed under the id the grid is published by, which is what the tile routes look up.
RastersByGrid(paths, grids) ==
    [id \in {GridOfArchive(grids, a)[1].id : a \in ToSet(paths)} |->
        (CHOOSE a \in ToSet(paths) : GridOfArchive(grids, a)[1].id = id)]

\* How a source is read: windowed, or whole when something needs all of its features at once.
NeedsAll(spec) == spec.simplify \/ spec.dissolve # "" \/ spec.keep # {}
ReadOf(spec) ==
    CASE classify(spec.vector) \in {"PostGis", "FlatGeoBuf"} -> "windowed"
      [] classify(spec.vector) = "GeoPackage" /\ ~NeedsAll(spec) /\ spec.vector.rtree -> "windowed"
      [] OTHER -> "load-all"

\* Declared wins over the file, except for PostGIS, whose geometry cannot be declared elsewhere.
CrsOf(spec) ==
    LET file == IF classify(spec.vector) = "GeoJson" THEN "" ELSE spec.vector.crs IN
    CASE classify(spec.vector) = "PostGis" -> file
      [] spec.src_crs # "" -> spec.src_crs
      [] file # "" -> file
      [] OTHER -> DefaultCrs

TransformsHere(spec) == classify(spec.vector) = "GeoPackage" /\ ReadOf(spec) = "load-all"

\* A database is asked for the columns the style reads and those listed; a file has what it has,
\* pruned to the kept fields and the dissolve field.
ColumnsOf(spec) ==
    IF classify(spec.vector) = "PostGis" THEN spec.style_fields \cup spec.columns
    ELSE IF TransformsHere(spec) /\ spec.keep # {}
         THEN spec.vector.fields \cap (spec.keep \cup ({spec.dissolve} \ {""}))
         ELSE spec.vector.fields

TableWrong(spec) ==
    IF classify(spec.vector) = "GeoPackage"
    THEN IF spec.table = "" THEN Cardinality(spec.vector.tables) # 1 ELSE spec.table \notin spec.vector.tables
    ELSE spec.table # ""

SourceWrong(spec) ==
    LET format == classify(spec.vector) IN
    Complaints({<<TableWrong(spec), "table">>,
                <<format = "Unsupported", "scheme">>,
                <<~spec.vector.readable, "source">>,
                <<format = "PostGis" /\ spec.extent = <<>>, "extent">>,
                <<format = "PostGis" /\ ~(ColumnsOf(spec) \subseteq spec.vector.fields), "columns">>,
                <<format = "PostGis" /\ spec.src_crs \notin {"", spec.vector.crs}, "crs">>,
                <<TransformsHere(spec) /\ spec.dissolve \notin {""} \cup ColumnsOf(spec), "dissolve field">>})

\* The archives given to a layer that is read whole are opened and checked, and then not kept.
RastersKept(spec, grids) ==
    IF ReadOf(spec) = "load-all" THEN <<>> ELSE RastersByGrid(spec.raster_pmtiles, grids)

VectorWrong(spec, found) ==
    Complaints({<<~found.ok, "grids">>}) \cup MvtArchivesWrong(spec.pmtiles)
    \cup RasterArchivesWrong(spec.raster_pmtiles, found.grids) \cup SourceWrong(spec)

ExtentOf(spec) ==
    IF spec.extent # <<>> /\ classify(spec.vector) = "PostGis" THEN spec.extent ELSE spec.vector.extent

VectorLayer(spec, crs, grids) ==
    [kind |-> "vector", name |-> spec.name, styled |-> FALSE, crs |-> crs, features |-> spec.vector.features,
     bounds |-> IF crs = "CRS:84" THEN ExtentOf(spec) ELSE Wgs84Of(crs, ExtentOf(spec)),
     grids |-> [i \in DOMAIN grids |-> [tms |-> grids[i], bounds |-> <<>>]],
     rasters |-> RastersKept(spec, grids), archives |-> OpenArchives(spec.pmtiles),
     fields |-> ColumnsOf(spec), rules |-> spec.rules, bands |-> <<>>, read |-> ReadOf(spec), px |-> spec.px]

\* A vector layer has no native grid: from_cog is passed over.
WithoutFromCog(refs) == Picked(refs, {i \in DOMAIN refs : refs[i].doc # <<>> \/ refs[i].id # FromCog})
VectorGrids(spec, custom) == resolve_grids(WithoutFromCog(spec.grids), spec.px, Absent, "", custom)
BuiltVector(spec, found) == Unless(VectorWrong(spec, found), VectorLayer(spec, CrsOf(spec), found.grids))
build_vector_layer_base(spec, custom) == BuiltVector(spec, VectorGrids(spec, custom))

---------------------------------------------------------------------------
\* Zoom bands: each is a layer of its own, built like the layer but without what belongs to it.
Overlap(bands) ==
    LET sorted == SortSeq(bands, LAMBDA a, b : a.min_zoom < b.min_zoom)
    IN  \E i \in 2..Len(sorted) : sorted[i].min_zoom <= sorted[i - 1].max_zoom

BandSpec(spec, b) ==
    [spec EXCEPT !.vector = b.vector, !.table = "", !.pmtiles = <<>>, !.raster_pmtiles = <<>>,
                 !.grids = <<>>, !.simplify = FALSE, !.dissolve = ""]

\* A GeoPackage cut by `extract` says for which zooms; a file without that stamp is believed.
OutsideItsCut(b) ==
    /\ b.vector.stamp # <<>>
    /\ b.min_zoom < b.vector.stamp[1] \/ b.max_zoom > b.vector.stamp[2]

BandsWrong(spec, built) ==
    LET bands == spec.zoom_sources IN
    Complaints({<<TransformsHere(spec) /\ spec.simplify /\ bands # <<>>, "bands and lod">>,
                <<Overlap(bands), "overlap">>,
                <<\E b \in ToSet(bands) : b.min_zoom > b.max_zoom, "inverted band">>,
                <<\E l \in ToSet(built) : l.kind = "refused", "band source">>,
                <<\E l \in ToSet(built) : l.kind # "refused" /\ l.crs # CrsOf(spec), "band crs">>,
                <<\E b \in ToSet(bands) : OutsideItsCut(b), "outside its cut">>})

WithBands(spec, base, built) ==
    IF base.kind = "refused" THEN base
    ELSE Unless(BandsWrong(spec, built),
                [base EXCEPT !.bands = [i \in DOMAIN built |->
                    [min_zoom |-> spec.zoom_sources[i].min_zoom, max_zoom |-> spec.zoom_sources[i].max_zoom,
                     features |-> built[i].features]]])

build_vector_layer(spec, custom) ==
    WithBands(spec, build_vector_layer_base(spec, custom),
              [i \in DOMAIN spec.zoom_sources |-> build_vector_layer_base(BandSpec(spec, spec.zoom_sources[i]), custom)])

band_for_zoom(layer, z) == SelectSeq(layer.bands, LAMBDA b : z >= b.min_zoom /\ z <= b.max_zoom)

\* What is read for a tile of zoom z: a declared band, or else the layer's own source.
source_for_zoom(layer, z) ==
    IF band_for_zoom(layer, z) # <<>> THEN band_for_zoom(layer, z)[1].features ELSE layer.features

---------------------------------------------------------------------------
\* The whole start.  args is [mode, cache, pmtiles, raster_pmtiles, layers, custom]: the flags build
\* one layer, a configuration several.
FlagsWrong(args) ==
    Complaints({<<args.mode # "vector" /\ args.pmtiles # <<>>, "--pmtiles">>,
                <<args.mode # "vector" /\ args.raster_pmtiles # <<>>, "--raster-pmtiles">>,
                <<args.cache /\ (args.pmtiles = <<>> \/ args.mode # "vector"), "--pmtiles-cache">>,
                <<args.cache /\ \E a \in ToSet(args.pmtiles) : ~a.exists, "no archive to cache over">>})

build(lc, custom) ==
    IF Given(lc.vector) THEN build_vector_layer(lc, custom) ELSE build_layer(lc, custom)

ArgsWrong(args) ==
    FlagsWrong(args)
    \cup Complaints({<<args.layers = <<>>, "no layers">>,
                     <<args.mode = "config" /\ \E lc \in ToSet(args.layers) : ~validate(lc), "layer">>})
LayersWrong(built) == UNION {l.why : l \in {m \in ToSet(built) : m.kind = "refused"}}
GridsWrong(built) ==
    Complaints({<<conflicting_grid_ids(UNION {{pg.tms : pg \in ToSet(l.grids)} : l \in ToSet(built)}),
                  "one id, two grids">>})

\* Each stage stops at the first that fails.
Opened(args, built) ==
    IF ArgsWrong(args) # {} THEN [kind |-> "refused", why |-> ArgsWrong(args)]
    ELSE IF LayersWrong(built) # {} THEN [kind |-> "refused", why |-> LayersWrong(built)]
    ELSE Unless(GridsWrong(built), [kind |-> "serving", layers |-> built])
run_serve(args) == Opened(args, [i \in DOMAIN args.layers |-> build(args.layers[i], args.custom)])
=============================================================================
