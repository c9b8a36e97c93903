--------------------------- MODULE TileRequests ---------------------------
(***************************************************************************)
(* The tile front ends: TMS (tms_http.rs), WMTS in both bindings (wmts.rs) *)
(* and the addresses, documents and styles of the vector tiles             *)
(* (mvt_http.rs), for the layers that Loading builds.  A grid of a layer   *)
(* is [tms, bounds], bounds being <<>> when unknown.                       *)
(***************************************************************************)
EXTENDS WmsRequests, Loading

Fails(http, code) == [kind |-> "error", http |-> http, code |-> code]
NoId == <<>>

\* By the id it is published under, or by that id without its tile size; the first grid that fits.
Answers(g, id) == id \in {g.id, strip_size_suffix(g.id)}
GridsFor(layer, id) == FirstOf(layer.grids, {k \in DOMAIN layer.grids : Answers(layer.grids[k].tms, id)})

pick_grid(layer, id) == IF id = NoId THEN FirstOf(layer.grids, DOMAIN layer.grids) ELSE GridsFor(layer, id)

---------------------------------------------------------------------------
\* One tile, once layer, grid and address are settled.  An archived tile is served as it is; a COG
\* tile beside the data is blank without a read.
Archived(layer, g, z, col, row) ==
    /\ g.id \in DOMAIN layer.rasters
    /\ <<z, col, row>> \in layer.rasters[g.id].tiles

Rendered(layer, pg, z, col, row, io) ==
    LET box == tile_bounds(pg.tms, z, col, row)
        drawn(from, px) == [kind |-> "tile", layer |-> layer.name, box |-> box, px |-> px, from |-> from]
        tile(from) == drawn(from, pg.tms.tile_w)
    IN  CASE layer.kind = "vector" ->
                IF Archived(layer, pg.tms, z, col, row) THEN drawn("archive", layer.rasters[pg.tms.id].px)
                ELSE IF io = "fails" THEN Fails(500, "NoApplicableCode") ELSE tile("render")
          [] layer.kind = "cog" ->
                IF ~layer.styled THEN Fails(500, "NoApplicableCode")
                ELSE IF pg.bounds # <<>> /\ Disjoint(box, pg.bounds) THEN tile("blank")
                ELSE IF io = "fails" THEN Fails(500, "NoApplicableCode") ELSE tile("render")
          [] OTHER -> Fails(500, "NoApplicableCode")

\* TMS counts rows from the bottom.
RowFromTop(g, z, y) == y        \* mutant: the row is not turned over
tms_y_to_core_row(g, z, y) == level(g, z).matrix_h - 1 - y

render_tms_tile(layers, name, id, z, x, y, io) ==
    LET found == LayerNamed(layers, name)
        grid == IF found = <<>> THEN <<>> ELSE pick_grid(found[1], id)
    IN  IF grid = <<>> THEN Fails(404, NoCode)
        ELSE IF ~HasLevel(grid[1].tms, z) \/ ~InMatrix(grid[1].tms, z, x, y) THEN Fails(404, NoCode)
        ELSE Rendered(found[1], grid[1], z, x, tms_y_to_core_row(grid[1].tms, z, y), io)

---------------------------------------------------------------------------
\* WMTS key-value requests: of a repeated key the last counts, unlike in WMS.
MvtFormat == "application/vnd.mapbox-vector-tile"
FirstCounts(pairs) == parse_kvp(pairs)      \* mutant: the first of a repeated key counts
wmts_kvp(pairs) ==
    [k \in {p[1] : p \in ToSet(pairs)} |-> pairs[Max({i \in DOMAIN pairs : pairs[i][1] = k})][2]]

TileKeys == <<"layer", "tilematrixset", "tilematrix", "tilerow", "tilecol">>
PixelKeys == <<"i", "j">>
OwsError(code, locator) == [kind |-> "error", http |-> 400, code |-> code, locator |-> locator]

\* The first missing parameter in the order the code asks for them.
Missing(q, keys) == FirstOf(keys, {i \in DOMAIN keys : ~has(q, keys[i])})

\* A number that does not parse is a negative one here.
AllNumbers(q, keys) == \A k \in keys : q[k] >= 0

ParsedTile(q) ==
    [kind |-> "GetTile", layer |-> q["layer"],
     style |-> IF value(q, "style", "") = "" THEN "default" ELSE q["style"], tms |-> q["tilematrixset"],
     z |-> q["tilematrix"], row |-> q["tilerow"], col |-> q["tilecol"],
     format |-> value(q, "format", "image/png")]

wmts_parse_kvp(q) ==
    LET request == value(q, "request", "") IN
    IF value(q, "service", "wmts") # "wmts" THEN OwsError("InvalidParameterValue", "SERVICE")
    ELSE IF request = "getcapabilities" THEN [kind |-> "GetCapabilities"]
    ELSE IF request \notin {"gettile", "getfeatureinfo"} THEN OwsError("OperationNotSupported", "REQUEST")
    ELSE IF value(q, "format", "image/png") \notin {"image/png", MvtFormat}
         THEN OwsError("InvalidParameterValue", "FORMAT")
    ELSE IF Missing(q, TileKeys) # <<>> THEN OwsError("MissingParameterValue", Missing(q, TileKeys)[1])
    ELSE IF ~AllNumbers(q, {"tilematrix", "tilerow", "tilecol"})
         THEN OwsError("InvalidParameterValue", "TILEMATRIX")
    ELSE IF request = "gettile" THEN ParsedTile(q)
    ELSE IF Missing(q, PixelKeys) # <<>> THEN OwsError("MissingParameterValue", Missing(q, PixelKeys)[1])
    ELSE IF ~AllNumbers(q, ToSet(PixelKeys)) THEN OwsError("InvalidParameterValue", "I")
    ELSE With([ParsedTile(q) EXCEPT !.kind = "GetFeatureInfo"],
              [format |-> value(q, "infoformat", "text/plain"), i |-> q["i"], j |-> q["j"]])

wmts_get_tile(layers, t, io) ==
    LET found == LayerNamed(layers, t.layer)
        grid == IF found = <<>> THEN <<>> ELSE GridsFor(found[1], t.tms)
    IN  IF found = <<>> \/ t.style # "default" \/ grid = <<>> THEN Fails(400, "InvalidParameterValue")
        ELSE IF ~HasLevel(grid[1].tms, t.z) THEN Fails(400, "InvalidParameterValue")
        ELSE IF ~InMatrix(grid[1].tms, t.z, t.col, t.row) THEN Fails(400, "TileOutOfRange")
        ELSE Rendered(found[1], grid[1], t.z, t.col, t.row, io)

\* Grid and matrix first, then the pixel, then what the layer is made of.
wmts_get_feature_info(layers, t, io) ==
    LET found == LayerNamed(layers, t.layer)
        grid == IF found = <<>> THEN <<>> ELSE GridsFor(found[1], t.tms)
    IN  IF found = <<>> \/ t.style # "default" \/ grid = <<>> THEN Fails(404, NoCode)
        ELSE IF ~InMatrix(grid[1].tms, t.z, t.col, t.row) THEN Fails(404, NoCode)
        ELSE IF t.i >= grid[1].tms.tile_w \/ t.j >= grid[1].tms.tile_h THEN Fails(400, NoCode)
        ELSE IF found[1].kind # "cog" THEN Fails(400, NoCode)
        ELSE IF io = "fails" THEN Fails(500, NoCode)
        ELSE format_feature_info(t.format, "value")

---------------------------------------------------------------------------
\* Vector tiles: the layer's own grids first, then the presets at the encoder's 4096 units.
MvtExtent == 4096
resolve_grid(layer, id) ==
    IF GridsFor(layer, id) # <<>> THEN GridsFor(layer, id)[1].tms ELSE preset(id, MvtExtent)

\* The archive of a grid, by the id asked, the id published, or that without its size.
for_grid(holdings, asked, g) ==
    LET names == <<asked, g.id, strip_size_suffix(g.id)>>
        found == FirstOf(names, {i \in DOMAIN names : names[i] \in DOMAIN holdings})
    IN  IF found = <<>> THEN NoId ELSE found[1]

resolve_vector(layers, name) ==
    LET found == LayerNamed(layers, name)
    IN  IF found = <<>> THEN Fails(404, NoCode)
        ELSE IF found[1].kind # "vector" THEN Fails(400, NoCode) ELSE found[1]

mvt_tile(layers, name, id, z, x, y, io) ==
    LET layer == resolve_vector(layers, name)
        g == resolve_grid(layer, id)
    IN  IF layer.kind = "error" THEN layer
        ELSE IF g = NoGrid THEN Fails(404, NoCode)
        ELSE IF ~InMatrix(g, z, x, y) THEN Fails(404, NoCode)
        ELSE LET archive == for_grid(layer.archives, id, g)
                 stored == archive # NoId /\ <<z, x, y>> \in layer.archives[archive]
             IN  IF io = "fails" /\ ~stored THEN Fails(500, NoCode)
                 ELSE [kind |-> "mvt", layer |-> name, box |-> tile_bounds(g, z, x, y), px |-> g.tile_w,
                       from |-> IF stored THEN "archive" ELSE "encode", fields |-> layer.fields]

\* The WMTS address of a vector tile checks for itself before it asks the same renderer.
get_tile_mvt(layers, t, io) ==
    LET found == LayerNamed(layers, t.layer)
        g == resolve_grid(found[1], t.tms)
    IN  IF found = <<>> \/ t.style # "default" THEN Fails(400, "InvalidParameterValue")
        ELSE IF found[1].kind # "vector" THEN Fails(400, "OperationNotSupported")
        ELSE IF g = NoGrid \/ ~HasLevel(g, t.z) THEN Fails(400, "InvalidParameterValue")
        ELSE IF ~InMatrix(g, t.z, t.col, t.row) THEN Fails(400, "TileOutOfRange")
        ELSE LET tile == mvt_tile(layers, t.layer, t.tms, t.z, t.col, t.row, io)
             IN  IF tile.kind = "error" THEN Fails(tile.http, "NoApplicableCode") ELSE tile

---------------------------------------------------------------------------
\* What the services say of themselves.
tms_profile(g) ==
    CASE g.id[1] = "WebMercatorQuad" /\ g.tile_w = 256 -> "global-mercator"
      [] g.id[1] = "WorldCRS84Quad" /\ g.tile_w = 256 -> "global-geodetic"
      [] OTHER -> "local"

tilemapservice(layers) ==
    UNION {{[layer |-> l.name, grid |-> pg.tms.id, crs |-> pg.tms.crs, profile |-> tms_profile(pg.tms)] :
               pg \in ToSet(l.grids)} : l \in ToSet(layers)}

tilemap_doc(layers, name, id) ==
    LET found == LayerNamed(layers, name)
        grid == IF found = <<>> THEN <<>> ELSE pick_grid(found[1], id)
    IN  IF grid = <<>> THEN Fails(404, NoCode)
        ELSE [kind |-> "tilemap", grid |-> grid[1].tms.id, zooms |-> {k - 1 : k \in DOMAIN grid[1].tms.levels},
              origin |-> <<full_extent(grid[1].tms)[1], full_extent(grid[1].tms)[2]>>,
              bounds |-> IF grid[1].bounds = <<>> THEN full_extent(grid[1].tms) ELSE grid[1].bounds]

\* The corner in the axis order the CRS itself declares.
top_left_corner(g) ==
    IF crs_is_northing_first(g.crs) THEN <<g.origin[2], g.origin[1]>> ELSE g.origin

tile_matrix_set_link(pg) ==
    [tms |-> pg.tms.id,
     limits |-> IF pg.bounds = <<>> THEN <<>>
                ELSE [k \in DOMAIN pg.tms.levels |-> tile_limits(pg.tms, pg.bounds, k - 1)]]

\* A layer without grids has no place in the document; of two grids of one id the first is described.
wmts_capabilities(layers) ==
    LET shown == {l \in ToSet(layers) : l.grids # <<>>}
    IN  [kind |-> "wmts",
         layers |-> {[name |-> l.name, info |-> IF l.kind = "vector" THEN {} ELSE RasterFormats,
                      links |-> [k \in DOMAIN l.grids |-> tile_matrix_set_link(l.grids[k])]] : l \in shown},
         sets |-> {[id |-> pg.tms.id, corner |-> top_left_corner(pg.tms), crs |-> pg.tms.crs,
                    tile_w |-> pg.tms.tile_w, tile_h |-> pg.tms.tile_h, levels |-> pg.tms.levels] :
                      pg \in UNION {ToSet(l.grids) : l \in shown}}]

\* Some layer's grid of that name, or else the preset.
tile_matrix_set_doc(layers, id) ==
    LET owner == FirstOf(layers, {i \in DOMAIN layers : GridsFor(layers[i], id) # <<>>})
        g == IF owner # <<>> THEN GridsFor(owner[1], id)[1].tms ELSE preset(id, 256)
    IN  IF g = NoGrid THEN Fails(404, NoCode) ELSE to_ogc_value(g)

tilejson_doc(layers, name, id) ==
    LET layer == resolve_vector(layers, name)
        g == resolve_grid(layer, id)
    IN  IF layer.kind = "error" THEN layer
        ELSE IF g = NoGrid THEN Fails(404, NoCode)
        ELSE [kind |-> "tilejson", layer |-> name, tms |-> id, zooms |-> 0..(Len(g.levels) - 1),
              bounds |-> layer.bounds, fields |-> layer.fields]

---------------------------------------------------------------------------
\* MapLibre styles.  A style is a sequence of [source, reads]: the source layer it draws ("" for any)
\* and the attributes it reads with a plain get.
mvt_style_for_layer(style, name) == SelectSeq(style, LAMBDA s : s.source \in {"", name})

\* Of an SLD the equality rules on its first such field, as a map from value to colour.
sld_class_fill_layer(rules) ==
    LET filled == SelectSeq(rules, LAMBDA r : r.fill)
        equal == SelectSeq(filled, LAMBDA r : r.op = "eq")
        stops == SelectSeq(equal, LAMBDA r : r.field = equal[1].field)
    IN  IF stops = <<>> THEN <<>> ELSE <<[source |-> "", reads |-> {equal[1].field}]>>

XrayDefault == <<[source |-> "", reads |-> {}]>>

\* The operator's style for this layer, else the SLD's classes, else the generic one; every entry
\* draws the layer itself.
style_json(layers, name, id, style) ==
    LET layer == resolve_vector(layers, name)
        raw == IF style # <<>> THEN mvt_style_for_layer(style, name)
               ELSE IF sld_class_fill_layer(layer.rules) # <<>> THEN sld_class_fill_layer(layer.rules)
               ELSE XrayDefault
    IN  IF layer.kind = "error" THEN layer
        ELSE [kind |-> "style", tms |-> id, draws |-> [k \in DOMAIN raw |-> [raw[k] EXCEPT !.source = name]]]
=============================================================================
