------------------------------ MODULE MvtTiles ------------------------------
(***************************************************************************)
(* Vector tiles: the settings of a layer (mvt/opts.rs), what is read for a *)
(* tile, what of it is kept and how the tile is assembled (mvt/tile.rs).   *)
(*                                                                         *)
(* One grid, in units of its CRS: a square world, row 0 at the top, zoom z *)
(* a square of 2^z tiles each way.  Another CRS stands for a projection    *)
(* that stretches the north.  A number that may be a fraction is           *)
(* <<numerator, positive denominator>>; Nothing is an error or an empty    *)
(* tile.                                                                   *)
(***************************************************************************)
EXTENDS MvtCoverage, GeoPackage

CONSTANTS
    World,           \* side of the world, in the units of GridCrs
    GridCrs,
    DisplayPx,       \* pixels of a tile: tile_w, DISPLAY_TILE_PX
    MaxShift,        \* MAX_FINE_EXTENT_SHIFT
    CellFidBase,     \* CELL_FID_BASE
    QueryCap,        \* the per-query cap of a windowed source
    ClassOrder       \* every class value, in the order of its dedup key

---------------------------------------------------------------------------
\* Fractions.

RECURSIVE Gcd(_, _)
Gcd(a, b) == IF b = 0 THEN a ELSE Gcd(b, a % b)
Over(n, d, g) == <<n \div g, d \div g>>
Ratio(n, d) == Over(n, d, IF n = 0 THEN d ELSE Gcd(n, d))
Times(f, g) == Ratio(f[1] * g[1], f[2] * g[2])
Zero == <<0, 1>>
Positive(f) == f[1] > 0

---------------------------------------------------------------------------
\* Projection (external) and the grid.

Northing(y) == IF y <= World \div 4 THEN 2 * y ELSE (World \div 2) + 4 * (y - World \div 4)
Southing(n) == IF n <= World \div 2 THEN n \div 2 ELSE (World \div 4) + ((n - World \div 2) \div 4)
InDomain(crs, p) == crs = GridCrs \/ p[1] <= World \div 2
to_grid(crs, p) == IF crs = GridCrs THEN p ELSE <<2 * p[1], Northing(p[2])>>
from_grid(crs, p) == IF crs = GridCrs THEN p ELSE <<p[1] \div 2, Southing(p[2])>>
BoxTo(crs, b) == to_grid(crs, <<b[1], b[2]>>) \o to_grid(crs, <<b[3], b[4]>>)
BoxFrom(crs, b) == from_grid(crs, <<b[1], b[2]>>) \o from_grid(crs, <<b[3], b[4]>>)

Span(z) == World \div 2^z
tile_bounds(a) ==
    IF a[2] \in 0 .. 2^a[1] - 1 /\ a[3] \in 0 .. 2^a[1] - 1
    THEN Found(<<a[2] * Span(a[1]), World - (a[3] + 1) * Span(a[1]), (a[2] + 1) * Span(a[1]), World - a[3] * Span(a[1])>>)
    ELSE Nothing

\* Grown by a sixteenth of its sides; boxes of features are whole, so the
\* fraction that is left over is rounded off.
Sixteenth(n) == n \div 16
Grown(b) == <<b[1] - Sixteenth(b[3] - b[1]), b[2] - Sixteenth(b[4] - b[2]),
              b[3] + Sixteenth(b[3] - b[1]), b[4] + Sixteenth(b[4] - b[2])>>
source_filter_bbox(crs, b) == Grown(BoxFrom(crs, b))

---------------------------------------------------------------------------
\* Settings.

\* A step is [zoom, value], each Nothing if it does not parse; a bare number
\* has no zoom.
Misread(spec) == \E i \in DOMAIN spec : spec[i].value = Nothing \/ spec[i].value[1][1] < 0
Ambiguous(spec) == \E i, j \in DOMAIN spec : spec[i].zoom = Nothing \/ (i # j /\ spec[i].zoom = spec[j].zoom)
Steps(spec) == SortSeq([i \in DOMAIN spec |-> <<spec[i].zoom[1], spec[i].value[1]>>], LAMBDA a, b : a[1] < b[1])
parse_len_px_spec(spec) ==
    CASE spec = <<>> -> Found(<<>>)
      [] Misread(spec) -> Nothing
      [] Len(spec) = 1 /\ spec[1].zoom = Nothing /\ ~Misread(spec) -> Found(<<<<0, spec[1].value[1]>>>>)
      [] OTHER -> IF Ambiguous(spec) THEN Nothing ELSE Found(Steps(spec))

Powers == {2^k : k \in 0 .. 8}
ClampPx(n) == IF n > DisplayPx THEN DisplayPx ELSE n
\* The nearest power of two, in logarithms.
NearestPower(px) == CHOOSE p \in Powers : p * p <= 2 * px * px /\ px * px < 2 * p * p
cell_units(cell_px) == IF cell_px <= 0 THEN 0 ELSE (EXTENT \div DisplayPx) * ClampPx(NearestPower(cell_px))
resolve_cell_field(requested, fields) == IF requested # Nothing /\ requested[1] \in fields THEN requested ELSE Nothing
validate_cell_flags(s) == s.cell_px > 0 => s.cell_field # Nothing

\* Dissolve wins over the mosaic.
resolve(s, steps, fields, area_scale) ==
    LET dissolve == resolve_cell_field(s.dissolve_field, fields)
    IN  [max_features |-> IF s.no_safety_limit THEN 0 ELSE s.max_features,
         dedup |-> ~s.no_optimizations,
         min_feature_px |-> s.min_feature_px, min_feature_min_zoom |-> s.min_feature_min_zoom,
         min_feature_len_px |-> steps, area_scale |-> area_scale,
         cell_units |-> IF dissolve # Nothing THEN 0 ELSE cell_units(s.cell_px),
         cell_field |-> IF dissolve # Nothing THEN Nothing ELSE resolve_cell_field(s.cell_field, fields),
         cell_max_zoom |-> s.cell_max_zoom,
         dissolve_field |-> dissolve, dissolve_max_zoom |-> s.dissolve_max_zoom,
         fine_extent_zoom |-> s.fine_extent_zoom]

min_feature_px_at(opts, z) == IF z >= opts.min_feature_min_zoom THEN opts.min_feature_px ELSE Zero
LastStep(steps) == IF steps = <<>> THEN Zero ELSE Last(steps)[2]
min_feature_len_px_at(opts, z) == LastStep(SelectSeq(opts.min_feature_len_px, LAMBDA s : s[1] <= z))
extent_at(opts, z) ==
    IF opts.fine_extent_zoom > z THEN EXTENT * 2^Fewer(opts.fine_extent_zoom - z, MaxShift) ELSE EXTENT
UpTo(max_zoom, z) == max_zoom = 0 \/ z <= max_zoom
is_mosaic_active(opts, z) == opts.cell_units > 0 /\ opts.cell_field # Nothing /\ UpTo(opts.cell_max_zoom, z)
is_dissolve_active(opts, z) == opts.dissolve_field # Nothing /\ UpTo(opts.dissolve_max_zoom, z)
Replaced(opts, z) == is_mosaic_active(opts, z) \/ is_dissolve_active(opts, z)

---------------------------------------------------------------------------
\* The size gate.  Thresholds of length are compared squared.

BoxArea(b) == Size((b[3] - b[1]) * (b[4] - b[2]))
layer_area_scale(crs, extent) ==
    IF BoxArea(extent) = 0 \/ BoxArea(BoxTo(crs, extent)) = 0 THEN Zero
    ELSE Ratio(BoxArea(BoxTo(crs, extent)), BoxArea(extent))

\* Source units a pixel of a tile of tile_w pixels covers; Nothing if unknown.
PixelArea(z, tile_w, crs, area_scale) ==
    IF crs = GridCrs THEN Found(Ratio(Span(z)^2, tile_w^2))
    ELSE IF Positive(area_scale)
         THEN Found(Times(Ratio(Span(z)^2, tile_w^2), <<area_scale[2], area_scale[1]>>))
         ELSE Nothing
AtLeast(f, floor) == IF Positive(f) /\ Below(floor, f) THEN f ELSE floor
\* At least the pixels asked for, and always one cell of the tile's grid.
ThresholdOf(pixel, pixels, tile_w, extent) ==
    IF pixel = Nothing THEN Zero
    ELSE AtLeast(Times(pixels, pixel[1]), Times(pixel[1], Ratio(tile_w^2, extent^2)))
min_area_src_for_grid_extent(z, tile_w, crs, area_scale, min_feature_px, extent) ==
    ThresholdOf(PixelArea(z, tile_w, crs, area_scale), min_feature_px, tile_w, extent)
min_len_src_for_grid_extent(z, tile_w, crs, area_scale, len_px, extent) ==
    ThresholdOf(PixelArea(z, tile_w, crs, area_scale), Times(len_px, len_px), tile_w, extent)

BelowSize(f, min_area) == Positive(min_area) /\ f.area > 0 /\ f.area * min_area[2] < 2 * min_area[1]
passes_size_gate(f, min_area, min_len) ==
    /\ ~BelowSize(f, min_area)
    /\ ~(Positive(min_len) /\ f.length > 0 /\ f.length^2 * min_len[2] < min_len[1])
MinArea(l, opts, tile_w, z, extent) ==
    min_area_src_for_grid_extent(z, tile_w, l.crs, opts.area_scale, min_feature_px_at(opts, z), extent)
MinLen(l, opts, tile_w, z, extent) ==
    min_len_src_for_grid_extent(z, tile_w, l.crs, opts.area_scale, min_feature_len_px_at(opts, z), extent)

---------------------------------------------------------------------------
\* What is read for a tile: the possible answers of the source.

\* LIMIT returns any of the rows that match, up to the cap.
Capped(features) == {SelectSeq(features, LAMBDA f : f \in kept) : kept \in Limited(ToSet(features), QueryCap)}
features_in_gated(l, window, min_area) ==
    CASE l.kind = "held" -> {l.features}
      [] l.kind = "postgis" ->
            Capped(SelectSeq(l.features, LAMBDA f : bbox_intersects(f.bbox, window) /\ ~BelowSize(f, min_area)))
      [] l.kind = "subset" -> query_windowed(l.package, l.src, window, QueryCap)

\* The floor of one cell is not pushed down to the source.
Pushed(l, opts, z) ==
    IF Replaced(opts, z) \/ ~Positive(min_feature_px_at(opts, z)) THEN Zero ELSE MinArea(l, opts, DisplayPx, z, EXTENT)
ReadIn(l, opts, z, bounds) ==
    IF bounds = Nothing THEN {<<>>}
    ELSE features_in_gated(l, source_filter_bbox(l.crs, bounds[1]), Pushed(l, opts, z))
features_for_tile(l, opts, a) == ReadIn(l, opts, a[1], tile_bounds(a))

---------------------------------------------------------------------------
\* One feature's geometry, projected to the tile's grid, clipped, rounded
\* and encoded.  A view is a tile's bounds, its extent and the rectangle it
\* is clipped to.

ViewOf(l, bounds, extent, dedup) ==
    [crs |-> l.crs, west |-> bounds[1], north |-> bounds[4], side |-> bounds[3] - bounds[1], extent |-> extent,
     dedup |-> dedup,
     rect |-> <<-(extent \div 16) * Sub, -(extent \div 16) * Sub,
                (extent + (extent \div 16)) * Sub, (extent + (extent \div 16)) * Sub>>]
OnGrid(view, g) ==
    <<((g[1] - view.west) * view.extent * Sub) \div view.side, ((view.north - g[2]) * view.extent * Sub) \div view.side>>
to_pixel(view, p) == OnGrid(view, to_grid(view.crs, p))
RingFits(view, ring) == \A i \in DOMAIN ring : InDomain(view.crs, ring[i])
project_ring(view, ring) == [i \in DOMAIN ring |-> to_pixel(view, ring[i])]
project_rings(view, rings) == [i \in DOMAIN rings |-> project_ring(view, rings[i])]
RingsFit(view, rings) == \A i \in DOMAIN rings : RingFits(view, rings[i])

InRect(p, r) == r[1] <= p[1] /\ p[1] <= r[3] /\ r[2] <= p[2] /\ p[2] <= r[4]
PointIn(view, p) == IF InRect(p, view.rect) THEN encode_points(<<to_i32(p)>>) ELSE <<>>
\* A part that cannot be projected is left out, not the whole feature.
PiecesOf(view, part) == IF RingFits(view, part) THEN clip_line(project_ring(view, part), view.rect) ELSE <<>>
LinesIn(view, parts) ==
    encode_line(GridRings(FlattenSeq([i \in DOMAIN parts |-> PiecesOf(view, parts[i])]), view.dedup))
PolygonIn(view, rings) ==
    IF RingsFit(view, rings) THEN GridRings(clip_polygon(project_rings(view, rings), view.rect), view.dedup) ELSE <<>>
PolygonsIn(view, polys) ==
    SelectSeq([i \in DOMAIN polys |-> PolygonIn(view, polys[i])], LAMBDA rings : rings # <<>>)
GeomType(type) ==
    CASE type = "Point" -> GEOM_POINT
      [] type \in {"LineString", "MultiLineString"} -> GEOM_LINE
      [] type \in {"Polygon", "MultiPolygon"} -> GEOM_POLYGON
CommandsOf(view, g) ==
    CASE g.type = "Point" ->
            IF InDomain(view.crs, g.polys[1][1][1]) THEN PointIn(view, to_pixel(view, g.polys[1][1][1])) ELSE <<>>
      [] g.type \in {"LineString", "MultiLineString"} -> LinesIn(view, g.polys[1])
      [] g.type = "Polygon" -> encode_polygon(PolygonIn(view, g.polys[1]))
      [] g.type = "MultiPolygon" -> encode_multipolygon(PolygonsIn(view, g.polys))
\* Nothing is left of a feature without commands.
encode_feature_geometry(view, g) ==
    LET commands == CommandsOf(view, g) IN IF commands = <<>> THEN Nothing ELSE Found([type |-> GeomType(g.type), commands |-> commands])

---------------------------------------------------------------------------
\* The tile being assembled.  Keys and values are pooled; tags are pairs of
\* indices into the pools, from 0.

EmptyTile(extent) == [extent |-> extent, keys |-> <<>>, values |-> <<>>, features |-> <<>>]
Pooled(pool, v) == IF Contains(pool, v) THEN pool ELSE Append(pool, v)
IndexIn(pool, v) == (CHOOSE i \in DOMAIN pool : pool[i] = v) - 1
\* Adds a tag to the feature being built, the last of the tile.
intern(tile, key, value) ==
    LET keys == Pooled(tile.keys, key)
        values == Pooled(tile.values, value)
    IN  [tile EXCEPT !.keys = keys, !.values = values,
                     !.features = Append(Front(@), [Last(@) EXCEPT !.tags = Append(@, <<IndexIn(keys, key), IndexIn(values, value)>>)])]
Begun(tile, fid, encoded) ==
    [tile EXCEPT !.features = Append(@, [fid |-> fid, tags |-> <<>>, type |-> encoded.type, commands |-> encoded.commands])]
Tagged(tile, props) ==
    FoldLeft(LAMBDA t, k : intern(t, k, props[k]), tile, SetToSeq({k \in DOMAIN props : props[k][1] # "null"}))
AddFeature(tile, f, encoded) ==
    IF encoded = Nothing THEN tile ELSE Tagged(Begun(tile, f.fid, encoded[1]), f.props)

IsPolygon(f) == f.geom.type \in {"Polygon", "MultiPolygon"}
HasClass(f, field) == field \in DOMAIN f.props /\ f.props[field][1] # "null"

\* Spread evenly over the candidates, never the first ones: position k is
\* taken once it reaches the next multiple of n / budget.
sampled_positions(n, budget) ==
    IF n <= budget THEN [k \in 1 .. n |-> k]
    ELSE FoldLeft(LAMBDA taken, k : IF (k - 1) * budget >= Len(taken) * n THEN Append(taken, k) ELSE taken,
                  <<>>, [k \in 1 .. n |-> k])
SampleOf(survivors, max_features) ==
    IF max_features = 0 THEN survivors
    ELSE LET at == sampled_positions(Len(survivors), max_features) IN [i \in DOMAIN at |-> survivors[at[i]]]
\* class_filter: the polygons that have a class were replaced.
Survivors(candidates, class_filter) ==
    IF class_filter = Nothing THEN candidates
    ELSE SelectSeq(candidates, LAMBDA f : ~(IsPolygon(f) /\ HasClass(f, class_filter[1])))
encode_survivors(tile, candidates, class_filter, max_features, view) ==
    FoldLeft(LAMBDA t, f : AddFeature(t, f, encode_feature_geometry(view, f.geom)),
             tile, SampleOf(Survivors(candidates, class_filter), max_features))

\* The polygons that are replaced, with what of them can be projected: all of
\* a polygon, or none of it.
Projected(view, polys) ==
    LET whole == SelectSeq(polys, LAMBDA rings : RingsFit(view, rings))
    IN  [i \in DOMAIN whole |-> project_rings(view, whole[i])]
Classed(candidates, field, view) ==
    LET classed == SelectSeq(candidates, LAMBDA f : IsPolygon(f) /\ HasClass(f, field))
    IN  [i \in DOMAIN classed |-> [class |-> classed[i].props[field], polys |-> Projected(view, classed[i].geom.polys)]]

AddRect(tile, field, rects, i) ==
    intern(Begun(tile, CellFidBase + i - 1,
                 [type |-> GEOM_POLYGON,
                  commands |-> encode_polygon(<<<<<<rects[i].x0, rects[i].y0>>, <<rects[i].x1, rects[i].y0>>,
                                                  <<rects[i].x1, rects[i].y1>>, <<rects[i].x0, rects[i].y1>>>>>>)]),
           field, rects[i].class)
WithRects(tile, field, rects) ==
    FoldLeft(LAMBDA t, i : AddRect(t, field, rects, i), tile, [i \in DOMAIN rects |-> i])

ClippedGroups(groups, rect) ==
    SelectSeq([i \in DOMAIN groups |->
                  GridRings(clip_polygon([k \in DOMAIN groups[i] |-> Scaled(groups[i][k], Sub)], rect), TRUE)],
              LAMBDA rings : rings # <<>>)
AddMerged(tile, field, merged, commands, i) ==
    IF commands = <<>> THEN tile
    ELSE intern(Begun(tile, CellFidBase + i - 1, [type |-> GEOM_POLYGON, commands |-> commands]), field, merged.class)
WithMerged(tile, field, merged, rect) ==
    FoldLeft(LAMBDA t, i : AddMerged(t, field, merged[i], encode_multipolygon(ClippedGroups(merged[i].groups, rect)), i),
             tile, [i \in DOMAIN merged |-> i])

---------------------------------------------------------------------------
\* A whole tile, of the features read for it.

Candidates(features, filter, gated, min_area, min_len) ==
    SelectSeq(features, LAMBDA f : (gated => passes_size_gate(f, min_area, min_len)) /\ bbox_intersects(f.bbox, filter))
Assembled(opts, z, candidates, view) ==
    CASE is_mosaic_active(opts, z) ->
            encode_survivors(WithRects(EmptyTile(view.extent), opts.cell_field[1],
                                       mosaic_rects(Classed(candidates, opts.cell_field[1], view), opts.cell_units)),
                             candidates, opts.cell_field, opts.max_features, view)
      [] is_dissolve_active(opts, z) /\ ~is_mosaic_active(opts, z) ->
            encode_survivors(WithMerged(EmptyTile(view.extent), opts.dissolve_field[1],
                                        dissolve_features(Classed(candidates, opts.dissolve_field[1], view), ClassOrder),
                                        view.rect),
                             candidates, opts.dissolve_field, opts.max_features, view)
      [] OTHER -> encode_survivors(EmptyTile(view.extent), candidates, Nothing, opts.max_features, view)
OrEmpty(tile) == IF tile.features = <<>> THEN Nothing ELSE Found(tile)
TileExtent(opts, z) == IF Replaced(opts, z) THEN EXTENT ELSE extent_at(opts, z)
EncodeIn(l, opts, z, bounds, extent, features) ==
    OrEmpty(Assembled(opts, z,
        Candidates(features, source_filter_bbox(l.crs, bounds), ~Replaced(opts, z),
                   MinArea(l, opts, DisplayPx, z, extent), MinLen(l, opts, DisplayPx, z, extent)),
        ViewOf(l, bounds, extent, opts.dedup)))
encode_tile_opt(l, opts, a, features) ==
    IF tile_bounds(a) = Nothing THEN Nothing
    ELSE EncodeIn(l, opts, a[1], tile_bounds(a)[1], TileExtent(opts, a[1]), features)
=============================================================================
