-------------------------- MODULE TileMatrixSets --------------------------
(***************************************************************************)
(* Tile grids (tms.rs): the presets, a grid cut from a COG, a grid read    *)
(* from an OGC TileMatrixSet document, and the tile arithmetic shared by   *)
(* TMS, WMTS and the vector tiles.  Lengths are integers: the unit is such *)
(* that every cell size in use is whole.  A grid id is <<base, n>>: base_n *)
(* when n > 0, else base alone.                                            *)
(***************************************************************************)
EXTENDS Crs, SequencesExt

CONSTANTS
    Zooms,        \* levels of a preset (24 or 25 in the code)
    World         \* ground length of the presets' square, a multiple of 2^(Zooms-1) * 4096

Ceiling(a, b) == -((-a) \div b)

suffix_id(base, px) == <<base, IF px = 256 THEN 0 ELSE px>>
strip_size_suffix(id) == <<id[1], 0>>

Level(res, w, h) == [resolution |-> res, matrix_w |-> w, matrix_h |-> h]

build_quad(base, crs, x, y, px, wide) ==
    [id |-> suffix_id(base, px), crs |-> crs, origin |-> <<x, y>>, tile_w |-> px, tile_h |-> px,
     levels |-> [k \in 1..Zooms |->
                    Level(World \div (px * 2^(k - 1)), (IF wide THEN 2^k ELSE 2^(k - 1)), 2^(k - 1))]]

\* A suffix that is a number sets the tile size, the caller's default otherwise.
PresetNames == {"WebMercatorQuad", "WorldCRS84Quad", "UPSArcticWGS84Quad", "UPSAntarcticWGS84Quad"}
NoGrid == [id |-> <<>>]
preset(id, default) ==
    LET px == IF id[2] > 0 THEN id[2] ELSE default IN
    CASE id[1] = "WebMercatorQuad" ->
            build_quad("WebMercatorQuad", "EPSG:3857", -(World \div 2), World \div 2, px, FALSE)
      [] id[1] = "WorldCRS84Quad" ->
            build_quad("WorldCRS84Quad", "EPSG:4326", -World, World \div 2, px, TRUE)
      [] id[1] = "UPSArcticWGS84Quad" ->
            build_quad("UPSArcticWGS84Quad", "EPSG:5041", -(World \div 4), World \div 2, px, FALSE)
      [] id[1] = "UPSAntarcticWGS84Quad" ->
            build_quad("UPSAntarcticWGS84Quad", "EPSG:5042", -(World \div 4), World \div 2, px, FALSE)
      [] OTHER -> NoGrid

\* The overviews of a COG, coarsest first; the finest level has cells as wide as the COG's, and
\* square: of a COG whose cells are not, the rows are counted over its extent.
from_cog(cog, crs, px) ==
    LET n == Max({cog.overviews, 1})
        res0 == cog.cell * 2^(n - 1)
        count(extent) == Max({Ceiling(extent, px * res0), 1})
    IN  [id |-> <<"from_cog", 0>>, crs |-> crs, origin |-> cog.origin, tile_w |-> px, tile_h |-> px,
         levels |-> [k \in 1..n |-> Level(cog.cell * 2^(n - k), count(cog.width * cog.cell) * 2^(k - 1),
                                          count(cog.height * cog.cell_h) * 2^(k - 1))]]

bounds_in_grid_crs(cog, src, crs) ==
    crs_bounds(src, crs, <<cog.origin[1], cog.origin[2] - cog.height * cog.cell_h,
                           cog.origin[1] + cog.width * cog.cell, cog.origin[2]>>)

---------------------------------------------------------------------------
HasLevel(g, z) == z + 1 \in DOMAIN g.levels
level(g, z) == g.levels[z + 1]
InMatrix(g, z, col, row) ==
    HasLevel(g, z) /\ col \in 0..(level(g, z).matrix_w - 1) /\ row \in 0..(level(g, z).matrix_h - 1)

SpanX(g, z) == g.tile_w * level(g, z).resolution
SpanY(g, z) == g.tile_h * level(g, z).resolution

\* Of a tile in the matrix: rows run south from the top left corner.
tile_bounds(g, z, col, row) ==
    LET x == g.origin[1] + col * SpanX(g, z)
        y == g.origin[2] - row * SpanY(g, z)
    IN  <<x, y - SpanY(g, z), x + SpanX(g, z), y>>

Extent(g, z) == <<level(g, z).matrix_w * SpanX(g, z), level(g, z).matrix_h * SpanY(g, z)>>
is_level_invariant(g) == \A k \in DOMAIN g.levels : Extent(g, k - 1) = Extent(g, 0)
full_extent(g) == <<g.origin[1], g.origin[2] - Extent(g, 0)[2], g.origin[1] + Extent(g, 0)[1], g.origin[2]>>

\* <<first column, last column, first row, last row>>, or <<>> for data beside the matrix.
tile_limits(g, b, z) ==
    LET cols == <<Max({(b[1] - g.origin[1]) \div SpanX(g, z), 0}),
                  Min({Ceiling(b[3] - g.origin[1], SpanX(g, z)), level(g, z).matrix_w}) - 1>>
        rows == <<Max({(g.origin[2] - b[4]) \div SpanY(g, z), 0}),
                  Min({Ceiling(g.origin[2] - b[2], SpanY(g, z)), level(g, z).matrix_h}) - 1>>
    IN  IF cols[2] < cols[1] \/ rows[2] < rows[1] THEN <<>> ELSE cols \o rows

\* What the rendering of a COG tile starts with: nothing is read for a tile beside the data.
\* mutant: a tile that only touches the data is read
Apart(t, b) == t[1] > b[3] \/ t[3] < b[1] \/ t[2] > b[4] \/ t[4] < b[2]
Disjoint(t, b) == t[1] >= b[3] \/ t[3] <= b[1] \/ t[2] >= b[4] \/ t[4] <= b[2]

---------------------------------------------------------------------------
\* Documents.  A declared axis order wins over what the CRS says of itself; absent, the CRS decides.
origin_is_northing_first(axes, crs) ==
    IF axes # <<>> THEN axes[1] \in {"y", "n", "lat", "north", "northing", "latitude"}
    ELSE crs_is_northing_first(crs)

normalize_crs(uri) == IF uri = "OGC:CRS84" THEN "CRS:84" ELSE uri

\* A matrix without a size is the document's error; sizes of zero become one.
from_ogc_json(doc) ==
    LET crs == normalize_crs(doc.crs)
        raw == doc.matrices[1].corner
    IN  IF doc.matrices = <<>> \/ \E m \in ToSet(doc.matrices) : m.cell = 0 THEN NoGrid
        ELSE [id |-> doc.id, crs |-> crs,
              origin |-> IF origin_is_northing_first(doc.axes, crs) THEN <<raw[2], raw[1]>> ELSE raw,
              tile_w |-> doc.matrices[1].tile_w, tile_h |-> doc.matrices[1].tile_h,
              levels |-> [k \in DOMAIN doc.matrices |->
                            Level(doc.matrices[k].cell, Max({doc.matrices[k].w, 1}), Max({doc.matrices[k].h, 1}))]]

to_ogc_value(g) ==
    [kind |-> "grid", id |-> g.id, crs |-> g.crs, axes |-> <<"x", "y">>,
     matrices |-> [k \in DOMAIN g.levels |->
        [cell |-> g.levels[k].resolution, corner |-> g.origin, tile_w |-> g.tile_w, tile_h |-> g.tile_h,
         w |-> g.levels[k].matrix_w, h |-> g.levels[k].matrix_h]]]

\* Each level bounds the extent from below; the middle one of these bounds is believed, and a level
\* that cannot cover it is reported with the count it needs.
Believed(g, count(_)) ==
    LET bound(l) == (count(l) - 1) * l.resolution
        sorted == SortSeq([k \in DOMAIN g.levels |-> bound(g.levels[k])], LAMBDA a, b : a < b)
    IN  sorted[Len(sorted) \div 2 + 1]

Short(g, count(_)) ==
    IF Len(g.levels) < 3 THEN {}
    ELSE {[z |-> k - 1, needed |-> Max({1, Ceiling(Believed(g, count), g.levels[k].resolution)})] :
             k \in {j \in DOMAIN g.levels : count(g.levels[j]) * g.levels[j].resolution < Believed(g, count)}}

undersized_levels(g) == [width |-> Short(g, LAMBDA l : l.matrix_w), height |-> Short(g, LAMBDA l : l.matrix_h)]

\* Over all layers: one id, one geometry.
conflicting_grid_ids(grids) == \E g, h \in grids : g.id = h.id /\ g # h
=============================================================================
