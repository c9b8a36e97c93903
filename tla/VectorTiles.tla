---------------------------- MODULE VectorTiles ----------------------------
(***************************************************************************)
(* A vector layer and the tiles served of it, and the subsets cut from it  *)
(* for a band of zooms (cmd/extract.rs): a GeoPackage that a server then   *)
(* opens in place of the source, and from which a further subset can be    *)
(* cut.                                                                    *)
(***************************************************************************)
EXTENDS MvtTiles

CONSTANTS
    Coverages,   \* layers, and the settings they are served with
    Addresses,   \* the tiles asked for: <<z, x, y>>
    Cuts,        \* the subsets asked for
    MaxChain     \* bound: subsets of subsets

VARIABLES
    coverage,    \* the layer and its settings
    opened,      \* what the server reads: Nothing if its settings were refused
    told,        \* the last extract: <<>>, or Found([cut, package])
    served       \* the last tile: Nothing, or Found([at, read, tile])

tileVars == <<coverage, opened, told, served>>

---------------------------------------------------------------------------
\* Opening a layer.

TypeName(v) == IF v[1] = "str" THEN "String" ELSE "Number"
WithFields(fields, f) ==
    [n \in DOMAIN fields \cup {k \in DOMAIN f.props : f.props[k][1] # "null"} |->
        IF n \in DOMAIN fields THEN fields[n] ELSE TypeName(f.props[n])]
\* The first value of a field decides its type.
feature_field_schema(features) == FoldLeft(WithFields, <<>>, features)
LayerOf(c) ==
    [kind |-> c.kind, crs |-> c.crs, features |-> c.features, extent |-> c.extent,
     fields |-> feature_field_schema(c.features), cuts |-> <<>>]
\* A subset remembers the cuts it comes from, for the properties only.
SubsetLayer(package, src, cuts) ==
    [kind |-> "subset", crs |-> src.crs[1], package |-> package, src |-> src, extent |-> src.extent,
     fields |-> src.field_schema, cuts |-> cuts]

OptsFor(s, steps, l) == resolve(s, steps, DOMAIN l.fields, layer_area_scale(l.crs, l.extent))
Serving(s, steps, l) == [layer |-> l, opts |-> OptsFor(s, steps, l)]
\* serve refuses to start on flags it cannot read.
ServeWith(s, l) ==
    IF parse_len_px_spec(s.len_spec) = Nothing \/ ~validate_cell_flags(s) THEN Nothing
    ELSE Found(Serving(s, parse_len_px_spec(s.len_spec)[1], l))

TilesInit ==
    /\ coverage \in Coverages
    /\ opened = ServeWith(coverage.settings, LayerOf(coverage))
    /\ told = <<>>
    /\ served = Nothing

---------------------------------------------------------------------------
\* Tiles.

Tile(s, a, features) == encode_tile_opt(s.layer, s.opts, a, features)
\* A tile is looked at before anything else is asked for.
ServeTile ==
    /\ opened # Nothing /\ served = Nothing
    /\ \E a \in Addresses : \E features \in features_for_tile(opened[1].layer, opened[1].opts, a) :
         served' = Found([at |-> a, read |-> Len(features), tile |-> Tile(opened[1], a, features)])
    /\ UNCHANGED <<coverage, opened, told>>

---------------------------------------------------------------------------
\* Subsets.

\* The extract's own settings: the gate, and nothing that replaces polygons.
GateOnly(s) == [s EXCEPT !.cell_px = 0, !.cell_field = Nothing, !.dissolve_field = Nothing]
resolve_grid == EXTENT    \* a preset's tiles are EXTENT pixels wide
\* Mutant: the strictest threshold of the band.
Strictest(fs) == FoldLeft(Later, fs[1], Tail(fs))
Loosest(fs) == FoldLeft(Sooner, fs[1], Tail(fs))
Band(cut) == [i \in 1 .. cut.max_zoom - cut.min_zoom + 1 |-> cut.min_zoom + i - 1]
BandArea(s, cut) ==
    Loosest([i \in DOMAIN Band(cut) |-> MinArea(s.layer, s.opts, resolve_grid, Band(cut)[i], extent_at(s.opts, Band(cut)[i]))])
BandLen(s, cut) ==
    Loosest([i \in DOMAIN Band(cut) |-> MinLen(s.layer, s.opts, resolve_grid, Band(cut)[i], extent_at(s.opts, Band(cut)[i]))])

requested_columns(cut, fields) ==
    IF cut.no_columns THEN {} ELSE IF cut.columns = Nothing THEN DOMAIN fields ELSE DOMAIN fields \cap cut.columns[1]
ColumnsKept(cut, fields) ==
    requested_columns(cut, fields) \cap (IF cut.keep_fields = Nothing THEN DOMAIN fields ELSE cut.keep_fields[1])
KeptFields(cut, fields) == [n \in ColumnsKept(cut, fields) |-> fields[n]]

Valid(cut) == ~(cut.no_columns /\ cut.columns # Nothing) /\ cut.min_zoom <= cut.max_zoom /\ cut.max_zoom <= 26
WindowOf(l, cut) == IF cut.extent = Nothing THEN l.extent ELSE cut.extent[1]
candidate_caps == {QueryCap}
AddKept(w, f) == IF w = Nothing THEN w ELSE add(w[1], f)
Closed(w) == IF w = Nothing THEN Nothing ELSE Found(finish(w[1]))
WriteSubset(l, cut, keep) ==
    Closed(FoldLeft(AddKept, Found(create(cut.name, Found(l.crs), KeptFields(cut, l.fields), Found(l.extent),
                                          Found(<<cut.min_zoom, cut.max_zoom>>))), keep))
\* Nothing is an error: the subset would be short, or empty.
Subset(l, cut, read, keep) ==
    IF read \in candidate_caps \/ keep = <<>> THEN Nothing ELSE WriteSubset(l, cut, keep)
Selected(read, min_area, min_len) == SelectSeq(read, LAMBDA f : passes_size_gate(f, min_area, min_len))
run_extract(s, cut, min_area, min_len) ==
    {Subset(s.layer, cut, Len(read), Selected(read, min_area, min_len)) :
        read \in features_in_gated(s.layer, WindowOf(s.layer, cut), min_area)}

ExtractWith(s, cut) == run_extract(s, cut, BandArea(s, cut), BandLen(s, cut))
Extract ==
    /\ opened # Nothing /\ told = <<>>
    /\ Len(opened[1].layer.cuts) < MaxChain
    /\ \E cut \in Cuts :
         \/ ~Valid(cut) /\ told' = Found([cut |-> cut, package |-> Nothing])
         \/ /\ Valid(cut)
            /\ \E package \in ExtractWith(ServeWith(GateOnly(coverage.settings), opened[1].layer)[1], cut) :
                 told' = Found([cut |-> cut, package |-> package])
    /\ served' = Nothing
    /\ UNCHANGED <<coverage, opened>>

\* The subset takes the source's place.
Restart ==
    /\ told # <<>>
    /\ IF told[1].package = Nothing THEN opened' = opened
       ELSE \E src \in {open_windowed(told[1].package[1], Nothing)} :
              opened' = IF src = Nothing THEN Nothing
                        ELSE ServeWith(coverage.settings, SubsetLayer(told[1].package[1], src[1],
                                                                      Append(opened[1].layer.cuts, told[1].cut)))
    /\ told' = <<>> /\ served' = Nothing
    /\ UNCHANGED coverage

TilesNext == ServeTile \/ Extract \/ Restart
TilesSpec == TilesInit /\ [][TilesNext]_tileVars

---------------------------------------------------------------------------
\* What a client draws of a tile, in the part of it that is shown: the unit
\* squares of a polygon, the unit segments of a line, points.

MiddleOf(sq) == <<2 * sq[1] + 1, 2 * sq[2] + 1>>
OddInside(rings, c) ==
    Cardinality({<<r, i>> \in (DOMAIN rings) \X (1 .. Max({Len(rings[r]) : r \in DOMAIN rings})) :
        i <= Len(rings[r]) /\ Crossed(c[2], rings[r][i], Next(rings[r], i)) /\ c[1] < XAt(c[2], rings[r][i], Next(rings[r], i))}) % 2 = 1
ShownRange(lo, hi, extent) == ClampZero(lo) .. Fewer(hi, extent) - 1
SquaresIn(b, extent) == ShownRange(b[1], b[3], extent) \X ShownRange(b[2], b[4], extent)
Doubled(rings) == [r \in DOMAIN rings |-> Scaled(rings[r], 2)]
InsideSquares(doubled, candidates) == {sq \in candidates : OddInside(doubled, MiddleOf(sq))}
Squares(rings, extent) ==
    IF rings = <<>> THEN {} ELSE InsideSquares(Doubled(rings), SquaresIn(BoxOf(FlattenSeq(rings)), extent))

UnitsOf(a, b) ==
    {<<p, k>> \in ((Fewer(a[1], b[1]) .. Max({a[1], b[1]})) \X (Fewer(a[2], b[2]) .. Max({a[2], b[2]}))) \X {1, 2} :
        /\ a[3 - k] = b[3 - k]
        /\ p[k] < Max({a[k], b[k]})}
InTile(p, extent) == p[1] \in 0 .. extent /\ p[2] \in 0 .. extent
Segments(points, extent) ==
    {u \in UNION {UnitsOf(points[i], points[i + 1]) : i \in 1 .. Len(points) - 1} :
        InTile(u[1], extent) /\ InTile([u[1] EXCEPT ![u[2]] = @ + 1], extent)}

\* A ring of positive area begins a polygon; those after it are its holes.
ByWinding(paths) ==
    FoldLeft(LAMBDA polys, ring : CASE signed_area(ring) = 0 -> polys
                                    [] signed_area(ring) > 0 -> Append(polys, <<ring>>)
                                    [] signed_area(ring) < 0 -> IF polys = <<>> THEN polys
                                                                ELSE Append(Front(polys), Append(Last(polys), ring)),
             <<>>, paths)
ShapeOf(type, paths, extent) ==
    CASE type = GEOM_POLYGON -> UNION {Squares(rings, extent) : rings \in ToSet(ByWinding(paths))}
      [] type = GEOM_LINE -> UNION {Segments(points, extent) : points \in ToSet(paths)}
      [] type = GEOM_POINT -> {p \in ToSet(FlattenSeq(paths)) : InTile(p, extent)}
Attributes(tile, f) ==
    [k \in {tile.keys[f.tags[i][1] + 1] : i \in DOMAIN f.tags} |->
        tile.values[(CHOOSE t \in ToSet(f.tags) : tile.keys[t[1] + 1] = k)[2] + 1]]
DrawnFeature(tile, f) ==
    [fid |-> f.fid, props |-> Attributes(tile, f), shape |-> ShapeOf(f.type, decode(f.commands), tile.extent)]
DrawnTile(tile) == [i \in DOMAIN tile.features |-> DrawnFeature(tile, tile.features[i])]
DrawnOf(answer) == IF answer = Nothing THEN <<>> ELSE DrawnTile(answer[1])

\* The same part of a feature of the source, rounded to the grid.
ShownPolygon(view, rings, extent) ==
    IF RingsFit(view, rings) THEN Squares(GridRings(project_rings(view, rings), FALSE), extent) ELSE {}
ShownLine(view, line, extent) ==
    IF RingFits(view, line) THEN Segments(to_i32_ring(project_ring(view, line), FALSE), extent) ELSE {}
Shown(view, g, extent) ==
    CASE g.type \in {"Polygon", "MultiPolygon"} -> UNION {ShownPolygon(view, rings, extent) : rings \in ToSet(g.polys)}
      [] g.type \in {"LineString", "MultiLineString"} -> UNION {ShownLine(view, line, extent) : line \in ToSet(g.polys[1])}
      [] g.type = "Point" -> {p \in {to_i32(to_pixel(view, g.polys[1][1][1]))} : InTile(p, extent)}

---------------------------------------------------------------------------
\* What the settings ask for.

Set == coverage.settings
ZoomOf == served[1].at[1]
FieldKnown(field) == field # Nothing /\ field[1] \in DOMAIN feature_field_schema(coverage.features)
Dissolves(z) == FieldKnown(Set.dissolve_field) /\ (Set.dissolve_max_zoom = 0 \/ z <= Set.dissolve_max_zoom)
Mosaics(z) ==
    /\ Set.cell_px > 0 /\ FieldKnown(Set.cell_field) /\ ~FieldKnown(Set.dissolve_field)
    /\ Set.cell_max_zoom = 0 \/ z <= Set.cell_max_zoom
Overview(z) == Dissolves(z) \/ Mosaics(z)
ClassField == IF FieldKnown(Set.dissolve_field) THEN Set.dissolve_field[1] ELSE Set.cell_field[1]
HasClassOf(f) == IsPolygon(f) /\ HasClass(f, ClassField)
GridExtent(z) == IF ~Overview(z) /\ Set.fine_extent_zoom > z THEN EXTENT * 2^(Set.fine_extent_zoom - z) ELSE EXTENT
ViewAt(a) == ViewOf(LayerOf(coverage), tile_bounds(a)[1], GridExtent(a[1]), FALSE)

\* How much of the grid an area of the source is: one measure for a layer.
Scale == IF coverage.crs = GridCrs THEN <<1, 1>> ELSE layer_area_scale(coverage.crs, coverage.extent)
SquarePixels(size, z) == Ratio(size * Scale[1] * DisplayPx^2, Scale[2] * Span(z)^2)
LenSteps(z) == {i \in DOMAIN Set.len_spec : Set.len_spec[i].zoom = Nothing \/ Set.len_spec[i].zoom[1] <= z}
LenPx(z) ==
    IF LenSteps(z) = {} THEN Zero
    ELSE Set.len_spec[CHOOSE i \in LenSteps(z) : \A j \in LenSteps(z) : j = i \/ Set.len_spec[j].zoom[1] < Set.len_spec[i].zoom[1]].value[1]
Cell(z) == Ratio(DisplayPx^2, GridExtent(z)^2)
BigEnough(f, z) ==
    \/ ~Positive(Scale)
    \/ /\ f.area > 0 =>
             /\ ~Below(Times(SquarePixels(f.area, z), <<1, 2>>), Cell(z))
             /\ z >= Set.min_feature_min_zoom => ~Below(Times(SquarePixels(f.area, z), <<1, 2>>), Set.min_feature_px)
       /\ f.length > 0 =>
             /\ ~Below(SquarePixels(f.length^2, z), Cell(z))
             /\ ~Below(SquarePixels(f.length^2, z), Times(LenPx(z), LenPx(z)))
Budget == IF Set.no_safety_limit THEN 0 ELSE Set.max_features
OverBudget == Budget # 0 /\ Len(coverage.features) > Budget
OverCap == served[1].read >= QueryCap
Uncut == opened # Nothing /\ opened[1].layer.cuts = <<>>

WithoutNull(props) == [k \in {k \in DOMAIN props : props[k][1] # "null"} |-> props[k]]
Wanted(f, z) == IF Overview(z) THEN ~HasClassOf(f) ELSE BigEnough(f, z)
Part(a, f) == IF tile_bounds(a) # Nothing /\ Wanted(f, a[1]) THEN Shown(ViewAt(a), f.geom, GridExtent(a[1])) ELSE {}
Copies(drawn, f) == {i \in DOMAIN drawn : drawn[i].fid = f.fid}
HeldRight(drawn, f, part, copies) ==
    /\ Cardinality(copies) <= 1
    /\ \A i \in copies : drawn[i].shape = part /\ drawn[i].props = WithoutNull(f.props)
    /\ copies = {} => part = {} \/ OverBudget \/ OverCap
Real(drawn) == {i \in DOMAIN drawn : drawn[i].fid < CellFidBase}
HoldsFeatures(drawn, a) ==
    /\ \A i \in Real(drawn) : \E f \in ToSet(coverage.features) : drawn[i].fid = f.fid
    /\ Budget # 0 => Cardinality(Real(drawn)) <= Budget
    /\ \A f \in ToSet(coverage.features) : HeldRight(drawn, f, Part(a, f), Copies(drawn, f))
\* A tile holds every feature of the layer that is big enough at its zoom, one
\* time each, with its attributes, drawn exactly where the feature rounded to
\* the tile's grid lies; none below the size; and whether a feature is kept
\* does not depend on the tile, so nothing breaks off at an edge between two
\* (vector/mvt/tile.rs encode_tile_opt).
TilesHoldTheirFeatures ==
    served # Nothing /\ Uncut => HoldsFeatures(DrawnOf(served[1].tile), served[1].at)

---------------------------------------------------------------------------
\* Overviews.

Synthetic(drawn) == {i \in DOMAIN drawn : drawn[i].fid >= CellFidBase}
Tagging(class) == [k \in {ClassField} |-> class]
Covers(view, g, c) ==
    \E rings \in ToSet(g.polys) : RingsFit(view, rings) /\ OddInside(project_rings(view, rings), c)
Topmost(view, c) ==
    LET on == SelectSeq(coverage.features, LAMBDA f : HasClassOf(f) /\ Covers(view, f.geom, c))
    IN  IF on = <<>> THEN {} ELSE {Tagging(Last(on).props[ClassField])}
CellCentre(k, units) == ((2 * k + 1) * units * Sub) \div 2
ClassesAt(drawn, k, m, units) ==
    {drawn[i].props : i \in {i \in Synthetic(drawn) : <<k * units, m * units>> \in drawn[i].shape}}
Cells(units) == 0 .. (EXTENT \div units) - 1
MosaicRight(drawn, view, units) ==
    \A k, m \in Cells(units) :
        ClassesAt(drawn, k, m, units) = Topmost(view, <<CellCentre(k, units), CellCentre(m, units)>>)
\* Every cell of a mosaic shows the class of the last polygon over its centre,
\* however small, and no cell another one: the same in every tile of the zoom
\* (vector/mvt/cell.rs).
MosaicShowsTheTopClass ==
    (served # Nothing /\ Uncut /\ ~OverCap) =>
        (Mosaics(ZoomOf) /\ tile_bounds(served[1].at) # Nothing =>
            MosaicRight(DrawnOf(served[1].tile), ViewAt(served[1].at), (EXTENT \div DisplayPx) * NearestPower(Set.cell_px)))

SquaresOfClass(a, class) ==
    UNION {Shown(ViewAt(a), f.geom, EXTENT) : f \in {f \in ToSet(coverage.features) : HasClassOf(f) /\ f.props[ClassField] = class}}
OfClass(drawn, class) == {i \in Synthetic(drawn) : drawn[i].props = Tagging(class)}
\* The two squares beside a unit segment.
Beside(u) == {u[1], [u[1] EXCEPT ![3 - u[2]] = @ - 1]}
Outline(tile) ==
    UNION {UNION {Segments(Append(ring, ring[1]), tile.extent) : ring \in ToSet(decode(f.commands))} :
           f \in {f \in ToSet(tile.features) : f.fid >= CellFidBase}}
Border(u, extent) == u[1][3 - u[2]] \in {0, extent}
UnionOfClass(drawn, a, class) ==
    /\ Cardinality(OfClass(drawn, class)) <= 1
    /\ UNION {drawn[i].shape : i \in OfClass(drawn, class)} = SquaresOfClass(a, class)
NoInnerBorder(tile, drawn) ==
    \A u \in Outline(tile) : Border(u, tile.extent) \/ ~ \E i \in Synthetic(drawn) : Beside(u) \subseteq drawn[i].shape
Inner(ring, extent) == \A i \in DOMAIN ring : ring[i][1] \in 1 .. extent - 1 /\ ring[i][2] \in 1 .. extent - 1
SimpleRings(tile) ==
    \A f \in {f \in ToSet(tile.features) : f.fid >= CellFidBase} :
        \A ring \in ToSet(decode(f.commands)) : Inner(ring, tile.extent) => IsInjective(ring)
\* The dissolved polygon of a class covers exactly what its polygons cover,
\* each rounded to the grid by itself, islands and holes included; where the
\* polygons share the vertices of their borders, none of those is left and no
\* ring meets itself (vector/mvt/dissolve.rs).
DissolveIsTheUnion ==
    (served # Nothing /\ Uncut /\ ~OverCap) =>
        (Dissolves(ZoomOf) /\ tile_bounds(served[1].at) # Nothing =>
            /\ \A class \in ToSet(ClassOrder) : UnionOfClass(DrawnOf(served[1].tile), served[1].at, class)
            /\ coverage.matched /\ served[1].tile # Nothing =>
                   NoInnerBorder(served[1].tile[1], DrawnOf(served[1].tile)) /\ SimpleRings(served[1].tile[1]))

---------------------------------------------------------------------------
\* Subsets.

Contained(b, window) == window[1] <= b[1] /\ window[2] <= b[2] /\ b[3] <= window[3] /\ b[4] <= window[4]
CutFor(cut, a) ==
    /\ cut.min_zoom <= a[1] /\ a[1] <= cut.max_zoom
    /\ cut.extent # Nothing => Contained(source_filter_bbox(coverage.crs, tile_bounds(a)[1]), cut.extent[1])
\* A value as it is spelled: a column has one type, a field may have two.
OnlyNamed(props, names) == [k \in DOMAIN props \cap names |-> props[k][2]]
Contents(answer, names) ==
    {[f EXCEPT !.props = OnlyNamed(f.props, names)] : f \in ToSet(DrawnOf(answer))}
FromSource(a) == Tile(ServeWith(Set, LayerOf(coverage))[1], a, coverage.features)
\* A tile of a zoom a subset was cut for is the tile of the source, with the
\* columns that were kept; also of a subset of a subset (cmd/extract.rs).
SubsetsLoseNothing ==
    (served # Nothing /\ opened # Nothing) =>
        ((~Uncut /\ ~OverCap /\ ~OverBudget /\ ~Overview(ZoomOf) /\ tile_bounds(served[1].at) # Nothing) =>
            ((\A cut \in ToSet(opened[1].layer.cuts) : CutFor(cut, served[1].at)) =>
                Contents(served[1].tile, DOMAIN opened[1].layer.fields)
                    = Contents(FromSource(served[1].at), DOMAIN opened[1].layer.fields)))
=============================================================================
