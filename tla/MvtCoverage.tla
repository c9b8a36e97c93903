---------------------------- MODULE MvtCoverage ----------------------------
(***************************************************************************)
(* The two passes that replace the polygons of an overview tile by their   *)
(* classes: the mosaic (mvt/cell.rs), a grid of cells each of one class,   *)
(* and the dissolve (mvt/dissolve.rs), the polygons of a class merged      *)
(* along their shared borders.  A polygon comes here as [class, polys]:    *)
(* its class, and its polygons of rings of projected points.               *)
(***************************************************************************)
EXTENDS MvtGeometry

CONSTANT EXTENT    \* grid units of a tile
BUF == EXTENT \div 16

LexLess(a, b) == a[1] < b[1] \/ (a[1] = b[1] /\ a[2] < b[2])
Crossed(y, a, b) == (a[2] <= y /\ y < b[2]) \/ (b[2] <= y /\ y < a[2])
XAt(y, a, b) == a[1] + (((y - a[2]) * (b[1] - a[1])) \div (b[2] - a[2]))
Next(ring, i) == ring[(i % Len(ring)) + 1]
\* Where a horizontal line crosses a ring.
CrossingsOf(ring, y) ==
    LET at == SelectSeq([i \in DOMAIN ring |-> i], LAMBDA i : Crossed(y, ring[i], Next(ring, i)))
    IN  [k \in DOMAIN at |-> XAt(y, ring[at[k]], Next(ring, at[k]))]
SortedNumbers(ns) == SortSeq(ns, LAMBDA a, b : a < b)

---------------------------------------------------------------------------
\* The mosaic.

AddClass(palette, class) == IF Contains(palette, class) THEN palette ELSE Append(palette, class)
build_palette(polys) == FoldLeft(LAMBDA palette, p : AddClass(palette, p.class), <<>>, polys)
PaletteIndex(palette, class) == CHOOSE i \in DOMAIN palette : palette[i] = class

\* First and last cell of the buffered rectangle; \div rounds down.
grid_dims(cell) == ((-BUF) \div cell) .. ((EXTENT + BUF - 1) \div cell)
Centre(k, cell) == ((2 * k + 1) * cell * Sub) \div 2
\* Even-odd: the interior of a row is between its crossings, pair by pair.
InSpans(xs, x) == \E j \in 1 .. Len(xs) \div 2 : xs[2 * j - 1] <= x /\ x < xs[2 * j]
RowOf(p, y) == SortedNumbers(FlattenSeq([i \in DOMAIN FlattenSeq(p.polys) |-> CrossingsOf(FlattenSeq(p.polys)[i], y)]))
CellsIn(xs, cell) == {col \in grid_dims(cell) : InSpans(xs, Centre(col, cell))}
\* Mutant: a cell keeps its first class.
FirstStays(row, index, cols) == [c \in DOMAIN row |-> IF c \in cols /\ row[c] = 0 THEN index ELSE row[c]]
\* A row of the grid, painted in order: a later polygon overwrites.
Painted(row, index, cols) == [c \in DOMAIN row |-> IF c \in cols THEN index ELSE row[c]]
PaintRow(polys, palette, cell, k) ==
    FoldLeft(LAMBDA row, p : Painted(row, PaletteIndex(palette, p.class), CellsIn(RowOf(p, Centre(k, cell)), cell)),
             [c \in grid_dims(cell) |-> 0], polys)
rasterise_cells(polys, palette, cell) == [k \in grid_dims(cell) |-> PaintRow(polys, palette, cell, k)]

Clamped(v) == IF v < -BUF THEN -BUF ELSE IF v > EXTENT + BUF THEN EXTENT + BUF ELSE v
\* The runs of one index in a row, left to right: <<first, past the last, index>>.
Starts(row) == {c \in DOMAIN row : row[c] # 0 /\ (c - 1 \notin DOMAIN row \/ row[c - 1] # row[c])}
Past(row, c) == CHOOSE e \in (DOMAIN row \cup {Max(DOMAIN row) + 1}) :
                    /\ e > c /\ \A d \in c .. e - 1 : row[d] = row[c]
                    /\ e \in DOMAIN row => row[e] # row[c]
RunsOf(row) == [i \in 1 .. Cardinality(Starts(row)) |->
                   LET c == SetToSortSeq(Starts(row), LAMBDA a, b : a < b)[i] IN <<c, Past(row, c), row[c]>>]
RectOf(k, run, palette, cell) ==
    [x0 |-> Clamped(run[1] * cell), y0 |-> Clamped(k * cell), x1 |-> Clamped(run[2] * cell),
     y1 |-> Clamped((k + 1) * cell), class |-> palette[run[3]]]
RectsOfRow(k, runs, palette, cell) == [i \in DOMAIN runs |-> RectOf(k, runs[i], palette, cell)]
merge_to_rects(grid, palette, cell) ==
    SelectSeq(FlattenSeq([i \in 1 .. Cardinality(DOMAIN grid) |->
                  RectsOfRow(Min(DOMAIN grid) + i - 1, RunsOf(grid[Min(DOMAIN grid) + i - 1]), palette, cell)]),
              LAMBDA r : r.x0 < r.x1 /\ r.y0 < r.y1)
MosaicOf(polys, palette, cell) == merge_to_rects(rasterise_cells(polys, palette, cell), palette, cell)
mosaic_rects(polys, cell) == MosaicOf(polys, build_palette(polys), cell)

---------------------------------------------------------------------------
\* The dissolve.

normalise_ring(ring, want_positive) ==
    IF signed_area(ring) = 0 \/ (signed_area(ring) > 0) = want_positive THEN ring ELSE Reverse(ring)
project_normalise_poly(rings) ==
    LET grid == GridRings(rings, TRUE)
        whole == SelectSeq([i \in DOMAIN grid |-> i], LAMBDA i : Len(grid[i]) >= 3)
    IN  [k \in DOMAIN whole |-> normalise_ring(grid[whole[k]], whole[k] = 1)]
RingsOfPolygon(p) == FlattenSeq([i \in DOMAIN p.polys |-> project_normalise_poly(p.polys[i])])

\* How often each directed edge is left: an edge and its reverse cancel.
Count(edges, e) == IF e \in DOMAIN edges THEN edges[e] ELSE 0
SetCount(edges, e, n) ==
    [d \in IF n = 0 THEN DOMAIN edges \ {e} ELSE DOMAIN edges \cup {e} |-> IF d = e THEN n ELSE edges[d]]
consume(edges, e) == SetCount(edges, e, Count(edges, e) - 1)
\* Mutant: an edge seen twice counts once.
SeenOnce(edges, a, b) ==
    IF a = b THEN edges
    ELSE IF Count(edges, <<b, a>>) > 0 THEN consume(edges, <<b, a>>)
    ELSE SetCount(edges, <<a, b>>, 1)
AddEdge(edges, a, b) ==
    IF a = b THEN edges
    ELSE IF Count(edges, <<b, a>>) > 0 THEN consume(edges, <<b, a>>)
    ELSE SetCount(edges, <<a, b>>, Count(edges, <<a, b>>) + 1)
AddRing(edges, ring) ==
    FoldLeft(LAMBDA es, i : AddEdge(es, ring[i], Next(ring, i)), edges, [i \in DOMAIN ring |-> i])
cancel_edges(rings) == FoldLeft(AddRing, <<>>, rings)

\* Angles and turns are <<numerator, positive denominator>>, of four quadrants.
pseudo_angle(v) ==
    LET denom == Size(v[1]) + Size(v[2])
    IN  IF v[2] >= 0 THEN <<denom - v[1], denom>> ELSE <<3 * denom + v[1], denom>>
TurnOf(a, b) == <<(a[1] * b[2] - b[1] * a[2]) % (4 * a[2] * b[2]), a[2] * b[2]>>
cw_dist(back, o) ==
    LET d == TurnOf(pseudo_angle(back), pseudo_angle(o)) IN IF d[1] = 0 THEN <<4, 1>> ELSE d
Minus(p, q) == <<p[1] - q[1], p[2] - q[2]>>
Outs(edges, at) == SetToSortSeq({e[2] : e \in {e \in DOMAIN edges : e[1] = at}}, LexLess)
\* The first edge clockwise from the way we came.
Rightmost(outs, at, prev) ==
    FoldLeft(LAMBDA best, o : IF Below(cw_dist(Minus(prev, at), Minus(o, at)), cw_dist(Minus(prev, at), Minus(best, at)))
                              THEN o ELSE best, outs[1], Tail(outs))
pick_next(edges, at, prev) ==
    IF Outs(edges, at) = <<>> THEN Nothing ELSE Found(Rightmost(Outs(edges, at), at, prev))

\* From the smallest edge left until the ring closes.
Smallest(edges) ==
    CHOOSE e \in DOMAIN edges : \A d \in DOMAIN edges \ {e} : LexLess(e[1], d[1]) \/ (e[1] = d[1] /\ LexLess(e[2], d[2]))
RECURSIVE Walk(_, _, _, _, _)
Walk(edges, rings, ring, at, prev) ==
    LET Turn(next) == Walk(consume(edges, <<at, next[1]>>), rings, Append(ring, at), next[1], at)
        Begin(e) == Walk(consume(edges, e), rings, <<e[1]>>, e[2], e[1])
    IN  IF ring = <<>> THEN (IF edges = <<>> THEN rings ELSE Begin(Smallest(edges)))
        ELSE IF at = ring[1] THEN Walk(edges, IF Len(ring) >= 3 THEN Append(rings, ring) ELSE rings, <<>>, at, at)
        ELSE IF pick_next(edges, at, prev) = Nothing THEN Walk(edges, rings, <<>>, at, at)
        ELSE Turn(pick_next(edges, at, prev))
walk_rings(edges) == Walk(edges, <<>>, <<>>, <<0, 0>>, <<0, 0>>)

\* A point inside a ring, on a row between the vertices; in quarter units.
Scaled(ring, n) == [i \in DOMAIN ring |-> <<n * ring[i][1], n * ring[i][2]>>]
LowestRow(ring) == 4 * Lowest(Axis(ring, 2)) + 2
interior_point(ring) ==
    LET xs == SortedNumbers(CrossingsOf(Scaled(ring, 4), LowestRow(ring)))
    IN  <<(xs[1] + xs[2]) \div 2, LowestRow(ring)>>
point_in_ring(ring, pt) ==
    Cardinality({i \in DOMAIN ring : Crossed(pt[2], ring[i], Next(ring, i)) /\ pt[1] < XAt(pt[2], ring[i], Next(ring, i))}) % 2 = 1
Nestable(rings) == SelectSeq(rings, LAMBDA r : signed_area(r) # 0)
AreaOf(ring) == Size(signed_area(ring))
\* The rings around ring i: a container is larger.
Around(rs, pts, i) ==
    {j \in DOMAIN rs : AreaOf(rs[j]) > AreaOf(rs[i]) /\ point_in_ring(Scaled(rs[j], 4), pts[i])}
Depths(rs, pts) == [i \in DOMAIN rs |-> Around(rs, pts, i)]
\* The tightest container, the first of equals.
Tightest(rs, around) ==
    CHOOSE j \in around : \A k \in around : AreaOf(rs[j]) < AreaOf(rs[k]) \/ (AreaOf(rs[j]) = AreaOf(rs[k]) /\ j <= k)
IsHole(around) == Cardinality(around) % 2 = 1
HolesOf(rs, depths, e) ==
    SelectSeq([i \in DOMAIN rs |-> i], LAMBDA i : IsHole(depths[i]) /\ Tightest(rs, depths[i]) = e)
GroupOf(rs, e, holes) == <<rs[e]>> \o [k \in DOMAIN holes |-> rs[holes[k]]]
Grouped(rs, depths) ==
    LET exteriors == SelectSeq([i \in DOMAIN rs |-> i], LAMBDA i : ~IsHole(depths[i]))
    IN  [k \in DOMAIN exteriors |-> GroupOf(rs, exteriors[k], HolesOf(rs, depths, exteriors[k]))]
GroupNested(rs) == Grouped(rs, Depths(rs, [i \in DOMAIN rs |-> interior_point(rs[i])]))
group_polygons(rings) == GroupNested(Nestable(rings))

\* The merged polygons of each class, classes in order.
ClassRings(polys, class) ==
    FlattenSeq([i \in DOMAIN polys |-> IF polys[i].class = class THEN RingsOfPolygon(polys[i]) ELSE <<>>])
MergedClass(class, groups) == [class |-> class, groups |-> groups]
dissolve_features(polys, classes) ==
    SelectSeq([i \in DOMAIN classes |->
                  MergedClass(classes[i], group_polygons(walk_rings(cancel_edges(ClassRings(polys, classes[i])))))],
              LAMBDA d : d.groups # <<>>)
=============================================================================
