---------------------------- MODULE MvtGeometry ----------------------------
(***************************************************************************)
(* The geometry of a vector tile: clipping to the tile's rectangle         *)
(* (mvt/clip.rs), rounding to the tile's grid (mvt/tile.rs) and the        *)
(* command stream (mvt/geom.rs).  Projected coordinates are whole numbers  *)
(* of 1/Sub of a grid unit; grid coordinates are whole.  A rectangle is    *)
(* <<minx, miny, maxx, maxy>>.                                             *)
(***************************************************************************)
EXTENDS Geometries

CONSTANT Sub    \* projected coordinates in a grid unit

---------------------------------------------------------------------------
\* Polygons: Sutherland-Hodgman, one side of the rectangle after another.
\* A side is its axis and its place in the rectangle.

Sides == <<<<1, 1>>, <<1, 3>>, <<2, 2>>, <<2, 4>>>>
InsideOf(p, rect, side) ==
    IF side[2] <= 2 THEN p[side[1]] >= rect[side[2]] ELSE p[side[1]] <= rect[side[2]]
Intersect(a, b, axis, at) ==
    [k \in 1 .. 2 |->
        IF k = axis THEN at ELSE a[k] + (((at - a[axis]) * (b[k] - a[k])) \div (b[axis] - a[axis]))]

Turned(prev, cur, rect, side) ==
    IF InsideOf(cur, rect, side) = InsideOf(prev, rect, side) THEN <<>>
    ELSE <<Intersect(prev, cur, side[1], rect[side[2]])>>
Kept(prev, cur, rect, side) ==
    Turned(prev, cur, rect, side) \o (IF InsideOf(cur, rect, side) THEN <<cur>> ELSE <<>>)
Before(poly, i) == poly[IF i = 1 THEN Len(poly) ELSE i - 1]
clip_ring_edge(poly, rect, side) ==
    FoldLeft(LAMBDA out, i : out \o Kept(Before(poly, i), poly[i], rect, side), <<>>, [i \in DOMAIN poly |-> i])

\* The explicit closing vertex, if there is one, left out.
OpenRing(ring) == IF Len(ring) >= 2 /\ ring[1] = Last(ring) THEN Front(ring) ELSE ring
clip_ring(ring, rect) ==
    FoldLeft(LAMBDA poly, side : clip_ring_edge(poly, rect, side), OpenRing(ring), Sides)
clip_polygon(rings, rect) ==
    SelectSeq([i \in DOMAIN rings |-> clip_ring(rings[i], rect)], LAMBDA r : Len(r) >= 3)

---------------------------------------------------------------------------
\* Lines: Liang-Barsky per segment.  A parameter is <<numerator, positive
\* denominator>>; a span is the two parameters left, or Nothing.

Below(s, t) == s[1] * t[2] < t[1] * s[2]
Later(s, t) == IF Below(s, t) THEN t ELSE s
Sooner(s, t) == IF Below(t, s) THEN t ELSE s
Narrowed(span, p, q) ==
    CASE span = Nothing -> Nothing
      [] span # Nothing /\ p = 0 -> IF q < 0 THEN Nothing ELSE span
      [] span # Nothing /\ p < 0 ->
            IF Below(span[2], <<-q, -p>>) THEN Nothing ELSE <<Later(span[1], <<-q, -p>>), span[2]>>
      [] span # Nothing /\ p > 0 ->
            IF Below(<<q, p>>, span[1]) THEN Nothing ELSE <<span[1], Sooner(span[2], <<q, p>>)>>
SpanOf(a, b, rect) ==
    Narrowed(Narrowed(Narrowed(Narrowed(<<<<0, 1>>, <<1, 1>>>>,
        a[1] - b[1], a[1] - rect[1]), b[1] - a[1], rect[3] - a[1]),
        a[2] - b[2], a[2] - rect[2]), b[2] - a[2], rect[4] - a[2])
PointAt(a, b, t) == [k \in 1 .. 2 |-> a[k] + ((t[1] * (b[k] - a[k])) \div t[2])]
Ends(a, b, span) == IF span = Nothing THEN Nothing ELSE <<PointAt(a, b, span[1]), PointAt(a, b, span[2])>>
clip_segment(a, b, rect) == Ends(a, b, SpanOf(a, b, rect))

\* The pieces finished and the one being drawn.
Flushed(line) == IF Len(line.cur) >= 2 THEN Append(line.pieces, line.cur) ELSE line.pieces
Extended(line, seg) ==
    IF seg = Nothing THEN [pieces |-> Flushed(line), cur |-> <<>>]
    ELSE IF line.cur = <<>> \/ Last(line.cur) # seg[1] THEN [pieces |-> Flushed(line), cur |-> seg]
    ELSE [line EXCEPT !.cur = Append(@, seg[2])]
clip_line(line, rect) ==
    Flushed(FoldLeft(LAMBDA got, i : Extended(got, clip_segment(line[i], line[i + 1], rect)),
                     [pieces |-> <<>>, cur |-> <<>>], [i \in 1 .. Len(line) - 1 |-> i]))

---------------------------------------------------------------------------
\* The grid: f64::round, halves away from zero; then, with dedup, a vertex
\* equal to its predecessor is dropped.

RoundUp(n) == (2 * n + Sub) \div (2 * Sub)
Round(n) == IF n < 0 THEN -RoundUp(-n) ELSE RoundUp(n)
to_i32(p) == <<Round(p[1]), Round(p[2])>>
to_i32_ring(pts, dedup) ==
    FoldLeft(LAMBDA out, p : IF dedup /\ out # <<>> /\ Last(out) = p THEN out ELSE Append(out, p),
             <<>>, [i \in DOMAIN pts |-> to_i32(pts[i])])
GridRings(rings, dedup) == [i \in DOMAIN rings |-> to_i32_ring(rings[i], dedup)]

---------------------------------------------------------------------------
\* Commands.

GEOM_POINT == 1
GEOM_LINE == 2
GEOM_POLYGON == 3
MOVE_TO == 1
LINE_TO == 2
CLOSE_PATH == 7
command(id, count) == id + 8 * count
zigzag(n) == IF n < 0 THEN -2 * n - 1 ELSE 2 * n

\* What is written so far and where the cursor stands.
Pen == [out |-> <<>>, at |-> <<0, 0>>]
Written(pen, params) == [pen EXCEPT !.out = @ \o params]
MovedTo(pen, p) == [out |-> pen.out \o <<zigzag(p[1] - pen.at[1]), zigzag(p[2] - pen.at[2])>>, at |-> p]
Through(pen, pts) == FoldLeft(MovedTo, pen, pts)
emit_moveto(pen, p) == MovedTo(Written(pen, <<command(MOVE_TO, 1)>>), p)
Traced(pen, pts) == Through(Written(emit_moveto(pen, pts[1]), <<command(LINE_TO, Len(pts) - 1)>>), Tail(pts))

encode_points(pts) == IF pts = <<>> THEN <<>> ELSE Through(Written(Pen, <<command(MOVE_TO, Len(pts))>>), pts).out
encode_line(parts) ==
    FoldLeft(LAMBDA pen, part : IF Len(part) < 2 THEN pen ELSE Traced(pen, part), Pen, parts).out

\* Twice the area, positive for exteriors.
signed_area(ring) == SumOf([i \in DOMAIN ring |-> Cross(ring[i], ring[(i % Len(ring)) + 1])])
Wound(ring, want_positive) == IF (signed_area(ring) > 0) = want_positive THEN ring ELSE Reverse(ring)
\* Mutant: closing the path returns the cursor to the ring's first vertex.
CursorReturns(pen, ring, want_positive) ==
    IF Len(ring) < 3 THEN pen
    ELSE [Written(Traced(pen, Wound(ring, want_positive)), <<command(CLOSE_PATH, 1)>>)
             EXCEPT !.at = Wound(ring, want_positive)[1]]
\* Closing the path leaves the cursor at the last vertex drawn.
EmitOpen(pen, ring, want_positive) ==
    IF Len(ring) < 3 THEN pen
    ELSE Written(Traced(pen, Wound(ring, want_positive)), <<command(CLOSE_PATH, 1)>>)
emit_ring(pen, ring, want_positive) == EmitOpen(pen, OpenRing(ring), want_positive)
EmitPolygon(pen, rings) ==
    FoldLeft(LAMBDA p, i : emit_ring(p, rings[i], i = 1), pen, [i \in DOMAIN rings |-> i])
encode_polygon(rings) == EmitPolygon(Pen, rings).out
encode_multipolygon(polys) == FoldLeft(EmitPolygon, Pen, polys).out

---------------------------------------------------------------------------
\* A client's decoder: paths of points, in the order they are drawn.

Unzigzag(n) == IF n % 2 = 0 THEN n \div 2 ELSE -((n + 1) \div 2)
Stepped(at, x, y) == <<at[1] + Unzigzag(x), at[2] + Unzigzag(y)>>
Started(d, p) == [d EXCEPT !.paths = Append(@, <<p>>), !.at = p]
Continued(d, p) == [d EXCEPT !.paths = Append(Front(@), Append(Last(@), p)), !.at = p]
\* A command is repeated its count of times; closing a path has no parameters
\* and does not move the cursor.
RECURSIVE ReadStream(_, _, _)
ReadStream(d, left, stream) ==
    IF stream = <<>> THEN d
    ELSE IF left = 0 THEN ReadStream([d EXCEPT !.id = stream[1] % 8], stream[1] \div 8, Tail(stream))
    ELSE IF d.id = CLOSE_PATH THEN ReadStream(d, left - 1, stream)
    ELSE ReadStream(IF d.id = MOVE_TO THEN Started(d, Stepped(d.at, stream[1], stream[2]))
                                      ELSE Continued(d, Stepped(d.at, stream[1], stream[2])),
                    left - 1, SubSeq(stream, 3, Len(stream)))
decode(stream) == ReadStream([id |-> MOVE_TO, at |-> <<0, 0>>, paths |-> <<>>], 0, stream).paths
=============================================================================
