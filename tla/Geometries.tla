----------------------------- MODULE Geometries -----------------------------
(***************************************************************************)
(* Features and their geometry (feature.rs) and the three encodings they   *)
(* are read from or written to: WKB with the GeoPackage header (wkb.rs),   *)
(* and GeoJSON (geojson.rs).  A geometry is its type and its coordinates,  *)
(* always nested as polygons of rings of points.  An encoded geometry is   *)
(* the sequence of its fields, each tagged with the byte order it was      *)
(* written in.                                                             *)
(***************************************************************************)
EXTENDS Integers, Sequences, FiniteSets, SequencesExt, FiniteSetsExt, Folds

CONSTANT Infinity    \* above every coordinate

Found(v) == <<v>>
Nothing == <<>>

Geometry(type, polys) == [type |-> type, polys |-> polys]
Rings(g) == FlattenSeq(g.polys)
Vertices(g) == FlattenSeq(Rings(g))

Lowest(ns) == FoldLeft(LAMBDA a, b : IF b < a THEN b ELSE a, Infinity, ns)
Highest(ns) == FoldLeft(LAMBDA a, b : IF b > a THEN b ELSE a, -Infinity, ns)
Axis(points, k) == [i \in DOMAIN points |-> points[i][k]]

\* The box of a geometry without a vertex is inside out: it overlaps nothing.
BoxOf(points) ==
    <<Lowest(Axis(points, 1)), Lowest(Axis(points, 2)), Highest(Axis(points, 1)), Highest(Axis(points, 2))>>
compute_bbox(g) == BoxOf(Vertices(g))

\* Touching boxes overlap.
bbox_intersects(a, b) == a[3] >= b[1] /\ a[1] <= b[3] /\ a[4] >= b[2] /\ a[2] <= b[4]

SumOf(ns) == FoldLeft(LAMBDA a, b : a + b, 0, ns)
Size(n) == IF n < 0 THEN -n ELSE n

\* Areas are doubled, to stay whole.
Cross(a, b) == a[1] * b[2] - b[1] * a[2]
ring_area(r) ==
    IF Len(r) < 3 THEN 0 ELSE Size(SumOf([i \in DOMAIN r |-> Cross(r[i], r[(i % Len(r)) + 1])]))
ClampZero(n) == IF n < 0 THEN 0 ELSE n
poly_area(rings) ==
    IF rings = <<>> THEN 0
    ELSE ClampZero(ring_area(rings[1]) - SumOf([i \in 1 .. Len(rings) - 1 |-> ring_area(rings[i + 1])]))
area(g) ==
    IF g.type \in {"Polygon", "MultiPolygon"} THEN SumOf([i \in DOMAIN g.polys |-> poly_area(g.polys[i])]) ELSE 0

\* Lines of the instances run along the axes.
Segment(a, b) == Size(b[1] - a[1]) + Size(b[2] - a[2])
line_len(points) == SumOf([i \in 1 .. Len(points) - 1 |-> Segment(points[i], points[i + 1])])
length(g) ==
    IF g.type \in {"LineString", "MultiLineString"} THEN SumOf([i \in DOMAIN Rings(g) |-> line_len(Rings(g)[i])]) ELSE 0

Feature(g, props, fid) ==
    [geom |-> g, props |-> props, fid |-> fid, bbox |-> compute_bbox(g), area |-> area(g), length |-> length(g)]

---------------------------------------------------------------------------
\* WKB, written.

LE == "little"
BE == "big"
Field(order, v) == <<order, v>>

write_hdr(code) == <<Field(LE, 1), Field(LE, code)>>
write_pt(p) == <<Field(LE, p[1]), Field(LE, p[2])>>
write_ring(r) == <<Field(LE, Len(r))>> \o FlattenSeq([i \in DOMAIN r |-> write_pt(r[i])])
write_rings(rings) == <<Field(LE, Len(rings))>> \o FlattenSeq([i \in DOMAIN rings |-> write_ring(rings[i])])
write_lines(lines) == FlattenSeq([i \in DOMAIN lines |-> write_hdr(2) \o write_ring(lines[i])])
write_polys(polys) == FlattenSeq([i \in DOMAIN polys |-> write_hdr(3) \o write_rings(polys[i])])

write_geom(g) ==
    CASE g.type = "Point" -> write_hdr(1) \o write_pt(g.polys[1][1][1])
      [] g.type = "LineString" -> write_hdr(2) \o write_ring(g.polys[1][1])
      [] g.type = "Polygon" -> write_hdr(3) \o write_rings(g.polys[1])
      [] g.type = "MultiLineString" -> write_hdr(5) \o <<Field(LE, Len(g.polys[1]))>> \o write_lines(g.polys[1])
      [] g.type = "MultiPolygon" -> write_hdr(6) \o <<Field(LE, Len(g.polys))>> \o write_polys(g.polys)

is_empty(g) == g.type # "Point" /\ Vertices(g) = <<>>

\* The header: magic, envelope indicator, empty flag, srs id; then the
\* envelope's doubles (none are written here) and the geometry.
Blob(empty, indicator, body) == [magic |-> "GP", empty |-> empty, indicator |-> indicator, body |-> body]
encode_gpkg_geometry(g) == Blob(is_empty(g), 0, IF is_empty(g) THEN <<>> ELSE write_geom(g))

---------------------------------------------------------------------------
\* WKB, read.  A reader is the fields left to read and what was read of
\* them; "got" is Nothing once the input is malformed, Found(Nothing) for a
\* geometry that is not modelled.

Reader(fields, got) == [fields |-> fields, got |-> got]
Malformed == Reader(<<>>, Nothing)
IsMalformed(r) == r.got = Nothing
Value(r) == r.got[1]

\* A number read in the wrong byte order is another number.
Garbled(v) == v * 16777216
Seen(order, field) == IF field[1] = order THEN field[2] ELSE Garbled(field[2])
take(order, fields) == IF fields = <<>> THEN Malformed ELSE Reader(Tail(fields), Found(Seen(order, Head(fields))))

read_point(order, dims, fields) ==
    IF Len(fields) < dims THEN Malformed
    ELSE Reader(SubSeq(fields, dims + 1, Len(fields)), Found(<<Seen(order, fields[1]), Seen(order, fields[2])>>))

\* The byte-order field is a single byte: the same in both orders.
OrderOf(fields) ==
    IF fields = <<>> THEN Nothing
    ELSE CASE Head(fields)[2] = 0 -> Found(BE) [] Head(fields)[2] = 1 -> Found(LE) [] OTHER -> Nothing
Dims(ty) == 2 + (IF ty \div 1000 \in {1, 3} THEN 1 ELSE 0) + (IF ty \div 1000 >= 2 THEN 1 ELSE 0)

Adding(r, so_far) == IF IsMalformed(r) THEN r ELSE Reader(r.fields, Found(Append(so_far, Value(r))))

RECURSIVE Points(_, _, _, _), RingsOf(_, _, _, _), Parts(_, _, _), read_geom(_)

Points(order, dims, n, r) ==
    IF n = 0 \/ IsMalformed(r) THEN r
    ELSE Points(order, dims, n - 1, Adding(read_point(order, dims, r.fields), Value(r)))
CountedPoints(order, dims, r) ==
    IF IsMalformed(r) THEN r ELSE Points(order, dims, Value(r), Reader(r.fields, Found(<<>>)))
read_ring(order, dims, fields) == CountedPoints(order, dims, take(order, fields))

RingsOf(order, dims, n, r) ==
    IF n = 0 \/ IsMalformed(r) THEN r
    ELSE RingsOf(order, dims, n - 1, Adding(read_ring(order, dims, r.fields), Value(r)))
CountedRings(order, dims, r) ==
    IF IsMalformed(r) THEN r ELSE RingsOf(order, dims, Value(r), Reader(r.fields, Found(<<>>)))

\* An element of a collection is a whole geometry of the one type allowed.
AsPart(type, r) ==
    IF IsMalformed(r) THEN r
    ELSE IF Value(r) = Nothing THEN Malformed
    ELSE IF Value(r)[1].type # type THEN Malformed
    ELSE Reader(r.fields, Found(IF type = "LineString" THEN Value(r)[1].polys[1][1] ELSE Value(r)[1].polys[1]))
Parts(type, n, r) ==
    IF n = 0 \/ IsMalformed(r) THEN r
    ELSE Parts(type, n - 1, Adding(AsPart(type, read_geom(r.fields)), Value(r)))
CountedParts(type, r) == IF IsMalformed(r) THEN r ELSE Parts(type, Value(r), Reader(r.fields, Found(<<>>)))

\* Nests what was read into a geometry of its type.
Nested(type, v) ==
    CASE type = "Point" -> <<<<<<v>>>>>>
      [] type = "LineString" -> <<<<v>>>>
      [] type \in {"Polygon", "MultiLineString"} -> <<v>>
      [] type = "MultiPolygon" -> v
Typed(type, r) == IF IsMalformed(r) THEN r ELSE Reader(r.fields, Found(Found(Geometry(type, Nested(type, Value(r))))))

BodyOf(order, ty, fields) ==
    CASE ty % 1000 = 1 -> Typed("Point", read_point(order, Dims(ty), fields))
      [] ty % 1000 = 2 -> Typed("LineString", read_ring(order, Dims(ty), fields))
      [] ty % 1000 = 3 -> Typed("Polygon", CountedRings(order, Dims(ty), take(order, fields)))
      [] ty % 1000 = 5 -> Typed("MultiLineString", CountedParts("LineString", take(order, fields)))
      [] ty % 1000 = 6 -> Typed("MultiPolygon", CountedParts("Polygon", take(order, fields)))
      [] ty % 1000 \in {4, 7} -> Reader(fields, Found(Nothing))
      [] OTHER -> Malformed

AfterType(order, r) == IF IsMalformed(r) THEN r ELSE BodyOf(order, Value(r), r.fields)
AfterOrder(order, fields) == IF order = Nothing THEN Malformed ELSE AfterType(order[1], take(order[1], Tail(fields)))
read_geom(fields) == AfterOrder(OrderOf(fields), fields)

\* Found(Found(g)), Found(Nothing) for nothing to draw, Nothing if malformed.
decode_wkb(fields) == read_geom(fields).got

EnvelopeLen(indicator) == CASE indicator = 0 -> 0 [] indicator = 1 -> 4 [] indicator \in {2, 3} -> 6 [] indicator = 4 -> 8
decode_gpkg_geometry(blob) ==
    CASE blob.magic # "GP" \/ blob.indicator > 4 -> Nothing
      [] blob.magic = "GP" /\ blob.indicator <= 4 /\ blob.empty -> Found(Nothing)
      [] OTHER -> IF Len(blob.body) <= EnvelopeLen(blob.indicator) THEN Nothing
                  ELSE decode_wkb(SubSeq(blob.body, EnvelopeLen(blob.indicator) + 1, Len(blob.body)))

---------------------------------------------------------------------------
\* GeoJSON.  A document is its features or Nothing; a feature's geometry is
\* Nothing if null; its coordinates are Nothing if they do not parse.

\* The number of a feature: its position unless it says ne_id.
FidOf(f, i) == IF "ne_id" \in DOMAIN f.props THEN f.props["ne_id"] ELSE i - 1

ParsedGeometry(json) ==
    IF json.coordinates = Nothing
       \/ json.type \notin {"Point", "LineString", "Polygon", "MultiLineString", "MultiPolygon"} THEN Nothing
    ELSE Found(Geometry(json.type, Nested(json.type, json.coordinates[1])))

WithParsed(got, f, i, g) ==
    IF g = Nothing THEN Nothing ELSE Found(Append(got[1], Feature(g[1], f.props, FidOf(f, i))))
from_str(doc) ==
    IF doc = Nothing THEN Nothing
    ELSE LET all == FoldLeft(LAMBDA got, i :
                        IF got = Nothing \/ doc[1][i].geometry = Nothing THEN got
                        ELSE WithParsed(got, doc[1][i], i, ParsedGeometry(doc[1][i].geometry[1])),
                        Found(<<>>), [i \in DOMAIN doc[1] |-> i])
         IN  IF all = Found(<<>>) THEN Nothing ELSE all
=============================================================================
