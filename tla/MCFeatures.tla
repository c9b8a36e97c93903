----------------------------- MODULE MCFeatures -----------------------------
(***************************************************************************)
(* Small files of every kind, written the way other programs write them.   *)
(***************************************************************************)
EXTENDS FgbReader, GeoPackage

Square(x, y, s) == <<<<x, y>>, <<x + s, y>>, <<x + s, y + s>>, <<x, y + s>>, <<x, y>>>>
House == Geometry("Polygon", <<<<Square(0, 0, 6), Square(2, 2, 1)>>>>)
Isles == Geometry("MultiPolygon", <<<<Square(9, 9, 2)>>, <<Square(13, 9, 1)>>>>)
Road  == Geometry("LineString", <<<<<<<<5, 5>>, <<5, 11>>, <<11, 11>>>>>>>>)
Post  == Geometry("Point", <<<<<<<<7, 1>>>>>>>>)
Tracks == Geometry("MultiLineString", <<<<<<<<1, 9>>, <<3, 9>>>>, <<<<1, 11>>, <<1, 13>>>>>>>>)
Named(w) == [name |-> w]

MCWindows == {<<-1, -1, 14, 14>>, <<7, 7, 12, 12>>, <<6, 0, 7, 1>>, <<12, 2, 13, 3>>}

---------------------------------------------------------------------------
\* FlatGeoBuf.

Ends(rings) == [i \in DOMAIN rings |-> Len(FlattenSeq(SubSeq(rings, 1, i)))]
Table(type, xy, ends, parts) == [type |-> type, xy |-> xy, ends |-> ends, parts |-> parts]
Code(type) == CASE type = "Point" -> 1 [] type = "LineString" -> 2 [] type = "Polygon" -> 3
                [] type = "MultiLineString" -> 5 [] type = "MultiPolygon" -> 6
TableOf(g) ==
    IF g.type = "MultiPolygon"
    THEN Table(6, Nothing, <<>>, Found([i \in DOMAIN g.polys |->
            Table(3, Found(FlattenSeq(g.polys[i])), IF Len(g.polys[i]) = 1 THEN <<>> ELSE Ends(g.polys[i]), Nothing)]))
    ELSE Table(Code(g.type), Found(FlattenSeq(g.polys[1])), IF Len(g.polys[1]) = 1 THEN <<>> ELSE Ends(g.polys[1]), Nothing)
MultiPoint == Table(4, Found(<<<<1, 2>>, <<3, 4>>>>), <<>>, Nothing)
Record(table, name) == [verifies |-> TRUE, geometry |-> Found(table), props |-> <<<<1, Found(0)>>, <<0, Found(name)>>>>]
Bad == [verifies |-> FALSE, geometry |-> Nothing, props |-> <<>>]

\* The writer's tree: leaves in record order, a parent for every two.
RECURSIVE LevelsUp(_, _)
LevelsUp(boxes, ns) ==
    LET parents == [i \in 1 .. (Len(boxes) + ns - 1) \div ns |->
                       Union(SubSeq(boxes, (i - 1) * ns + 1, IF i * ns < Len(boxes) THEN i * ns ELSE Len(boxes)))]
    IN  IF Len(parents) = 1 THEN parents ELSE LevelsUp(parents, ns) \o parents
Tree(boxes, offsets, ns) ==
    FlattenSeq([i \in DOMAIN LevelsUp(boxes, ns) |-> LevelsUp(boxes, ns)[i] \o <<0>>]
               \o [i \in DOMAIN boxes |-> boxes[i] \o <<offsets[i]>>])

Columns2 == <<<<"name", 11>>, <<"raw", 14>>>>
FgbFile(header, boxes, offsets, ns, records, held, corrupt, places, lazy) ==
    [kind |-> "fgb", magic |-> "fgb", header |-> Found(header), force_lazy |-> lazy,
     index |-> IF ns < 2 THEN <<>> ELSE Tree(boxes, offsets, ns),
     records |-> records, holds |-> held, boxes |-> boxes, corrupt |-> corrupt, places |-> places, bad |-> {}]

LazyFgb ==
    FgbFile([features_count |-> 3, index_node_size |-> 2, columns |-> Columns2],
            <<compute_bbox(House), compute_bbox(Isles), compute_bbox(Road)>>, <<0, 40, 90>>, 2,
            0 :> Record(TableOf(House), "a") @@ 40 :> Record(TableOf(Isles), "b") @@ 90 :> Record(TableOf(Road), "c"),
            {Feature(House, Named("a"), 0), Feature(Isles, Named("b"), 40), Feature(Road, Named("c"), 90)}, {},
            {<<"index", 6>>, <<"records", 40>>}, FALSE)
ResidentFgb ==
    FgbFile([features_count |-> 2, columns |-> Columns2, geometry_type |-> 5, crs_code |-> 3763],
            <<compute_bbox(Tracks), <<1, 2, 3, 4>>>>, <<0, 30>>, 16,
            0 :> Record([TableOf(Tracks) EXCEPT !.type = 0], "t") @@ 30 :> Record(MultiPoint, "m"),
            {Feature(Tracks, Named("t"), 0)}, {}, {<<"index", 3>>, <<"header", 0>>}, FALSE)
UnindexedFgb ==
    FgbFile([features_count |-> 3, index_node_size |-> 0, columns |-> Columns2, envelope |-> <<0, 0, 11, 11>>],
            <<compute_bbox(Post), <<0, 0, 20, 20>>, compute_bbox(Road)>>, <<>>, 0,
            0 :> Record(TableOf(Post), "p") @@ 10 :> Bad @@ 20 :> Record(TableOf(Road), "r"),
            {Feature(Post, Named("p"), 0), Feature(Road, Named("r"), 20)}, {2}, {<<"records", 20>>}, TRUE)
CorruptFgb ==
    FgbFile([features_count |-> 2, index_node_size |-> 4, columns |-> Columns2],
            <<compute_bbox(Post), compute_bbox(Road)>>, <<0, 10>>, 4,
            0 :> Record(TableOf(Post), "p") @@ 10 :> Bad,
            {Feature(Post, Named("p"), 0)}, {2}, {<<"records", 0>>}, FALSE)

---------------------------------------------------------------------------
\* GeoPackage: blobs of either byte order, with an envelope or a third axis.

Flds(order, ns) == [i \in DOMAIN ns |-> Field(order, ns[i])]
Pts(order, z, r) == <<Field(order, Len(r))>> \o FlattenSeq([i \in DOMAIN r |-> Flds(order, IF z THEN r[i] \o <<9>> ELSE r[i])])
Hdr(order, code) == <<Field(order, IF order = LE THEN 1 ELSE 0), Field(order, code)>>
PolyWkb(order, z, rings) ==
    Hdr(order, IF z THEN 1003 ELSE 3) \o <<Field(order, Len(rings))>> \o FlattenSeq([i \in DOMAIN rings |-> Pts(order, z, rings[i])])
LineWkb(order, r) == Hdr(order, 2) \o Pts(order, FALSE, r)
Wkb(order, z, g) ==
    CASE g.type = "Point" -> Hdr(order, 1) \o Flds(order, g.polys[1][1][1])
      [] g.type = "LineString" -> LineWkb(order, g.polys[1][1])
      [] g.type = "Polygon" -> PolyWkb(order, z, g.polys[1])
      [] g.type = "MultiLineString" -> Hdr(order, 5) \o <<Field(order, Len(g.polys[1]))>>
                                       \o FlattenSeq([i \in DOMAIN g.polys[1] |-> LineWkb(order, g.polys[1][i])])
      [] g.type = "MultiPolygon" -> Hdr(order, 6) \o <<Field(order, Len(g.polys))>>
                                    \o FlattenSeq([i \in DOMAIN g.polys |-> PolyWkb(order, z, g.polys[i])])
Envelope(g) == Flds(LE, <<compute_bbox(g)[1], compute_bbox(g)[3], compute_bbox(g)[2], compute_bbox(g)[4]>>)
Plain(order, z, g) == Sql("blob", Blob(FALSE, 0, Wkb(order, z, g)))
Enveloped(g) == Sql("blob", Blob(FALSE, 1, Envelope(g) \o Wkb(LE, FALSE, g)))
Cut(g) == Sql("blob", Blob(FALSE, 0, Front(Wkb(LE, FALSE, g))))

Row(id, blob, name) == [id |-> Sql("integer", id), shape |-> blob, name |-> name, raw |-> NULL]
ColumnsOf == <<Column("id", {"INT"}, TRUE), Column("shape", {"INT"}, FALSE),
               Column("name", {"CHAR"}, FALSE), Column("raw", {"BLOB"}, FALSE)>>
Content(name, extent) == [name |-> name, type |-> "features", description |-> Nothing, extent |-> extent]
Package(contents, named_rows, trees) ==
    [contents |-> contents, geometry_columns |-> [t \in DOMAIN named_rows |-> [column |-> "shape", srs |-> 7]],
     srs |-> 7 :> [organization |-> "EPSG", code |-> 3763],
     tables |-> [t \in DOMAIN named_rows |-> [columns |-> ColumnsOf, rows |-> named_rows[t]]], rtrees |-> trees]
GpkgFile(p, named, held, boxes, corrupt) ==
    [kind |-> "gpkg", package |-> p, named |-> named, holds |-> held, boxes |-> boxes, corrupt |-> corrupt,
     places |-> {"sqlite"}, bad |-> {}]

Text(w) == Sql("text", w)
Parks == <<"parks", "lower">>
Upper == <<"parks", "UPPER">>
\* Row ids with a gap, one row without a geometry, one empty, one cut short.
WindowedGpkg ==
    LET rows == 1 :> Row(1, Enveloped(House), Text("a")) @@ 2 :> Row(2, NULL, Text("n"))
                @@ 3 :> Row(3, Sql("blob", Blob(TRUE, 0, <<>>)), NULL)
                @@ 5 :> Row(5, Plain(BE, TRUE, Isles), NULL) @@ 6 :> Row(6, Cut(Road), Text("x"))
                @@ 8 :> Row(8, Plain(LE, FALSE, Road), Text("c"))
        tree == [id \in {1, 5, 6, 8} |-> Single(compute_bbox(CASE id = 1 -> House [] id = 5 -> Isles [] OTHER -> Road))]
    IN  GpkgFile(Package(<<Content(Parks, Nothing)>>, Parks :> rows, <<Parks, "shape">> :> tree), Nothing,
                 {Feature(House, Named("a"), 1), Feature(Isles, <<>>, 5), Feature(Road, Named("c"), 8)},
                 1 :> compute_bbox(House) @@ 5 :> compute_bbox(Isles) @@ 6 :> compute_bbox(Road) @@ 8 :> compute_bbox(Road),
                 {6})
FiveRows == 3 :> Row(3, Plain(LE, FALSE, House), Text("a")) @@ 4 :> Row(4, Plain(BE, FALSE, Tracks), Text("t"))
            @@ 5 :> Row(5, NULL, Text("n")) @@ 6 :> Row(6, Plain(LE, FALSE, Post), Text("p"))
            @@ 7 :> Row(7, Plain(LE, FALSE, Road), Text("r"))
FiveHeld == {Feature(House, Named("a"), 3), Feature(Tracks, Named("t"), 4), Feature(Post, Named("p"), 6),
             Feature(Road, Named("r"), 7)}
\* Named, though a second table differs from it in case only.
WholeGpkg ==
    GpkgFile(Package(<<Content(Upper, Nothing), Content(Parks, Found(<<0, 0, 9, 9>>))>>,
                     Upper :> (1 :> Row(1, Plain(LE, FALSE, Post), NULL)) @@ Parks :> FiveRows, <<>>),
             Found(Parks), FiveHeld, <<>>, {})

---------------------------------------------------------------------------
\* GeoJSON: one geometry null, one feature with a number of its own.

JsonOf(g) == [type |-> g.type, coordinates |-> Found(CASE g.type = "Point" -> g.polys[1][1][1]
                 [] g.type = "LineString" -> g.polys[1][1] [] g.type = "MultiPolygon" -> g.polys [] OTHER -> g.polys[1])]
JsonFeature(geometry, props) == [geometry |-> geometry, props |-> props]
JsonFile ==
    [kind |-> "geojson", bad |-> {}, places |-> {"file"}, boxes |-> <<>>, corrupt |-> {},
     doc |-> Found(<<JsonFeature(Found(JsonOf(House)), Named("a")), JsonFeature(Nothing, Named("n")),
                     JsonFeature(Found(JsonOf(Isles)), Named("b")), JsonFeature(Found(JsonOf(Post)), [ne_id |-> 12])>>),
     holds |-> {Feature(House, Named("a"), 0), Feature(Isles, Named("b"), 2), Feature(Post, [ne_id |-> 12], 12)}]

MCFiles == {LazyFgb, ResidentFgb, UnindexedFgb, CorruptFgb, WindowedGpkg, WholeGpkg, JsonFile}
=============================================================================
