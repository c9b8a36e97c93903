----------------------------- MODULE MCMvtTiles -----------------------------
(***************************************************************************)
(* Small layers on a world of 64 units a side, 16 grid units and 4 pixels  *)
(* to a tile, zooms 0 to 2; in the stretched CRS, 32 by 24 units.          *)
(***************************************************************************)
EXTENDS Geometries

Str(w) == <<"str", w>>
Num(n) == <<"num", n>>
Null == <<"null", "">>
Box(x, y, w, h) == <<<<x, y>>, <<x + w, y>>, <<x + w, y + h>>, <<x, y + h>>, <<x, y>>>>
\* The same ring the other way round: winding is not to be relied on.
BoxBack(x, y, w, h) == Reverse(Box(x, y, w, h))
Poly(rings) == Geometry("Polygon", <<rings>>)
Multi(polys) == Geometry("MultiPolygon", polys)
Line(points) == Geometry("LineString", <<<<points>>>>)
Lines(parts) == Geometry("MultiLineString", <<parts>>)
Point(p) == Geometry("Point", <<<<<<p>>>>>>)
Numbered(gs) == [i \in DOMAIN gs |-> Feature(gs[i][1], gs[i][2], i)]

Off == <<0, 1>>
Plain == [max_features |-> 20, no_safety_limit |-> FALSE, no_optimizations |-> FALSE,
          min_feature_px |-> Off, min_feature_min_zoom |-> 0, len_spec |-> <<>>,
          cell_px |-> 0, cell_field |-> Nothing, cell_max_zoom |-> 0,
          dissolve_field |-> Nothing, dissolve_max_zoom |-> 0, fine_extent_zoom |-> 0]
Step(zoom, value) == [zoom |-> zoom, value |-> value]
Layer(kind, crs, extent, features, matched, settings) ==
    [kind |-> kind, crs |-> crs, extent |-> extent, features |-> features, matched |-> matched, settings |-> settings]

---------------------------------------------------------------------------
\* A hole, parts, edges between tiles, and things too small to see.

ParcelFeatures == Numbered(<<
    <<Poly(<<Box(4, 4, 40, 24), BoxBack(10, 8, 12, 12)>>), [use |-> Str("farm"), floors |-> Num("2")]>>,
    <<Multi(<<<<BoxBack(50, 50, 10, 10)>>, <<Box(30, 34, 6, 20)>>>>), [use |-> Str("town"), floors |-> Null]>>,
    <<Line(<<<<2, 2>>, <<2, 60>>, <<40, 60>>>>), [use |-> Str("2")]>>,
    <<Lines(<<<<<<20, 40>>, <<20, 46>>>>, <<<<24, 46>>, <<70, 46>>>>>>), [use |-> Num("2")]>>,
    <<Poly(<<Box(17, 33, 1, 1)>>), [use |-> Str("shed")]>>,
    <<Line(<<<<33, 20>>, <<34, 20>>>>), <<>>>>,
    <<Point(<<32, 47>>), [use |-> Str("well")]>>>>)
Parcels == Layer("held", 3857, <<2, 2, 70, 60>>, ParcelFeatures, FALSE,
                 [Plain EXCEPT !.no_safety_limit = TRUE, !.max_features = 1, !.fine_extent_zoom = 1,
                               !.len_spec = <<Step(Found(2), Found(<<1, 2>>)), Step(Found(0), Found(<<1, 4>>))>>])

\* In a database, in the stretched CRS; a vertex lies outside its domain.
HouseFeatures == Numbered(<<
    <<Poly(<<Box(2, 2, 10, 10)>>), [use |-> Str("a"), year |-> Num("9")]>>,
    <<Poly(<<Box(14, 16, 3, 6)>>), [use |-> Str("b"), year |-> Num("7")]>>,
    <<Multi(<<<<Box(20, 2, 4, 4)>>, <<Box(26, 2, 14, 4)>>>>), [use |-> Str("c")]>>,
    <<Poly(<<Box(12, 1, 1, 2)>>), [use |-> Str("d"), year |-> Num("8")]>>,
    <<Line(<<<<4, 14>>, <<12, 14>>>>), [use |-> Str("e")]>>>>)
Houses == Layer("postgis", 3763, <<0, 0, 32, 24>>, HouseFeatures, FALSE,
                [Plain EXCEPT !.min_feature_px = <<1, 4>>, !.min_feature_min_zoom = 1,
                              !.len_spec = <<Step(Nothing, Found(<<1, 2>>))>>])

---------------------------------------------------------------------------
\* Classes: overlapping, of two types, missing, too small.

LanduseFeatures == Numbered(<<
    <<Poly(<<Box(0, 0, 32, 64)>>), [use |-> Str("3")]>>,
    <<Multi(<<<<Box(24, 8, 24, 16), BoxBack(28, 12, 8, 8)>>, <<Box(40, 40, 8, 8)>>>>), [use |-> Num("3")]>>,
    <<Poly(<<Box(8, 40, 1, 1)>>), [use |-> Str("pond")]>>,
    <<Poly(<<Box(52, 52, 6, 6)>>), [use |-> Null, name |-> Str("x")]>>,
    <<Line(<<<<4, 20>>, <<60, 20>>>>), [use |-> Str("road")]>>>>)
Landuse == Layer("held", 3857, <<0, 0, 64, 64>>, LanduseFeatures, FALSE,
                 [Plain EXCEPT !.cell_px = 1, !.cell_field = Found("use"), !.cell_max_zoom = 1])
CoarseLanduse == Layer("postgis", 3857, <<0, 0, 64, 64>>, LanduseFeatures, FALSE,
                       [Plain EXCEPT !.cell_px = 3, !.cell_field = Found("use"), !.min_feature_px = <<1, 1>>])

\* Squares that share whole borders, around a hole and across a corner.
ZoneFeatures == Numbered(<<
    <<Multi(<<<<Box(8, 8, 8, 8)>>, <<BoxBack(16, 8, 8, 8)>>>>), [use |-> Str("a")]>>,
    <<Multi(<<<<Box(24, 8, 8, 8)>>, <<Box(24, 16, 8, 8)>>>>), [use |-> Str("a")]>>,
    <<Multi(<<<<Box(8, 16, 8, 8)>>, <<Box(8, 24, 8, 8)>>, <<Box(16, 24, 8, 8)>>>>), [use |-> Str("a")]>>,
    <<Multi(<<<<Box(24, 24, 8, 8)>>, <<Box(18, 18, 2, 2)>>, <<Box(32, 32, 8, 8)>>>>), [use |-> Str("a")]>>,
    <<Poly(<<Box(16, 32, 16, 24)>>), [use |-> Str("b")]>>, <<Point(<<40, 12>>), [use |-> Str("a")]>>>>)
Zones == Layer("held", 3857, <<8, 8, 40, 56>>, ZoneFeatures, TRUE,
               [Plain EXCEPT !.dissolve_field = Found("use"), !.dissolve_max_zoom = 2, !.cell_px = 4, !.cell_field = Found("use")])
\* Borders of which only a part is shared, and one polygon with a hole that
\* another fills; a sliver that collapses on the coarse grid, between two.
MixedFeatures == Numbered(<<
    <<Poly(<<Box(0, 0, 16, 32), Box(4, 4, 8, 8)>>), [use |-> Str("a")]>>,
    <<Poly(<<Box(16, 8, 12, 8)>>), [use |-> Str("a")]>>,
    <<Poly(<<Box(4, 4, 8, 8)>>), [use |-> Str("a")]>>,
    <<Poly(<<Box(40, 0, 8, 8)>>), [use |-> Str("b")]>>,
    <<Poly(<<<<<<48, 8>>, <<49, 8>>, <<49, 0>>, <<48, 0>>, <<48, 8>>>>>>), [use |-> Str("b")]>>,
    <<Poly(<<Box(49, 0, 7, 8)>>), [use |-> Str("b")]>>>>)
Mixed == Layer("held", 3857, <<0, 0, 56, 32>>, MixedFeatures, FALSE, [Plain EXCEPT !.dissolve_field = Found("use")])

---------------------------------------------------------------------------
\* More than a tile may hold, and than a query may return.

Wells(n) == [i \in 1 .. n |-> Feature(Point(<<7 * i, 30 + i>>), [use |-> Str("well")], i)]
Crowded == Layer("held", 3857, <<7, 31, 35, 35>>, Wells(5), FALSE, [Plain EXCEPT !.max_features = 2, !.no_optimizations = TRUE])
Capped == Layer("postgis", 3857, <<7, 31, 56, 38>>, Wells(8), FALSE, Plain)

\* Refused when the server starts.
Refused == {[Plain EXCEPT !.len_spec = <<Step(Found(1), Found(<<1, 1>>)), Step(Found(1), Found(<<2, 1>>))>>],
            [Plain EXCEPT !.len_spec = <<Step(Found(0), Nothing)>>], [Plain EXCEPT !.cell_px = 4]}

MCCoverages == {Parcels, Houses, Landuse, CoarseLanduse, Zones, Mixed, Crowded, Capped}
               \cup {Layer("held", 3857, <<7, 31, 7, 31>>, Wells(1), FALSE, s) : s \in Refused}

MCAddresses == {<<0, 0, 0>>, <<1, 2, 0>>} \cup ({1} \X (0 .. 1) \X (0 .. 1)) \cup ({2} \X (0 .. 3) \X (0 .. 3))
CutOf(lo, hi) == [name |-> "parks", min_zoom |-> lo, max_zoom |-> hi, no_columns |-> FALSE, columns |-> Nothing,
                  keep_fields |-> Nothing, extent |-> Nothing]
MCCuts == {CutOf(0, 1), [CutOf(1, 2) EXCEPT !.columns = Found({"use"}), !.keep_fields = Found({"use", "year"})],
           [CutOf(1, 1) EXCEPT !.no_columns = TRUE, !.extent = Found(<<0, 0, 34, 34>>)], CutOf(2, 1), CutOf(0, 27)}
MCClasses == <<Num("2"), Num("3"), Num("7"), Num("8"), Num("9"), Str("3"), Str("a"), Str("b"), Str("c"), Str("d"), Str("pond")>>
=============================================================================
