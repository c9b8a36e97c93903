---------------------------- MODULE WmsRequests ----------------------------
(***************************************************************************)
(* The WMS front end (wms.rs): one operator per request, from the decoded  *)
(* parameters to the answer.  A query is a function from the parameters    *)
(* given to their values; a comma list is the sequence of its trimmed      *)
(* items, so a blank parameter is <<"">>.  A number is an integer that is  *)
(* negative when it does not parse as the unsigned type the code wants.    *)
(* A layer is [name, kind, styled, crs, bounds, features]; kind says what  *)
(* it is published from: "cog", "vector", or "bare" for neither.  What the *)
(* source does with the read (io) is "ok" or "fails".                      *)
(***************************************************************************)
EXTENDS Crs, SequencesExt

CONSTANTS NotANumber, Infinite    \* BBOX items that do not parse, or parse to no finite number

V11 == "1.1.1"
V13 == "1.3.0"
NoCode == "none"

has(q, k) == k \in DOMAIN q
list(q, k) == IF has(q, k) THEN q[k] ELSE <<"">>
With(q, more) == [k \in DOMAIN q \cup DOMAIN more |-> IF k \in DOMAIN more THEN more[k] ELSE q[k]]
value(q, k, default) == IF has(q, k) THEN q[k] ELSE default

\* The pairs of the query string in order; the first of a repeated key counts.
parse_kvp(pairs) ==
    [k \in {p[1] : p \in ToSet(pairs)} |-> pairs[Min({i \in DOMAIN pairs : pairs[i][1] = k})][2]]

Exception(version, code) == [kind |-> "exception", code |-> code, version |-> version]

---------------------------------------------------------------------------
\* A version is <<major, minor, patch>>, or <<>> when it does not parse or is absent.
NotBelow(v, w) == \/ v[1] > w[1]
                  \/ v[1] = w[1] /\ v[2] > w[2]
                  \/ v[1] = w[1] /\ v[2] = w[2] /\ v[3] >= w[3]

negotiate_version(v) == IF v = <<>> \/ NotBelow(v, <<1, 3, 0>>) THEN V13 ELSE V11

requested_version(q) == value(q, "version", value(q, "wmtver", <<>>))
VersionGiven(q) == has(q, "version") \/ has(q, "wmtver")

normalize_request(r) ==
    CASE r = "map" -> "getmap"
      [] r = "capabilities" -> "getcapabilities"
      [] r = "feature_info" -> "getfeatureinfo"
      [] OTHER -> r

---------------------------------------------------------------------------
LayerNames(layers) == {l.name : l \in ToSet(layers)}
LayerNamed(layers, name) == FirstOf(layers, {i \in DOMAIN layers : layers[i].name = name})

\* An empty name is the first layer; a name that nobody has is never replaced by another.
NotFound == [kind |-> "not found"]
NoLayers == [kind |-> "no layers"]
pick_layer(layers, name) ==
    IF layers = <<>> THEN NoLayers
    ELSE IF name = "" THEN layers[1]
    ELSE IF name \notin LayerNames(layers) THEN NotFound
    ELSE LayerNamed(layers, name)[1]

AnyUndefined(layers, tokens) == \E t \in ToSet(tokens) : t # "" /\ t \notin LayerNames(layers)

Named(tokens) == Picked(tokens, {i \in DOMAIN tokens : tokens[i] # ""})
query_layer_tokens(q) ==
    IF Named(list(q, "query_layers")) # <<>> \/ Len(list(q, "query_layers")) > 1
    THEN list(q, "query_layers") ELSE list(q, "layers")

---------------------------------------------------------------------------
\* What a map and a click on it share: the window, its CRS and its size in pixels.
MaxDim == 8192
Swapped(b) == <<b[2], b[1], b[4], b[3]>>

InEveryVersion(version, crs) == crs_is_northing_first(crs)       \* mutant: 1.1.1 flips too
NorthingFirst(version, crs) == version = V13 /\ crs # "CRS:84" /\ crs_is_northing_first(crs)

parse_map_frame(version, q, native) ==
    LET crs == value(q, "crs", value(q, "srs", "")) IN
    IF ~has(q, "crs") /\ ~has(q, "srs") THEN Exception(version, NoCode)
    ELSE IF ~is_supported_crs(crs) /\ crs # native
         THEN Exception(version, IF version = V13 THEN "InvalidCRS" ELSE "InvalidSRS")
    ELSE IF ~({"bbox", "width", "height"} \subseteq DOMAIN q) THEN Exception(version, NoCode)
    ELSE IF ~({q["width"], q["height"]} \subseteq 1..MaxDim) THEN Exception(version, NoCode)
    ELSE IF Len(q["bbox"]) # 4 \/ Meet(ToSet(q["bbox"]), {NotANumber, Infinite})
         THEN Exception(version, NoCode)
    ELSE LET box == IF NorthingFirst(version, crs) THEN Swapped(q["bbox"]) ELSE q["bbox"] IN
         IF box[1] < box[3] /\ box[2] < box[4]
         THEN [kind |-> "frame", bbox |-> box, width |-> q["width"], height |-> q["height"],
               crs |-> IF crs = "CRS:84" THEN "EPSG:4326" ELSE crs]
         ELSE Exception(version, NoCode)

validate_getmap_format(q) == value(q, "format", "") \in {"", "image/png"}
validate_styles(q) == ToSet(list(q, "styles")) \subseteq {""}

\* FALSE unless TRANSPARENT says so; then the picture is laid on BGCOLOR, white unless it is six digits.
parse_transparent(q) == value(q, "transparent", "FALSE") = "TRUE"
parse_bgcolor(q) == value(q, "bgcolor", "white")
Background(q) == IF parse_transparent(q) THEN "clear" ELSE parse_bgcolor(q)

\* The rest of a map request, the same for a COG and a vector layer.
get_map(layer, version, q, io) ==
    LET f == parse_map_frame(version, q, layer.crs) IN
    IF ~validate_getmap_format(q) THEN Exception(version, "InvalidFormat")
    ELSE IF ~validate_styles(q) THEN Exception(version, "StyleNotDefined")
    ELSE IF f.kind = "exception" THEN f
    ELSE IF io = "fails" THEN Exception(version, NoCode)
    ELSE [kind |-> "map", layer |-> layer.name, frame |-> f, background |-> Background(q)]

get_map_layer(layer, version, q, io) ==
    IF layer.kind = "bare" \/ (layer.kind = "cog" /\ ~layer.styled)
    THEN Exception(version, NoCode) ELSE get_map(layer, version, q, io)

---------------------------------------------------------------------------
Square(n) == n * n

\* A horizontal ray to the east: an edge counts when it crosses the height of the point, its lower
\* end included and its upper end not, to the east of it.
CrossesAtBothEnds(p, a, b) ==       \* mutant: both ends of an edge count
    /\ Min({a[2], b[2]}) <= p[2] /\ p[2] <= Max({a[2], b[2]})
    /\ (p[1] - a[1]) * Square(b[2] - a[2]) < (b[1] - a[1]) * (p[2] - a[2]) * (b[2] - a[2])
Crosses(p, a, b) ==
    /\ (a[2] > p[2]) # (b[2] > p[2])
    /\ LET cross == (p[1] - a[1]) * (b[2] - a[2]) - (b[1] - a[1]) * (p[2] - a[2])
       IN  IF b[2] > a[2] THEN cross < 0 ELSE cross > 0

point_in_ring(p, ring) ==
    /\ Len(ring) >= 3
    /\ Cardinality({i \in 1..Len(ring) :
                        Crosses(p, ring[i], ring[IF i = 1 THEN Len(ring) ELSE i - 1])}) % 2 = 1

point_in_polygon(p, rings) ==
    /\ rings # <<>>
    /\ point_in_ring(p, rings[1])
    /\ \A h \in 2..Len(rings) : ~point_in_ring(p, rings[h])

\* Distances in the window's own units; its pixels are square in every query built here.
PixelSize(f) == (f.bbox[3] - f.bbox[1]) \div f.width
Tolerance == 12

\* The place under pixel <<i, j>>, counted in half pixels from the top left corner.
UnderPixel(f, px) == <<f.bbox[1] + (px[1] * (f.bbox[3] - f.bbox[1])) \div (2 * f.width),
                       f.bbox[4] - (px[2] * (f.bbox[4] - f.bbox[2])) \div (2 * f.height)>>

Distance2(f, px, at, native) ==
    LET g == to_source(native, f.crs, at)
    IN  Square(g[1] - UnderPixel(f, px)[1]) + Square(g[2] - UnderPixel(f, px)[2])

\* Polygons around the place in document order, then points within the tolerance, nearest first.
collect_gfi_hits(features, f, px, native, count) ==
    LET place == to_source(f.crs, native, UnderPixel(f, px))
        far(x) == Distance2(f, px, x.at, native)
        polys == SelectSeq(features, LAMBDA x : x.geom = "polygon" /\ point_in_polygon(place, x.rings))
        points == SelectSeq(features, LAMBDA x : /\ x.geom = "point"
                                                 /\ far(x) <= Square(Tolerance * PixelSize(f)))
        hits == polys \o SortSeq(points, LAMBDA x, y : far(x) < far(y))
    IN  SubSeq(hits, 1, Min({Len(hits), Max({count, 1})}))

---------------------------------------------------------------------------
\* I and J in 1.3, X and Y before; a coordinate is in half pixels, and only a vector layer reads
\* fractions.
PixelOf(version) == IF version = V13 THEN <<"i", "j">> ELSE <<"x", "y">>
InvalidPoint(version, q, f, whole) ==
    LET k == PixelOf(version) IN
    \/ ~(ToSet(k) \subseteq DOMAIN q)
    \/ whole /\ (q[k[1]] % 2 = 1 \/ q[k[2]] % 2 = 1)
    \/ q[k[1]] \notin 0..(2 * f.width - 1) \/ q[k[2]] \notin 0..(2 * f.height - 1)

RasterFormats == {"text/plain", "application/json", "text/html"}
VectorFormats == RasterFormats \cup {"application/vnd.ogc.gml"}
info_format(q) == value(q, "info_format", "text/plain")

Clicked(version, q) == <<q[PixelOf(version)[1]], q[PixelOf(version)[2]]>>

\* The common start of both kinds: frame, pixel and format, in this order.
ClickError(layer, version, q, formats, whole) ==
    LET f == parse_map_frame(version, q, layer.crs) IN
    IF f.kind = "exception" THEN f
    ELSE IF InvalidPoint(version, q, f, whole) THEN Exception(version, "InvalidPoint")
    ELSE IF info_format(q) \notin formats THEN Exception(version, "InvalidFormat")
    ELSE f

\* A pixel of a COG: a value, or nodata, or outside of it; JSON says the last two alike.
format_feature_info(format, sample) ==
    [kind |-> "info", type |-> format,
     hits |-> IF format = "application/json" /\ sample # "value" THEN <<>> ELSE <<[geom |-> sample]>>]

get_feature_info(layer, version, q, io) ==
    LET f == ClickError(layer, version, q, RasterFormats, TRUE) IN
    IF f.kind = "exception" THEN f
    ELSE IF io = "fails" THEN Exception(version, NoCode)
    ELSE format_feature_info(info_format(q), "value")

\* GeoJSON is in WGS84: hits that cannot be brought there are left out of it.
Shown(layer, format, hits) ==
    IF format = "application/json" /\ ~CanTransform(layer.crs, "EPSG:4326") THEN <<>> ELSE hits

\* The source is read in full detail whatever the scale; no hit is an answer, a failed read is not.
get_feature_info_vector(layer, version, q, io) ==
    LET f == ClickError(layer, version, q, VectorFormats, FALSE) IN
    IF f.kind = "exception" THEN f
    ELSE IF ~CanTransform(layer.crs, f.crs) \/ io = "fails" THEN Exception(version, NoCode)
    ELSE [kind |-> "info", type |-> info_format(q),
          hits |-> Shown(layer, info_format(q), collect_gfi_hits(layer.features, f, Clicked(version, q), layer.crs,
                                                                 value(q, "feature_count", 1)))]

InfoOf(picked, version, q, io) ==
    CASE picked.kind = "not found" -> Exception(version, "LayerNotDefined")
      [] picked.kind = "no layers" -> Exception(version, NoCode)
      [] OTHER -> CASE picked.kind = "vector" -> get_feature_info_vector(picked, version, q, io)
                    [] picked.kind = "cog" -> get_feature_info(picked, version, q, io)
                    [] OTHER -> Exception(version, NoCode)

---------------------------------------------------------------------------
StandardCrs == {"EPSG:4326", "EPSG:3857", "EPSG:3763"}
crs_lines(version, native) == StandardCrs \cup {native} \cup (IF version = V13 THEN {"CRS:84"} ELSE {})

Union(a, b) == <<Min({a[1], b[1]}), Min({a[2], b[2]}), Max({a[3], b[3]}), Max({a[4], b[4]})>>
RootBounds(layers) == FoldLeft(LAMBDA u, l : Union(u, l.bounds), layers[1].bounds, layers)

\* GML is offered in 1.1.1 only, whatever the layers are published from.
capabilities_preamble(version) ==
    [map |-> {"image/png"}, info |-> IF version = V11 THEN VectorFormats ELSE RasterFormats]

capabilities_multi(layers, version) ==
    [kind |-> "capabilities", version |-> version,
     formats |-> capabilities_preamble(version),
     root |-> IF version = V11 /\ layers # <<>> THEN RootBounds(layers) ELSE <<>>,
     layers |-> [i \in DOMAIN layers |->
                    [name |-> layers[i].name, bounds |-> layers[i].bounds,
                     crs |-> crs_lines(version, layers[i].crs)]]]

---------------------------------------------------------------------------
handle_get_map(layers, version, q, io) ==
    LET picked == pick_layer(layers, list(q, "layers")[1]) IN
    IF ~VersionGiven(q) THEN Exception(version, NoCode)
    ELSE IF picked.kind = "no layers" THEN Exception(version, NoCode)
    ELSE IF AnyUndefined(layers, list(q, "layers")) \/ picked.kind = "not found"
         THEN Exception(version, "LayerNotDefined")
    ELSE get_map_layer(picked, version, q, io)

\* Several layers are asked in turn: the first exception is the answer, or all answers joined under
\* the type of the first.  A single one is picked by the first item of the list.
handle_get_feature_info(layers, version, q, io) ==
    LET tokens == query_layer_tokens(q)
        named == Named(tokens)
        answers == [i \in DOMAIN named |-> InfoOf(pick_layer(layers, named[i]), version, q, io)]
        failed == FirstOf(answers, {i \in DOMAIN answers : answers[i].kind = "exception"})
    IN  IF ~VersionGiven(q) THEN Exception(version, NoCode)
        ELSE IF layers # <<>> /\ AnyUndefined(layers, tokens) THEN Exception(version, "LayerNotDefined")
        ELSE IF Len(named) < 2 THEN InfoOf(pick_layer(layers, tokens[1]), version, q, io)
        ELSE IF failed # <<>> THEN failed[1]
        ELSE [answers[1] EXCEPT !.hits = FlattenSeq([i \in DOMAIN answers |-> answers[i].hits])]

MaxLegend == 2048
legend_size(q) == <<IF value(q, "width", 0) \in 1..MaxLegend THEN q["width"] ELSE 110,
                    IF value(q, "height", 0) \in 1..MaxLegend THEN q["height"] ELSE 256>>

handle_legend(layers, version, q) ==
    LET picked == pick_layer(layers, list(q, "layer")[1]) IN
    IF picked.kind = "not found" THEN Exception(version, "LayerNotDefined")
    ELSE IF picked.kind = "no layers" THEN Exception(version, NoCode)
    ELSE IF picked.styled THEN [kind |-> "legend", layer |-> picked.name, size |-> legend_size(q)]
    ELSE IF picked.kind = "vector" THEN [kind |-> "legend", layer |-> picked.name, size |-> <<>>]
    ELSE Exception(version, NoCode)

handle_layers(layers, q, io) ==
    LET version == negotiate_version(requested_version(q))
        request == normalize_request(value(q, "request", ""))
    IN  CASE request = "getcapabilities" -> capabilities_multi(layers, version)
          [] request = "getmap" -> handle_get_map(layers, version, q, io)
          [] request = "getfeatureinfo" -> handle_get_feature_info(layers, version, q, io)
          [] request = "getlegendgraphic" -> handle_legend(layers, version, q)
          [] OTHER -> Exception(version, NoCode)

\* `terraserve render`: one COG, no layer names; its capabilities describe that COG alone.
dispatch(cog, q, io) ==
    LET version == negotiate_version(requested_version(q))
        request == normalize_request(value(q, "request", ""))
    IN  CASE request = "getcapabilities" -> capabilities_multi(<<cog>>, version)
          [] request = "getmap" /\ VersionGiven(q) -> get_map(cog, version, q, io)
          [] request = "getfeatureinfo" /\ VersionGiven(q) -> get_feature_info(cog, version, q, io)
          [] request = "getlegendgraphic" -> [kind |-> "legend", layer |-> cog.name, size |-> legend_size(q)]
          [] OTHER -> Exception(version, NoCode)
=============================================================================
