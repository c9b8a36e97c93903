------------------------------ MODULE Services ------------------------------
(***************************************************************************)
(* A server from its start to its answers (cmd/serve.rs, server.rs): the   *)
(* operator's arguments become layers or a refusal, and then a client that *)
(* only believes what the capabilities and grid documents say asks for     *)
(* tiles, maps and clicks through every front end.  One request is in      *)
(* flight at a time: what concurrent ones do to each other is modelled in  *)
(* RenderAdmission.  The raster byte cache holds at most one entry here,   *)
(* and may drop or refuse it at any time.                                  *)
(***************************************************************************)
EXTENDS TileRequests

CONSTANTS
    Starts,             \* the arguments an operator may give
    NorthingFirstCrs,   \* the CRSs whose positions are really written northing first
    Estate,             \* for a layer, the box its polygons cover without gap or overlap
    Offsets             \* where a map is centred, from the middle of a layer's data

---------------------------------------------------------------------------
\* What the constants stand for.
Point == Int \X Int
Box == Int \X Int \X Int \X Int
Positive == Nat \ {0}
GridId(id) == id = <<id[1], id[2]>> /\ id[2] \in Nat

\* PROJ tells how positions of a CRS are written: by the name of the first axis, or where that says
\* nothing by its abbreviation, or else by its direction, which may mislead where one of those speaks.
ASSUME AxesAssumption ==
    /\ NorthingFirstCrs \subseteq DOMAIN Axes \ {"CRS:84"}
    /\ \A c \in DOMAIN Axes :
        LET a == Axes[c]
            northing == Meet(a.words, {"northing", "latitude"})
            easting == Meet(a.words, {"easting", "longitude"})
        IN  /\ ~(northing /\ easting)
            /\ northing => c \in NorthingFirstCrs
            /\ easting => c \notin NorthingFirstCrs
            /\ ~northing /\ ~easting =>
                /\ a.abbrev \in {"n", "y", "lat"} => c \in NorthingFirstCrs
                /\ a.abbrev \in {"e", "x", "lon", "long"} => c \notin NorthingFirstCrs
                /\ a.abbrev \notin {"n", "y", "lat", "e", "x", "lon", "long"} =>
                    (c \in NorthingFirstCrs <=> a.direction \in {"north", "south"})

ASSUME PlaneAssumption ==
    "EPSG:4326" \in DOMAIN Shift /\ (\A c \in DOMAIN Shift : Shift[c] \in Point) /\ Offsets \subseteq Point

ASSUME NumbersAssumption == NotANumber \notin Int /\ Infinite \notin Int

Entries == UNION {ToSet(a.layers) : a \in Starts}
References == UNION {ToSet(lc.grids) : lc \in Entries}

\* The unit of length is such that every cell of a preset that is published is whole.
PresetSizes ==
    ({lc.px : lc \in Entries}
     \cup {r.id[2] : r \in {x \in References : x.doc = <<>> /\ x.id[1] \in PresetNames}}) \ {0}
ASSUME UnitAssumption ==
    /\ Zooms \in Positive /\ World \in Positive /\ World % 4 = 0
    /\ \A px \in PresetSizes, k \in 1..Zooms : World % (px * 2^(k - 1)) = 0

\* What an operator gives has sizes, which the program does not check.
DocumentOk(d) ==
    /\ GridId(d.id) /\ d.matrices \in Seq(ToSet(d.matrices))
    /\ \A k \in DOMAIN d.matrices : LET m == d.matrices[k] IN
        m.corner \in Point /\ m.cell \in Nat /\ {m.tile_w, m.tile_h} \subseteq Positive /\ {m.w, m.h} \subseteq Nat
CogOk(c) == c.origin \in Point /\ {c.cell, c.cell_h} \subseteq Positive /\ {c.width, c.height, c.overviews} \subseteq Nat
CustomOk(gc) ==
    /\ gc.origin \in Point /\ gc.px \in Positive /\ gc.extent \in Box
    /\ gc.resolutions \in Seq(Positive) /\ gc.resolutions # <<>>
EntryOk(lc) ==
    /\ lc.px \in Positive /\ lc.grids \in Seq(ToSet(lc.grids))
    /\ Given(lc.cog) => CogOk(lc.cog)
    /\ Given(lc.vector) => ExtentOf(lc) \in Box
    /\ \A r \in ToSet(lc.grids) : IF r.doc = <<>> THEN GridId(r.id) ELSE DocumentOk(r.doc[1])

Decoys == {"ignored", "nobody"}     \* names a client writes that no layer has
ASSUME StartsAssumption ==
    /\ \A lc \in Entries : EntryOk(lc)
    /\ \A a \in Starts :
        /\ a.layers \in Seq(Entries)
        /\ \A id \in DOMAIN a.custom : CustomOk(a.custom[id])
        /\ a.mode # "config" => \A i \in DOMAIN a.layers : Given(a.layers[i].cog) \/ Given(a.layers[i].vector)
        /\ \A i \in DOMAIN a.layers : a.layers[i].name \notin {""} \cup Decoys

---------------------------------------------------------------------------
VARIABLES
    stage,      \* "down", "refused" or "up"
    args,       \* what the operator gave
    layers,     \* what the server publishes
    png,        \* the raster byte cache: a set of [key, bytes]
    asked       \* the answer being looked at, and what was asked; Nothing before

vars == <<stage, args, layers, png, asked>>

Nothing == [what |-> "nothing"]

Init == /\ stage = "down" /\ args \in Starts
        /\ layers = <<>> /\ png = {} /\ asked = Nothing

\* What each start comes to: a function of the arguments alone, as nothing else runs yet.
Outcome == [a \in Starts |-> run_serve(a)]

Start ==
    /\ stage = "down"
    /\ \/ Outcome[args].kind = "refused" /\ stage' = "refused" /\ UNCHANGED layers
       \/ Outcome[args].kind = "serving" /\ stage' = "up" /\ layers' = Outcome[args].layers
    /\ UNCHANGED <<args, png, asked>>

Ready == stage = "up" /\ asked = Nothing
CacheEmpty == png = {}      \* bounds the requests that never look at the cache to one state of it

---------------------------------------------------------------------------
\* The byte cache.  An error is not kept.
raster_tile_key(front_end, parts) == <<front_end>> \o parts

Held(key) == {e \in png : e.key = key}
cached_or_render_png(key, rendered) == IF Held(key) # {} THEN (CHOOSE e \in Held(key) : TRUE).bytes ELSE rendered

Remember(key, answer) ==
    IF Held(key) # {} \/ answer.kind \notin {"tile", "map"} THEN UNCHANGED png
    ELSE png' \in {png, {[key |-> key, bytes |-> answer]}}

Evict == stage = "up" /\ png # {} /\ png' = {} /\ UNCHANGED <<stage, args, layers, asked>>

---------------------------------------------------------------------------
\* Tiles.  A view is an address as the WMTS capabilities give it, in or just beside a matrix.
Places(set) ==
    UNION {{z} \X {0, set.levels[z + 1].matrix_w - 1, set.levels[z + 1].matrix_w}
               \X {0, set.levels[z + 1].matrix_h - 1, set.levels[z + 1].matrix_h} :
           z \in {0, 1} \cap {j - 1 : j \in DOMAIN set.levels}}
SetNamed(doc, id) == CHOOSE s \in doc.sets : s.id = id
LinkViews(doc, l, k) ==
    {[layer |-> l.name, set |-> SetNamed(doc, l.links[k].tms), limits |-> l.links[k].limits, first |-> k = 1,
      z |-> p[1], col |-> p[2], row |-> p[3]] : p \in Places(SetNamed(doc, l.links[k].tms))}
TileViews ==
    LET doc == wmts_capabilities(layers) IN
    UNION {UNION {LinkViews(doc, l, k) : k \in DOMAIN l.links} : l \in doc.layers}

\* The ground box of a view, reckoned from the document alone.
BoxFrom(origin, set, v) ==
    LET w == set.tile_w * set.levels[v.z + 1].resolution
        h == set.tile_h * set.levels[v.z + 1].resolution
    IN  <<origin[1] + v.col * w, origin[2] - (v.row + 1) * h, origin[1] + (v.col + 1) * w, origin[2] - v.row * h>>

Eastward(corner, crs) == IF crs \in NorthingFirstCrs THEN <<corner[2], corner[1]>> ELSE corner
ClientBox(v) == BoxFrom(Eastward(v.set.corner, v.set.crs), v.set, v)

InAdvertisedMatrix(v) ==
    v.col < v.set.levels[v.z + 1].matrix_w /\ v.row < v.set.levels[v.z + 1].matrix_h
InLimits(v) ==
    LET l == v.limits[v.z + 1] IN
    v.limits = <<>> \/ (l # <<>> /\ v.col \in l[1]..l[2] /\ v.row \in l[3]..l[4])

\* TMS describes a grid by its lower left corner only, if it finds it: a client counts rows up from there.
TmsTells(v) == tilemap_doc(layers, v.layer, v.set.id).kind = "tilemap"
TmsRow(v) ==
    LET h == v.set.tile_h * v.set.levels[v.z + 1].resolution
    IN  (ClientBox(v)[2] - tilemap_doc(layers, v.layer, v.set.id).origin[2]) \div h

Parts(v) == <<v.layer, "default", v.set.id, v.z, v.row, v.col>>
Addressed(v, style) ==
    [layer |-> v.layer, style |-> style, tms |-> v.set.id, z |-> v.z, row |-> v.row, col |-> v.col]

\* The layer alone addresses its first grid.
tms_tile_handler(v, id, io) ==
    LET y == TmsRow(v)
        key == raster_tile_key("tms", <<v.layer, id, v.z, v.col, y>>)
    IN  /\ asked' = [what |-> "tile", via |-> "tms", view |-> v, io |-> io,
                     answer |-> cached_or_render_png(key, render_tms_tile(layers, v.layer, id, v.z, v.col, y, io))]
        /\ Remember(key, asked'.answer)

wmts_rest_tile_handler(v, io) ==
    LET key == raster_tile_key("wmts", Parts(v))
    IN  /\ asked' = [what |-> "tile", via |-> "rest", view |-> v, io |-> io,
                     answer |-> cached_or_render_png(key, wmts_get_tile(layers, Addressed(v, "default"), io))]
        /\ Remember(key, asked'.answer)

\* The key-value binding: what is asked goes through the parser first.  Only the image is cached.
TilePairs(v, format) ==
    <<<<"layer", "ignored">>, <<"service", "wmts">>, <<"request", "gettile">>, <<"layer", v.layer>>,
      <<"tilematrixset", v.set.id>>, <<"tilematrix", v.z>>, <<"tilerow", v.row>>, <<"tilecol", v.col>>,
      <<"format", format>>>>

KvpRequests(v) ==
    {[via |-> "kvp", pairs |-> TilePairs(v, "image/png")], [via |-> "mvt kvp", pairs |-> TilePairs(v, MvtFormat)]}
    \cup {[via |-> "spoilt", pairs |-> RemoveAt(TilePairs(v, "image/png"), p)] : p \in {4, 6}}

KvpKey(t) == raster_tile_key("wmts", <<t.layer, t.style, t.tms, t.z, t.row, t.col>>)
KvpAnswer(t, io) ==
    IF t.kind = "error" THEN t
    ELSE IF t.format = MvtFormat THEN get_tile_mvt(layers, t, io)
    ELSE cached_or_render_png(KvpKey(t), wmts_get_tile(layers, t, io))

wmts_kvp_handler(v, via, pairs, io) ==
    LET t == wmts_parse_kvp(wmts_kvp(pairs)) IN
    /\ asked' = [what |-> "tile", via |-> via, view |-> v, io |-> io, answer |-> KvpAnswer(t, io)]
    /\ IF t.kind = "error" THEN UNCHANGED png ELSE Remember(KvpKey(t), asked'.answer)

mvt_tile_handler(v, io) ==
    /\ asked' = [what |-> "tile", via |-> "mvt", view |-> v, io |-> io,
                 answer |-> mvt_tile(layers, v.layer, v.set.id, v.z, v.col, v.row, io)]
    /\ UNCHANGED png

AskTile ==
    /\ Ready
    /\ \E v \in TileViews, io \in {"ok", "fails"} :
        \/ /\ is_level_invariant(v.set) /\ TmsTells(v) /\ TmsRow(v) >= 0
           /\ \E id \in {v.set.id} \cup (IF v.first THEN {NoId} ELSE {}) : tms_tile_handler(v, id, io)
        \/ wmts_rest_tile_handler(v, io)
        \/ mvt_tile_handler(v, io)
        \/ \E r \in KvpRequests(v) : wmts_kvp_handler(v, r.via, r.pairs, io)
    /\ UNCHANGED <<stage, args, layers>>

\* A click on a tile, over the same binding.
AskTileInfo ==
    /\ Ready /\ CacheEmpty
    /\ \E v \in TileViews, format \in RasterFormats, io \in {"ok", "fails"} :
        asked' = [what |-> "tile info", view |-> v, io |-> io,
                  answer |-> wmts_get_feature_info(layers, With(Addressed(v, "default"),
                                [i |-> v.set.tile_w - 1, j |-> 0, format |-> format]), io)]
    /\ UNCHANGED <<stage, args, layers, png>>

---------------------------------------------------------------------------
\* Maps.  A view is a layer and a CRS the capabilities offer for it and the client can place, and a
\* window of 4 by 4 pixels, each 2 units wide.
MapViews(version) ==
    LET doc == capabilities_multi(layers, version).layers IN
    UNION {{[layer |-> doc[i].name, bounds |-> doc[i].bounds, crs |-> c, at |-> o] :
               c \in doc[i].crs \cap DOMAIN Shift, o \in Offsets} : i \in DOMAIN doc}

Window(v) ==
    LET mid == <<(v.bounds[1] + v.bounds[3]) \div 2, (v.bounds[2] + v.bounds[4]) \div 2>>
        c == to_source("EPSG:4326", v.crs, mid)
    IN  <<c[1] + v.at[1] - 4, c[2] + v.at[2] - 4, c[1] + v.at[1] + 4, c[2] + v.at[2] + 4>>

\* 1.3.0 writes a box in the order of the CRS, 1.1.1 easting first.
Written(version, crs, b) == IF version = V13 /\ crs \in NorthingFirstCrs THEN Swapped(b) ELSE b

MapQuery(version, v) ==
    With([request |-> "getmap", version |-> IF version = V13 THEN <<1, 3, 0>> ELSE <<1, 1, 1>>,
          layers |-> <<v.layer>>, styles |-> <<"">>, bbox |-> Written(version, v.crs, Window(v)),
          width |-> 4, height |-> 4, format |-> "image/png"],
         [k \in {IF version = V13 THEN "crs" ELSE "srs"} |-> v.crs])

\* What a careless client may do to a query.  Bound: mishaps meet an empty cache only.
Spoils == {"none", "layer", "crs", "width", "box", "number", "style", "format", "version", "request"}
Spoilt(q, s) ==
    CASE s = "none" -> q
      [] s = "layer" -> [q EXCEPT !.layers = <<q.layers[1], "nobody">>]
      [] s = "crs" -> [k \in DOMAIN q \ {"crs", "srs"} |-> q[k]]
      [] s = "width" -> [q EXCEPT !.width = MaxDim + 1]
      [] s = "box" -> [q EXCEPT !.bbox = <<q.bbox[3], q.bbox[2], q.bbox[1], q.bbox[4]>>]
      [] s = "number" -> [q EXCEPT !.bbox = <<q.bbox[1], NotANumber, q.bbox[3], Infinite>>]
      [] s = "style" -> [q EXCEPT !.styles = <<"pretty">>]
      [] s = "format" -> [q EXCEPT !.format = "image/gif"]
      [] s = "version" -> [k \in DOMAIN q \ {"version"} |-> q[k]]
      [] s = "request" -> [q EXCEPT !.request = "getcoffee"]

\* Only a query that asks for a map, and only a map, goes through the cache.
wms_handler(q, io) ==
    IF q.request = "getmap"
    THEN cached_or_render_png(<<"wms", q>>, handle_layers(layers, q, io))
    ELSE handle_layers(layers, q, io)

AskMap ==
    /\ Ready
    /\ \E version \in {V11, V13}, s \in Spoils, io \in {"ok", "fails"} : \E v \in MapViews(version) :
        LET q == Spoilt(MapQuery(version, v), s) IN
        /\ s # "none" \/ io = "fails" => CacheEmpty
        /\ asked' = [what |-> "map", spoil |-> s, view |-> v, io |-> io, answer |-> wms_handler(q, io)]
        /\ Remember(<<"wms", q>>, asked'.answer)
    /\ UNCHANGED <<stage, args, layers>>

\* A click on such a map, in half pixels from its top left corner; on one layer or on all of them.
ClickQuery(version, v, names, px, format) ==
    With(With(MapQuery(version, v),
              [request |-> "getfeatureinfo", query_layers |-> names, info_format |-> format, feature_count |-> 5]),
         [k \in ToSet(PixelOf(version)) |-> IF k = PixelOf(version)[1] THEN px[1] ELSE px[2]])

Under(v, px) == <<Window(v)[1] + px[1], Window(v)[4] - px[2]>>

AskClick ==
    /\ Ready /\ CacheEmpty
    /\ \E version \in {V11, V13}, io \in {"ok", "fails"}, format \in VectorFormats,
          i \in {0, 3, 4, 8}, j \in {0, 4, 5} : \E v \in MapViews(version) :
          \E names \in {<<v.layer>>, [k \in DOMAIN layers |-> layers[k].name]} :
        asked' = [what |-> "click", version |-> version, view |-> v, at |-> Under(v, <<i, j>>), px |-> <<i, j>>,
                  names |-> names, format |-> format, io |-> io,
                  answer |-> wms_handler(ClickQuery(version, v, names, <<i, j>>, format), io)]
    /\ UNCHANGED <<stage, args, layers, png>>

---------------------------------------------------------------------------
\* The documents about one layer and grid that the TMS root lists, and the legend.
OperatorStyle == <<[source |-> "parcels", reads |-> {"class"}], [source |-> "", reads |-> {}]>>
AskDocument ==
    /\ Ready /\ CacheEmpty
    /\ \E t \in tilemapservice(layers) :
        \E d \in {[what |-> "tilejson", answer |-> tilejson_doc(layers, t.layer, t.grid)],
                  [what |-> "style", answer |-> style_json(layers, t.layer, t.grid, <<>>)],
                  [what |-> "style", answer |-> style_json(layers, t.layer, t.grid, OperatorStyle)],
                  [what |-> "grid", answer |-> tile_matrix_set_doc(layers, t.grid)],
                  [what |-> "tilemap", answer |-> tilemap_doc(layers, t.layer, t.grid)],
                  [what |-> "legend", answer |-> handle_legend(layers, V13, [layer |-> <<t.layer>>])]} :
            asked' = [what |-> d.what, answer |-> d.answer, view |-> [layer |-> t.layer, id |-> t.grid]]
    /\ UNCHANGED <<stage, args, layers, png>>

Done == asked # Nothing /\ asked' = Nothing /\ UNCHANGED <<stage, args, layers, png>>

Next == Start \/ AskTile \/ AskTileInfo \/ AskMap \/ AskClick \/ AskDocument \/ Evict \/ Done
Spec == Init /\ [][Next]_vars

---------------------------------------------------------------------------
Served == asked.answer.kind \notin {"error", "exception"}
LayerOf(name) == LayerNamed(layers, name)[1]

\* The documents list two layers under this name, and a request that names it means the first: the program
\* does not check the names.
NamedTwice(name) == \E i, j \in DOMAIN layers : i # j /\ layers[i].name = name /\ layers[j].name = name

\* PROJ knows the CRS, by its EPSG name: the program does not check that either.
Placed(crs) == crs \in DOMAIN Shift \ {"CRS:84"}

\* The layer is not the only one of its name, or an earlier grid of it answers to this id, because the id
\* is its own without the tile size.
Shadowed(v) == NamedTwice(v.layer) \/ GridsFor(LayerOf(v.layer), v.set.id)[1].tms.id # v.set.id

Unsaid == 0     \* an archive of another program need not say its tile size

\* Whichever front end, binding, grid document or cache it comes through, a tile answered covers the
\* ground its address stands for in the documents, at the tile size they give (tms.rs:tile_bounds,
\* tms_http.rs:tms_y_to_core_row, wmts.rs:top_left_corner, server.rs:raster_tile_key).  The document
\* route may answer with another layer's grid of that name and a tile size: its id then says so.
OneTileOneAddress ==
    asked.what = "tile" /\ Served /\ ~Shadowed(asked.view) =>
        LET v == asked.view
            ogc == tile_matrix_set_doc(layers, v.set.id)
        IN  /\ asked.answer.layer = v.layer
            /\ asked.answer.px \in {v.set.tile_w, Unsaid}
            /\ asked.answer.box = ClientBox(v)
            /\ ogc.id = v.set.id =>
                /\ asked.answer.box = BoxFrom(ogc.matrices[v.z + 1].corner, v.set, v)
                /\ asked.answer.box = BoxFrom(from_ogc_json(ogc).origin, v.set, v)

\* Within the advertised limits a tile of a raster layer has data under it, outside it is blank: the
\* TileMatrixSetLimits and the blank short cut of the renderer agree on every edge.
LimitsMatchContent ==
    asked.what = "tile" /\ Served /\ ~Shadowed(asked.view) /\ asked.view.limits # <<>> =>
        (asked.answer.from = "blank" <=> ~InLimits(asked.view))

\* A map shows the window its client meant, of the layer it named, whatever the version, the CRS and
\* its axis order (wms.rs:parse_map_frame, reproj.rs:crs_is_northing_first).
MapShowsTheWindow ==
    asked.what = "map" /\ Served =>
        /\ asked.answer.layer = asked.view.layer
        /\ asked.answer.frame.bbox = Window(asked.view)
        /\ asked.answer.frame.crs = (IF asked.view.crs = "CRS:84" THEN "EPSG:4326" ELSE asked.view.crs)

\* A click inside an area that parcels cover without gap or overlap finds exactly one of them, also
\* on a shared edge or corner, for each vector layer asked, which has its name for itself
\* (wms.rs:point_in_ring).
Inside(p, box) == p[1] > box[1] /\ p[1] < box[3] /\ p[2] > box[2] /\ p[2] < box[4]
Expected ==
    {n \in ToSet(asked.names) \cap DOMAIN Estate :
        Inside(to_source(asked.view.crs, LayerOf(n).crs, asked.at), Estate[n])}
ClickHitsOneParcel ==
    asked.what = "click" /\ Served /\ (\A n \in ToSet(asked.names) : ~NamedTwice(n)) =>
        Len(SelectSeq(asked.answer.hits, LAMBDA x : x.geom = "polygon")) = Cardinality(Expected)

\* What the documents offer is answered, and what they do not is refused: an address in the matrix,
\* a CRS and format listed for the layer, a vector tile where there is a TileJSON.  Left out are GML,
\* listed in 1.1.1 alone and served by vector layers alone, half pixels on a raster layer, which does
\* not read them, a shadowed grid id, a name that two layers have, and a click on a layer in a CRS
\* unknown to PROJ, for which the standard ones are listed all the same.
HasTileJson(v) == tilejson_doc(layers, v.layer, v.set.id).kind = "tilejson"
InfoFormats(name) ==
    LET doc == wmts_capabilities(layers).layers IN (CHOOSE l \in doc : l.name = name).info
Offered ==
    CASE asked.what = "tile" -> /\ InAdvertisedMatrix(asked.view) /\ asked.via # "spoilt"
                                /\ (asked.via \in {"mvt", "mvt kvp"} => HasTileJson(asked.view))
      [] asked.what = "tile info" -> /\ InAdvertisedMatrix(asked.view)
                                     /\ InfoFormats(asked.view.layer) # {}
      [] asked.what = "map" -> asked.spoil = "none"
      [] asked.what = "click" ->
            /\ asked.px[1] < 8
            /\ asked.format \in capabilities_preamble(asked.version).info
            /\ \A n \in ToSet(asked.names) :
                  \E l \in ToSet(capabilities_multi(layers, asked.version).layers) : l.name = n /\ asked.view.crs \in l.crs
      [] asked.what \in {"tilejson", "style"} -> LayerOf(asked.view.layer).kind = "vector"
      [] OTHER -> TRUE
Excused ==
    \/ NamedTwice(asked.view.layer)
    \/ asked.what \in {"tile", "tile info"} /\ Shadowed(asked.view)
    \/ asked.what = "click" /\ asked.format \notin RasterFormats
    \/ asked.what = "click" /\ \E n \in ToSet(asked.names) : NamedTwice(n) \/ ~Placed(LayerOf(n).crs)
    \/ /\ asked.what = "click" /\ \E n \in ToSet(asked.names) : LayerOf(n).kind = "cog"
       /\ asked.px[1] % 2 = 1 \/ asked.px[2] % 2 = 1
AdvertisedIsServed ==
    asked # Nothing /\ ~Excused =>
        /\ Served => Offered
        /\ Offered /\ ("io" \in DOMAIN asked => asked.io = "ok") => Served
=============================================================================
