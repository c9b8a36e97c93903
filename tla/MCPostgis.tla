----------------------------- MODULE MCPostgis -----------------------------
(***************************************************************************)
(* Tables of a few rows, and the ways to configure a layer on them.  The   *)
(* unit of EPSG:2180 is a tenth of the one of the ground.                  *)
(***************************************************************************)
EXTENDS Integers, Sequences

Found(v) == <<v>>
Nothing == <<>>

MCUnit == [c \in {"EPSG:4326", "EPSG:2180", "EPSG:900913"} |-> IF c = "EPSG:4326" THEN 1 ELSE 10]

Geom(wkb, box, size) == [wkb |-> wkb, box |-> box, area |-> size]
Null == <<"null", "">>
Row(id, geom, name, open, when, shown) ==
    [id |-> id, geoms |-> [geom |-> geom, label |-> Geom("good", <<9, 9, 9, 9>>, 0)],
     values |-> [name |-> name, open |-> open, floors |-> Found("2"), since |-> when], shown |-> shown]
Shown(name, open) == [name |-> name, open |-> open, floors |-> <<"num", "2">>, since |-> Null]

\* A house, a shed, a street, an arc, a torn record, and no geometry.
Rows == <<
    Row(1, Geom("good", <<0, 0, 2, 2>>, 4), Found("A"), Found("t"), Found("1990"), Shown(<<"str", "A">>, <<"str", "true">>)),
    Row(2, Geom("curve", <<1, 1, 3, 3>>, 4), Found("B"), Nothing, Nothing, Shown(<<"str", "B">>, Null)),
    Row(3, Geom("good", <<2, 0, 6, 0>>, 0), Nothing, Found("f"), Nothing, Shown(Null, <<"str", "false">>)),
    Row(4, Geom("good", <<4, 0, 5, 1>>, 1), Found("D"), Nothing, Nothing, Shown(<<"str", "D">>, Null)),
    Row(5, Geom("null", <<0, 0, 9, 9>>, 0), Nothing, Nothing, Nothing, Shown(Null, Null)),
    Row(6, Geom("torn", <<0, 0, 1, 1>>, 0), Nothing, Nothing, Nothing, Shown(Null, Null))>>

Table(name, crs, registered) ==
    [schema |-> "public", name |-> name, crs |-> crs, registered |-> registered, rows |-> Rows,
     columns |-> {"geom", "label", "name", "open", "floors", "since"},
     types |-> [name |-> "text", open |-> "bool", floors |-> "int4", since |-> "date"]]
Houses == Table("houses", "EPSG:2180", {<<2180, "geom">>})
View == Table("view", "EPSG:2180", {<<0, "geom">>})
Mislabelled == Table("mislabelled", "EPSG:2180", {<<4326, "geom">>})
Labelled == Table("labelled", "EPSG:4326", {<<4326, "geom">>, <<4326, "label">>})

Host(name, colons, bracketed, port) == [name |-> name, colons |-> colons, bracketed |-> bracketed, port |-> port]
Variable(text) == Found([literal |-> FALSE, text |-> text])
Uri(table, params) ==
    [user |-> "ts", password |-> Variable("PW"), host |-> Host("db", FALSE, FALSE, Found(5432)), db |-> "gis",
     schema |-> Nothing, table |-> table.name, params |-> params]
Site(table, params) ==
    [uri |-> Uri(table, params), env |-> [n \in {"PW"} |-> <<"hunter", "2">>], declared |-> Nothing, extent |-> Found(<<0, 0, 9, 9>>),
     style |-> {"name", "since"}, config |-> {"open"}, db |-> table, meant |-> "geom",
     pool |-> 2, timeout |-> 2, cap |-> 9, max_inflight |-> 1, max_outages |-> 0, places |-> {<<0, 0, 3, 3>>}, gates |-> {0}]

\* Two callers of one connection, or of one each; without a limit on statements.
Narrow == [Site(Houses, <<>>) EXCEPT !.pool = 1, !.max_inflight = 2, !.max_outages = 1, !.config = {}, !.places = {<<4, 0, 5, 0>>}, !.gates = {200}]
Wide == [Site(Houses, <<>>) EXCEPT !.max_inflight = 2, !.style = {}]
Endless == [Site(Houses, <<>>) EXCEPT !.pool = 1, !.timeout = 0, !.max_inflight = 2, !.max_outages = 1, !.style = {"floors"}, !.places = {<<4, 0, 5, 0>>}]
\* More rows than the cap, one of them passed over.
Capped == [Site(Labelled, <<<<"geom", "label">>, <<"geom", "geom">>>>) EXCEPT
              !.cap = 2, !.max_outages = 1, !.declared = Found("CRS:84"), !.uri.host = Host("::1", TRUE, TRUE, Nothing), !.uri.password = Nothing]
\* The URI says what the catalogue does not, or says better.
Overridden == [Site(Mislabelled, <<<<"srid", Found(2180)>>>>) EXCEPT !.max_outages = 2, !.uri.schema = Found("public"), !.places = {<<4, 0, 5, 0>>}]
Unregistered == [Site(View, <<<<"srid", Found(2180)>>, <<"geom", "geom">>>>) EXCEPT !.places = {<<5, 0, 6, 0>>}]

Refused == {
    Site(View, <<>>), Site(Labelled, <<>>), Site(Houses, <<<<"geom", "shape">>>>),
    Site(Houses, <<<<"srid", Nothing>>>>), Site(Houses, <<<<"sslmode", "require">>>>),
    [Site(Houses, <<>>) EXCEPT !.declared = Found("EPSG:4326")],
    [Site(Houses, <<>>) EXCEPT !.config = {"Name"}], [Site(Houses, <<>>) EXCEPT !.extent = Nothing],
    [Site(Houses, <<>>) EXCEPT !.uri.password = Found([literal |-> TRUE, text |-> "PW"])],
    [Site(Houses, <<>>) EXCEPT !.uri.password = Variable("PASSWORD")],
    [Site(Houses, <<>>) EXCEPT !.uri.host = Host("::1", TRUE, FALSE, Nothing)],
    [Site(Houses, <<>>) EXCEPT !.uri.host.port = Found(0)],
    [Site(Houses, <<>>) EXCEPT !.uri.schema = Found("private")]}
MCSites == {Narrow, Wide, Endless, Capped, Overridden, Unregistered} \cup Refused
=============================================================================
