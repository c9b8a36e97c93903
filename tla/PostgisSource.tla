--------------------------- MODULE PostgisSource ---------------------------
(***************************************************************************)
(* A layer on a table of a PostGIS database (postgis.rs, pg_uri.rs): what  *)
(* is asked before the server listens, and the queries of several callers  *)
(* through one pool of connections to a database that may stop answering,  *)
(* go away and come back.  Time passes in steps; a timer that has run out  *)
(* fires before the next one.                                              *)
(***************************************************************************)
EXTENDS Integers, SequencesExt, FiniteSetsExt, TLC

CONSTANTS
    Sites,             \* layers, their tables, and what the operator meant
    ConnectTimeout, PoolWait, Margin,
    Unit               \* units of a CRS to one of the ground

VARIABLES
    site,              \* the layer's configuration and its table
    remote,            \* the source: Nothing if the layer was refused
    link,              \* "up", "silent" (connected, no answer) or "down"
    outages,           \* how often it has left "up"
    idle,              \* the pool's connections that nobody uses, oldest first
    calls              \* what each caller is doing

remoteVars == <<site, remote, link, outages, idle, calls>>

\* What the settings are read as: a wait of nothing is not accepted, a statement may be unlimited.
Configured ==
    /\ ConnectTimeout \in Nat \ {0} /\ PoolWait \in Nat \ {0} /\ Margin \in Nat
    /\ \A s \in Sites : s.timeout \in Nat /\ s.pool \in Nat /\ s.max_inflight \in Nat

Some(v) == <<v>>
Nothing == <<>>

---------------------------------------------------------------------------
\* The layer's URI.

UserPassword(uri, env) ==
    IF uri.password = Nothing THEN Some(<<>>)
    ELSE IF uri.password[1].literal \/ uri.password[1].text \notin DOMAIN env THEN Nothing
    ELSE Some(<<env[uri.password[1].text]>>)
\* An address with colons needs its brackets.
split_hostport(uri) ==
    IF uri.host.name = "" \/ (uri.host.colons /\ ~uri.host.bracketed) THEN Nothing
    ELSE Some(<<uri.host.name, uri.host.port>>)
validate_port(port) == port \in 1 .. 65535

\* A connection string is read word by word: only a quoted value may have several.
quote_dsn_value(words) == [quoted |-> TRUE, words |-> words]
Dsn(uri, host, password) ==
    <<<<"host", quote_dsn_value(<<host>>)>>, <<"user", quote_dsn_value(<<uri.user>>)>>,
      <<"dbname", quote_dsn_value(<<uri.db>>)>>>>
    \o [i \in DOMAIN uri.host.port |-> <<"port", quote_dsn_value(<<ToString(uri.host.port[i])>>)>>]
    \o [i \in DOMAIN password |-> <<"password", quote_dsn_value(password[i])>>]
parse_dsn(dsn) == \A i \in DOMAIN dsn : dsn[i][2].quoted \/ Len(dsn[i][2].words) = 1

\* The last of two parameters counts; an unknown one is refused.
WithParam(t, kv) ==
    CASE t = Nothing -> Nothing
      [] t # Nothing /\ kv[1] = "geom" -> Some([t[1] EXCEPT !.geom_col = Some(kv[2])])
      [] t # Nothing /\ kv[1] = "srid" /\ kv[2] # Nothing -> Some([t[1] EXCEPT !.srid = kv[2]])
      [] OTHER -> Nothing
Target(uri, host, password) ==
    [dsn |-> Dsn(uri, host, password), schema |-> IF uri.schema = Nothing THEN "public" ELSE uri.schema[1],
     table |-> uri.table, geom_col |-> Nothing, srid |-> Nothing]
ParsedWith(uri, password, host) ==
    IF password = Nothing \/ host = Nothing \/ uri.table = "" THEN Nothing
    ELSE IF \E i \in DOMAIN host[1][2] : ~validate_port(host[1][2][i]) THEN Nothing
    ELSE FoldLeft(WithParam, Some(Target(uri, host[1][1], password[1])), uri.params)
parse_postgis_uri(uri, env) == ParsedWith(uri, UserPassword(uri, env), split_hostport(uri))

---------------------------------------------------------------------------
\* What is asked of the database before the server listens.

IsRelation(target, db) == target.schema = db.schema /\ target.table = db.name
\* The view geometry_columns has a row for each column: of the one the URI names, or of all.
GeometryColumns(target, db) ==
    {r \in db.registered : IsRelation(target, db) /\ target.geom_col \in {Nothing, Some(r[2])}}

GeomOf(target, rows) ==
    IF target.geom_col # Nothing THEN target.geom_col
    ELSE IF Cardinality(rows) = 1 THEN Some((CHOOSE r \in rows : TRUE)[2]) ELSE Nothing
SridOf(target, rows, geom) ==
    LET known == {r[1] : r \in {q \in rows : q[2] = geom /\ q[1] > 0}}
    IN  IF target.srid # Nothing THEN target.srid
        ELSE IF known = {} THEN Nothing ELSE Some(CHOOSE n \in known : TRUE)
WithSrid(geom, srid) == IF srid = Nothing THEN Nothing ELSE Some(<<srid[1], geom>>)
resolve_from(target, rows) ==
    IF GeomOf(target, rows) = Nothing THEN Nothing
    ELSE WithSrid(GeomOf(target, rows)[1], SridOf(target, rows, GeomOf(target, rows)[1]))
resolve_metadata(target, db, up) ==
    IF target.srid # Nothing /\ target.geom_col # Nothing THEN Some(<<target.srid[1], target.geom_col[1]>>)
    ELSE IF ~up THEN Nothing ELSE resolve_from(target, GeometryColumns(target, db))

size_gate_sql(min_area) == IF min_area > 0 THEN Some(min_area) ELSE Nothing
build_sql(src, limit, min_area) ==
    [target |-> src.target, geom |-> src.geom, columns |-> src.columns, limit |-> limit, gate |-> size_gate_sql(min_area)]
Plannable(sql, db) == IsRelation(sql.target, db) /\ ({sql.geom} \cup sql.columns) \subseteq db.columns
prepare_once(sqls, db, up) == up /\ \A sql \in sqls : Plannable(sql, db)
\* Both shapes of the statement, with the gate and without it.
validate_columns(src, db, up) == prepare_once({build_sql(src, 1, 0), build_sql(src, 1, 1)}, db, up)

LonLat(crs) == IF crs = "CRS:84" THEN "EPSG:4326" ELSE crs
crs_equivalent(a, b) == LonLat(a) = LonLat(b)
pool_sizing_warning(s) == s.pool < s.max_inflight

Epsg(srid) == "EPSG:" \o ToString(srid)
Source(s, target, meta) ==
    [target |-> target, geom |-> meta[2], columns |-> s.style \cup s.config, extent |-> s.extent[1],
     crs |-> Epsg(meta[1]), warned |-> pool_sizing_warning(s)]
Checked(s, src, up) ==
    IF validate_columns(src, s.db, up) /\ (s.declared = Nothing \/ crs_equivalent(s.declared[1], src.crs))
    THEN Some(src) ELSE Nothing
Connected(s, target, meta, up) ==
    IF ~parse_dsn(target.dsn) \/ meta = Nothing THEN Nothing ELSE Checked(s, Source(s, target, meta[1]), up)
OpenTarget(s, target, up) ==
    IF s.extent = Nothing \/ target = Nothing THEN Nothing
    ELSE Connected(s, target[1], resolve_metadata(target[1], s.db, up), up)
\* Anything that is not in order keeps the server from starting.
OpenLayer(s, up) == OpenTarget(s, parse_postgis_uri(s.uri, s.env), up)

---------------------------------------------------------------------------
\* A statement, and what is made of its rows.

Placed(box, crs) == [k \in DOMAIN box |-> box[k] * Unit[crs]]
envelope_in_srid(box, from, to) ==
    IF from = to THEN box ELSE [k \in DOMAIN box |-> (box[k] \div Unit[from]) * Unit[to]]

\* Boxes that touch overlap; neither NULL nor an empty geometry overlaps anything.
Overlap(a, b) == a[3] >= b[1] /\ a[1] <= b[3] /\ a[4] >= b[2] /\ a[2] <= b[4]
InUnits(r, col, crs) == [box |-> Placed(r.geoms[col].box, crs), area |-> r.geoms[col].area * Unit[crs]^2]
TooSmall(g, gate) == gate # Nothing /\ g.area > 0 /\ g.area < gate[1]
Selects(sql, env, db, r) ==
    /\ r.geoms[sql.geom].wkb \notin {"null", "empty"}
    /\ Overlap(InUnits(r, sql.geom, db.crs).box, env)
    /\ ~TooSmall(InUnits(r, sql.geom, db.crs), sql.gate)
Fewest(n, rows) == IF Cardinality(rows) < n THEN Cardinality(rows) ELSE n
LimitTo(n, rows) == kSubset(Fewest(n, rows), rows)
Run(sql, env, db) == LimitTo(sql.limit, {i \in DOMAIN db.rows : Selects(sql, env, db, db.rows[i])})

conversion_for(type) ==
    CASE type \in {"varchar", "text", "bpchar", "name"} -> "Text"
      [] type \in {"float8", "float4", "int8", "int4", "int2"} -> "Number"
      [] type = "bool" -> "Bool"
      [] OTHER -> "Unsupported"
column_value(type, v) ==
    CASE v = Nothing \/ conversion_for(type) = "Unsupported" -> <<"null", "">>
      [] v # Nothing /\ conversion_for(type) = "Text" -> <<"str", v[1]>>
      [] v # Nothing /\ conversion_for(type) = "Number" -> <<"num", v[1]>>
      [] v # Nothing /\ conversion_for(type) = "Bool" -> <<"str", IF v[1] = "t" THEN "true" ELSE "false">>
PropsIn(src, db, r) == [n \in src.columns |-> column_value(db.types[n], r.values[n])]
\* A geometry that is malformed, or of a type not drawn, is passed over.
AddRow(out, src, db, r) ==
    IF r.geoms[src.geom].wkb # "good" THEN out
    ELSE Append(out, [row |-> r.id, fid |-> Len(out), geom |-> InUnits(r, src.geom, db.crs), props |-> PropsIn(src, db, r)])

---------------------------------------------------------------------------
\* Queries.  A connection is alive, broken (gone, and not noticed yet) or
\* closed; it owes an answer when its last statement was given up.

NoConn == [state |-> "closed", owes |-> FALSE]
Fresh == [state |-> "alive", owes |-> FALSE]
Resting == [stage |-> "resting", at |-> 0, age |-> 0, place |-> <<>>, gate |-> 0, conn |-> NoConn,
            todo |-> {}, rows |-> 0, out |-> <<>>, slow |-> FALSE, answer |-> Nothing]

RemoteInit ==
    /\ site \in Sites
    /\ link \in {"up", "down"}
    /\ remote = OpenLayer(site, link = "up")
    /\ outages = 0
    /\ idle = <<>>
    /\ calls = [c \in 1 .. site.max_inflight |-> Resting]

\* The mutant of query_budget: no limit on a statement reads as none at all.
ZeroIsZero(s) == Some(ConnectTimeout + PoolWait + s.timeout + Margin)
query_budget(s) == IF s.timeout = 0 THEN Nothing ELSE Some(ConnectTimeout + PoolWait + s.timeout + Margin)

Callers == DOMAIN calls    \* as many as --max-inflight
Asking(c) == calls[c].stage \notin {"resting", "done"}
Holds(c) == calls[c].stage \in {"connecting", "preparing", "streaming"}
Stating(c) == calls[c].stage \in {"preparing", "streaming"}
Holding == {c \in Callers : Holds(c)}
Permits == site.pool - Cardinality(Holding)
Enter(c, call) == calls' = [calls EXCEPT ![c] = [call EXCEPT !.at = 0]]

query_gated(c, place, gate) ==
    /\ remote # Nothing /\ ~Asking(c)
    /\ Enter(c, [Resting EXCEPT !.stage = "queued", !.place = place, !.gate = gate])
    /\ UNCHANGED <<site, remote, link, outages, idle>>

\* The connections known to be closed are thrown away on the way.
Usable(conns) ==
    LET open == {i \in DOMAIN conns : conns[i].state # "closed"}
    IN  IF open = {} THEN <<>> ELSE SubSeq(conns, Min(open), Len(conns))
Get(c) ==
    /\ calls[c].stage = "queued" /\ Permits > 0
    /\ IF Usable(idle) = <<>>
       THEN Enter(c, [calls[c] EXCEPT !.stage = "connecting"]) /\ idle' = <<>>
       ELSE /\ Enter(c, [calls[c] EXCEPT !.stage = "preparing", !.conn = Usable(idle)[1]])
            /\ idle' = Tail(Usable(idle))
    /\ UNCHANGED <<site, remote, link, outages>>
Create(c) ==
    /\ calls[c].stage = "connecting" /\ link = "up"
    /\ Enter(c, [calls[c] EXCEPT !.stage = "preparing", !.conn = Fresh])
    /\ UNCHANGED <<site, remote, link, outages, idle>>

Answers(c) == link = "up" /\ calls[c].conn.state = "alive" /\ ~calls[c].conn.owes
EnvelopeOf(c) == envelope_in_srid(Placed(calls[c].place, remote[1].crs), remote[1].crs, remote[1].crs)
Slow(c) == calls[c].slow \/ (calls[c].stage = "preparing" /\ calls[c].at > Margin)
Prepare(c) ==
    /\ calls[c].stage = "preparing" /\ Answers(c)
    /\ \E rows \in Run(build_sql(remote[1], site.cap, calls[c].gate), EnvelopeOf(c), site.db) :
         Enter(c, [calls[c] EXCEPT !.stage = "streaming", !.todo = rows, !.slow = Slow(c)])
    /\ UNCHANGED <<site, remote, link, outages, idle>>
NextRow(c) ==
    /\ calls[c].stage = "streaming" /\ Answers(c) /\ calls[c].todo # {}
    /\ LET i == Min(calls[c].todo)
       IN  calls' = [calls EXCEPT ![c] = [calls[c] EXCEPT !.todo = @ \ {i}, !.rows = @ + 1,
                                                         !.out = AddRow(@, remote[1], site.db, site.db.rows[i])]]
    /\ UNCHANGED <<site, remote, link, outages, idle>>

\* A connection goes back to the pool, whatever became of the query.
Done(c, answer) == Enter(c, [Resting EXCEPT !.stage = "done", !.place = calls[c].place, !.gate = calls[c].gate,
                                            !.answer = Some(answer)])
Noticed(conn) == IF conn.state = "broken" THEN [conn EXCEPT !.state = "closed"] ELSE conn
GivenBack(c, owes) == IF Stating(c) THEN Append(idle, [Noticed(calls[c].conn) EXCEPT !.owes = @ \/ owes]) ELSE idle
End(c, answer, owes) ==
    /\ Done(c, answer)
    /\ idle' = GivenBack(c, owes)
    /\ UNCHANGED <<site, remote, link, outages>>
Failed(why) == [ok |-> FALSE, why |-> why]
Complete(c) ==
    /\ calls[c].stage = "streaming" /\ Answers(c) /\ calls[c].todo = {}
    /\ End(c, [ok |-> TRUE, features |-> calls[c].out, warned |-> calls[c].rows >= site.cap], FALSE)

\* Which timers have run out.
WaitOver(c) == calls[c].stage = "queued" /\ Permits = 0 /\ calls[c].at >= PoolWait
CreateOver(c) == calls[c].stage = "connecting" /\ calls[c].at >= ConnectTimeout
StatementOver(c) == Stating(c) /\ Answers(c) /\ site.timeout # 0 /\ calls[c].at >= site.timeout
BudgetOver(c) == Asking(c) /\ query_budget(site) # Nothing /\ calls[c].age >= query_budget(site)[1]

PoolFails(c) == WaitOver(c) /\ End(c, Failed("pool"), FALSE)
CreateFails(c) ==
    /\ calls[c].stage = "connecting"
    /\ link = "down" \/ (link = "silent" /\ CreateOver(c))
    /\ End(c, Failed("connect"), FALSE)
StatementFails(c) == StatementOver(c) /\ End(c, Failed("statement"), FALSE)
ConnectionFails(c) == Stating(c) /\ calls[c].conn.state # "alive" /\ End(c, Failed("closed"), FALSE)
\* One message for both: the budget has no room for a slow plan besides the
\* slow statement.  The future is dropped where it stands; the statement goes on without it.
BudgetFails(c) == BudgetOver(c) /\ End(c, Failed(IF Slow(c) THEN "planning" ELSE "budget"), TRUE)

---------------------------------------------------------------------------
\* The database, and time.

Breaks(conn) == IF conn.state = "alive" THEN [conn EXCEPT !.state = "broken"] ELSE conn
Outage(to) ==
    /\ remote # Nothing /\ link = "up" /\ outages < site.max_outages
    /\ link' = to /\ outages' = outages + 1
    /\ IF to = "silent" THEN UNCHANGED <<idle, calls>>
       ELSE /\ idle' = [i \in DOMAIN idle |-> Breaks(idle[i])]
            /\ calls' = [c \in Callers |-> [calls[c] EXCEPT !.conn = Breaks(@)]]
    /\ UNCHANGED <<site, remote>>
Recover == remote # Nothing /\ link # "up" /\ link' = "up" /\ UNCHANGED <<site, remote, outages, idle, calls>>
\* The task that drives a connection sees that it is gone.
Notice ==
    /\ \E i \in DOMAIN idle : idle[i].state = "broken"
    /\ idle' = [i \in DOMAIN idle |-> Noticed(idle[i])]
    /\ UNCHANGED <<site, remote, link, outages, calls>>
Owed == {i \in DOMAIN idle : idle[i].owes} # {} \/ \E c \in Callers : calls[c].conn.owes
\* What was given up has been answered, to nobody.
CatchUp ==
    /\ link = "up" /\ Owed
    /\ idle' = [i \in DOMAIN idle |-> [idle[i] EXCEPT !.owes = FALSE]]
    /\ calls' = [c \in Callers |-> [calls[c] EXCEPT !.conn.owes = FALSE]]
    /\ UNCHANGED <<site, remote, link, outages>>

Overdue(c) ==
    \/ WaitOver(c) \/ CreateOver(c) \/ StatementOver(c) \/ BudgetOver(c)
    \/ (calls[c].stage = "queued" /\ Permits > 0)
\* Ages stop growing past every timer.
Longest == ConnectTimeout + PoolWait + site.timeout + Margin
Older(n) == IF n > Longest THEN n ELSE n + 1
Tick ==
    /\ \E c \in Callers : Asking(c)
    /\ \A c \in Callers : ~Overdue(c)
    /\ calls' = [c \in Callers |-> IF Asking(c) THEN [calls[c] EXCEPT !.at = Older(@), !.age = Older(@)] ELSE calls[c]]
    /\ UNCHANGED <<site, remote, link, outages, idle>>

Step(c) ==
    \/ Get(c) \/ Create(c) \/ Prepare(c) \/ NextRow(c) \/ Complete(c)
    \/ PoolFails(c) \/ CreateFails(c) \/ StatementFails(c) \/ ConnectionFails(c) \/ BudgetFails(c)
RemoteNext ==
    \/ \E c \in Callers : Step(c) \/ \E place \in site.places, gate \in site.gates : query_gated(c, place, gate)
    \/ Outage("silent") \/ Outage("down") \/ Recover \/ Notice \/ CatchUp \/ Tick
RemoteSpec == RemoteInit /\ [][RemoteNext]_remoteVars

---------------------------------------------------------------------------
\* The sites for which answers are right: rows are told apart, the unit of the
\* table's CRS is one, what is shown of a value is its conversion, and what the
\* URI says and the catalogue registers is true of the column that is meant.
Table(db) ==
    /\ Len(db.rows) \in Nat /\ DOMAIN db.rows = 1 .. Len(db.rows)
    /\ \A i, j \in DOMAIN db.rows : db.rows[i].id = db.rows[j].id => i = j
    /\ Unit[db.crs] \in Nat \ {0}
IsBox(box) == DOMAIN box = 1 .. 4 /\ \A k \in 1 .. 4 : box[k] \in Int
TruthfulUri(target, s) ==
    /\ target.geom_col # Nothing /\ target.geom_col[1] \in s.db.columns => target.geom_col[1] = s.meant
    /\ target.srid # Nothing => Epsg(target.srid[1]) = s.db.crs
TruthfulCatalogue(target, s) ==
    /\ target.geom_col = Nothing /\ Cardinality(s.db.registered) = 1 => \A r \in s.db.registered : r[2] = s.meant
    /\ target.srid = Nothing => \A r \in s.db.registered : r[2] = s.meant /\ r[1] > 0 => Epsg(r[1]) = s.db.crs
Truthful(s) ==
    /\ Table(s.db) /\ s.cap \in Nat
    /\ \A place \in s.places : IsBox(place)
    /\ \A r \in ToSet(s.db.rows) :
         /\ IsBox(r.geoms[s.meant].box)
         /\ \A n \in (s.style \cup s.config) \cap s.db.columns : r.shown[n] = column_value(s.db.types[n], r.values[n])
    /\ parse_postgis_uri(s.uri, s.env) # Nothing =>
         LET target == parse_postgis_uri(s.uri, s.env)[1] IN TruthfulUri(target, s) /\ TruthfulCatalogue(target, s)
ASSUME SitesConfigured == Configured
ASSUME SitesTruthful == \A s \in Sites : Truthful(s)

---------------------------------------------------------------------------
\* What the operator meant, from the table and not from the source.

InPlace(s, r, place) == r.geoms[s.meant].wkb = "good" /\ Overlap(r.geoms[s.meant].box, place)
Visible(s, r, gate) == ~TooSmall(InUnits(r, s.meant, s.db.crs), size_gate_sql(gate))
Truly(s, r) == [n \in s.style \cup s.config |-> r.shown[n]]
\* Features are features of the place, once each, with their attributes; one
\* that is big enough is left out only with a warning.
Right(s, call, a) ==
    /\ \A i, j \in DOMAIN a.features : a.features[i].row = a.features[j].row => i = j
    /\ \A i \in DOMAIN a.features : \E r \in ToSet(s.db.rows) :
         a.features[i].row = r.id /\ InPlace(s, r, call.place) /\ a.features[i].props = Truly(s, r)
    /\ \A r \in ToSet(s.db.rows) : InPlace(s, r, call.place) /\ Visible(s, r, call.gate) =>
         a.warned \/ \E i \in DOMAIN a.features : a.features[i].row = r.id
\* While the database has answered all along, a query fails only because its
\* statement took too long, or because of a pool the operator was warned of.
Explained(a) ==
    outages = 0 => \/ a.why = "statement"
                   \/ (a.why = "pool" /\ remote[1].warned)
                   \/ (a.why = "planning" /\ site.timeout # 0)
InTime(call) == site.timeout # 0 => call.age <= ConnectTimeout + PoolWait + site.timeout + Margin
EndInTime == \A c \in Callers : InTime(calls[c])
FailForACause ==
    \A c \in Callers : calls[c].stage = "done" /\ ~calls[c].answer[1].ok => Explained(calls[c].answer[1])
AnswersRight ==
    \A c \in Callers : calls[c].stage = "done" /\ calls[c].answer[1].ok => Right(site, calls[c], calls[c].answer[1])
\* A query of a database ends in time, and either with the features of the
\* place or with an error, whatever the database does meanwhile and whatever
\* a query before it left behind on its connection: an outage is never an
\* empty map (vector/postgis.rs query_gated).
QueriesAnswerOrFail == remote # Nothing => EndInTime /\ FailForACause /\ AnswersRight
=============================================================================
