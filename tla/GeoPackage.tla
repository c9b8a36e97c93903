----------------------------- MODULE GeoPackage -----------------------------
(***************************************************************************)
(* GeoPackage, read (vector/gpkg.rs) and written (vector/gpkg_write.rs).   *)
(* A package is its metadata tables and its feature tables:                *)
(*   contents          a sequence of [name, type, description, extent]     *)
(*   geometry_columns  table -> [column, srs]                              *)
(*   srs               id -> [organization, code]                          *)
(*   tables            table -> [columns, rows]; a column is               *)
(*                     [name, declared, pk], rows are rowid -> column ->   *)
(*                     value                                               *)
(*   rtrees            table and column -> id -> box                       *)
(* A name is a word and its spelling: names of one word differ in case     *)
(* only.  A value is its SQLite type and what it holds.  SQLite keeps the  *)
(* boxes of an R-tree in single precision, rounded outwards.               *)
(***************************************************************************)
EXTENDS Geometries

CONSTANT CommitEvery    \* COMMIT_EVERY

Sql(type, v) == [type |-> type, v |-> v]
NULL == Sql("null", 0)

Single(box) ==    \* the even numbers are those of single precision
    <<box[1] - (box[1] % 2), box[2] - (box[2] % 2), box[3] + (box[3] % 2), box[4] + (box[4] % 2)>>

---------------------------------------------------------------------------
\* Metadata.

FeatureTables(p) == SelectSeq(p.contents, LAMBDA row : row.type = "features")
\* Matched exactly, then whatever the case, then only if a single one is.
TheOnly(rows) == IF Len(rows) = 1 THEN Found(rows[1].name) ELSE Nothing
find_features_table(p, named) ==
    IF named = Nothing THEN TheOnly(FeatureTables(p))
    ELSE IF \E i \in DOMAIN FeatureTables(p) : FeatureTables(p)[i].name = named[1] THEN named
    ELSE TheOnly(SelectSeq(FeatureTables(p), LAMBDA row : row.name[1] = named[1][1]))

geometry_column(p, table) ==
    IF table \in DOMAIN p.geometry_columns THEN Found(p.geometry_columns[table]) ELSE Nothing
resolve_crs(p, id) ==
    IF id \notin DOMAIN p.srs THEN Nothing
    ELSE IF p.srs[id].organization = "EPSG" /\ p.srs[id].code > 0 THEN Found(p.srs[id].code) ELSE Nothing
primary_key_column(p, table) ==
    LET keys == SelectSeq(p.tables[table].columns, LAMBDA c : c.pk)
    IN  IF keys = <<>> THEN Nothing ELSE Found(keys[1].name)

\* A declared type is the fragments of SQLite's affinity rules it contains.
sqlite_type_is_numeric(declared) ==
    \/ "INT" \in declared
    \/ declared \cap {"CHAR", "CLOB", "TEXT", "BLOB"} = {} /\ declared # {}
read_field_schema(p, table, geom_col, pk_col) ==
    LET shown == {c \in ToSet(p.tables[table].columns) : c.name \notin {geom_col, pk_col}}
    IN  [n \in {c.name : c \in shown} |->
            IF \E c \in shown : c.name = n /\ sqlite_type_is_numeric(c.declared) THEN "Number" ELSE "String"]

Union(boxes) ==
    FoldLeft(LAMBDA a, b : <<Lowest(<<a[1], b[1]>>), Lowest(<<a[2], b[2]>>), Highest(<<a[3], b[3]>>), Highest(<<a[4], b[4]>>)>>,
             BoxOf(<<>>), boxes)
Boxes(tree) == SetToSeq({tree[id] : id \in DOMAIN tree})
ContentsRow(p, table) == SelectSeq(p.contents, LAMBDA row : row.name = table)[1]
read_extent(p, table, tree) ==
    IF ContentsRow(p, table).extent # Nothing THEN ContentsRow(p, table).extent
    ELSE IF DOMAIN tree = {} THEN Nothing
    ELSE Found(Union(Boxes(tree)))

\* The band a subset was cut for; the first table of features is asked,
\* whichever of them is served.
gpkg_zoom_band(p) ==
    IF FeatureTables(p) = <<>> THEN Nothing ELSE FeatureTables(p)[1].description

---------------------------------------------------------------------------
\* Rows.  Nothing is malformed, Found(Nothing) has nothing to draw.

PropsOf(row, geom_col, pk_col) ==
    [n \in {c \in DOMAIN row \ {geom_col, pk_col} : row[c].type \in {"text", "integer", "real"}} |-> row[n].v]
FeatureOf(got, row, geom_col, pk_col) ==
    IF got = Nothing \/ got = Found(Nothing) THEN got
    ELSE Found(Found(Feature(got[1][1], PropsOf(row, geom_col, pk_col), row[pk_col].v)))
decode_feature_row(row, geom_col, pk_col) ==
    CASE row[geom_col].type = "blob" -> FeatureOf(decode_gpkg_geometry(row[geom_col].v), row, geom_col, pk_col)
      [] row[geom_col].type = "null" -> Found(Nothing)
      [] OTHER -> Nothing
Drawn(decoded) == SelectSeq(decoded, LAMBDA d : d # Nothing /\ d # Found(Nothing))
FeaturesOf(decoded) == [i \in DOMAIN Drawn(decoded) |-> Drawn(decoded)[i][1][1]]

---------------------------------------------------------------------------
\* Read whole: contiguous ranges of row ids, one connection each.

Ascending(ids) == SetToSortSeq(ids, LAMBDA a, b : a < b)
Fewer(a, b) == IF a < b THEN a ELSE b
\* The first rows % n ranges get one row more.
Split(lo, rows, n) ==
    LET Length(i) == (rows \div n) + (IF i < rows % n THEN 1 ELSE 0)
        Start(i) == lo + i * (rows \div n) + Fewer(i, rows % n)
    IN  [i \in 1 .. n |-> <<Start(i - 1), Start(i - 1) + Length(i - 1) - 1>>]
row_ranges(ids, threshold, n_ranges) ==
    IF ids = {} THEN <<>>
    ELSE IF Cardinality(ids) < threshold \/ Max(ids) - Min(ids) + 1 # Cardinality(ids) \/ n_ranges <= 1
         THEN <<<<Min(ids), Max(ids)>>>>
    ELSE Split(Min(ids), Cardinality(ids), Fewer(n_ranges, Cardinality(ids)))

load_range(rows, geom_col, pk_col, range) ==
    LET ids == Ascending({id \in DOMAIN rows : range[1] <= id /\ id <= range[2]})
        decoded == [i \in DOMAIN ids |-> decode_feature_row(rows[ids[i]], geom_col, pk_col)]
    IN  IF \E i \in DOMAIN decoded : decoded[i] = Nothing THEN Nothing ELSE Found(FeaturesOf(decoded))

Loaded(p, table, chunks) ==
    IF \E i \in DOMAIN chunks : chunks[i] = Nothing THEN Nothing
    ELSE LET features == FlattenSeq([i \in DOMAIN chunks |-> chunks[i][1]])
         IN  IF features = <<>> THEN Nothing
             ELSE Found([kind |-> "whole", table |-> table, features |-> features,
                         crs |-> resolve_crs(p, p.geometry_columns[table].srs),
                         extent |-> Union([i \in DOMAIN features |-> features[i].bbox])])
LoadTable(p, table, pk_col, threshold, workers) ==
    LET ranges == row_ranges(DOMAIN p.tables[table].rows, threshold, workers)
    IN  Loaded(p, table, [i \in DOMAIN ranges |->
                 load_range(p.tables[table].rows, p.geometry_columns[table].column, pk_col, ranges[i])])
HasMetadata(p, table) ==
    table # Nothing /\ geometry_column(p, table[1]) # Nothing /\ primary_key_column(p, table[1]) # Nothing
load_partitioned(p, named, threshold, workers) ==
    LET table == find_features_table(p, named)
    IN  IF ~HasMetadata(p, table) THEN Nothing
        ELSE LoadTable(p, table[1], primary_key_column(p, table[1])[1], threshold, workers)

---------------------------------------------------------------------------
\* Read by window, through the table's own R-tree.

RtreeOf(p, table) == <<table, p.geometry_columns[table].column>>
gpkg_has_rtree(p, named) ==
    LET table == find_features_table(p, named)
    IN  /\ table # Nothing
        /\ geometry_column(p, table[1]) # Nothing
        /\ RtreeOf(p, table[1]) \in DOMAIN p.rtrees

WindowedSource(p, table, pk_col) ==
    LET geom_col == p.geometry_columns[table].column
        extent == read_extent(p, table, p.rtrees[RtreeOf(p, table)])
    IN  IF extent = Nothing THEN Nothing
        ELSE Found([kind |-> "gpkg", table |-> table, geom_col |-> geom_col, pk_col |-> pk_col,
                    crs |-> resolve_crs(p, p.geometry_columns[table].srs), extent |-> extent[1],
                    field_schema |-> read_field_schema(p, table, geom_col, pk_col)])
open_windowed(p, named) ==
    LET table == find_features_table(p, named)
    IN  IF ~HasMetadata(p, table) THEN Nothing ELSE WindowedSource(p, table[1], primary_key_column(p, table[1])[1])

\* The rows joined to the entries of the tree that overlap the window.
Joined(p, src, window) ==
    LET tree == p.rtrees[<<src.table, src.geom_col>>]
    IN  {id \in DOMAIN tree \cap DOMAIN p.tables[src.table].rows : bbox_intersects(tree[id], window)}
\* LIMIT keeps any cap of them; what cannot be decoded is left out after it.
Limited(ids, cap) == IF Cardinality(ids) <= cap THEN {ids} ELSE {kept \in SUBSET ids : Cardinality(kept) = cap}
RowsOf(p, src, kept) ==
    LET ids == Ascending(kept)
    IN  FeaturesOf([i \in DOMAIN ids |->
            decode_feature_row(p.tables[src.table].rows[ids[i]], src.geom_col, src.pk_col)])
query_windowed(p, src, window, cap) == {RowsOf(p, src, kept) : kept \in Limited(Joined(p, src, window), cap)}

---------------------------------------------------------------------------
\* Written: create, add per feature, finish.

\* Rows of an open transaction are not in the file yet.
srs_id_for(crs) == IF crs = Nothing THEN -1 ELSE crs[1]
CoreSrs == [id \in {-1, 0} |-> [organization |-> "NONE", code |-> id]]
write_core_tables(crs) ==
    [id \in DOMAIN CoreSrs \cup (IF crs = Nothing THEN {} ELSE {crs[1]}) |->
        IF id \in DOMAIN CoreSrs THEN CoreSrs[id] ELSE [organization |-> "EPSG", code |-> id]]

Column(name, declared, pk) == [name |-> name, declared |-> declared, pk |-> pk]
Declared(type) == IF type = "Number" THEN {"REAL"} ELSE {"TEXT"}
ColumnsFor(fields) ==
    <<Column("fid", {"INT"}, TRUE), Column("geom", {"BLOB"}, FALSE)>>
    \o SetToSeq({Column(n, Declared(fields[n]), FALSE) : n \in DOMAIN fields})

create(table, crs, fields, declared_extent, zoom_band) ==
    [package |-> [contents |-> <<[name |-> table, type |-> "features", description |-> Nothing, extent |-> Nothing]>>,
                  geometry_columns |-> [t \in {table} |-> [column |-> "geom", srs |-> srs_id_for(crs)]],
                  srs |-> write_core_tables(crs),
                  tables |-> [t \in {table} |-> [columns |-> ColumnsFor(fields), rows |-> <<>>]],
                  rtrees |-> <<>>],
     table |-> table, fields |-> fields, pending |-> <<>>, written |-> 0, extent |-> Nothing,
     declared_extent |-> declared_extent, zoom_band |-> zoom_band]

\* A value is tagged "num", "str" or "null"; a missing one is NULL too.  The
\* declared type of the column is SQLite's to apply: it stores a number as
\* text in a text column, and a text of digits as a number in a numeric one.
Digits == {"0", "1", "2", "3", "4", "5", "6", "7", "8", "9"}
Affine(declared, v) ==
    CASE v[1] = "num" -> IF declared = "Number" THEN Sql("real", v) ELSE Sql("text", <<"str", v[2]>>)
      [] v[1] = "str" -> IF declared = "Number" /\ v[2] \in Digits THEN Sql("real", <<"num", v[2]>>) ELSE Sql("text", v)
      [] v[1] = "null" -> NULL
Bound(w, f, n) == IF n \in DOMAIN f.props THEN Affine(w.fields[n], f.props[n]) ELSE NULL
RowFor(w, f) ==
    [c \in {"fid", "geom"} \cup DOMAIN w.fields |->
        CASE c = "fid" -> Sql("integer", f.fid)
          [] c = "geom" -> Sql("blob", encode_gpkg_geometry(f.geom))
          [] OTHER -> Bound(w, f, c)]
Rows(w) == w.package.tables[w.table].rows
With(rows, id, row) == [k \in DOMAIN rows \cup {id} |-> IF k = id THEN row ELSE rows[k]]
Committed(w) == [w EXCEPT !.pending = <<>>, !.package.tables[w.table].rows =
                    [k \in DOMAIN Rows(w) \cup DOMAIN w.pending |-> IF k \in DOMAIN w.pending THEN w.pending[k] ELSE Rows(w)[k]]]
Widened(w, f) ==
    IF Vertices(f.geom) = <<>> THEN w.extent
    ELSE Found(IF w.extent = Nothing THEN f.bbox ELSE Union(<<w.extent[1], f.bbox>>))
Inserted(w, f) ==
    [w EXCEPT !.pending = With(w.pending, f.fid, RowFor(w, f)), !.written = w.written + 1, !.extent = Widened(w, f)]
add(w, f) ==
    IF f.fid \in DOMAIN Rows(w) \cup DOMAIN w.pending THEN Nothing
    ELSE Found(IF (w.written + 1) % CommitEvery = 0 THEN Committed(Inserted(w, f)) ELSE Inserted(w, f))

\* The tree's boxes come from the stored blobs.
Indexed(rows) ==
    LET Blob2(id) == decode_gpkg_geometry(rows[id]["geom"].v)
    IN  {id \in DOMAIN rows : Blob2(id) # Found(Nothing) /\ Vertices(Blob2(id)[1][1]) # <<>>}
fill_rtree(rows) == [id \in Indexed(rows) |-> Single(compute_bbox(decode_gpkg_geometry(rows[id]["geom"].v)[1][1]))]
Stamped(w) ==
    [w.package EXCEPT !.contents[1].description = w.zoom_band,
                      !.contents[1].extent = IF w.declared_extent = Nothing THEN w.extent ELSE w.declared_extent]
Finished(w) ==
    [Stamped(w) EXCEPT !.rtrees = [k \in {<<w.table, "geom">>} |-> fill_rtree(Rows(w))]]
finish(w) == Finished(Committed(w))
=============================================================================
