----------------------------- MODULE FgbReader -----------------------------
(***************************************************************************)
(* FlatGeoBuf (vector/fgb): a header, a packed R-tree over the records'    *)
(* boxes and the records.  The index is held whole when it is small, else  *)
(* read in chunks that are kept in a cache; a query walks it from the      *)
(* root, or scans every record where there is none, then decodes the       *)
(* records it found.  A read of the file may fail: f.bad holds the places  *)
(* that cannot be read for now.                                            *)
(***************************************************************************)
EXTENDS Geometries

CONSTANTS
    IndexLazyBytes,  \* TERRASERVE_INDEX_LAZY_BYTES, in units
    IndexChunk,      \* FGB_INDEX_CHUNK, in units
    MaxFeatures      \* TERRASERVE_FGB_MAX_QUERY_FEATURES, TERRASERVE_GPKG_MAX_QUERY_FEATURES

\* A tree node is a box and an offset: five units of the index.
NodeUnits == 5

read_file(f, part, off, len) ==
    IF \E b \in f.bad : b[1] = part /\ off <= b[2] /\ b[2] < off + len THEN Nothing
    ELSE IF off + len > Len(f[part]) THEN Nothing
    ELSE Found(SubSeq(f[part], off + 1, off + len))

---------------------------------------------------------------------------
\* The packed R-tree: root first, leaves last, every node's children side by
\* side in the level below.

div_ceil(a, b) == (a + b - 1) \div b

\* Level sizes from the leaves up; there is always a level above the leaves.
RECURSIVE Above(_, _)
Above(n, ns) == IF div_ceil(n, ns) = 1 THEN <<1>> ELSE <<div_ceil(n, ns)>> \o Above(div_ceil(n, ns), ns)
level_sizes(n, ns) == IF n = 0 \/ ns < 2 THEN <<>> ELSE <<n>> \o Above(n, ns)

\* A level is its first node and its number of nodes.
tree_layout(n, ns) ==
    LET sizes == level_sizes(n, ns)
    IN  [i \in DOMAIN sizes |-> <<SumOf(SubSeq(sizes, i + 1, Len(sizes))), sizes[i]>>]
num_nodes(layout) == SumOf([i \in DOMAIN layout |-> layout[i][2]])
index_size(layout) == num_nodes(layout) * NodeUnits

decide(f, size) ==
    IF size = 0 \/ f.force_lazy \/ size > IndexLazyBytes THEN Found([lazy |-> TRUE])
    ELSE IF read_file(f, "index", 0, size) = Nothing THEN Nothing
    ELSE Found([lazy |-> FALSE, bytes |-> read_file(f, "index", 0, size)[1]])

\* Reading through the chunk cache.  "st" is the units got so far (Nothing
\* once a read failed) and the cache.
ChunkLen(size, c) == IF size - c * IndexChunk < IndexChunk THEN size - c * IndexChunk ELSE IndexChunk
Part(units, c, start, end) ==
    SubSeq(units, (IF start > c * IndexChunk THEN start - c * IndexChunk ELSE 0) + 1,
                  IF end < (c + 1) * IndexChunk THEN end - c * IndexChunk ELSE IndexChunk)
Holding(cache, c, units) == [k \in DOMAIN cache \cup {c} |-> IF k = c THEN units ELSE cache[k]]
WithChunk(st, c, units, start, end) ==
    IF units = Nothing THEN [st EXCEPT !.got = Nothing]
    ELSE [got |-> Found(st.got[1] \o Part(units[1], c, start, end)), cache |-> Holding(st.cache, c, units[1])]
TakeChunk(f, size, st, c, start, end) ==
    IF st.got = Nothing THEN st
    ELSE IF c \in DOMAIN st.cache THEN WithChunk(st, c, Found(st.cache[c]), start, end)
    ELSE WithChunk(st, c, read_file(f, "index", c * IndexChunk, ChunkLen(size, c)), start, end)

read_index(f, src, cache, start, len) ==
    IF ~src.index.lazy
    THEN [got |-> Found(SubSeq(src.index.bytes, start + 1, start + len)), cache |-> cache]
    ELSE FoldLeft(LAMBDA st, c : TakeChunk(f, src.index_size, st, c, start, start + len),
                  [got |-> Found(<<>>), cache |-> cache],
                  [i \in 1 .. ((start + len - 1) \div IndexChunk - start \div IndexChunk + 1) |->
                      start \div IndexChunk + i - 1])

\* One step of the traversal: the top of the stack.
LevelOf(layout, idx) == CHOOSE l \in DOMAIN layout : idx >= layout[l][1] /\ idx < layout[l][1] + layout[l][2]
Smaller2(a, b) == IF a < b THEN a ELSE b
LastLeftOut(level, pos, ns) ==          \* mutant: the end taken as included
    [i \in 1 .. Smaller2(ns, level[2] - pos * ns) - 1 |-> level[1] + pos * ns + i - 1]
ChildrenIn(level, pos, ns) ==
    [i \in 1 .. Smaller2(ns, level[2] - pos * ns) |-> level[1] + pos * ns + i - 1]
children(layout, idx, ns) ==
    ChildrenIn(layout[LevelOf(layout, idx) - 1], idx - layout[LevelOf(layout, idx)][1], ns)

Visited(layout, st, idx, ns, node, window) ==
    IF node.got = Nothing THEN [st EXCEPT !.cache = node.cache, !.failed = TRUE]
    ELSE LET unread == [st EXCEPT !.cache = node.cache, !.stack = Front(@)]
         IN  IF ~bbox_intersects(SubSeq(node.got[1], 1, 4), window) THEN unread
             ELSE IF idx >= layout[1][1] THEN [unread EXCEPT !.hits = Append(@, node.got[1][5])]
             ELSE [unread EXCEPT !.stack = @ \o children(layout, idx, ns)]
Visit(f, src, st, window) ==
    IF st.failed \/ st.stack = <<>> THEN st
    ELSE Visited(src.layout, st, Last(st.stack), src.node_size,
                 read_index(f, src, st.cache, Last(st.stack) * NodeUnits, NodeUnits), window)

query(f, src, cache, window) ==
    FoldLeft(LAMBDA st, i : Visit(f, src, st, window),
             [stack |-> <<0>>, hits |-> <<>>, cache |-> cache, failed |-> FALSE],
             [i \in 1 .. num_nodes(src.layout) |-> i])

---------------------------------------------------------------------------
\* FlatGeoBuf: the header, the records.

\* A header is malformed, or its fields; absent ones have defaults.
FieldOr(h, name, default) == IF name \in DOMAIN h THEN h[name] ELSE default
FgbSource(f, h, index, layout) ==
    [kind |-> "fgb", count |-> FieldOr(h, "features_count", 0), node_size |-> FieldOr(h, "index_node_size", 16),
     columns |-> FieldOr(h, "columns", <<>>), geometry_type |-> FieldOr(h, "geometry_type", 0),
     crs |-> FieldOr(h, "crs_code", 0), extent |-> FieldOr(h, "envelope", <<0, 0, 0, 0>>),
     layout |-> layout, index_size |-> index_size(layout), index |-> index]

WithIndex(f, h, index, layout) == IF index = Nothing THEN Nothing ELSE Found(FgbSource(f, h, index[1], layout))
WithLayout(f, h, layout) == WithIndex(f, h, decide(f, index_size(layout)), layout)
open_fgb(f) ==
    IF f.magic # "fgb" \/ f.header = Nothing \/ \E b \in f.bad : b[1] = "header" THEN Nothing
    ELSE WithLayout(f, f.header[1],
                    tree_layout(FieldOr(f.header[1], "features_count", 0), FieldOr(f.header[1], "index_node_size", 16)))

\* A record is its length and a body that verifies or not; the file's
\* records start at the offsets the index names.
read_feature_record(f, rel) ==
    IF <<"records", rel>> \in f.bad \/ rel \notin DOMAIN f.records THEN Nothing ELSE Found(f.records[rel])

split_by_ends(xy, ends) ==
    IF ends = <<>> THEN <<xy>>
    ELSE LET Cut(i) == IF i = 1 THEN 0 ELSE ends[i - 1]
             good == {n \in 0 .. Len(ends) : \A i \in 1 .. n : Cut(i) <= ends[i] /\ ends[i] <= Len(xy)}
         IN  [i \in 1 .. Max(good) |-> SubSeq(xy, Cut(i) + 1, ends[i])]

\* A geometry table: its type (0: the header's), points, ends and parts.
GeometryType(table, header_type) == IF table.type = 0 THEN header_type ELSE table.type
decode_parts(parts) ==
    IF \E i \in DOMAIN parts : parts[i].xy = Nothing THEN Nothing
    ELSE Found(Geometry("MultiPolygon", [i \in DOMAIN parts |-> split_by_ends(parts[i].xy[1], parts[i].ends)]))
decode_geometry(table, header_type) ==
    LET ty == GeometryType(table, header_type)
    IN  CASE ty = 6 -> IF table.parts = Nothing THEN Nothing ELSE decode_parts(table.parts[1])
          [] ty \in {1, 2, 3, 5} /\ table.xy = Nothing -> Nothing
          [] ty = 1 /\ table.xy # Nothing ->
                IF table.xy[1] = <<>> THEN Nothing ELSE Found(Geometry("Point", <<<<<<table.xy[1][1]>>>>>>))
          [] ty = 2 /\ table.xy # Nothing -> Found(Geometry("LineString", <<<<table.xy[1]>>>>))
          [] ty = 3 /\ table.xy # Nothing -> Found(Geometry("Polygon", <<split_by_ends(table.xy[1], table.ends)>>))
          [] ty = 5 /\ table.xy # Nothing -> Found(Geometry("MultiLineString", <<split_by_ends(table.xy[1], table.ends)>>))
          [] OTHER -> Nothing

\* Properties: pairs of a column number and a value.  An unknown column or
\* type, and a value cut short, end the reading; raw bytes are passed over.
KnownType(columns, pair) == pair[1] < Len(columns) /\ columns[pair[1] + 1][2] <= 14 /\ pair[2] # Nothing
Readable(columns, pairs) ==
    LET good == {n \in 0 .. Len(pairs) : \A i \in 1 .. n : KnownType(columns, pairs[i])}
    IN  SubSeq(pairs, 1, Max(good))
Stored(columns, props, pair) ==
    IF columns[pair[1] + 1][2] = 14 THEN props
    ELSE [k \in DOMAIN props \cup {columns[pair[1] + 1][1]} |->
             IF k = columns[pair[1] + 1][1] THEN pair[2][1] ELSE props[k]]
decode_props(columns, pairs) ==
    FoldLeft(LAMBDA props, pair : Stored(columns, props, pair), <<>>, Readable(columns, pairs))

\* Nothing: the record does not verify.  Found(Nothing): not modelled.
Made(geom, columns, record, rel) ==
    IF geom = Nothing THEN Found(Nothing) ELSE Found(Found(Feature(geom[1], decode_props(columns, record.props), rel)))
decode_feature(src, record, rel) ==
    IF ~record.verifies THEN Nothing
    ELSE IF record.geometry = Nothing THEN Found(Nothing)
    ELSE Made(decode_geometry(record.geometry[1], src.geometry_type), src.columns, record, rel)
Decoded2(src, record, rel) == IF record = Nothing THEN Nothing ELSE decode_feature(src, record[1], rel)
decode_at(f, src, rel) == Decoded2(src, read_feature_record(f, rel), rel)

\* Every coordinate of a geometry and of its parts, whatever its type.
RECURSIVE Coordinates(_)
Coordinates(table) ==
    (IF table.xy = Nothing THEN <<>> ELSE table.xy[1])
    \o (IF table.parts = Nothing THEN <<>>
        ELSE FlattenSeq([i \in DOMAIN table.parts[1] |-> Coordinates(table.parts[1][i])]))
feature_bbox(record) ==
    IF ~record.verifies \/ record.geometry = Nothing THEN Nothing
    ELSE IF Coordinates(record.geometry[1]) = <<>> THEN Nothing
    ELSE Found(BoxOf(Coordinates(record.geometry[1])))
Overlapping(box, window) == box # Nothing /\ bbox_intersects(box[1], window)

\* Without an index every record is read in turn, as many as the header says.
Offsets(f) == SetToSortSeq(DOMAIN f.records, LAMBDA a, b : a < b)
Scanned(f, src) == SubSeq(Offsets(f), 1, Smaller2(src.count, Len(Offsets(f))))
bruteforce_query(f, src, cache, window) ==
    [hits |-> SelectSeq(Scanned(f, src), LAMBDA rel : Overlapping(feature_bbox(f.records[rel]), window)),
     cache |-> cache,
     failed |-> src.count > Len(Offsets(f))
                \/ \E i \in DOMAIN Scanned(f, src) : <<"records", Scanned(f, src)[i]>> \in f.bad]

rtree_query(f, src, cache, window) ==
    IF src.layout = <<>> THEN bruteforce_query(f, src, cache, window) ELSE query(f, src, cache, window)

FirstOf(n, s) == SubSeq(s, 1, Smaller2(n, Len(s)))
Kept(window, decoded) == SelectSeq(decoded, LAMBDA d : d[1] # Nothing /\ bbox_intersects(d[1][1].bbox, window))
Answer(window, decoded) ==
    IF \E i \in DOMAIN decoded : decoded[i] = Nothing THEN Nothing
    ELSE Found([i \in DOMAIN Kept(window, decoded) |-> Kept(window, decoded)[i][1][1]])
DecodeAll(f, src, window, offsets) == Answer(window, [i \in DOMAIN offsets |-> decode_at(f, src, offsets[i])])
query_capped(f, src, window, found) ==
    IF found.failed THEN Nothing ELSE DecodeAll(f, src, window, FirstOf(MaxFeatures, found.hits))

\* The schema of the header: numbers, strings, and nothing for the rest.
field_schema(columns) ==
    [name \in {columns[i][1] : i \in {j \in DOMAIN columns : columns[j][2] <= 11}} |->
        IF \E i \in DOMAIN columns : columns[i] = <<name, 11>> THEN "String" ELSE "Number"]
=============================================================================
