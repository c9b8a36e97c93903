-------------------------------- MODULE Crs --------------------------------
(***************************************************************************)
(* Coordinate reference systems as the services see them (reproj.rs).      *)
(* The PROJ database is external: what it says of the first axis of a CRS  *)
(* and how positions of two CRSs correspond are constants.  A position is  *)
(* a pair of integers, easting (or longitude) first.                       *)
(***************************************************************************)
EXTENDS Integers, Sequences, FiniteSetsExt

CONSTANTS
    Axes,      \* what PROJ says of the first axis: [c -> [words, abbrev, direction]]
    Shift      \* the position of a place in CRS c is its position on the plane plus Shift[c]

Meet(S, T) == S \cap T # {}

\* Of a sequence, what is at these positions, in order; and the first of it, if there is any.
Picked(s, positions) ==
    LET kept[n \in 0..Len(s)] ==
            IF n = 0 THEN <<>> ELSE IF n \in positions THEN Append(kept[n - 1], s[n]) ELSE kept[n - 1]
    IN  kept[Len(s)]
FirstOf(s, positions) == IF positions = {} THEN <<>> ELSE <<s[Min(positions)]>>
Unknown == "unknown"

\* The name decides; direction is a trap on polar grids, whose eastings point south.
classify_first_axis(a) ==
    IF Meet(a.words, {"northing", "latitude"}) THEN "northing"
    ELSE IF Meet(a.words, {"easting", "longitude"}) THEN "easting"
    ELSE IF a.abbrev \in {"n", "y", "lat"} THEN "northing"
    ELSE IF a.abbrev \in {"e", "x", "lon", "long"} THEN "easting"
    ELSE IF a.direction \in {"north", "south"} THEN "northing"
    ELSE IF a.direction \in {"east", "west"} THEN "easting"
    ELSE Unknown

\* unwrap_or(false): a CRS PROJ does not know keeps the order in which the values came.
crs_is_northing_first(c) == c \in DOMAIN Axes /\ classify_first_axis(Axes[c]) = "northing"

is_supported_crs(c) == c \in {"EPSG:4326", "EPSG:3857", "EPSG:3763", "CRS:84"}

\* A transformer exists between a CRS and itself, and between two that PROJ knows.
CanTransform(from, to) == from = to \/ {from, to} \subseteq DOMAIN Shift

to_source(from, to, p) ==
    IF from = to THEN p
    ELSE <<p[1] + Shift[to][1] - Shift[from][1], p[2] + Shift[to][2] - Shift[from][2]>>

crs_bounds(from, to, b) ==
    LET p == to_source(from, to, <<b[1], b[2]>>)
        q == to_source(from, to, <<b[3], b[4]>>)
    IN  <<p[1], p[2], q[1], q[2]>>

\* Closed boxes <<minx, miny, maxx, maxy>>; an inverted one overlaps nothing.
bbox_overlaps(a, b) == ~(a[3] < b[1] \/ a[1] > b[3] \/ a[4] < b[2] \/ a[2] > b[4])
=============================================================================
