---------------------------- MODULE FeatureFiles ----------------------------
(***************************************************************************)
(* The file sources of a vector layer.  A layer opens its file once        *)
(* (layer/mod.rs) and then answers queries for a window (source.rs): by    *)
(* positioned reads, which may fail, through the index of a FlatGeoBuf or  *)
(* the R-tree of a GeoPackage; or from the features of the whole file,     *)
(* held since it was opened, for a GeoPackage without an R-tree and for    *)
(* GeoJSON.                                                                *)
(***************************************************************************)
EXTENDS FgbReader, GeoPackage

CONSTANTS
    Files,       \* the files a layer may be given
    Windows,     \* the windows asked for
    Threshold,   \* PARALLEL_THRESHOLD
    CPUs         \* connections a load may use

VARIABLES
    file,        \* the file; file.bad is the places that cannot be read for now
    source,      \* what was opened: Nothing, or Found(source)
    indexCache,  \* index chunks held by the source
    replied      \* the last query: Nothing, or Found([window, got, readable])

fileVars == <<file, source, indexCache, replied>>

WholeGeoJson(parsed) == IF parsed = Nothing THEN Nothing ELSE Found([kind |-> "whole", features |-> parsed[1]])
Opened(f) ==
    CASE f.kind = "fgb" -> open_fgb(f)
      [] f.kind = "gpkg" /\ f.bad # {} -> Nothing
      [] f.kind = "gpkg" /\ f.bad = {} /\ gpkg_has_rtree(f.package, f.named) -> open_windowed(f.package, f.named)
      [] f.kind = "gpkg" /\ f.bad = {} /\ ~gpkg_has_rtree(f.package, f.named) ->
            load_partitioned(f.package, f.named, Threshold, CPUs)
      [] f.kind = "geojson" -> IF f.bad # {} THEN Nothing ELSE WholeGeoJson(from_str(f.doc))

FilesInit == file \in Files /\ source = Nothing /\ indexCache = <<>> /\ replied = Nothing

Open ==
    /\ source = Nothing
    /\ source' = Opened(file)
    /\ UNCHANGED <<file, indexCache, replied>>

\* Reads of one place of the file fail until they work again.
Break ==
    /\ file.bad = {}
    /\ \E place \in file.places : file' = [file EXCEPT !.bad = {place}]
    /\ replied' = Nothing
    /\ UNCHANGED <<source, indexCache>>
Heal == file.bad # {} /\ file' = [file EXCEPT !.bad = {}] /\ replied' = Nothing /\ UNCHANGED <<source, indexCache>>

Reply(window, got) == replied' = Found([window |-> window, got |-> got, readable |-> file.bad = {}])

QueryFgb(window) ==
    /\ source # Nothing /\ source[1].kind = "fgb"
    /\ \E found \in {rtree_query(file, source[1], indexCache, window)} :
         /\ Reply(window, query_capped(file, source[1], window, found))
         /\ indexCache' = found.cache
    /\ UNCHANGED <<file, source>>

QueryGpkg(window) ==
    /\ source # Nothing /\ source[1].kind = "gpkg"
    /\ \/ file.bad # {} /\ Reply(window, Nothing)
       \/ file.bad = {} /\ \E features \in query_windowed(file.package, source[1], window, MaxFeatures) :
                                Reply(window, Found(features))
    /\ UNCHANGED <<file, source, indexCache>>

QueryWhole(window) ==
    /\ source # Nothing /\ source[1].kind = "whole"
    /\ Reply(window, Found(source[1].features))
    /\ UNCHANGED <<file, source, indexCache>>

\* The cache is bounded: it may drop a chunk at any time.
Evict ==
    /\ \E c \in DOMAIN indexCache : indexCache' = [k \in DOMAIN indexCache \ {c} |-> indexCache[k]]
    /\ UNCHANGED <<file, source, replied>>

FilesNext ==
    \/ Open \/ Break \/ Heal \/ Evict
    \/ \E window \in Windows : QueryFgb(window) \/ QueryGpkg(window) \/ QueryWhole(window)
FilesSpec == FilesInit /\ [][FilesNext]_fileVars

---------------------------------------------------------------------------
\* The features a file holds, as its writer wrote them (file.holds), and the
\* boxes of everything in it, the undrawable and the corrupt included.
NearWindow(b, window) == bbox_intersects(Single(b), window)
Reached(window) == {i \in DOMAIN file.boxes : NearWindow(file.boxes[i], window)}
Corrupt(window) == file.corrupt \cap Reached(window) # {}
Within(window) == {f \in file.holds : bbox_intersects(f.bbox, window)}

CompleteOrCapped(window, features) ==
    \/ Within(window) \subseteq ToSet(features)
    \/ Cardinality(Reached(window)) > MaxFeatures
NothingStrange(window, features) ==
    /\ IsInjective(features)
    /\ \A f \in ToSet(features) : f \in file.holds /\ (source[1].kind = "whole" \/ NearWindow(f.bbox, window))
InOrder(features) == \A i, j \in DOMAIN features : i < j => features[i].fid < features[j].fid

\* An answered query returns every feature of the file that overlaps the
\* window, each once, with the geometry and the attributes it was written
\* with, and nothing far from the window, whichever format, index, cache
\* state or row ranges it was read through; above the cap it returns fewer,
\* never others.  An error is a read that failed or a record that is
\* corrupt, never an answer that happens to be empty (vector/source.rs).
WindowedReadsAgree ==
    replied # Nothing =>
        LET r == replied[1]
        IN  IF r.got = Nothing THEN ~r.readable \/ Corrupt(r.window)
            ELSE /\ NothingStrange(r.window, r.got[1])
                 /\ CompleteOrCapped(r.window, r.got[1])
                 /\ source[1].kind = "whole" => InOrder(r.got[1])
=============================================================================
