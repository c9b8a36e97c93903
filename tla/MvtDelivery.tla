--------------------------- MODULE MvtDelivery ---------------------------
(***************************************************************************)
(* How one vector tile reaches its clients: the stored blob of the archive *)
(* or overlay, or a live encode kept in the tile cache; the coding this    *)
(* client accepts, with transcodes kept in the same cache under            *)
(* {key}#{token}; the response's validators; and a shared HTTP cache in    *)
(* front, which is not this program's but which its Vary and ETag steer.   *)
(*                                                                         *)
(* One tile address is modelled.  Its bytes are the revision of the source *)
(* they were encoded from and the coding they are in; the source may       *)
(* change under the running server (PostGIS).  ETags do not collide.       *)
(***************************************************************************)
EXTENDS Naturals, FiniteSets

CONSTANTS
  Requests,       \* requests in flight at once
  AcceptSets,     \* what clients offer in Accept-Encoding, as sets of compressed codings
  MaxRev,         \* bound: times the source changes
  EmptyRevs,      \* revisions in which nothing lies on the tile
  Tiers,          \* what the layer may have for this grid: "none", "archive" or "overlay"
  StoredIn,       \* coding in the archive's header ("unknown": one the program refuses)
  Preferred,      \* --tile-encoding
  CacheOn,        \* is --mvt-cache on?
  Front,          \* is there a shared HTTP cache in front?
  None

Compressed == {"gzip", "br", "zstd"}
Codings    == Compressed \cup {"identity"}
Revs       == 0 .. MaxRev
Bytes      == [rev : Revs, in : Codings]
Bodies     == [rev : Revs, in : Codings, label : Codings]   \* TileBody: bytes and how they are labelled

ASSUME AcceptAssumption == AcceptSets \subseteq SUBSET Compressed
ASSUME RevAssumption    == MaxRev \in Nat /\ EmptyRevs \subseteq Revs
ASSUME TierAssumption   ==
  Tiers \subseteq {"none", "archive", "overlay"} /\ StoredIn \in Codings \cup {"unknown"}
ASSUME FlagAssumption   == Preferred \in Codings /\ {CacheOn, Front} \subseteq BOOLEAN
ASSUME NoneAssumption   == None \notin Bytes \cup Bodies

VARIABLES
  tier,           \* what the layer has; it does not change
  rev,            \* revision of the source
  stored,         \* has the archive or overlay a blob of revision r?  that revision, or None
  live,           \* the tile cache under {key}: bytes, or None
  trans,          \* the tile cache under {key}#{token}: [Compressed -> bytes or None]
  shared,         \* the HTTP cache: [AcceptSets -> body or None]
  req,            \* per request: [pc, acc, held, rev, blob, body, got]
  evicted         \* history: did the tile cache ever evict?

vars == <<tier, rev, stored, live, trans, shared, req, evicted>>

Idle == [pc |-> "idle", acc |-> {}, held |-> {}, rev |-> 0, blob |-> None, body |-> None, got |-> None]

Init ==
  /\ tier \in Tiers /\ evicted = FALSE
  /\ rev = 0 /\ stored \in (IF tier = "none" THEN {None} ELSE {None, 0})
  /\ live = None /\ trans = [c \in Compressed |-> None]
  /\ shared = [a \in AcceptSets |-> None]
  /\ req = [r \in Requests |-> Idle]

(***************************************************************************)
(* Negotiation.                                                            *)
(***************************************************************************)
Accepts(acc, c) == c = "identity" \/ c \in acc

First(acc) == IF "gzip" \in acc THEN "gzip" ELSE IF "br" \in acc THEN "br" ELSE "zstd"
FirstOrNothing(acc) == IF acc = {} THEN None ELSE First(acc)      \* mutant: identity forgotten
\* the most widely supported of what is accepted
Fallback(acc) == IF acc = {} THEN "identity" ELSE First(acc)

choose(acc, in) ==
  IF Accepts(acc, in) THEN in
  ELSE IF Preferred # "identity" /\ Accepts(acc, Preferred) THEN Preferred
  ELSE Fallback(acc)

\* an empty tile is an empty body, in no coding
Encoded(v, c) == [rev |-> v, in |-> IF v \in EmptyRevs THEN "identity" ELSE c]

Labelled(b, c) == [rev |-> b.rev, in |-> b.in, label |-> c]

(***************************************************************************)
(* The shared HTTP cache, and the server's side of it: tile_response.      *)
(***************************************************************************)
OneForAll(a) == CHOOSE x \in AcceptSets : TRUE          \* mutant: no Vary on an identity response
Variant(a) == a                                         \* Vary: Accept-Encoding

EtagOfTile(b) == [b EXCEPT !.in = "identity", !.label = "identity"]     \* mutant: hash before compressing
Etag(b) == b                                            \* a hash of the final bytes and the encoding

Set(r, f) == req' = [req EXCEPT ![r] = f]

\* a fresh stored response is reused; else the request is forwarded with the tags of all held
Ask(r, a) ==
  /\ req[r].pc = "idle"
  /\ \/ Set(r, [Idle EXCEPT !.pc = "lookup", !.acc = a,
                            !.held = {shared[v] : v \in AcceptSets} \ {None}])
     \/ /\ shared[Variant(a)] # None
        /\ Set(r, [Idle EXCEPT !.pc = "answered", !.acc = a, !.body = shared[Variant(a)],
                               !.got = shared[Variant(a)]])
  /\ UNCHANGED <<tier, rev, stored, live, trans, shared, evicted>>

\* 304 when the tag is among those sent: the client is given the body held under that tag.  A weak
\* tag, W/.., counts as the strong one it is made of
NotModified(r) == {b \in req[r].held : Etag(b) = Etag(req[r].body)}
Respond(r) ==
  /\ req[r].pc = "respond"
  /\ \E b \in IF NotModified(r) # {} THEN NotModified(r) ELSE {req[r].body} :
       /\ Set(r, [req[r] EXCEPT !.pc = "answered", !.got = b])
       /\ shared' = (IF Front THEN [shared EXCEPT ![Variant(req[r].acc)] = b] ELSE shared)
  /\ UNCHANGED <<tier, rev, stored, live, trans, evicted>>

\* If-None-Match: * asks for no bytes and is answered none, whatever is held
AnswerAny(r) ==
  /\ req[r].pc = "respond"
  /\ Set(r, Idle)
  /\ UNCHANGED <<tier, rev, stored, live, trans, shared, evicted>>

Leave(r) ==
  /\ req[r].pc \in {"answered", "error"}
  /\ Set(r, Idle)
  /\ UNCHANGED <<tier, rev, stored, live, trans, shared, evicted>>

(***************************************************************************)
(* render_mvt_tile.                                                        *)
(***************************************************************************)
\* an overlay's log and archive are gzip; any other archive says in its header what it is
Header == IF tier = "overlay" THEN "gzip" ELSE StoredIn

\* a stored blob is delivered as the header says it is; one that cannot be read, or whose coding
\* is not known, degrades to the live path
Lookup(r) ==
  /\ req[r].pc = "lookup"
  /\ \/ /\ stored # None /\ Header # "unknown"
        /\ Set(r, [req[r] EXCEPT !.pc = "deliver", !.blob = [rev |-> stored, in |-> Header]])
     \/ Set(r, [req[r] EXCEPT !.pc = "source"])
  /\ UNCHANGED <<tier, rev, stored, live, trans, shared, evicted>>

\* features_for_tile, before the cache is asked: an error is a 500
ReadSource(r) ==
  /\ req[r].pc = "source"
  /\ \/ Set(r, [req[r] EXCEPT !.pc = "encode", !.rev = rev])
     \/ Set(r, [req[r] EXCEPT !.pc = "error"])
  /\ UNCHANGED <<tier, rev, stored, live, trans, shared, evicted>>

AnswerEmpty(r) ==
  Set(r, [req[r] EXCEPT !.pc = "respond", !.body = Labelled(Encoded(req[r].rev, "gzip"), "identity")])

\* overlay: encode, gzip, keep (best effort), deliver
EncodeThrough(r) ==
  /\ tier = "overlay" /\ req[r].pc = "encode"
  /\ IF req[r].rev \in EmptyRevs
     THEN AnswerEmpty(r) /\ UNCHANGED stored
     ELSE /\ Set(r, [req[r] EXCEPT !.pc = "deliver", !.blob = Encoded(req[r].rev, "gzip")])
          /\ stored' \in {stored, req[r].rev}
  /\ UNCHANGED <<tier, rev, live, trans, shared, evicted>>

Mine(r) == Encoded(req[r].rev, Preferred)
OwnEncode(r) == Mine(r)                       \* mutant: insert after the encode, last one wins
\* get_with: one encode per cached tile, whoever else arrives meanwhile
Kept(r) == IF live # None THEN live ELSE Mine(r)

EncodeLive(r) ==
  /\ tier # "overlay" /\ req[r].pc = "encode"
  /\ LET b == IF CacheOn THEN Kept(r) ELSE Mine(r) IN
       /\ IF b.rev \in EmptyRevs
          THEN Set(r, [req[r] EXCEPT !.pc = "respond", !.body = Labelled(b, "identity")])
          ELSE Set(r, [req[r] EXCEPT !.pc = "deliver", !.blob = b])
       /\ live' = (IF CacheOn THEN b ELSE live)
  /\ UNCHANGED <<tier, rev, stored, trans, shared, evicted>>

\* deliver: pass through, inflate, or transcode once per coding
Deliver(r) ==
  LET want == choose(req[r].acc, req[r].blob.in)
      mine == [req[r].blob EXCEPT !.in = want]
      out  == IF want # req[r].blob.in /\ CacheOn /\ want \in Compressed /\ trans[want] # None
              THEN trans[want] ELSE mine
  IN
  /\ req[r].pc = "deliver"
  /\ Set(r, [req[r] EXCEPT !.pc = "respond", !.body = Labelled(out, want)])
  /\ trans' = (IF want # req[r].blob.in /\ CacheOn /\ want \in Compressed
               THEN [trans EXCEPT ![want] = out] ELSE trans)
  /\ UNCHANGED <<tier, rev, stored, live, shared, evicted>>

(***************************************************************************)
(* The surroundings.                                                       *)
(***************************************************************************)
SourceChanges ==
  /\ rev < MaxRev /\ rev' = rev + 1
  /\ UNCHANGED <<tier, stored, live, trans, shared, req, evicted>>

Evict ==
  /\ evicted' = TRUE
  /\ \/ live # None /\ live' = None /\ UNCHANGED trans
     \/ \E c \in Compressed : trans[c] # None /\ trans' = [trans EXCEPT ![c] = None] /\ UNCHANGED live
  /\ UNCHANGED <<tier, rev, stored, shared, req>>

Next ==
  \/ \E r \in Requests :
       \/ (\E a \in AcceptSets : Ask(r, a))
       \/ Lookup(r) \/ ReadSource(r) \/ EncodeThrough(r) \/ EncodeLive(r) \/ Deliver(r)
       \/ Respond(r) \/ AnswerAny(r) \/ Leave(r)
  \/ SourceChanges \/ Evict

Spec == Init /\ [][Next]_vars

(***************************************************************************)
(* Properties.                                                             *)
(***************************************************************************)
TypeOK ==
  /\ tier \in Tiers /\ evicted \in BOOLEAN
  /\ rev \in Revs /\ stored \in Revs \cup {None}
  /\ live \in Bytes \cup {None} /\ trans \in [Compressed -> Bytes \cup {None}]
  /\ shared \in [AcceptSets -> Bodies \cup {None}]
  /\ req \in [Requests ->
       [pc : {"idle", "lookup", "source", "encode", "deliver", "respond", "answered", "error"},
        acc : AcceptSets \cup {{}}, held : SUBSET Bodies, rev : Revs,
        blob : Bytes \cup {None}, body : Bodies \cup {None}, got : Bodies \cup {None}]]

(***************************************************************************)
(* No client is ever handed bytes it cannot decode: what reaches it, from  *)
(* the server, through a 304 or from a shared cache, is labelled with the  *)
(* coding it is really in, and that coding is one the client offered.      *)
(* (mvt_http.rs: deliver; server.rs: tile_response, accepted_encodings)    *)
(***************************************************************************)
NobodyGetsBytesItCannotDecode ==
  \A r \in Requests : req[r].pc = "answered" =>
    req[r].got.label = req[r].got.in /\ Accepts(req[r].acc, req[r].got.label)

(***************************************************************************)
(* A 304 stands for exactly the bytes the server has just produced: the    *)
(* ETag is a strong validator although one tile has several                *)
(* representations and its source changes.  (server.rs: tile_etag)         *)
(***************************************************************************)
NotModifiedIsExact ==
  \A r \in Requests : req[r].pc = "answered" => req[r].got = req[r].body

(***************************************************************************)
(* While nothing is evicted, all clients see one version of a live tile:   *)
(* "both representations come from one cache entry and cannot disagree",   *)
(* even when the source changes while several requests have read it.       *)
(* (mvt_http.rs: cached_or_encode, deliver)                                *)
(***************************************************************************)
RepresentationsAgree ==
  tier = "none" /\ CacheOn /\ ~evicted => \A q, r \in Requests :
    req[q].pc = "answered" /\ req[r].pc = "answered" => req[q].got.rev = req[r].got.rev
==========================================================================
