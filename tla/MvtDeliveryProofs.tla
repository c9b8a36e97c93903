------------------------ MODULE MvtDeliveryProofs ------------------------
(***************************************************************************)
(* Safety of MvtDelivery for any requests, clients, revisions and          *)
(* configuration.  Every place where a tile rests knows which coding it is *)
(* in: a body its label, a transcode its key, a shared response its        *)
(* variant; and with a live cache that evicts nothing, every place that    *)
(* holds a tile holds the version that was encoded first.                  *)
(***************************************************************************)
EXTENDS MvtDelivery, TLAPS

Places == {"idle", "lookup", "source", "encode", "deliver", "respond", "answered", "error"}

RequestState ==
  [pc : Places, acc : AcceptSets \cup {{}}, held : SUBSET Bodies, rev : Revs,
   blob : Bytes \cup {None}, body : Bodies \cup {None}, got : Bodies \cup {None}]

\* a body as this client can read it
Readable(b, acc) == b \in Bodies /\ b.label = b.in /\ Accepts(acc, b.label)

\* what a request carries at each place
Sound(q) ==
  /\ q.pc = "deliver" => q.blob \in Bytes
  /\ q.pc \in {"respond", "answered"} => Readable(q.body, q.acc)
  /\ q.pc = "answered" => q.got = q.body

CachesSound ==
  /\ \A c \in Compressed : trans[c] # None => trans[c].in = c
  /\ \A a \in AcceptSets : shared[a] # None => Readable(shared[a], a)
  /\ live # None => Encoded(live.rev, live.in) = live
  /\ tier = "none" => stored = None

\* the version every client is to see
IsLive(b) == live # None /\ b.rev = live.rev

OneVersion ==
  tier = "none" /\ CacheOn /\ ~evicted =>
    /\ \A c \in Compressed : trans[c] # None => IsLive(trans[c])
    /\ \A a \in AcceptSets : shared[a] # None => IsLive(shared[a])
    /\ \A r \in Requests :
         /\ req[r].pc = "deliver" => IsLive(req[r].blob)
         /\ req[r].pc \in {"respond", "answered"} => IsLive(req[r].body)

IInv ==
  /\ TypeOK
  /\ \A r \in Requests : Sound(req[r])
  /\ CachesSound
  /\ OneVersion

LEMMA Types ==
  TypeOK <=> /\ tier \in Tiers /\ evicted \in BOOLEAN
             /\ rev \in Revs /\ stored \in Revs \cup {None}
             /\ live \in Bytes \cup {None} /\ trans \in [Compressed -> Bytes \cup {None}]
             /\ shared \in [AcceptSets -> Bodies \cup {None}]
             /\ req \in [Requests -> RequestState]
BY DEF TypeOK, RequestState, Places

(***************************************************************************)
(* Negotiation and encoding.                                               *)
(***************************************************************************)
\* a client is offered a coding it accepts
LEMMA ChosenIsAccepted ==
  ASSUME NEW acc \in SUBSET Compressed, NEW in \in Codings
  PROVE  choose(acc, in) \in Codings /\ Accepts(acc, choose(acc, in))
BY FlagAssumption DEF choose, Accepts, Fallback, First, Codings, Compressed

LEMMA EncodedType ==
  ASSUME NEW v \in Revs, NEW c \in Codings
  PROVE  /\ Encoded(v, c) \in Bytes /\ Encoded(v, c).rev = v
         /\ v \in EmptyRevs => Encoded(v, c).in = "identity"
         /\ Encoded(Encoded(v, c).rev, Encoded(v, c).in) = Encoded(v, c)
BY DEF Encoded, Bytes, Codings

LEMMA LabelledType ==
  ASSUME NEW b \in Bytes, NEW c \in Codings
  PROVE  /\ Labelled(b, c) \in Bodies /\ Labelled(b, c).rev = b.rev
         /\ Labelled(b, c).in = b.in /\ Labelled(b, c).label = c
BY DEF Labelled, Bytes, Bodies

\* one request moves, to a record that is sound; the caches stay
LEMMA RequestMoves ==
  ASSUME IInv, NEW r \in Requests, NEW q \in RequestState, Set(r, q), Sound(q),
         UNCHANGED <<tier, rev, live, trans, shared, evicted>>,
         stored' \in Revs \cup {None}, tier = "none" => stored' = stored,
         tier = "none" /\ CacheOn /\ ~evicted =>
           /\ q.pc = "deliver" => IsLive(q.blob)
           /\ q.pc \in {"respond", "answered"} => IsLive(q.body)
  PROVE  IInv'
<1>1. req \in [Requests -> RequestState] /\ req' = [req EXCEPT ![r] = q]
  BY Types DEF IInv, Set
<1>2. req' \in [Requests -> RequestState] /\ \A s \in Requests : req'[s] = IF s = r THEN q ELSE req[s]
  BY <1>1
<1>3. TypeOK'
  BY <1>2, Types DEF IInv, TypeOK, RequestState, Places
<1>4. (\A s \in Requests : Sound(req[s]))'
  BY <1>2 DEF IInv
<1>5. CachesSound'
  BY DEF IInv, CachesSound
<1>6. OneVersion'
  BY <1>2 DEF IInv, OneVersion, IsLive
<1> QED
  BY <1>3, <1>4, <1>5, <1>6 DEF IInv

(***************************************************************************)
(* The actions.                                                            *)
(***************************************************************************)
LEMMA InitInv == Init => IInv
<1> SUFFICES ASSUME Init PROVE IInv
  OBVIOUS
<1>1. Idle \in RequestState /\ Idle.pc = "idle"
  BY RevAssumption DEF Idle, RequestState, Places, Revs
<1>2. TypeOK
  <2>1. rev \in Revs /\ stored \in Revs \cup {None}
    BY RevAssumption DEF Init, Revs
  <2>4. tier \in Tiers /\ evicted \in BOOLEAN
    BY DEF Init
  <2>2. /\ live \in Bytes \cup {None} /\ trans \in [Compressed -> Bytes \cup {None}]
        /\ shared \in [AcceptSets -> Bodies \cup {None}]
    BY DEF Init
  <2>3. req \in [Requests -> RequestState]
    BY <1>1 DEF Init
  <2> QED
    BY <2>1, <2>2, <2>3, <2>4, Types
<1>3. \A r \in Requests : Sound(req[r])
  BY <1>1 DEF Init, Sound
<1>4. CachesSound
  BY DEF Init, CachesSound
<1>5. OneVersion
  BY <1>1 DEF Init, OneVersion
<1> QED
  BY <1>2, <1>3, <1>4, <1>5 DEF IInv

LEMMA RequestFacts ==
  ASSUME IInv, NEW r \in Requests
  PROVE  /\ req[r] \in RequestState /\ Sound(req[r])
         /\ req[r].acc \in SUBSET Compressed /\ req[r].held \in SUBSET Bodies
         /\ req[r].rev \in Revs
<1>1. req[r] \in RequestState
  BY Types DEF IInv
<1> QED
  BY <1>1, AcceptAssumption DEF IInv, RequestState

\* a fresh stored response was for a client that sends the same Accept-Encoding
LEMMA AskInv == ASSUME IInv, NEW r \in Requests, NEW a \in AcceptSets, Ask(r, a) PROVE IInv'
<1>1. shared \in [AcceptSets -> Bodies \cup {None}] /\ 0 \in Revs
  BY Types, RevAssumption DEF IInv, Revs
<1>2. {shared[v] : v \in AcceptSets} \ {None} \in SUBSET Bodies
  BY <1>1
<1>3. CASE Set(r, [Idle EXCEPT !.pc = "lookup", !.acc = a,
                               !.held = {shared[v] : v \in AcceptSets} \ {None}])
  <2> DEFINE h == {shared[v] : v \in AcceptSets} \ {None}
             q == [Idle EXCEPT !.pc = "lookup", !.acc = a, !.held = h]
  <2> HIDE DEF h
  <2>1. q \in RequestState /\ q.pc = "lookup"
    BY <1>1, <1>2 DEF Idle, RequestState, Places, h
  <2> HIDE DEF q
  <2>2. Set(r, q) /\ Sound(q)
    BY <1>3, <2>1 DEF q, h, Sound
  <2>3. UNCHANGED <<tier, rev, stored, live, trans, shared, evicted>> /\ stored \in Revs \cup {None}
    BY Types DEF Ask, IInv
  <2> QED
    BY <2>1, <2>2, <2>3, RequestMoves
<1>4. CASE /\ shared[Variant(a)] # None
           /\ Set(r, [Idle EXCEPT !.pc = "answered", !.acc = a, !.body = shared[Variant(a)],
                                  !.got = shared[Variant(a)]])
  <2> DEFINE q == [Idle EXCEPT !.pc = "answered", !.acc = a, !.body = shared[a], !.got = shared[a]]
  <2>1. q \in RequestState /\ q.pc = "answered" /\ q.acc = a /\ q.body = shared[a] /\ q.got = shared[a]
    BY <1>1 DEF Idle, RequestState, Places
  <2>2. Set(r, q) /\ shared[a] # None
    BY <1>4 DEF Variant
  <2> HIDE DEF q
  <2>3. Sound(q)
    BY <2>1, <2>2 DEF IInv, CachesSound, Sound
  <2>4. UNCHANGED <<tier, rev, stored, live, trans, shared, evicted>> /\ stored \in Revs \cup {None}
    BY Types DEF Ask, IInv
  <2>5. tier = "none" /\ CacheOn /\ ~evicted => IsLive(q.body)
    BY <2>1, <2>2 DEF IInv, OneVersion
  <2> QED
    BY <2>1, <2>2, <2>3, <2>4, <2>5, RequestMoves
<1> QED
  BY <1>3, <1>4 DEF Ask

\* a 304 is sent for the very bytes that were to be sent
LEMMA RespondInv == ASSUME IInv, NEW r \in Requests, Respond(r) PROVE IInv'
<1>1. req[r] \in RequestState /\ req[r].pc = "respond" /\ Readable(req[r].body, req[r].acc)
  BY RequestFacts DEF Respond, Sound
<1> DEFINE q == [req[r] EXCEPT !.pc = "answered", !.got = req[r].body]
<1>2. /\ Set(r, q)
      /\ shared' = (IF Front THEN [shared EXCEPT ![req[r].acc] = req[r].body] ELSE shared)
      /\ UNCHANGED <<tier, rev, stored, live, trans, evicted>>
  <2>1. \A b \in (IF NotModified(r) # {} THEN NotModified(r) ELSE {req[r].body}) : b = req[r].body
    BY DEF NotModified, Etag
  <2> QED
    BY <2>1 DEF Respond, Variant
<1>3. /\ q \in RequestState /\ q.pc = "answered" /\ q.acc = req[r].acc
      /\ q.body = req[r].body /\ q.got = req[r].body
  BY <1>1 DEF RequestState, Places, Readable
<1> HIDE DEF q
<1>4. Sound(q)
  BY <1>1, <1>3 DEF Sound
<1>5. /\ req \in [Requests -> RequestState] /\ req' = [req EXCEPT ![r] = q]
      /\ shared \in [AcceptSets -> Bodies \cup {None}]
  BY <1>2, Types DEF IInv, Set
<1>6. /\ req' \in [Requests -> RequestState]
      /\ \A s \in Requests : req'[s] = IF s = r THEN q ELSE req[s]
  BY <1>3, <1>5
<1>7. /\ shared' \in [AcceptSets -> Bodies \cup {None}]
      /\ \A a \in AcceptSets : \/ shared'[a] = shared[a]
                               \/ a = req[r].acc /\ shared'[a] = req[r].body
  BY <1>1, <1>2, <1>5 DEF Readable
<1>8. TypeOK'
  BY <1>2, <1>6, <1>7, Types DEF IInv, TypeOK, RequestState, Places
<1>9. (\A s \in Requests : Sound(req[s]))'
  BY <1>4, <1>6 DEF IInv
<1>10. CachesSound'
  BY <1>1, <1>2, <1>7 DEF IInv, CachesSound
<1>11. OneVersion'
  BY <1>1, <1>2, <1>3, <1>6, <1>7 DEF IInv, OneVersion, IsLive
<1> QED
  BY <1>8, <1>9, <1>10, <1>11 DEF IInv

LEMMA LeaveInv == ASSUME IInv, NEW r \in Requests, AnswerAny(r) \/ Leave(r) PROVE IInv'
<1>1. Idle \in RequestState /\ Sound(Idle) /\ Idle.pc = "idle"
  BY RevAssumption DEF Idle, RequestState, Places, Revs, Sound
<1>2. Set(r, Idle) /\ UNCHANGED <<tier, rev, stored, live, trans, shared, evicted>>
      /\ stored \in Revs \cup {None}
  BY Types DEF AnswerAny, Leave, IInv
<1> QED
  BY <1>1, <1>2, RequestMoves

LEMMA LookupInv == ASSUME IInv, NEW r \in Requests, Lookup(r) \/ ReadSource(r) PROVE IInv'
<1>1. /\ req[r] \in RequestState /\ stored \in Revs \cup {None} /\ rev \in Revs
      /\ UNCHANGED <<tier, rev, stored, live, trans, shared, evicted>>
  BY RequestFacts, Types DEF IInv, Lookup, ReadSource
<1>2. CASE /\ stored # None /\ Header # "unknown"
           /\ Set(r, [req[r] EXCEPT !.pc = "deliver", !.blob = [rev |-> stored, in |-> Header]])
  <2> DEFINE q == [req[r] EXCEPT !.pc = "deliver", !.blob = [rev |-> stored, in |-> Header]]
  <2>1. Header \in Codings
    BY <1>2, TierAssumption DEF Header, Codings, Compressed
  <2>2. [rev |-> stored, in |-> Header] \in Bytes
    BY <1>1, <1>2, <2>1 DEF Bytes
  <2>3. q \in RequestState /\ q.pc = "deliver" /\ q.blob \in Bytes
    BY <1>1, <2>2 DEF RequestState, Places
  <2>4. Set(r, q) /\ tier # "none"
    BY <1>2 DEF IInv, CachesSound
  <2> HIDE DEF q
  <2> QED
    BY <1>1, <2>3, <2>4, RequestMoves DEF Sound
<1>3. ASSUME NEW q \in RequestState, q.pc \in {"source", "encode", "error"}, Set(r, q)
      PROVE  IInv'
  BY <1>1, <1>3, RequestMoves DEF Sound
<1>4. /\ [req[r] EXCEPT !.pc = "source"] \in RequestState
      /\ [req[r] EXCEPT !.pc = "encode", !.rev = rev] \in RequestState
      /\ [req[r] EXCEPT !.pc = "error"] \in RequestState
      /\ [req[r] EXCEPT !.pc = "source"].pc = "source"
      /\ [req[r] EXCEPT !.pc = "encode", !.rev = rev].pc = "encode"
      /\ [req[r] EXCEPT !.pc = "error"].pc = "error"
  BY <1>1 DEF RequestState, Places
<1> QED
  BY <1>2, <1>3, <1>4 DEF Lookup, ReadSource

LEMMA EncodeThroughInv == ASSUME IInv, NEW r \in Requests, EncodeThrough(r) PROVE IInv'
<1>1. /\ req[r] \in RequestState /\ stored \in Revs \cup {None} /\ req[r].rev \in Revs
      /\ tier = "overlay" /\ UNCHANGED <<tier, rev, live, trans, shared, evicted>>
      /\ "gzip" \in Codings /\ "identity" \in Codings /\ req[r].acc \in SUBSET Compressed
  BY RequestFacts, Types DEF IInv, EncodeThrough, Codings, Compressed
<1> DEFINE b == Encoded(req[r].rev, "gzip")
<1>2. b \in Bytes /\ b.rev = req[r].rev /\ (req[r].rev \in EmptyRevs => b.in = "identity")
  BY <1>1, EncodedType
<1> HIDE DEF b
<1>3. CASE AnswerEmpty(r) /\ UNCHANGED stored /\ req[r].rev \in EmptyRevs
  <2> DEFINE l == Labelled(b, "identity")
             q == [req[r] EXCEPT !.pc = "respond", !.body = l]
  <2>1. l \in Bodies /\ l.in = "identity" /\ l.label = "identity"
    BY <1>1, <1>2, <1>3, LabelledType
  <2> HIDE DEF l
  <2>2. q \in RequestState /\ q.pc = "respond" /\ q.body = l
    BY <1>1, <2>1 DEF RequestState, Places
  <2>3. Set(r, q)
    BY <1>3 DEF AnswerEmpty, b, l
  <2> HIDE DEF q
  <2>4. Sound(q)
    BY <2>1, <2>2 DEF Sound, Readable, Accepts
  <2> QED
    BY <1>1, <1>3, <2>2, <2>3, <2>4, RequestMoves
<1>4. CASE /\ Set(r, [req[r] EXCEPT !.pc = "deliver", !.blob = b])
           /\ stored' \in {stored, req[r].rev}
  <2> DEFINE q == [req[r] EXCEPT !.pc = "deliver", !.blob = b]
  <2>1. q \in RequestState /\ q.pc = "deliver" /\ q.blob = b
    BY <1>1, <1>2 DEF RequestState, Places
  <2> HIDE DEF q
  <2> QED
    BY <1>1, <1>2, <1>4, <2>1, RequestMoves DEF Sound, q
<1> QED
  BY <1>3, <1>4 DEF EncodeThrough, b

\* the live cache: nothing is in it, or what everybody is served
LEMMA EncodeLiveInv == ASSUME IInv, NEW r \in Requests, EncodeLive(r) PROVE IInv'
<1> DEFINE b == IF CacheOn THEN Kept(r) ELSE Mine(r)
<1>1. /\ req[r] \in RequestState /\ req[r].rev \in Revs /\ req[r].acc \in SUBSET Compressed
      /\ tier # "overlay" /\ UNCHANGED <<tier, rev, stored, trans, shared, evicted>>
      /\ live' = (IF CacheOn THEN b ELSE live) /\ live \in Bytes \cup {None}
      /\ stored \in Revs \cup {None}
  BY RequestFacts, Types DEF IInv, EncodeLive
<1>2. b \in Bytes /\ Encoded(b.rev, b.in) = b
  <2>1. Mine(r) \in Bytes /\ Encoded(Mine(r).rev, Mine(r).in) = Mine(r)
    BY <1>1, FlagAssumption, EncodedType DEF Mine
  <2>2. CASE CacheOn /\ live # None
    BY <1>1, <2>2 DEF Kept, IInv, CachesSound
  <2>3. CASE ~(CacheOn /\ live # None)
    BY <2>1, <2>3 DEF Kept
  <2> QED
    BY <2>2, <2>3
<1>3. CacheOn => live' = b /\ (live = None \/ live = b)
  BY <1>1 DEF Kept
<1>4. (b.rev \in EmptyRevs => b.in = "identity") /\ b \in Bytes /\ b # None
  BY <1>2, NoneAssumption DEF Encoded
<1> HIDE DEF b
<1>5. PICK q \in RequestState :
        /\ Set(r, q) /\ Sound(q)
        /\ q.pc = "deliver" => q.blob = b
        /\ q.pc \in {"respond", "answered"} => q.body.rev = b.rev
  <2>1. CASE b.rev \in EmptyRevs /\ Set(r, [req[r] EXCEPT !.pc = "respond", !.body = Labelled(b, "identity")])
    <3> DEFINE l == Labelled(b, "identity")
               q == [req[r] EXCEPT !.pc = "respond", !.body = l]
    <3>1. l \in Bodies /\ l.in = "identity" /\ l.label = "identity" /\ l.rev = b.rev
      BY <1>4, <2>1, LabelledType DEF Codings
    <3> HIDE DEF l
    <3>2. q \in RequestState /\ q.pc = "respond" /\ q.body = l
      BY <1>1, <3>1 DEF RequestState, Places
    <3>3. Set(r, q)
      BY <2>1 DEF l
    <3> HIDE DEF q
    <3>4. Sound(q)
      BY <3>1, <3>2 DEF Sound, Readable, Accepts
    <3> QED
      BY <3>1, <3>2, <3>3, <3>4
  <2>2. CASE Set(r, [req[r] EXCEPT !.pc = "deliver", !.blob = b])
    <3> DEFINE q == [req[r] EXCEPT !.pc = "deliver", !.blob = b]
    <3>1. q \in RequestState /\ q.pc = "deliver" /\ q.blob = b
      BY <1>1, <1>4 DEF RequestState, Places
    <3> HIDE DEF q
    <3> QED
      BY <1>4, <2>2, <3>1 DEF Sound, q
  <2> QED
    BY <2>1, <2>2 DEF EncodeLive, b
<1>6. req' \in [Requests -> RequestState] /\ \A s \in Requests : req'[s] = IF s = r THEN q ELSE req[s]
  <2>1. req \in [Requests -> RequestState] /\ req' = [req EXCEPT ![r] = q]
    BY <1>5, Types DEF IInv, Set
  <2> QED
    BY <2>1
<1>7. live' \in Bytes \cup {None}
  BY <1>1, <1>4
<1>8. TypeOK'
  BY <1>1, <1>6, <1>7, Types DEF IInv, TypeOK, RequestState, Places
<1>9. (\A s \in Requests : Sound(req[s]))'
  BY <1>5, <1>6 DEF IInv
<1>10. CachesSound'
  <2>1. live' # None => Encoded(live'.rev, live'.in) = live'
    BY <1>1, <1>2 DEF IInv, CachesSound
  <2> QED
    BY <1>1, <2>1 DEF IInv, CachesSound
<1>11. OneVersion'
  <2> SUFFICES ASSUME tier = "none", CacheOn, ~evicted PROVE OneVersion'
    BY <1>1 DEF OneVersion
  <2>1. live' = b /\ (live = None \/ live = b)
    BY <1>3
  <2>2. \A x : IsLive(x) => IsLive(x)'
    BY <2>1 DEF IsLive
  <2> QED
    BY <1>1, <1>4, <1>5, <1>6, <2>1, <2>2 DEF IInv, OneVersion, IsLive
<1> QED
  BY <1>8, <1>9, <1>10, <1>11 DEF IInv

\* deliver: the transcode under a coding's key is in that coding
LEMMA DeliverInv == ASSUME IInv, NEW r \in Requests, Deliver(r) PROVE IInv'
<1> DEFINE acc  == req[r].acc
           blob == req[r].blob
           want == choose(acc, blob.in)
           uses == want # blob.in /\ CacheOn /\ want \in Compressed
           out  == IF uses /\ trans[want] # None THEN trans[want] ELSE [blob EXCEPT !.in = want]
           q    == [req[r] EXCEPT !.pc = "respond", !.body = Labelled(out, want)]
<1>1. /\ req[r] \in RequestState /\ blob \in Bytes /\ acc \in SUBSET Compressed
      /\ req[r].pc = "deliver" /\ trans \in [Compressed -> Bytes \cup {None}]
      /\ UNCHANGED <<tier, rev, stored, live, shared, evicted>>
  BY RequestFacts, Types DEF IInv, Deliver, Sound
<1>2. blob.in \in Codings
  BY <1>1 DEF Bytes
<1>3. want \in Codings /\ Accepts(acc, want)
  BY <1>1, <1>2, ChosenIsAccepted
<1>4. /\ Set(r, q)
      /\ trans' = (IF uses THEN [trans EXCEPT ![want] = out] ELSE trans)
  BY DEF Deliver
<1> HIDE DEF want
<1>5. out \in Bytes /\ out.in = want /\ (out.rev = blob.rev \/ (uses /\ out = trans[want] /\ out # None))
  <2>1. CASE uses /\ trans[want] # None
    BY <1>1, <2>1 DEF IInv, CachesSound
  <2>2. CASE ~(uses /\ trans[want] # None)
    BY <1>1, <1>3, <2>2 DEF Bytes
  <2> QED
    BY <2>1, <2>2
<1>6. out # None
  BY <1>5, NoneAssumption
<1> HIDE DEF out
<1> DEFINE l == Labelled(out, want)
<1>7. l \in Bodies /\ l.in = want /\ l.label = want /\ l.rev = out.rev
  BY <1>3, <1>5, LabelledType
<1>8. q \in RequestState /\ q.pc = "respond" /\ q.body = l /\ q.acc = acc
  <2> HIDE DEF l
  <2>1. [req[r] EXCEPT !.pc = "respond", !.body = l] \in RequestState
    BY <1>1, <1>7 DEF RequestState, Places
  <2> QED
    BY <1>1, <2>1 DEF RequestState, l
<1> HIDE DEF l, q
<1>9. Sound(q)
  BY <1>3, <1>7, <1>8 DEF Sound, Readable
<1>10. tier = "none" /\ CacheOn /\ ~evicted => IsLive(out)
  BY <1>1, <1>5 DEF IInv, OneVersion, IsLive
<1>11. req' \in [Requests -> RequestState] /\ \A s \in Requests : req'[s] = IF s = r THEN q ELSE req[s]
  <2>1. req \in [Requests -> RequestState] /\ req' = [req EXCEPT ![r] = q]
    BY <1>4, Types DEF IInv, Set
  <2> QED
    BY <1>8, <2>1
<1>12. /\ trans' \in [Compressed -> Bytes \cup {None}]
       /\ \A c \in Compressed : trans'[c] = trans[c] \/ (c = want /\ trans'[c] = out)
  BY <1>1, <1>4, <1>5
<1>13. TypeOK'
  BY <1>1, <1>11, <1>12, Types DEF IInv, TypeOK, RequestState, Places
<1>14. (\A s \in Requests : Sound(req[s]))'
  BY <1>9, <1>11 DEF IInv
<1>15. CachesSound'
  BY <1>1, <1>5, <1>12 DEF IInv, CachesSound
<1>16. OneVersion'
  <2> SUFFICES ASSUME tier = "none", CacheOn, ~evicted PROVE OneVersion'
    BY <1>1 DEF OneVersion
  <2>1. live' = live /\ IsLive(out) /\ IsLive(q.body)
    BY <1>1, <1>7, <1>8, <1>10 DEF IsLive
  <2> QED
    BY <1>1, <1>8, <1>11, <1>12, <2>1 DEF IInv, OneVersion, IsLive
<1> QED
  BY <1>13, <1>14, <1>15, <1>16 DEF IInv

LEMMA SurroundingsInv == ASSUME IInv, SourceChanges \/ Evict PROVE IInv'
<1>1. CASE SourceChanges
  <2>1. rev' \in Revs /\ UNCHANGED <<tier, stored, live, trans, shared, req, evicted>>
    BY <1>1, RevAssumption DEF SourceChanges, IInv, TypeOK, Revs
  <2> QED
    BY <2>1 DEF IInv, TypeOK, CachesSound, OneVersion, IsLive
<1>2. CASE Evict
  <2>1. /\ evicted' = TRUE /\ UNCHANGED <<tier, rev, stored, shared, req>>
        /\ live' \in {live, None} /\ trans' \in [Compressed -> Bytes \cup {None}]
        /\ \A c \in Compressed : trans'[c] \in {trans[c], None}
    BY <1>2 DEF Evict, IInv, TypeOK
  <2>2. TypeOK'
    BY <2>1 DEF IInv, TypeOK
  <2>3. CachesSound'
    BY <2>1 DEF IInv, CachesSound
  <2> QED
    BY <2>1, <2>2, <2>3 DEF IInv, OneVersion
<1> QED
  BY <1>1, <1>2

LEMMA NextInv == IInv /\ [Next]_vars => IInv'
<1> SUFFICES ASSUME IInv, [Next]_vars PROVE IInv'
  OBVIOUS
<1>1. CASE UNCHANGED vars
  BY <1>1 DEF vars, IInv, TypeOK, CachesSound, OneVersion, IsLive
<1> QED
  BY <1>1, AskInv, RespondInv, LeaveInv, LookupInv, EncodeThroughInv, EncodeLiveInv, DeliverInv,
     SurroundingsInv DEF Next

(***************************************************************************)
(* Theorems.                                                               *)
(***************************************************************************)
LEMMA SpecInv == Spec => []IInv
<1>1. Init => IInv
  BY InitInv
<1>2. IInv /\ [Next]_vars => IInv'
  BY NextInv
<1> QED
  BY <1>1, <1>2, PTL DEF Spec

\* Requests, caches and stored tiles are well-formed at every step.  (mvt_http.rs: render_mvt_tile)
THEOREM DeliveryTypes == Spec => []TypeOK
<1>1. IInv => TypeOK
  BY DEF IInv
<1> QED
  BY <1>1, SpecInv, PTL

\* No client gets bytes it cannot decode, whatever clients accept, the archive is coded in and the
\* server prefers, with and without caches.  (mvt_http.rs: deliver; server.rs: tile_response)
THEOREM Decodable == Spec => []NobodyGetsBytesItCannotDecode
<1>1. IInv => NobodyGetsBytesItCannotDecode
  BY DEF IInv, Sound, Readable, NobodyGetsBytesItCannotDecode
<1> QED
  BY <1>1, SpecInv, PTL

\* A 304 stands for the bytes the server would have sent.  (server.rs: tile_etag)
THEOREM StrongValidator == Spec => []NotModifiedIsExact
<1>1. IInv => NotModifiedIsExact
  BY DEF IInv, Sound, NotModifiedIsExact
<1> QED
  BY <1>1, SpecInv, PTL

\* All representations of a live tile are of one version until the cache evicts.
\* (mvt_http.rs: cached_or_encode, deliver)
THEOREM OneVersionServed == Spec => []RepresentationsAgree
<1>1. IInv => RepresentationsAgree
  BY DEF IInv, Sound, OneVersion, IsLive, RepresentationsAgree
<1> QED
  BY <1>1, SpecInv, PTL
==========================================================================
