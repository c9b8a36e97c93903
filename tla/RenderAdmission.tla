------------------------- MODULE RenderAdmission -------------------------
(***************************************************************************)
(* How a request for rendered bytes gets a permit, a blocking thread and   *)
(* an answer.  The handler, an async task, queues for a permit of          *)
(* render_limiter, hands the render to a blocking thread and holds the     *)
(* permit until it is done - or until it is dropped, which happens when    *)
(* its client disconnects, while the blocking thread goes on.  Renders go  *)
(* through the byte cache: a TMS or WMTS tile is rendered by one thread    *)
(* while the others wait for its result (try_get_with), a WMS GetMap is    *)
(* looked up, rendered and inserted in separate steps.                     *)
(***************************************************************************)
EXTENDS Naturals, Sequences, FiniteSets

CONSTANTS
  Requests,       \* requests in flight at once
  TileKeys,       \* cache keys of TMS and WMTS tiles
  MapKeys,        \* cache keys of GetMap queries
  Permits,        \* --max-inflight
  Threads,        \* blocking threads of the runtime
  Disconnects,    \* may clients disconnect?
  None

ASSUME RequestsAssumption == IsFiniteSet(Requests)
ASSUME PermitsAssumption == Permits \in Nat \ {0} /\ Threads \in Nat \ {0}
ASSUME KeysAssumption == TileKeys \cap MapKeys = {} /\ None \notin TileKeys \cup MapKeys

Keys == TileKeys \cup MapKeys

VARIABLES
  phase,          \* handler: "idle", "queued", "holding" a permit, or "gone"
  key,            \* the cache key it asks for
  queue,          \* the semaphore's waiters, first come first served
  free,           \* permits nobody holds
  job,            \* the blocking render of the request
  cached,         \* [Keys -> what the byte cache holds: "nothing", or the result of a render]
  failed          \* history: requests whose key failed to render since they arrived

vars == <<phase, key, queue, free, job, cached, failed>>

Init ==
  /\ phase = [r \in Requests |-> "idle"] /\ key = [r \in Requests |-> None]
  /\ queue = <<>> /\ free = Permits
  /\ job = [r \in Requests |-> "none"]
  /\ cached = [k \in Keys |-> "nothing"] /\ failed = {}

OnThread == {r \in Requests : job[r] \in {"entered", "rendering", "joined"}}
Rendering(k) == {r \in Requests : job[r] = "rendering" /\ key[r] = k}
JoinedOn(k)  == {r \in Requests : job[r] = "joined" /\ key[r] = k}
Finished(r)  == job[r] \in {"ok", "error", "panicked"}

(***************************************************************************)
(* The handler.                                                            *)
(***************************************************************************)
\* TMS and RESTful WMTS answer a cached tile at once, before the permit, and change nothing;
\* WMTS KVP and WMS queue whatever the cache holds
Arrive(r, k) ==
  /\ phase[r] = "idle"
  /\ phase' = [phase EXCEPT ![r] = "queued"] /\ key' = [key EXCEPT ![r] = k]
  /\ queue' = Append(queue, r)
  /\ failed' = failed \ {r}
  /\ UNCHANGED <<free, job, cached>>

UnboundPermit == free           \* mutant: let _ = acquire().await gives the permit back at once
PermitTaken == free - 1

\* let _permit = render_limiter.acquire().await; spawn_blocking(..)
Acquire(r) ==
  /\ queue # <<>> /\ Head(queue) = r /\ free > 0
  /\ queue' = Tail(queue) /\ free' = PermitTaken
  /\ phase' = [phase EXCEPT ![r] = "holding"]
  /\ job' = [job EXCEPT ![r] = "spawned"]
  /\ UNCHANGED <<key, cached, failed>>

ReleasedUnlessPanicked(r) == IF job[r] = "panicked" THEN free ELSE free + 1     \* mutant
Released(r) == free + 1

Answer(r) ==
  /\ phase[r] = "holding" /\ Finished(r)
  /\ phase' = [phase EXCEPT ![r] = "idle"] /\ job' = [job EXCEPT ![r] = "none"]
  /\ key' = [key EXCEPT ![r] = None]
  /\ free' = Released(r)
  /\ UNCHANGED <<queue, cached, failed>>

Without(i) == SubSeq(queue, 1, i - 1) \o SubSeq(queue, i + 1, Len(queue))

\* dropped in the queue, or at the await of its render
Disconnect(r) ==
  /\ Disconnects
  /\ \/ /\ phase[r] = "queued"
        /\ phase' = [phase EXCEPT ![r] = "idle"] /\ key' = [key EXCEPT ![r] = None]
        /\ \E i \in DOMAIN queue : queue[i] = r /\ queue' = Without(i)
        /\ UNCHANGED free
     \/ /\ phase[r] = "holding"
        /\ phase' = [phase EXCEPT ![r] = "gone"]
        /\ free' = free + 1
        /\ UNCHANGED <<key, queue>>
  /\ UNCHANGED <<job, cached, failed>>

(***************************************************************************)
(* The blocking thread.                                                    *)
(***************************************************************************)
Start(r) ==
  /\ job[r] = "spawned" /\ Cardinality(OnThread) < Threads
  /\ job' = [job EXCEPT ![r] = "entered"]
  /\ UNCHANGED <<phase, key, queue, free, cached, failed>>

JoinsNever(r) == FALSE          \* mutant: get, render, insert for tiles too
Joins(r) == key[r] \in TileKeys /\ Rendering(key[r]) # {}

\* cache hit, or wait for the thread already rendering this tile, or render
Enter(r) ==
  /\ job[r] = "entered"
  /\ job' = [job EXCEPT ![r] = IF cached[key[r]] # "nothing" THEN cached[key[r]]
                               ELSE IF Joins(r) THEN "joined" ELSE "rendering"]
  /\ UNCHANGED <<phase, key, queue, free, cached, failed>>

\* the threads that wait for r's render get its result
Settle(r, result) ==
  job' = [q \in Requests |-> IF q = r \/ q \in JoinedOn(key[r]) THEN result ELSE job[q]]

RenderOk(r) ==
  /\ job[r] = "rendering"
  /\ Settle(r, "ok")
  /\ cached' = [cached EXCEPT ![key[r]] = "ok"]
  /\ UNCHANGED <<phase, key, queue, free, failed>>

KeptWithErrors(k) == [cached EXCEPT ![k] = "error"]     \* mutant: inserted like a PNG
KeptOnError(k) == cached

RenderFails(r) ==
  /\ job[r] = "rendering"
  /\ Settle(r, "error")
  /\ cached' = KeptOnError(key[r])
  /\ failed' = failed \cup {q \in Requests : key[q] = key[r]}
  /\ UNCHANGED <<phase, key, queue, free>>

\* a panic is the renderer's own; the threads waiting for it start over
RenderPanics(r) ==
  /\ job[r] = "rendering"
  /\ job' = [q \in Requests |-> IF q = r THEN "panicked"
                                ELSE IF q \in JoinedOn(key[r]) THEN "entered" ELSE job[q]]
  /\ UNCHANGED <<phase, key, queue, free, cached, failed>>

\* the result of a render whose handler is gone
Discard(r) ==
  /\ phase[r] = "gone" /\ Finished(r)
  /\ phase' = [phase EXCEPT ![r] = "idle"] /\ job' = [job EXCEPT ![r] = "none"]
  /\ key' = [key EXCEPT ![r] = None]
  /\ UNCHANGED <<queue, free, cached, failed>>

Evict(k) ==
  /\ cached[k] # "nothing" /\ cached' = [cached EXCEPT ![k] = "nothing"]
  /\ UNCHANGED <<phase, key, queue, free, job, failed>>

Next ==
  \/ \E r \in Requests :
       \/ (\E k \in Keys : Arrive(r, k))
       \/ Acquire(r) \/ Answer(r) \/ Disconnect(r)
       \/ Start(r) \/ Enter(r)
       \/ RenderOk(r) \/ RenderFails(r) \/ RenderPanics(r) \/ Discard(r)
  \/ \E k \in Keys : Evict(k)

\* The runtime wakes tasks, its pool of blocking threads is first come first served (a waiting
\* render is not overtaken for ever), a render ends, and panics are bugs that do not strike for
\* ever: a thread that waits for panicking renders starts over each time.  Clients need not ask,
\* nor stay, nor the cache evict.
Fairness ==
  /\ \A r \in Requests :
       /\ WF_vars(Acquire(r)) /\ WF_vars(Answer(r))
       /\ SF_vars(Start(r)) /\ WF_vars(Enter(r)) /\ WF_vars(Discard(r))
       /\ WF_vars(RenderOk(r) \/ RenderFails(r) \/ RenderPanics(r))
  /\ <>[][\A r \in Requests : ~RenderPanics(r)]_vars

Spec == Init /\ [][Next]_vars
FairSpec == Spec /\ Fairness

(***************************************************************************)
(* Properties.                                                             *)
(***************************************************************************)
TypeOK ==
  /\ phase \in [Requests -> {"idle", "queued", "holding", "gone"}]
  /\ key \in [Requests -> Keys \cup {None}]
  /\ queue \in Seq(Requests) /\ free \in 0 .. Permits
  /\ job \in [Requests -> {"none", "spawned", "entered", "rendering", "joined", "ok", "error", "panicked"}]
  /\ cached \in [Keys -> {"nothing", "ok", "error"}]
  /\ failed \subseteq Requests

(***************************************************************************)
(* A permit is free or with exactly one handler that has not been dropped: *)
(* none is lost to an error, a panic or a client that leaves its queue or  *)
(* its render, and none is given back twice.  (server.rs: render_limiter,  *)
(* the _permit of each handler)                                            *)
(***************************************************************************)
PermitsAreKept ==
  free + Cardinality({r \in Requests : phase[r] = "holding"}) = Permits

(***************************************************************************)
(* render_limiter "caps the number of CONCURRENT renders".  True as long   *)
(* as clients stay; a dropped handler gives its permit back while its      *)
(* render goes on, so the cap grows by the renders that were abandoned,    *)
(* and by no more than these.  (server.rs: ServeState::render_limiter)     *)
(***************************************************************************)
RendersWithinPermits ==
  Cardinality({r \in Requests : job[r] = "rendering"})
    <= Permits + Cardinality({r \in Requests : phase[r] = "gone"})

(***************************************************************************)
(* "A burst of requests for the same cold tile renders it ONCE": no two    *)
(* threads render one tile, whoever disconnects, fails, panics or evicts.  *)
(* (server.rs: cached_or_render_png)                                       *)
(***************************************************************************)
OneRenderPerTile ==
  \A k \in TileKeys : Cardinality(Rendering(k)) <= 1

(***************************************************************************)
(* "A transient failure cannot be pinned": an error answer means that a    *)
(* render failed while this request was there to see it, never that one    *)
(* had failed before it came.  (server.rs: cached_or_render_png and        *)
(* wms_handler, which cache successes only)                                *)
(***************************************************************************)
ErrorsAreNeverPinned ==
  \A r \in Requests : job[r] = "error" => r \in failed

(***************************************************************************)
(* "Excess requests QUEUE on acquire(), they don't fail": every one whose  *)
(* client stays is answered, although renders wait for each other while    *)
(* holding permits and threads.  (server.rs: render_limiter, handlers)     *)
(***************************************************************************)
EveryRequestIsAnswered ==
  \A r \in Requests : (phase[r] = "queued") ~> (phase[r] = "idle")
==========================================================================
