------------------------ MODULE CompactionControl ------------------------
(***************************************************************************)
(* Who compacts the overlays of one layer, and when: one controller task   *)
(* per grid (interval tick or wake), any number of POST /mvt/{layer}/flush *)
(* handlers walking all grids, and the main task after the shutdown        *)
(* signal.  A compaction itself runs on a blocking thread, apart from the  *)
(* task that awaits it: when the client of a flush disconnects its handler *)
(* is dropped at the await and the blocking thread carries on.             *)
(*                                                                         *)
(* TileOverlay has the inside of one compaction; here it starts, and then  *)
(* folds and truncates the whole log of its grid, or fails.                *)
(***************************************************************************)
EXTENDS Naturals, FiniteSets

CONSTANTS
  N,              \* number of grids of the layer, each with its overlay
  Flushes,        \* flush requests
  Renders,        \* tile requests in flight at once
  Cap,            \* --pmtiles-max-bytes, in records; 0 = off
  MaxPending,     \* bound: records a log holds at most
  Interval,       \* is --pmtiles-flush-interval set?
  Disconnects,    \* may clients disconnect?
  Failures        \* may a compaction fail?

ASSUME GridsAssumption == N \in Nat \ {0} /\ Cap \in Nat /\ MaxPending \in Nat
ASSUME FlagsAssumption == {Interval, Disconnects, Failures} \subseteq BOOLEAN

Grids == 1 .. N

Controller(g) == <<"controller", g>>
Flusher(f)    == <<"flush", f>>
Main          == <<"main", 0>>
Controllers == {Controller(g) : g \in Grids}
Flushers    == {Flusher(f) : f \in Flushes}
Tasks       == Controllers \cup Flushers \cup {Main}

VARIABLES
  pending,        \* [Grids -> Nat]: records in the log, not in the archive
  woken,          \* [Grids -> BOOLEAN]: compact_notify holds a permit
  compacting,     \* [Grids -> BOOLEAN]: OverlayInner.compacting
  task,           \* [Tasks -> [pc, at]]: where each task is, and on which grid
  job,            \* [Tasks -> [st, took]]: the blocking compaction the task started
  outcome,        \* [Flushes -> [Grids -> result line of the flush]]
  folded,         \* history: grids whose log was truncated since the flush came in
  render          \* [Renders -> [pc, grid, open]]: tile requests

vars == <<pending, woken, compacting, task, job, outcome, folded, render>>

NoJob == [st |-> "none", took |-> 0]
NoRender == [pc |-> "idle", grid |-> 0, open |-> FALSE]

Init ==
  /\ pending \in [Grids -> 0 .. MaxPending]       \* what the WAL replay left; it wakes nobody
  /\ woken = [g \in Grids |-> FALSE] /\ compacting = [g \in Grids |-> FALSE]
  /\ task = [t \in Tasks |-> IF t = Main THEN [pc |-> "serving", at |-> 1]
                             ELSE IF t \in Controllers THEN [pc |-> "waiting", at |-> t[2]]
                             ELSE [pc |-> "idle", at |-> 1]]
  /\ job = [t \in Tasks |-> NoJob]
  /\ outcome = [f \in Flushes |-> [g \in Grids |-> "none"]]
  /\ folded = [f \in Flushes |-> {}]
  /\ render = [r \in Renders |-> NoRender]

Stage == task[Main].pc
RuntimeAlive == Stage \notin {"leaving", "exited"}      \* async tasks are polled

Goto(t, l) == task' = [task EXCEPT ![t].pc = l]
On(t)      == task[t].at

(***************************************************************************)
(* The overlay's operations the tasks share.                               *)
(***************************************************************************)
BeginAlways(g) == TRUE                  \* mutant: is_compacting() asked earlier is relied on
MayBegin(g) == ~compacting[g]

\* try_begin_compaction, one step under the overlay's lock
TryBegin(t, st) ==
  /\ MayBegin(On(t))
  /\ compacting' = [compacting EXCEPT ![On(t)] = TRUE]
  /\ job' = [job EXCEPT ![t] = [st |-> st, took |-> IF st = "running" THEN pending[On(t)] ELSE 0]]

OnlyOk(t) == job[t].st = "ok"            \* mutant: an error returns before end_compaction
NotAwaited(t) == TRUE                    \* mutant: the job is spawned and not awaited
Finished(t) == job[t].st \in {"ok", "failed"}

\* end_compaction, after the task has seen the result of its compaction
EndCompaction(t) ==
  /\ Finished(t)
  /\ compacting' = [compacting EXCEPT ![On(t)] = FALSE]
  /\ job' = [job EXCEPT ![t] = NoJob]

(***************************************************************************)
(* A tile request: hit, empty or failed and answered; or a save follows.   *)
(* The render is on a blocking thread and outlives its connection.         *)
(***************************************************************************)
Request(r, g) ==
  /\ Stage = "serving" /\ render[r].pc = "idle"
  /\ render' = [render EXCEPT ![r] = [pc |-> "encode", grid |-> g, open |-> TRUE]]
  /\ UNCHANGED <<pending, woken, compacting, task, job, outcome, folded>>

HangUp(r) ==
  /\ Disconnects /\ render[r].open
  /\ render' = [render EXCEPT ![r].open = FALSE]
  /\ UNCHANGED <<pending, woken, compacting, task, job, outcome, folded>>

Encode(r) ==
  /\ render[r].pc = "encode"
  /\ \/ render' = [render EXCEPT ![r] = NoRender]
     \/ ~compacting[render[r].grid] /\ render' = [render EXCEPT ![r].pc = "put"]
  /\ UNCHANGED <<pending, woken, compacting, task, job, outcome, folded>>

MaySaveAlways(g) == TRUE                \* mutant: put no longer skips while compacting
MaySave(g) == ~compacting[g]

\* notify_one latches a permit when the controller is not waiting
WakeIfWaiting(g) == Cap > 0 /\ pending[g] + 1 > Cap /\ task[Controller(g)].pc = "waiting"   \* mutant: notify_waiters
Wakes(g) == Cap > 0 /\ pending[g] + 1 > Cap

Put(r) ==
  /\ render[r].pc = "put"
  /\ LET g == render[r].grid IN
       \/ /\ MaySave(g) /\ pending[g] < MaxPending
          /\ pending' = [pending EXCEPT ![g] = @ + 1]
          /\ woken' = [woken EXCEPT ![g] = @ \/ Wakes(g)]
       \/ UNCHANGED <<pending, woken>>      \* skipped, or the append failed: nothing kept
  /\ render' = [render EXCEPT ![r] = NoRender]
  /\ UNCHANGED <<compacting, task, job, outcome, folded>>

(***************************************************************************)
(* The blocking compaction of a task.                                      *)
(***************************************************************************)
\* a blocking thread picks it up; the ids to merge are collected
JobStart(t) ==
  /\ job[t].st = "queued" /\ RuntimeAlive
  /\ job' = [job EXCEPT ![t] = [st |-> "running", took |-> pending[On(t)]]]
  /\ UNCHANGED <<pending, woken, compacting, task, outcome, folded, render>>

\* archive renamed, log truncated
JobFolds(t) ==
  /\ job[t].st = "running"
  /\ pending' = [pending EXCEPT ![On(t)] = 0]
  /\ folded' = [f \in Flushes |-> folded[f] \cup {On(t)}]
  /\ job' = [job EXCEPT ![t].st = "ok"]
  /\ UNCHANGED <<woken, compacting, task, outcome, render>>

\* an error, or a panic, which the await reports as a JoinError
JobFails(t) ==
  /\ Failures /\ job[t].st = "running"
  /\ job' = [job EXCEPT ![t].st = "failed"]
  /\ UNCHANGED <<pending, woken, compacting, task, outcome, folded, render>>

(***************************************************************************)
(* The controller of a grid.                                               *)
(***************************************************************************)
Tick(g) ==
  /\ RuntimeAlive /\ Interval /\ task[Controller(g)].pc = "waiting"
  /\ Goto(Controller(g), "woke")
  /\ UNCHANGED <<pending, woken, compacting, job, outcome, folded, render>>

Wake(g) ==
  /\ RuntimeAlive /\ woken[g] /\ task[Controller(g)].pc = "waiting"
  /\ Goto(Controller(g), "woke")
  /\ woken' = [woken EXCEPT ![g] = FALSE]
  /\ UNCHANGED <<pending, compacting, job, outcome, folded, render>>

\* snapshot_ids().is_empty() asked under one acquisition of the lock ...
CheckEmpty(g) ==
  /\ RuntimeAlive /\ task[Controller(g)].pc = "woke"
  /\ Goto(Controller(g), IF pending[g] = 0 THEN "loop" ELSE "begin")
  /\ UNCHANGED <<pending, woken, compacting, job, outcome, folded, render>>

\* ... ownership taken, or not, under the next
ControllerBegins(g) ==
  LET t == Controller(g) IN
  /\ RuntimeAlive /\ task[t].pc = "begin"
  /\ \/ TryBegin(t, "queued") /\ Goto(t, "await")
     \/ ~MayBegin(g) /\ Goto(t, "loop") /\ UNCHANGED <<compacting, job>>
  /\ UNCHANGED <<pending, woken, outcome, folded, render>>

ControllerEnds(g) ==
  LET t == Controller(g) IN
  /\ RuntimeAlive /\ task[t].pc = "await"
  /\ EndCompaction(t) /\ Goto(t, "loop")
  /\ UNCHANGED <<pending, woken, outcome, folded, render>>

\* back to the select: only from here on is a notification seen while it happens
Listen(g) ==
  /\ RuntimeAlive /\ task[Controller(g)].pc = "loop"
  /\ Goto(Controller(g), "waiting")
  /\ UNCHANGED <<pending, woken, compacting, job, outcome, folded, render>>

(***************************************************************************)
(* POST /mvt/{layer}/flush: one grid after the other.                      *)
(***************************************************************************)
Post(f) ==
  /\ Stage = "serving" /\ task[Flusher(f)].pc = "idle"
  /\ Goto(Flusher(f), "grid")
  /\ folded' = [folded EXCEPT ![f] = {}]
  /\ UNCHANGED <<pending, woken, compacting, job, outcome, render>>

NextGrid(t) == task' = [task EXCEPT ![t] = IF On(t) = N THEN [pc |-> "answered", at |-> N]
                                           ELSE [pc |-> "grid", at |-> On(t) + 1]]
Line(f, l) == outcome' = [outcome EXCEPT ![f][On(Flusher(f))] = l]

FlushBegins(f) ==
  LET t == Flusher(f) IN
  /\ RuntimeAlive /\ task[t].pc = "grid"
  /\ \/ TryBegin(t, "queued") /\ Goto(t, "await") /\ UNCHANGED outcome
     \/ ~MayBegin(On(t)) /\ Line(f, "busy") /\ NextGrid(t) /\ UNCHANGED <<compacting, job>>
  /\ UNCHANGED <<pending, woken, folded, render>>

FlushEnds(f) ==
  LET t == Flusher(f) IN
  /\ RuntimeAlive /\ task[t].pc = "await"
  /\ Line(f, job[t].st)
  /\ EndCompaction(t) /\ NextGrid(t)
  /\ UNCHANGED <<pending, woken, folded, render>>

KeptOnDrop(t) == UNCHANGED compacting

\* the client disconnects: the handler is dropped where it awaits, the job is not
FlushDropped(f) ==
  LET t == Flusher(f) IN
  /\ Disconnects /\ RuntimeAlive /\ task[t].pc = "await"
  /\ Goto(t, "gone")
  /\ KeptOnDrop(t)
  /\ UNCHANGED <<pending, woken, job, outcome, folded, render>>

OkFirst(o) ==                            \* mutant: any_ok asked before any_error
  IF \E g \in Grids : o[g] = "ok" THEN 200
  ELSE IF \E g \in Grids : o[g] = "failed" THEN 500 ELSE 409
Status(o) ==
  IF \E g \in Grids : o[g] = "failed" THEN 500
  ELSE IF \E g \in Grids : o[g] = "ok" THEN 200 ELSE 409

(***************************************************************************)
(* Shutdown: SIGTERM, a drain window of 5 s, one last compaction per grid  *)
(* on the main thread, and the end of the runtime, which drops every task  *)
(* and every queued job but waits for the blocking threads still running.  *)
(***************************************************************************)
Sigterm ==
  /\ Stage = "serving" /\ Goto(Main, "draining")
  /\ UNCHANGED <<pending, woken, compacting, job, outcome, folded, render>>

Connected ==
  {r \in Renders : render[r].open} # {} \/ \E t \in Flushers : task[t].pc \in {"grid", "await"}

Drained ==
  /\ Stage = "draining" /\ ~Connected /\ Goto(Main, "final")
  /\ UNCHANGED <<pending, woken, compacting, job, outcome, folded, render>>

DrainTimeout ==
  /\ Stage = "draining" /\ Goto(Main, "final")
  /\ UNCHANGED <<pending, woken, compacting, job, outcome, folded, render>>

MainNext == task' = [task EXCEPT ![Main] = IF On(Main) = N THEN [pc |-> "leaving", at |-> N]
                                           ELSE [pc |-> "final", at |-> On(Main) + 1]]

FinalCheck ==
  /\ Stage = "final"
  /\ IF pending[On(Main)] = 0 THEN MainNext ELSE Goto(Main, "begin")
  /\ UNCHANGED <<pending, woken, compacting, job, outcome, folded, render>>

WaitForOwner ==                          \* mutant: main waits for ownership instead of skipping
  /\ Stage = "begin" /\ TryBegin(Main, "running") /\ Goto(Main, "await")
  /\ UNCHANGED <<pending, woken, outcome, folded, render>>

FinalBegins ==
  /\ Stage = "begin"
  /\ \/ TryBegin(Main, "running") /\ Goto(Main, "await")
     \/ ~MayBegin(On(Main)) /\ MainNext /\ UNCHANGED <<compacting, job>>
  /\ UNCHANGED <<pending, woken, outcome, folded, render>>

FinalEnds ==
  /\ Stage = "await"
  /\ EndCompaction(Main) /\ MainNext
  /\ UNCHANGED <<pending, woken, outcome, folded, render>>

Blocked == (\E t \in Tasks : job[t].st = "running") \/ (\E r \in Renders : render[r].pc # "idle")

Exit ==
  /\ Stage = "leaving" /\ ~Blocked
  /\ Goto(Main, "exited")
  /\ UNCHANGED <<pending, woken, compacting, job, outcome, folded, render>>

ControllerStep(g) == CheckEmpty(g) \/ ControllerBegins(g) \/ ControllerEnds(g) \/ Listen(g)
FlushStep(f)      == FlushBegins(f) \/ FlushEnds(f)
JobStep(t)        == JobStart(t) \/ JobFolds(t) \/ JobFails(t)
RenderStep(r)     == Encode(r) \/ Put(r)
MainStep          == Drained \/ DrainTimeout \/ FinalCheck \/ FinalBegins \/ FinalEnds \/ Exit

Next ==
  \/ \E r \in Renders : (\E g \in Grids : Request(r, g)) \/ HangUp(r) \/ RenderStep(r)
  \/ \E g \in Grids : Tick(g) \/ Wake(g) \/ ControllerStep(g)
  \/ \E f \in Flushes : Post(f) \/ FlushStep(f) \/ FlushDropped(f)
  \/ \E t \in Tasks : JobStep(t)
  \/ Sigterm \/ MainStep

\* The runtime polls every task that can run, blocking threads run to their end, the drain
\* deadline passes.  Nothing makes a client ask, disconnect or wait, or the operator stop the
\* server; the interval, if there is one, may be longer than anybody waits.
Fairness ==
  /\ \A g \in Grids : WF_vars(Wake(g)) /\ WF_vars(ControllerStep(g))
  /\ \A f \in Flushes : WF_vars(FlushStep(f))
  /\ \A t \in Tasks : WF_vars(JobStep(t))
  /\ \A r \in Renders : WF_vars(RenderStep(r))
  /\ WF_vars(MainStep)

Spec == Init /\ [][Next]_vars
FairSpec == Spec /\ Fairness

(***************************************************************************)
(* Properties.                                                             *)
(***************************************************************************)
Places      == {"serving", "draining", "final", "leaving", "exited",      \* main
                "loop", "waiting", "woke",                                \* controllers
                "idle", "grid", "answered", "gone",                       \* flushes
                "begin", "await"}
Results     == {"none", "busy", "ok", "failed"}
TaskState   == [pc : Places, at : Grids]
JobState    == [st : {"none", "queued", "running", "ok", "failed"}, took : 0 .. MaxPending]
RenderState == [pc : {"idle", "encode", "put"}, grid : 0 .. N, open : BOOLEAN]

TypeOK ==
  /\ pending \in [Grids -> 0 .. MaxPending]
  /\ woken \in [Grids -> BOOLEAN] /\ compacting \in [Grids -> BOOLEAN]
  /\ task \in [Tasks -> TaskState]
  /\ job \in [Tasks -> JobState]
  /\ outcome \in [Flushes -> [Grids -> Results]]
  /\ folded \in [Flushes -> SUBSET Grids]
  /\ render \in [Renders -> RenderState]

Active(t) == job[t].st \in {"queued", "running"}

(***************************************************************************)
(* Whichever tasks compete, and whether or not they are still there, two   *)
(* compactions of one grid never overlap: they would write one scratch     *)
(* file.  (overlay.rs: try_begin_compaction; server.rs: all three callers) *)
(***************************************************************************)
OneCompactionPerGrid ==
  \A t, u \in Tasks : t # u /\ Active(t) /\ Active(u) => On(t) # On(u)

(***************************************************************************)
(* A compaction truncates exactly the records it has collected: no save    *)
(* lands between its snapshot and its truncation, not even after the task  *)
(* that started it is gone.  (overlay.rs: put, compact, clear)             *)
(***************************************************************************)
TruncatesWhatItFolded ==
  \A t \in Tasks : job[t].st = "running" => job[t].took = pending[On(t)]

(***************************************************************************)
(* A flush answered 200 leaves no grid behind: each log was truncated      *)
(* since the request came in, or was in another task's hands when it was   *)
(* visited.  (server.rs: mvt_flush_handler)                                *)
(***************************************************************************)
FlushLeavesNothingBehind ==
  \A f \in Flushes :
    task[Flusher(f)].pc = "answered" /\ Status(outcome[f]) = 200 =>
      \A g \in Grids : g \in folded[f] \/ outcome[f][g] = "busy"

(***************************************************************************)
(* Ownership of an overlay is always given back, "even if the compaction   *)
(* errored or panicked".  (overlay.rs: end_compaction; server.rs: "runs    *)
(* whether the compaction succeeded, errored, or the task panicked")  Not  *)
(* so when the client of a flush disconnects: its handler is dropped.      *)
(***************************************************************************)
OwnershipIsReleased ==
  \A g \in Grids : compacting[g] ~> (~compacting[g] \/ ~RuntimeAlive)

(***************************************************************************)
(* As long as no flush is abandoned, ownership is always given back, by    *)
(* controllers, flushes and main alike, although compactions fail, panic   *)
(* and wait for a blocking thread.  (server.rs: the three callers)         *)
(***************************************************************************)
OwnerReleases ==
  [](\A f \in Flushes : task[Flusher(f)].pc # "gone") => OwnershipIsReleased

(***************************************************************************)
(* "Once the log passes the configured cap, wake the compaction controller *)
(* so it folds the overlay": whenever a put leaves a log of n records,     *)
(* more than the cap, the log is folded, with no further request and no    *)
(* tick, whoever holds the overlay when the wake is consumed.  (The last   *)
(* step from n - 1 records to n is a put.)  It is the put that enforces    *)
(* the cap: a log that a replay left above it, as Init allows, waits for   *)
(* the next put, tick or flush.  Once a compaction fails, the wake it      *)
(* swallowed is gone.                                                      *)
(* (overlay.rs: put; server.rs: the controller)                            *)
(***************************************************************************)
CapIsEnforced ==
  [](\A t \in Tasks : job[t].st # "failed") =>
    \A g \in Grids, n \in 1 .. MaxPending :
      Cap > 0 /\ n > Cap =>
        [](pending[g] = n - 1 => [](pending[g] = n => <>(pending[g] <= Cap \/ Stage # "serving")))

(***************************************************************************)
(* A stopped server exits, whatever the connections, the controllers and   *)
(* the flushes are doing.  (server.rs: serve)                              *)
(***************************************************************************)
ShutdownEnds == (Stage = "draining") ~> (Stage = "exited")
==========================================================================
