--------------------- MODULE CompactionControlProofs ---------------------
(***************************************************************************)
(* Safety of CompactionControl for any number of grids, flushes and        *)
(* requests.  A task holds its grid from try_begin_compaction until        *)
(* end_compaction, also when it was dropped in between; holders of one     *)
(* grid are never two, so what one of them has collected stays the whole   *)
(* log until it truncates it.                                              *)
(***************************************************************************)
EXTENDS CompactionControl, TLAPS

Holds(t) == job[t].st # "none"

\* a controller never leaves its grid
ControllersStay == \A g \in Grids : On(Controller(g)) = g

\* a task stays on its grid as long as it holds it
HoldersAwait == \A t \in Tasks : Holds(t) => task[t].pc \in {"await", "gone"}

\* ... and nobody else can begin, or save, meanwhile
HoldersOwn == \A t \in Tasks : Holds(t) => compacting[On(t)]

OneHolder == \A t, u \in Tasks : t # u /\ Holds(t) /\ Holds(u) => On(t) # On(u)

\* a request that is being served names a grid
RendersHaveGrid == \A r \in Renders : render[r].pc # "idle" => render[r].grid \in Grids

IInv ==
  /\ TypeOK
  /\ HoldersAwait
  /\ HoldersOwn
  /\ OneHolder
  /\ RendersHaveGrid
  /\ TruncatesWhatItFolded

LEMMA TaskNames ==
  /\ \A g \in Grids : Controller(g) \in Tasks
  /\ \A f \in Flushes : Flusher(f) \in Tasks
  /\ Main \in Tasks
BY DEF Tasks, Controllers, Flushers

LEMMA InitInv == Init => IInv
<1> SUFFICES ASSUME Init PROVE IInv
  OBVIOUS
<1>1. 1 \in Grids /\ 0 \in 0 .. N /\ 0 \in 0 .. MaxPending
  BY GridsAssumption DEF Grids
<1>2. \A t \in Controllers : t[2] \in Grids
  BY DEF Controllers, Controller
<1>3. task \in [Tasks -> [pc : {"serving", "waiting", "idle"}, at : Grids]]
  BY <1>1, <1>2 DEF Init
<1>4. job = [t \in Tasks |-> NoJob] /\ render = [r \in Renders |-> NoRender]
  BY DEF Init
<1>5. TypeOK
  <2>1. task \in [Tasks -> TaskState]
    BY <1>3 DEF TaskState, Places
  <2>2. NoJob \in JobState /\ NoRender \in RenderState
    BY <1>1 DEF JobState, RenderState, NoJob, NoRender
  <2>3. job \in [Tasks -> JobState] /\ render \in [Renders -> RenderState]
    BY <1>4, <2>2
  <2>4. pending \in [Grids -> 0 .. MaxPending]
    BY DEF Init
  <2>5. /\ woken \in [Grids -> BOOLEAN] /\ compacting \in [Grids -> BOOLEAN]
        /\ outcome \in [Flushes -> [Grids -> Results]] /\ folded \in [Flushes -> SUBSET Grids]
    BY DEF Init, Results
  <2> QED
    BY <2>1, <2>3, <2>4, <2>5 DEF TypeOK
<1>6. HoldersAwait /\ HoldersOwn /\ OneHolder /\ TruncatesWhatItFolded
  BY <1>4 DEF HoldersAwait, HoldersOwn, OneHolder, TruncatesWhatItFolded, Holds, NoJob
<1>7. RendersHaveGrid
  BY <1>4 DEF RendersHaveGrid, NoRender
<1> QED
  BY <1>5, <1>6, <1>7 DEF IInv

(***************************************************************************)
(* What the steps have in common.                                          *)
(***************************************************************************)
Ownership == HoldersAwait /\ HoldersOwn /\ OneHolder /\ TruncatesWhatItFolded

\* A task that holds nothing may go anywhere.
LEMMA OthersMove ==
  ASSUME IInv, NEW t \in Tasks, ~Holds(t), UNCHANGED <<pending, compacting, job>>,
         \A u \in Tasks : u # t => task'[u] = task[u]
  PROVE  Ownership'
<1>1. \A u \in Tasks : (Holds(u)' <=> Holds(u)) /\ (Holds(u) => u # t /\ task'[u] = task[u])
  BY DEF Holds
<1>2. HoldersAwait' /\ HoldersOwn' /\ OneHolder'
  BY <1>1 DEF IInv, HoldersAwait, HoldersOwn, OneHolder, On
<1>3. TruncatesWhatItFolded'
  BY <1>1 DEF IInv, TruncatesWhatItFolded, Holds, On
<1> QED
  BY <1>2, <1>3 DEF Ownership

\* A task that takes a free grid is its only holder.
LEMMA BeginOwns ==
  ASSUME IInv, NEW t \in Tasks, ~Holds(t), NEW st \in {"queued", "running"}, TryBegin(t, st),
         Goto(t, "await"), UNCHANGED pending
  PROVE  Ownership' /\ job' \in [Tasks -> JobState]
         /\ compacting' \in [Grids -> BOOLEAN]
<1>1. /\ \A u \in Tasks : u # t => task'[u] = task[u] /\ job'[u] = job[u]
      /\ task'[t].pc = "await" /\ task'[t].at = On(t) /\ On(t) \in Grids
      /\ job'[t].st = st /\ (st = "running" => job'[t].took = pending[On(t)])
      /\ compacting' = [compacting EXCEPT ![On(t)] = TRUE] /\ ~compacting[On(t)]
      /\ compacting \in [Grids -> BOOLEAN]
  BY DEF IInv, TypeOK, TaskState, Places, JobState, RenderState, TryBegin, MayBegin, Goto, On
<1>2. HoldersAwait'
  BY <1>1 DEF IInv, HoldersAwait, Holds
<1>3. \A u \in Tasks : u # t /\ Holds(u) => On(u) # On(t)
  BY <1>1 DEF IInv, HoldersOwn
<1>4. HoldersOwn'
  BY <1>1 DEF IInv, TypeOK, HoldersOwn, Holds, On
<1>5. OneHolder'
  BY <1>1, <1>3 DEF IInv, OneHolder, Holds, On
<1>6. TruncatesWhatItFolded'
  BY <1>1 DEF IInv, TruncatesWhatItFolded, On
<1>7. [st |-> st, took |-> IF st = "running" THEN pending[On(t)] ELSE 0]
        \in JobState
  BY <1>1, GridsAssumption DEF IInv, TypeOK, JobState
<1> QED
  BY <1>1, <1>2, <1>4, <1>5, <1>6, <1>7 DEF Ownership, IInv, TypeOK, TryBegin

\* A holder that lets go leaves its grid to nobody.
LEMMA EndReleases ==
  ASSUME IInv, NEW t \in Tasks, EndCompaction(t), UNCHANGED pending,
         \A u \in Tasks : u # t => task'[u] = task[u]
  PROVE  Ownership' /\ job' \in [Tasks -> JobState]
         /\ compacting' \in [Grids -> BOOLEAN]
<1>1. /\ \A u \in Tasks : u # t => job'[u] = job[u]
      /\ job'[t].st = "none" /\ Holds(t) /\ On(t) \in Grids
      /\ compacting' = [compacting EXCEPT ![On(t)] = FALSE]
  BY DEF IInv, TypeOK, TaskState, Places, JobState, RenderState, EndCompaction, Finished, Holds,
     On, NoJob
<1>2. \A u \in Tasks : Holds(u)' => u # t /\ Holds(u) /\ task'[u] = task[u] /\ On(u) # On(t)
  BY <1>1 DEF IInv, OneHolder, Holds
<1>3. HoldersAwait' /\ HoldersOwn' /\ OneHolder'
  BY <1>1, <1>2 DEF IInv, TypeOK, HoldersAwait, HoldersOwn, OneHolder, On
<1>4. TruncatesWhatItFolded'
  BY <1>1, <1>2 DEF IInv, TruncatesWhatItFolded, On
<1> QED
  BY <1>1, <1>3, <1>4, GridsAssumption DEF Ownership, IInv, TypeOK, TaskState, Places, JobState,
     RenderState, EndCompaction, NoJob

(***************************************************************************)
(* One lemma per operation.                                                *)
(***************************************************************************)
LEMMA RenderInv ==
  ASSUME IInv, NEW r \in Renders,
         (\E g \in Grids : Request(r, g)) \/ HangUp(r) \/ Encode(r)
  PROVE  IInv'
<1>1. UNCHANGED <<pending, woken, compacting, task, job, outcome, folded>>
  BY DEF Request, HangUp, Encode
<1>2. render' \in [Renders -> RenderState]
      /\ RendersHaveGrid'
  <2>1. \E m \in RenderState : render' = [render EXCEPT ![r] = m] /\ (m.pc # "idle" => m.grid \in Grids)

          <3>1. render[r] \in RenderState /\ 0 \in 0 .. N /\ (render[r].pc # "idle" => render[r].grid \in Grids)
      BY GridsAssumption DEF IInv, TypeOK, RendersHaveGrid
    <3>2. CASE \E g \in Grids : Request(r, g)
      <4>1. PICK g \in Grids : render' = [render EXCEPT ![r] = [pc |-> "encode", grid |-> g,
         open |-> TRUE]]
        BY <3>2 DEF Request
      <4> DEFINE m == [pc |-> "encode", grid |-> g, open |-> TRUE]
      <4>2. m \in RenderState /\ m.grid \in Grids
        BY GridsAssumption DEF Grids, RenderState
      <4>3. render' = [render EXCEPT ![r] = m]
        BY <4>1
      <4> HIDE DEF m
      <4> QED
        BY <4>2, <4>3
    <3>3. CASE HangUp(r)
      <4> DEFINE m == [render[r] EXCEPT !.open = FALSE]
      <4>1. m \in RenderState /\ m.pc = render[r].pc /\ m.grid = render[r].grid
        BY <3>1 DEF RenderState
      <4>2. render' = [render EXCEPT ![r] = m]
        BY <3>3 DEF HangUp
      <4> HIDE DEF m
      <4> QED
        BY <3>1, <4>1, <4>2
    <3>4. CASE render' = [render EXCEPT ![r] = NoRender]
      <4>1. NoRender \in RenderState /\ NoRender.pc = "idle"
        BY <3>1 DEF NoRender, RenderState
      <4> QED
        BY <3>4, <4>1
    <3>5. CASE Encode(r) /\ render' = [render EXCEPT ![r].pc = "put"]
      <4> DEFINE m == [render[r] EXCEPT !.pc = "put"]
      <4>1. m \in RenderState /\ m.grid = render[r].grid /\ render[r].pc # "idle"
        BY <3>1, <3>5 DEF RenderState, Encode
      <4>2. render' = [render EXCEPT ![r] = m]
        BY <3>5
      <4> HIDE DEF m
      <4> QED
        BY <3>1, <4>1, <4>2
    <3> QED
      BY <3>2, <3>3, <3>4, <3>5 DEF Encode
  <2>2. render \in [Renders -> RenderState]
    BY DEF IInv, TypeOK
  <2>3. render' \in [Renders -> RenderState]
    BY <2>1, <2>2
  <2>4. RendersHaveGrid'
    BY <2>1, <2>2 DEF IInv, RendersHaveGrid
  <2> QED
    BY <2>3, <2>4
<1> QED
  BY <1>1, <1>2 DEF IInv, TypeOK, HoldersAwait, HoldersOwn, OneHolder, TruncatesWhatItFolded, Holds, On

LEMMA PutInv == ASSUME IInv, NEW r \in Renders, Put(r) PROVE IInv'
<1>1. UNCHANGED <<compacting, task, job, outcome, folded>> /\ RendersHaveGrid'
      /\ render' \in [Renders -> RenderState]
  BY GridsAssumption DEF Put, IInv, TypeOK, TaskState, Places, JobState, RenderState,
     RendersHaveGrid, NoRender
<1>2. PICK g \in Grids : g = render[r].grid
  BY DEF Put, IInv, RendersHaveGrid
<1>3. pending' \in [Grids -> 0 .. MaxPending] /\ woken' \in [Grids -> BOOLEAN]
      /\ \A h \in Grids : compacting[h] => pending'[h] = pending[h]
  <2>1. CASE UNCHANGED <<pending, woken>>
    BY <2>1 DEF IInv, TypeOK
  <2>2. CASE /\ MaySave(g) /\ pending[g] < MaxPending
             /\ pending' = [pending EXCEPT ![g] = @ + 1]
             /\ woken' = [woken EXCEPT ![g] = @ \/ Wakes(g)]
    <3>1. Wakes(g) \in BOOLEAN
      BY DEF Wakes
    <3>2. woken' \in [Grids -> BOOLEAN]
      BY <2>2, <3>1, Zenon DEF IInv, TypeOK
    <3>3. pending' \in [Grids -> 0 .. MaxPending]
          /\ \A h \in Grids : compacting[h] => pending'[h] = pending[h]
      BY <2>2, GridsAssumption DEF IInv, TypeOK, MaySave
    <3> QED
      BY <3>2, <3>3
  <2> QED
    BY <1>2, <2>1, <2>2 DEF Put
<1>4. HoldersAwait' /\ HoldersOwn' /\ OneHolder'
  BY <1>1 DEF IInv, HoldersAwait, HoldersOwn, OneHolder, Holds, On
<1>5. TruncatesWhatItFolded'
  <2> SUFFICES ASSUME NEW t \in Tasks, job[t].st = "running" PROVE job[t].took = pending'[On(t)]
    BY <1>1 DEF TruncatesWhatItFolded, On
  <2>1. compacting[On(t)] /\ On(t) \in Grids /\ job[t].took = pending[On(t)]
    BY DEF IInv, TypeOK, TaskState, Places, JobState, RenderState, HoldersOwn, Holds, On,
       TruncatesWhatItFolded
  <2> QED
    BY <1>3, <2>1
<1> QED
  BY <1>1, <1>3, <1>4, <1>5 DEF IInv, TypeOK

LEMMA JobInv == ASSUME IInv, NEW t \in Tasks, JobStep(t) PROVE IInv'
<1>1. /\ UNCHANGED <<woken, compacting, task, outcome, render>> /\ Holds(t)
      /\ \A u \in Tasks : u # t => job'[u] = job[u]
      /\ job'[t].st # "none" /\ On(t) \in Grids
  BY DEF JobStep, JobStart, JobFolds, JobFails, Holds, IInv, TypeOK, TaskState, Places, JobState,
     RenderState, On
<1>2. \A u \in Tasks : Holds(u)' <=> Holds(u)
  BY <1>1 DEF Holds
<1>3. HoldersAwait' /\ HoldersOwn' /\ OneHolder'
  BY <1>1, <1>2 DEF IInv, HoldersAwait, HoldersOwn, OneHolder, On
<1>4. RendersHaveGrid'
  BY <1>1 DEF IInv, RendersHaveGrid
<1>5. CASE JobStart(t) \/ JobFails(t)
  <2>1. pending' = pending /\ folded' = folded
    BY <1>5 DEF JobStart, JobFails
  <2>2. pending[On(t)] \in 0 .. MaxPending /\ job \in [Tasks -> JobState]
    BY <1>1 DEF IInv, TypeOK
  <2>3. job' = [job EXCEPT ![t] = job'[t]] /\ job'[t] \in JobState
        /\ (job'[t].st = "running" => job'[t].took = pending[On(t)])
    <3>1. CASE JobStart(t)
      BY <2>2, <3>1 DEF JobStart, JobState
    <3>2. CASE JobFails(t)
      BY <2>2, <3>2 DEF JobFails, JobState
    <3> QED
      BY <1>5, <3>1, <3>2
  <2>4. job' \in [Tasks -> JobState]
    BY <2>2, <2>3
  <2> QED
    BY <1>1, <1>3, <1>4, <2>1, <2>3, <2>4 DEF IInv, TypeOK, TruncatesWhatItFolded, On
<1>6. CASE JobFolds(t)
  <2>1. pending' \in [Grids -> 0 .. MaxPending] /\ folded' \in [Flushes -> SUBSET Grids]
        /\ job' \in [Tasks -> JobState]
        /\ job'[t].st = "ok"
    BY <1>1, <1>6, GridsAssumption DEF JobFolds, IInv, TypeOK, TaskState, Places, JobState, RenderState
  <2>2. \A u \in Tasks : u # t /\ Holds(u) => pending'[On(u)] = pending[On(u)]
    BY <1>1, <1>6 DEF JobFolds, IInv, TypeOK, OneHolder, On
  <2>3. TruncatesWhatItFolded'
    BY <1>1, <2>1, <2>2 DEF IInv, TruncatesWhatItFolded, Holds, On
  <2> QED
    BY <1>1, <1>3, <1>4, <2>1, <2>3 DEF IInv, TypeOK
<1> QED
  BY <1>5, <1>6 DEF JobStep

\* steps of a task that holds nothing and takes nothing
LEMMA IdleInv ==
  ASSUME IInv, NEW t \in Tasks, ~Holds(t), NEW m, task' = [task EXCEPT ![t] = m],
         m \in TaskState,
         UNCHANGED <<pending, compacting, job, render>>, woken' \in [Grids -> BOOLEAN],
         outcome' \in [Flushes -> [Grids -> Results]],
         folded' \in [Flushes -> SUBSET Grids]
  PROVE  IInv'
<1>1. Ownership'
  BY OthersMove DEF IInv, TypeOK
<1>2. TypeOK' /\ RendersHaveGrid'
  BY DEF IInv, TypeOK, RendersHaveGrid
<1> QED
  BY <1>1, <1>2 DEF IInv, Ownership

LEMMA ControllerInv ==
  ASSUME IInv, NEW g \in Grids, Tick(g) \/ Wake(g) \/ ControllerStep(g)
  PROVE  IInv'
<1> DEFINE t == Controller(g)
<1>1. t \in Tasks /\ task[t].at \in Grids /\ task \in [Tasks -> TaskState]
  BY TaskNames DEF IInv, TypeOK, TaskState
<1>2. ASSUME NEW l \in {"loop", "waiting", "woke", "begin"}, task[t].pc \notin {"await", "gone"},
             Goto(t, l), UNCHANGED <<pending, compacting, job, outcome, folded, render>>,
             woken' \in [Grids -> BOOLEAN]
      PROVE  IInv'
  <2>1. task' = [task EXCEPT ![t] = task'[t]] /\ task'[t] \in TaskState
    BY <1>1, <1>2 DEF Goto, TaskState, Places
  <2>2. ~Holds(t)
    BY <1>1, <1>2 DEF IInv, HoldersAwait
  <2>3. outcome' \in [Flushes -> [Grids -> Results]]
        /\ folded' \in [Flushes -> SUBSET Grids]
    BY <1>2 DEF IInv, TypeOK
  <2> HIDE DEF t
  <2> QED
    BY <1>1, <1>2, <2>1, <2>2, <2>3, IdleInv
<1>3. CASE Tick(g) \/ Wake(g) \/ CheckEmpty(g) \/ Listen(g)
  BY <1>2, <1>3 DEF Tick, Wake, CheckEmpty, Listen, IInv, TypeOK
<1>4. CASE ControllerBegins(g)
  <2>1. CASE TryBegin(t, "queued") /\ Goto(t, "await")
    <3>1. ~Holds(t) /\ UNCHANGED <<pending, woken, outcome, folded, render>>
      BY <1>1, <1>4 DEF ControllerBegins, IInv, HoldersAwait
    <3>2. task' \in [Tasks -> TaskState]
      BY <1>1, <2>1 DEF Goto, IInv, TypeOK, TaskState, Places, JobState, RenderState
    <3> HIDE DEF t
    <3>3. Ownership' /\ compacting' \in [Grids -> BOOLEAN]
          /\ job' \in [Tasks -> JobState]
      BY <1>1, <2>1, <3>1, BeginOwns
    <3> QED
      BY <3>1, <3>2, <3>3 DEF IInv, TypeOK, Ownership, RendersHaveGrid
  <2>2. CASE Goto(t, "loop") /\ UNCHANGED <<compacting, job>>
    BY <1>2, <1>4, <2>2 DEF ControllerBegins, IInv, TypeOK
  <2> QED
    BY <1>4, <2>1, <2>2 DEF ControllerBegins
<1>5. CASE ControllerEnds(g)
  <2>1. EndCompaction(t) /\ Goto(t, "loop") /\ UNCHANGED <<pending, woken, outcome, folded, render>>
    BY <1>5 DEF ControllerEnds
  <2>2. task' \in [Tasks -> TaskState]
        /\ \A u \in Tasks : u # t => task'[u] = task[u]
    BY <1>1, <2>1 DEF Goto, IInv, TypeOK, TaskState, Places, JobState, RenderState
  <2> HIDE DEF t
  <2>3. Ownership' /\ compacting' \in [Grids -> BOOLEAN]
        /\ job' \in [Tasks -> JobState]
    BY <1>1, <2>1, <2>2, EndReleases
  <2> QED
    BY <2>1, <2>2, <2>3 DEF IInv, TypeOK, Ownership, RendersHaveGrid
<1> QED
  BY <1>3, <1>4, <1>5 DEF ControllerStep

LEMMA GridsGoOn == \A g \in Grids : N \in Grids /\ (g # N => g + 1 \in Grids)
BY GridsAssumption DEF Grids

LEMMA FlushInv ==
  ASSUME IInv, NEW f \in Flushes, Post(f) \/ FlushStep(f) \/ FlushDropped(f)
  PROVE  IInv'
<1> DEFINE t == Flusher(f)
<1>1. /\ t \in Tasks /\ On(t) \in Grids /\ task \in [Tasks -> TaskState]
      /\ outcome \in [Flushes -> [Grids -> Results]] /\ folded \in [Flushes -> SUBSET Grids]
      /\ woken \in [Grids -> BOOLEAN]
  BY TaskNames DEF IInv, TypeOK, TaskState, On
<1>2. CASE Post(f)
  <2>1. task' = [task EXCEPT ![t] = task'[t]] /\ task'[t] \in TaskState
    BY <1>1, <1>2 DEF Post, Goto, TaskState, Places
  <2>2. ~Holds(t)
    BY <1>1, <1>2 DEF Post, IInv, HoldersAwait
  <2>3. /\ UNCHANGED <<pending, woken, compacting, job, outcome, render>>
        /\ folded' \in [Flushes -> SUBSET Grids]
    BY <1>1, <1>2 DEF Post
  <2> HIDE DEF t
  <2> QED
    BY <1>1, <2>1, <2>2, <2>3, IdleInv
<1>3. ASSUME NextGrid(t) PROVE task' = [task EXCEPT ![t] = task'[t]] /\ task'[t] \in TaskState
  BY <1>1, <1>3, GridsGoOn DEF NextGrid, TaskState, Places
<1>4. CASE FlushBegins(f)
  <2>1. ~Holds(t) /\ UNCHANGED <<pending, woken, folded, render>>
    BY <1>1, <1>4 DEF FlushBegins, IInv, HoldersAwait
  <2>2. CASE TryBegin(t, "queued") /\ Goto(t, "await") /\ UNCHANGED outcome
    <3>1. task' \in [Tasks -> TaskState]
      BY <1>1, <2>2 DEF Goto, TaskState, Places
    <3> HIDE DEF t
    <3>2. Ownership' /\ job' \in [Tasks -> JobState] /\ compacting' \in [Grids -> BOOLEAN]
      BY <1>1, <2>1, <2>2, BeginOwns
    <3> QED
      BY <2>1, <2>2, <3>1, <3>2 DEF IInv, TypeOK, Ownership, RendersHaveGrid
  <2>3. CASE Line(f, "busy") /\ NextGrid(t) /\ UNCHANGED <<compacting, job>>
    <3>1. outcome' \in [Flushes -> [Grids -> Results]]
      BY <1>1, <2>3 DEF Line, Results
    <3>2. task' = [task EXCEPT ![t] = task'[t]] /\ task'[t] \in TaskState
      BY <1>3, <2>3
    <3> HIDE DEF t
    <3> QED
      BY <1>1, <2>1, <2>3, <3>1, <3>2, IdleInv
  <2> QED
    BY <1>4, <2>2, <2>3 DEF FlushBegins
<1>5. CASE FlushEnds(f)
  <2>1. EndCompaction(t) /\ NextGrid(t) /\ UNCHANGED <<pending, woken, folded, render>>
    BY <1>5 DEF FlushEnds
  <2>2. outcome' \in [Flushes -> [Grids -> Results]]
    BY <1>1, <1>5 DEF FlushEnds, EndCompaction, Finished, Line, Results
  <2>3. task' \in [Tasks -> TaskState] /\ \A u \in Tasks : u # t => task'[u] = task[u]
    BY <1>1, <1>3, <2>1
  <2> HIDE DEF t
  <2>4. Ownership' /\ job' \in [Tasks -> JobState] /\ compacting' \in [Grids -> BOOLEAN]
    BY <1>1, <2>1, <2>3, EndReleases
  <2> QED
    BY <2>1, <2>2, <2>3, <2>4 DEF IInv, TypeOK, Ownership, RendersHaveGrid
<1>6. CASE FlushDropped(f)
  <2>1. UNCHANGED <<pending, woken, compacting, job, outcome, folded, render>> /\ Goto(t, "gone")
    BY <1>6 DEF FlushDropped, KeptOnDrop
  <2>2. /\ task' \in [Tasks -> TaskState]
        /\ \A u \in Tasks : task'[u].at = task[u].at /\ task'[u].pc \in {task[u].pc, "gone"}
    BY <1>1, <2>1 DEF Goto, TaskState, Places
  <2>3. HoldersAwait' /\ HoldersOwn' /\ OneHolder' /\ TruncatesWhatItFolded'
    BY <2>1, <2>2 DEF IInv, HoldersAwait, HoldersOwn, OneHolder, TruncatesWhatItFolded, Holds, On
  <2> QED
    BY <2>1, <2>2, <2>3 DEF IInv, TypeOK, RendersHaveGrid
<1> QED
  BY <1>2, <1>4, <1>5, <1>6 DEF FlushStep

LEMMA MainInv == ASSUME IInv, Sigterm \/ MainStep PROVE IInv'
<1>1. /\ Main \in Tasks /\ On(Main) \in Grids /\ task \in [Tasks -> TaskState]
      /\ outcome \in [Flushes -> [Grids -> Results]] /\ folded \in [Flushes -> SUBSET Grids]
      /\ woken \in [Grids -> BOOLEAN]
  BY TaskNames DEF IInv, TypeOK, TaskState, On
<1>2. UNCHANGED <<pending, woken, outcome, folded, render>>
  BY DEF Sigterm, MainStep, Drained, DrainTimeout, FinalCheck, FinalBegins, FinalEnds, Exit
<1>3. ASSUME MainNext PROVE task' = [task EXCEPT ![Main] = task'[Main]] /\ task'[Main] \in TaskState
  BY <1>1, <1>3, GridsGoOn DEF MainNext, TaskState, Places
<1>4. ASSUME NEW l \in Places, Goto(Main, l)
      PROVE  task' = [task EXCEPT ![Main] = task'[Main]] /\ task'[Main] \in TaskState
  BY <1>1, <1>4 DEF Goto, TaskState
<1>5. CASE TryBegin(Main, "running") /\ Goto(Main, "await") /\ Stage = "begin"
  <2>1. ~Holds(Main) /\ task' \in [Tasks -> TaskState]
    BY <1>1, <1>4, <1>5 DEF IInv, HoldersAwait, Stage, Places
  <2>2. Ownership' /\ job' \in [Tasks -> JobState] /\ compacting' \in [Grids -> BOOLEAN]
    BY <1>1, <1>2, <1>5, <2>1, BeginOwns
  <2> QED
    BY <1>2, <2>1, <2>2 DEF IInv, TypeOK, Ownership, RendersHaveGrid
<1>6. CASE FinalEnds
  <2>1. task' \in [Tasks -> TaskState] /\ \A u \in Tasks : u # Main => task'[u] = task[u]
    BY <1>1, <1>3, <1>6 DEF FinalEnds
  <2>2. Ownership' /\ job' \in [Tasks -> JobState] /\ compacting' \in [Grids -> BOOLEAN]
    BY <1>1, <1>2, <1>6, <2>1, EndReleases DEF FinalEnds
  <2> QED
    BY <1>2, <2>1, <2>2 DEF IInv, TypeOK, Ownership, RendersHaveGrid
<1>7. CASE /\ Stage # "await" /\ UNCHANGED <<compacting, job>>
           /\ MainNext \/ \E l \in Places : Goto(Main, l)
  <2>1. ~Holds(Main) \/ Stage = "gone"
    BY <1>1, <1>7 DEF IInv, HoldersAwait, Stage
  <2>2. task' = [task EXCEPT ![Main] = task'[Main]] /\ task'[Main] \in TaskState
    BY <1>3, <1>4, <1>7
  <2>3. CASE ~Holds(Main)
    BY <1>1, <1>2, <1>7, <2>2, <2>3, IdleInv
  <2>4. Stage # "gone"
    BY DEF Sigterm, MainStep, Drained, DrainTimeout, FinalCheck, FinalBegins, FinalEnds, Exit
  <2> QED
    BY <2>1, <2>3, <2>4
<1>8. CASE Sigterm \/ Drained \/ DrainTimeout \/ FinalCheck \/ Exit
  <2>1. /\ Stage # "await" /\ UNCHANGED <<compacting, job>>
        /\ \/ MainNext \/ Goto(Main, "draining") \/ Goto(Main, "final") \/ Goto(Main, "begin")
           \/ Goto(Main, "exited")
    BY <1>8 DEF Sigterm, Drained, DrainTimeout, FinalCheck, Exit
  <2>2. {"draining", "final", "begin", "exited"} \subseteq Places
    BY DEF Places
  <2> QED
    BY <1>7, <2>1, <2>2
<1>9. CASE FinalBegins
  BY <1>5, <1>7, <1>9 DEF FinalBegins
<1> QED
  BY <1>6, <1>8, <1>9 DEF MainStep

LEMMA NextInv == IInv /\ [Next]_vars => IInv'
<1> SUFFICES ASSUME IInv, [Next]_vars PROVE IInv'
  OBVIOUS
<1>1. CASE UNCHANGED vars
  BY <1>1 DEF vars, IInv, TypeOK, HoldersAwait, HoldersOwn, OneHolder, RendersHaveGrid,
     TruncatesWhatItFolded, Holds, On
<1>2. CASE \E r \in Renders : (\E g \in Grids : Request(r, g)) \/ HangUp(r) \/ RenderStep(r)
  BY <1>2, RenderInv, PutInv DEF RenderStep
<1>3. CASE \E g \in Grids : Tick(g) \/ Wake(g) \/ ControllerStep(g)
  BY <1>3, ControllerInv
<1>4. CASE \E f \in Flushes : Post(f) \/ FlushStep(f) \/ FlushDropped(f)
  BY <1>4, FlushInv
<1>5. CASE \E t \in Tasks : JobStep(t)
  BY <1>5, JobInv
<1>6. CASE Sigterm \/ MainStep
  BY <1>6, MainInv
<1> QED
  BY <1>1, <1>2, <1>3, <1>4, <1>5, <1>6 DEF Next

(***************************************************************************)
(* How a grid changes hands.                                               *)
(***************************************************************************)
Keeps(t, g) == Holds(t) /\ On(t) = g
Freed(g)    == compacting[g] /\ ~compacting'[g]

\* A grid never passes from one task straight to another, and is freed by nobody but the task that
\* holds it, once its compaction is over.
HandsBack ==
  \A g \in Grids :
    /\ \A t, u \in Tasks : t # u /\ Keeps(t, g) => ~Keeps(u, g)'
    /\ Freed(g) => \E t \in Tasks : Keeps(t, g) /\ Finished(t) /\ ~Holds(t)'

\* Who holds a grid after a step held it before, or took it while it was free.
HeldOrFree(u) == Holds(u)' => (Holds(u) /\ On(u)' = On(u)) \/ ~compacting[On(u)']

LEMMA NothingHeld ==
  ASSUME UNCHANGED <<compacting, job>>, \A u \in Tasks : Holds(u) => On(u)' = On(u)
  PROVE  (\A u \in Tasks : HeldOrFree(u)) /\ (\A g \in Grids : ~Freed(g))
BY DEF HeldOrFree, Holds, Freed

LEMMA GoingKeepsTheGrid ==
  ASSUME IInv, NEW t \in Tasks, NEW l, Goto(t, l)
  PROVE  \A u \in Tasks : On(u)' = On(u)
BY DEF IInv, TypeOK, TaskState, Goto, On

LEMMA BeginTakesFree ==
  ASSUME IInv, NEW t \in Tasks, NEW st, TryBegin(t, st), Goto(t, "await")
  PROVE  (\A u \in Tasks : HeldOrFree(u)) /\ (\A g \in Grids : ~Freed(g))
<1>1. \A u \in Tasks : On(u)' = On(u)
  BY GoingKeepsTheGrid
<1>2. \A u \in Tasks : u # t => job'[u] = job[u]
  BY DEF IInv, TypeOK, TryBegin
<1>3. ~compacting[On(t)] /\ compacting' = [compacting EXCEPT ![On(t)] = TRUE] /\ compacting \in [Grids -> BOOLEAN]
  BY DEF IInv, TypeOK, TryBegin, MayBegin
<1> QED
  BY <1>1, <1>2, <1>3 DEF HeldOrFree, Holds, Freed

LEMMA EndFrees ==
  ASSUME IInv, NEW t \in Tasks, EndCompaction(t), \A u \in Tasks : u # t => task'[u] = task[u]
  PROVE  /\ \A u \in Tasks : HeldOrFree(u)
         /\ \A g \in Grids : Freed(g) => Keeps(t, g) /\ Finished(t) /\ ~Holds(t)'
<1>1. /\ job'[t].st = "none" /\ Finished(t) /\ Holds(t)
      /\ \A u \in Tasks : u # t => job'[u] = job[u]
      /\ compacting' = [compacting EXCEPT ![On(t)] = FALSE] /\ compacting \in [Grids -> BOOLEAN]
  BY DEF IInv, TypeOK, EndCompaction, Finished, Holds, NoJob
<1>2. \A u \in Tasks : HeldOrFree(u)
  BY <1>1 DEF HeldOrFree, Holds, On
<1>3. \A g \in Grids : Freed(g) => g = On(t)
  BY <1>1 DEF Freed
<1> QED
  BY <1>1, <1>2, <1>3 DEF Keeps, Holds

\* A task that is not where a compaction is awaited holds nothing, and may change grids.
LEMMA IdleMoves ==
  ASSUME IInv, NEW t \in Tasks, task[t].pc \notin {"await", "gone"}, UNCHANGED <<compacting, job>>,
         \A u \in Tasks : u # t => task'[u] = task[u]
  PROVE  (\A u \in Tasks : HeldOrFree(u)) /\ (\A g \in Grids : ~Freed(g))
<1>1. ~Holds(t)
  BY DEF IInv, HoldersAwait
<1>2. \A u \in Tasks : Holds(u) => On(u)' = On(u)
  BY <1>1 DEF On
<1> QED
  BY <1>2, NothingHeld

FreedByItsHolder == \A g \in Grids : Freed(g) => \E t \in Tasks : Keeps(t, g) /\ Finished(t) /\ ~Holds(t)'
Handover == (\A u \in Tasks : HeldOrFree(u)) /\ FreedByItsHolder

LEMMA JobHandover == ASSUME IInv, NEW t \in Tasks, JobStep(t) PROVE Handover
<1>1. UNCHANGED <<compacting, task>> /\ job[t].st # "none" /\ \A u \in Tasks : u # t => job'[u] = job[u]
  BY DEF JobStep, JobStart, JobFolds, JobFails, IInv, TypeOK
<1> QED
  BY <1>1 DEF Handover, HeldOrFree, FreedByItsHolder, Freed, Holds, On

LEMMA ControllerHandover == ASSUME IInv, NEW g \in Grids, Tick(g) \/ Wake(g) \/ ControllerStep(g) PROVE Handover
<1> DEFINE t == Controller(g)
<1>0. t \in Tasks
  BY TaskNames
<1>1. CASE Tick(g) \/ Wake(g) \/ CheckEmpty(g) \/ Listen(g) \/ (ControllerBegins(g) /\ UNCHANGED <<compacting, job>>)
  <2>1. UNCHANGED <<compacting, job>> /\ \E l : Goto(t, l)
    BY <1>1 DEF Tick, Wake, CheckEmpty, Listen, ControllerBegins, TryBegin
  <2> QED
    BY <1>0, <2>1, GoingKeepsTheGrid, NothingHeld DEF Handover, FreedByItsHolder
<1>2. CASE TryBegin(t, "queued") /\ Goto(t, "await")
  BY <1>0, <1>2, BeginTakesFree DEF Handover, FreedByItsHolder
<1>3. CASE ControllerEnds(g)
  <2>1. EndCompaction(t) /\ \A u \in Tasks : u # t => task'[u] = task[u]
    BY <1>3, <1>0 DEF ControllerEnds, Goto, IInv, TypeOK
  <2> QED
    BY <1>0, <2>1, EndFrees DEF Handover, FreedByItsHolder
<1> QED
  BY <1>1, <1>2, <1>3 DEF ControllerStep, ControllerBegins

LEMMA FlushHandover ==
  ASSUME IInv, NEW f \in Flushes, Post(f) \/ FlushStep(f) \/ FlushDropped(f)
  PROVE  Handover
<1> DEFINE t == Flusher(f)
<1>0. t \in Tasks
  BY TaskNames
<1>1. CASE Post(f) \/ FlushDropped(f)
  <2>1. UNCHANGED <<compacting, job>> /\ \E l : Goto(t, l)
    BY <1>1 DEF Post, FlushDropped, KeptOnDrop
  <2> QED
    BY <1>0, <2>1, GoingKeepsTheGrid, NothingHeld DEF Handover, FreedByItsHolder
<1>2. CASE TryBegin(t, "queued") /\ Goto(t, "await")
  BY <1>0, <1>2, BeginTakesFree DEF Handover, FreedByItsHolder
<1>3. CASE task[t].pc = "grid" /\ NextGrid(t) /\ UNCHANGED <<compacting, job>>
  <2>1. \A u \in Tasks : u # t => task'[u] = task[u]
    BY <1>0, <1>3 DEF NextGrid, IInv, TypeOK
  <2> QED
    BY <1>0, <1>3, <2>1, IdleMoves DEF Handover, FreedByItsHolder
<1>4. CASE FlushEnds(f)
  <2>1. EndCompaction(t) /\ \A u \in Tasks : u # t => task'[u] = task[u]
    BY <1>4, <1>0 DEF FlushEnds, NextGrid, IInv, TypeOK
  <2> QED
    BY <1>0, <2>1, EndFrees DEF Handover, FreedByItsHolder
<1> QED
  BY <1>1, <1>2, <1>3, <1>4 DEF FlushStep, FlushBegins

LEMMA MainHandover == ASSUME IInv, Sigterm \/ MainStep PROVE Handover
<1>0. Main \in Tasks
  BY TaskNames
<1>1. CASE Sigterm \/ Drained \/ DrainTimeout \/ Exit \/ (FinalCheck /\ ~MainNext)
  <2>1. UNCHANGED <<compacting, job>> /\ \E l : Goto(Main, l)
    BY <1>1 DEF Sigterm, Drained, DrainTimeout, Exit, FinalCheck
  <2> QED
    BY <1>0, <2>1, GoingKeepsTheGrid, NothingHeld DEF Handover, FreedByItsHolder
<1>2. CASE Stage \in {"final", "begin"} /\ MainNext /\ UNCHANGED <<compacting, job>>
  <2>1. \A u \in Tasks : u # Main => task'[u] = task[u]
    BY <1>0, <1>2 DEF MainNext, IInv, TypeOK
  <2> QED
    BY <1>0, <1>2, <2>1, IdleMoves DEF Handover, FreedByItsHolder, Stage
<1>3. CASE TryBegin(Main, "running") /\ Goto(Main, "await")
  BY <1>0, <1>3, BeginTakesFree DEF Handover, FreedByItsHolder
<1>4. CASE FinalEnds
  <2>1. EndCompaction(Main) /\ \A u \in Tasks : u # Main => task'[u] = task[u]
    BY <1>4, <1>0 DEF FinalEnds, MainNext, IInv, TypeOK
  <2> QED
    BY <1>0, <2>1, EndFrees DEF Handover, FreedByItsHolder
<1> QED
  BY <1>1, <1>2, <1>3, <1>4 DEF MainStep, FinalCheck, FinalBegins

LEMMA StepHandover == IInv /\ [Next]_vars => Handover
<1> SUFFICES ASSUME IInv, [Next]_vars PROVE Handover
  OBVIOUS
<1>1. CASE UNCHANGED vars
  BY <1>1, NothingHeld DEF vars, On, Handover, FreedByItsHolder
<1>2. CASE \E r \in Renders : (\E g \in Grids : Request(r, g)) \/ HangUp(r) \/ RenderStep(r)
  <2>1. UNCHANGED <<compacting, task, job>>
    BY <1>2 DEF Request, HangUp, RenderStep, Encode, Put
  <2> QED
    BY <2>1, NothingHeld DEF On, Handover, FreedByItsHolder
<1>3. CASE \E g \in Grids : Tick(g) \/ Wake(g) \/ ControllerStep(g)
  BY <1>3, ControllerHandover
<1>4. CASE \E f \in Flushes : Post(f) \/ FlushStep(f) \/ FlushDropped(f)
  BY <1>4, FlushHandover
<1>5. CASE \E t \in Tasks : JobStep(t)
  BY <1>5, JobHandover
<1>6. CASE Sigterm \/ MainStep
  BY <1>6, MainHandover
<1> QED
  BY <1>1, <1>2, <1>3, <1>4, <1>5, <1>6 DEF Next

LEMMA HandsBackStep == IInv /\ [Next]_vars => HandsBack
<1> SUFFICES ASSUME IInv, [Next]_vars, NEW g \in Grids
             PROVE  /\ \A t, u \in Tasks : t # u /\ Keeps(t, g) => ~Keeps(u, g)'
                    /\ Freed(g) => \E t \in Tasks : Keeps(t, g) /\ Finished(t) /\ ~Holds(t)'
  BY DEF HandsBack
<1>1. Handover
  BY StepHandover
<1>2. ASSUME NEW t \in Tasks, NEW u \in Tasks, t # u, Keeps(t, g), Keeps(u, g)' PROVE FALSE
  <2>1. compacting[g]
    BY <1>2 DEF IInv, HoldersOwn, Keeps
  <2>2. Holds(u) /\ On(u) = g
    BY <1>1, <1>2, <2>1 DEF Handover, HeldOrFree, Keeps
  <2> QED
    BY <1>2, <2>2 DEF IInv, OneHolder, Keeps
<1> QED
  BY <1>1, <1>2 DEF Handover, FreedByItsHolder

(***************************************************************************)
(* What a flush has written down so far.                                   *)
(***************************************************************************)
Visited(f) ==
  CASE task[Flusher(f)].pc = "idle"     -> {}
    [] task[Flusher(f)].pc = "answered" -> Grids
    [] OTHER                            -> {g \in Grids : g < On(Flusher(f))}

\* one line per grid it has visited, and "ok" only for a log truncated since it came in
FlushRecord(f) ==
  /\ \A g \in Visited(f) : outcome[f][g] # "none"
  /\ task[Flusher(f)].pc = "idle" =>
       On(Flusher(f)) = 1 /\ \A g \in Grids : outcome[f][g] = "none"
  /\ \A g \in Grids : outcome[f][g] = "ok" => g \in folded[f]
  /\ job[Flusher(f)].st = "ok" => On(Flusher(f)) \in folded[f]

LEMMA NamesDiffer ==
  /\ \A f \in Flushes : Flusher(f) # Main /\ \A g \in Grids : Flusher(f) # Controller(g)
  /\ \A f, h \in Flushes : f # h => Flusher(f) # Flusher(h)
BY DEF Flusher, Main, Controller

\* a flush that does not move keeps its record, whatever is folded meanwhile
LEMMA RecordStays ==
  ASSUME NEW f \in Flushes, FlushRecord(f), outcome'[f] = outcome[f],
         task'[Flusher(f)] = task[Flusher(f)], folded[f] \subseteq folded'[f],
         job'[Flusher(f)].st = "ok" => job[Flusher(f)].st = "ok" \/ On(Flusher(f)) \in folded'[f]
  PROVE  FlushRecord(f)'
<1>1. Visited(f)' = Visited(f)
  BY DEF Visited, On
<1> QED
  BY <1>1 DEF FlushRecord, On

LEMMA FlushMoves ==
  ASSUME IInv, NEW f \in Flushes, FlushRecord(f), Post(f) \/ FlushStep(f) \/ FlushDropped(f)
  PROVE  FlushRecord(f)'
<1> DEFINE t == Flusher(f)
<1>1. /\ t \in Tasks /\ On(t) \in Grids /\ task \in [Tasks -> TaskState]
      /\ outcome \in [Flushes -> [Grids -> Results]] /\ folded \in [Flushes -> SUBSET Grids]
      /\ job \in [Tasks -> JobState] /\ Grids = 1 .. N /\ N \in Nat
  BY TaskNames, GridsAssumption DEF IInv, TypeOK, TaskState, On, Grids
<1>2. CASE Post(f)
  <2>1. task[t].pc = "idle" /\ job[t].st = "none"
    BY <1>1, <1>2 DEF Post, IInv, HoldersAwait, Holds
  <2>2. task'[t].pc = "grid" /\ task'[t].at = 1 /\ outcome' = outcome /\ job' = job
    BY <1>1, <1>2, <2>1 DEF Post, Goto, TaskState, FlushRecord, On
  <2>3. \A g \in Grids : outcome[f][g] = "none"
    BY <2>1 DEF FlushRecord
  <2>4. Visited(f)' = {}
    BY <1>1, <2>2 DEF Visited, On
  <2> QED
    BY <2>1, <2>2, <2>3, <2>4 DEF FlushRecord
\* it writes a line for the grid it is on and goes to the next one
<1>3. ASSUME NEW l \in Results \ {"none"}, Line(f, l), NextGrid(t), UNCHANGED folded,
             task[t].pc \in {"grid", "await"}, job'[t].st = "none",
             l = "ok" => On(t) \in folded[f]
      PROVE  FlushRecord(f)'
  <2>1. /\ outcome'[f] = [outcome[f] EXCEPT ![On(t)] = l]
        /\ outcome[f] \in [Grids -> Results]
    BY <1>1, <1>3 DEF Line
  <2>2. task'[t] = IF On(t) = N THEN [pc |-> "answered", at |-> N]
                   ELSE [pc |-> "grid", at |-> On(t) + 1]
    BY <1>1, <1>3 DEF NextGrid
  <2>3. Visited(f)' = Visited(f) \cup {On(t)}
    BY <1>1, <1>3, <2>2 DEF Visited, On
  <2>4. \A g \in Visited(f)' : outcome'[f][g] # "none"
    BY <1>1, <1>3, <2>1, <2>3 DEF FlushRecord, Visited
  <2>5. \A g \in Grids : outcome'[f][g] = "ok" => g \in folded'[f]
    BY <1>1, <1>3, <2>1 DEF FlushRecord
  <2> QED
    BY <1>3, <2>2, <2>4, <2>5 DEF FlushRecord
\* it goes to, or away from, an await
<1>4. ASSUME NEW l \in {"await", "gone"}, Goto(t, l), task[t].pc \in {"grid", "await"},
             UNCHANGED <<outcome, folded>>, job'[t].st = "ok" => job[t].st = "ok"
      PROVE  FlushRecord(f)'
  <2>1. task'[t].pc = l /\ task'[t].at = task[t].at
    BY <1>1, <1>4 DEF Goto, TaskState
  <2>2. Visited(f)' = Visited(f)
    BY <1>4, <2>1 DEF Visited, On
  <2> QED
    BY <1>4, <2>1, <2>2 DEF FlushRecord, On
<1>5. CASE FlushBegins(f)
  <2>1. task[t].pc = "grid" /\ UNCHANGED folded /\ job[t].st = "none"
    BY <1>1, <1>5 DEF FlushBegins, IInv, HoldersAwait, Holds
  <2>2. CASE TryBegin(t, "queued") /\ Goto(t, "await") /\ UNCHANGED outcome
    <3>1. job'[t].st = "queued"
      BY <1>1, <2>2 DEF TryBegin
    <3> QED
      BY <1>4, <2>1, <2>2, <3>1
  <2>3. CASE Line(f, "busy") /\ NextGrid(t) /\ UNCHANGED <<compacting, job>>
    BY <1>3, <2>1, <2>3 DEF Results
  <2> QED
    BY <1>5, <2>2, <2>3 DEF FlushBegins
<1>6. CASE FlushEnds(f)
  <2>1. /\ task[t].pc = "await" /\ UNCHANGED folded /\ NextGrid(t)
        /\ job[t].st \in {"ok", "failed"} /\ Line(f, job[t].st) /\ job'[t].st = "none"
    BY <1>1, <1>6 DEF FlushEnds, EndCompaction, Finished, NoJob
  <2>2. job[t].st = "ok" => On(t) \in folded[f]
    BY DEF FlushRecord
  <2> QED
    BY <1>3, <2>1, <2>2 DEF Results
<1>7. CASE FlushDropped(f)
  BY <1>4, <1>7 DEF FlushDropped
<1> QED
  BY <1>2, <1>5, <1>6, <1>7 DEF FlushStep

LEMMA RecordsKept ==
  ASSUME IInv, NEW f \in Flushes, FlushRecord(f), [Next]_vars
  PROVE  FlushRecord(f)'
<1> DEFINE t == Flusher(f)
<1>1. /\ t \in Tasks /\ task \in [Tasks -> TaskState] /\ job \in [Tasks -> JobState]
      /\ outcome \in [Flushes -> [Grids -> Results]] /\ folded \in [Flushes -> SUBSET Grids]
  BY TaskNames DEF IInv, TypeOK
<1>2. CASE UNCHANGED vars
  BY <1>2, RecordStays DEF vars
<1>3. CASE \E r \in Renders : (\E g \in Grids : Request(r, g)) \/ HangUp(r) \/ RenderStep(r)
  <2>1. UNCHANGED <<task, job, outcome, folded>>
    BY <1>3 DEF Request, HangUp, RenderStep, Encode, Put
  <2> QED
    BY <2>1, RecordStays
<1>4. CASE \E g \in Grids : Tick(g) \/ Wake(g) \/ ControllerStep(g)
  <2>1. PICK g \in Grids : Tick(g) \/ Wake(g) \/ ControllerStep(g)
    BY <1>4
  <2>2. t # Controller(g)
    BY NamesDiffer
  <2>3. UNCHANGED <<outcome, folded>> /\ task'[t] = task[t] /\ job'[t] = job[t]
    BY <1>1, <2>1, <2>2 DEF Tick, Wake, ControllerStep, CheckEmpty, ControllerBegins,
       ControllerEnds, Listen, Goto, TryBegin, EndCompaction
  <2> QED
    BY <2>3, RecordStays
<1>5. CASE \E h \in Flushes : Post(h) \/ FlushStep(h) \/ FlushDropped(h)
  <2>1. PICK h \in Flushes : Post(h) \/ FlushStep(h) \/ FlushDropped(h)
    BY <1>5
  <2>2. CASE h = f
    BY <2>1, <2>2, FlushMoves
  <2>3. CASE h # f
    <3>1. t # Flusher(h)
      BY <2>3, NamesDiffer
    <3>2. task'[t] = task[t] /\ job'[t] = job[t]
      BY <1>1, <2>1, <3>1 DEF Post, FlushStep, FlushBegins, FlushEnds, FlushDropped, Goto,
         NextGrid, TryBegin, EndCompaction
    <3>3. outcome'[f] = outcome[f] /\ folded'[f] = folded[f]
      BY <1>1, <2>1, <2>3 DEF Post, FlushStep, FlushBegins, FlushEnds, FlushDropped, Line
    <3> QED
      BY <3>2, <3>3, RecordStays
  <2> QED
    BY <2>2, <2>3
<1>6. CASE \E u \in Tasks : JobStep(u)
  <2>1. PICK u \in Tasks : JobStep(u)
    BY <1>6
  <2>2. UNCHANGED <<task, outcome>> /\ folded[f] \subseteq folded'[f]
    BY <1>1, <2>1 DEF JobStep, JobStart, JobFolds, JobFails
  <2>3. job'[t].st = "ok" => job[t].st = "ok" \/ On(t) \in folded'[f]
    <3>1. CASE JobFolds(u)
      <4>1. job' = [job EXCEPT ![u].st = "ok"] /\ folded'[f] = folded[f] \cup {On(u)}
        BY <1>1, <3>1 DEF JobFolds
      <4> QED
        BY <1>1, <4>1
    <3>2. CASE JobStart(u) \/ JobFails(u)
      BY <1>1, <3>2 DEF JobStart, JobFails, JobState
    <3> QED
      BY <2>1, <3>1, <3>2 DEF JobStep
  <2> QED
    BY <2>2, <2>3, RecordStays
<1>7. CASE Sigterm \/ MainStep
  <2>1. t # Main
    BY NamesDiffer
  <2>2. UNCHANGED <<outcome, folded>> /\ task'[t] = task[t] /\ job'[t] = job[t]
    BY <1>1, <1>7, <2>1 DEF Sigterm, MainStep, Drained, DrainTimeout, FinalCheck, FinalBegins,
       FinalEnds, Exit, Goto, MainNext, TryBegin, EndCompaction
  <2> QED
    BY <2>2, RecordStays
<1> QED
  BY <1>2, <1>3, <1>4, <1>5, <1>6, <1>7 DEF Next

(***************************************************************************)
(* Theorems.                                                               *)
(***************************************************************************)
LEMMA SpecInv == Spec => []IInv
<1>1. Init => IInv
  BY InitInv
<1>2. IInv /\ [Next]_vars => IInv'
  BY NextInv
<1> QED
  BY <1>1, <1>2, PTL DEF Spec

\* Two compactions of one grid never overlap, for any number of grids, flushes and requests, with
\* disconnecting clients and during a shutdown.  (overlay.rs: try_begin_compaction)
THEOREM NeverTwoCompactions == Spec => []OneCompactionPerGrid
<1>1. IInv => OneCompactionPerGrid
  BY DEF IInv, OneHolder, OneCompactionPerGrid, Active, Holds
<1> QED
  BY <1>1, SpecInv, PTL

\* No record reaches a log between the snapshot of a compaction and its truncation.
\* (overlay.rs: put, compact, clear)
THEOREM NothingTruncatedUnfolded == Spec => []TruncatesWhatItFolded
<1>1. IInv => TruncatesWhatItFolded
  BY DEF IInv
<1> QED
  BY <1>1, SpecInv, PTL

\* A flush that answers 200 has truncated every grid that nobody else held when it came by, however
\* many grids, flushes and requests there are.  (server.rs: mvt_flush_handler)
THEOREM FlushIsThorough == Spec => []FlushLeavesNothingBehind
<1> DEFINE Records == \A f \in Flushes : FlushRecord(f)
<1>1. Init => Records
  <2> SUFFICES ASSUME Init, NEW f \in Flushes PROVE FlushRecord(f)
    OBVIOUS
  <2>1. Flusher(f) \in Tasks /\ Flusher(f) # Main /\ Flusher(f) \notin Controllers
    BY TaskNames, NamesDiffer DEF Controllers
  <2>2. task[Flusher(f)] = [pc |-> "idle", at |-> 1] /\ job[Flusher(f)] = NoJob
    BY <2>1 DEF Init
  <2>3. \A g \in Grids : outcome[f][g] = "none"
    BY DEF Init
  <2> QED
    BY <2>2, <2>3 DEF FlushRecord, Visited, On, NoJob
<1>2. IInv /\ Records /\ [Next]_vars => Records'
  BY RecordsKept
<1>3. IInv /\ Records => FlushLeavesNothingBehind
  <2> SUFFICES ASSUME IInv, Records, NEW f \in Flushes, task[Flusher(f)].pc = "answered",
                      Status(outcome[f]) = 200, NEW g \in Grids
               PROVE  g \in folded[f] \/ outcome[f][g] = "busy"
    BY DEF FlushLeavesNothingBehind
  <2>1. outcome[f][g] \in Results /\ outcome[f][g] # "failed"
    BY DEF IInv, TypeOK, Status
  <2>2. FlushRecord(f)
    OBVIOUS
  <2>3. outcome[f][g] # "none"
    BY <2>2 DEF FlushRecord, Visited
  <2> QED
    BY <2>1, <2>2, <2>3 DEF Results, FlushRecord
<1> HIDE DEF Records
<1> QED
  BY <1>1, <1>2, <1>3, SpecInv, PTL DEF Spec

\* Every grid, task, job, flush and request stays what it is.  (server.rs: serve)
THEOREM ControlTypes == Spec => []TypeOK
<1>1. IInv => TypeOK
  BY DEF IInv
<1> QED
  BY <1>1, SpecInv, PTL

\* However many tasks compete for a grid, and whoever gives up: ownership never passes from one of
\* them straight to another, and nobody frees a grid but the task that holds it, after its
\* compaction is over.  (overlay.rs: try_begin_compaction, end_compaction; server.rs: its callers)
THEOREM OwnershipIsHandedBack == Spec => [][HandsBack]_vars
<1>1. IInv /\ [Next]_vars => HandsBack
  BY HandsBackStep
<1> QED
  BY <1>1, SpecInv, PTL DEF Spec
==========================================================================
