------------------------ MODULE PostgisSourceProofs ------------------------
(***************************************************************************)
(* A query ends in time, and answers with the features of the place or     *)
(* fails for a cause, for any number of callers, any pool, any table and   *)
(* any timers.                                                             *)
(***************************************************************************)
EXTENDS PostgisSource, FiniteSetTheorems, SequenceTheorems, WellFoundedInduction, TLAPS

Stages == {"resting", "queued", "connecting", "preparing", "streaming", "done"}
Fields == {"stage", "at", "age", "place", "gate", "conn", "todo", "rows", "out", "slow", "answer"}
WellFormed(call) ==
    /\ DOMAIN call = Fields
    /\ call.stage \in Stages
    /\ call.at \in Nat /\ call.age \in Nat
    /\ call.slow \in BOOLEAN
Shapes ==
    /\ site \in Sites
    /\ outages \in Nat
    /\ DOMAIN calls = 1 .. site.max_inflight
    /\ \A c \in Callers : WellFormed(calls[c])

LEMMA RestingWellFormed == WellFormed(Resting)
  BY DEF WellFormed, Resting, Fields, Stages

\* One caller moves, the others stay.
LEMMA OneMoves ==
  ASSUME Shapes, UNCHANGED <<site, outages>>, NEW c \in Callers, NEW call,
         WellFormed(call), calls' = [calls EXCEPT ![c] = call]
  PROVE  /\ Shapes'
         /\ calls'[c] = call
         /\ \A d \in Callers \ {c} : calls'[d] = calls[d]
  BY DEF Shapes, Callers, WellFormed

---------------------------------------------------------------------------
\* The invariant.

HoldStages == {"connecting", "preparing", "streaming"}
One(b) == IF b THEN 1 ELSE 0
PoolKept == Cardinality(Holding) <= site.pool

\* As long as the database has not failed, every wait is explained: nobody
\* waits both for a connection to be given back and for a new one to be
\* made, so a query that is not slow to plan is inside its budget.
Clean == outages = 0 /\ remote # Nothing
Patience == ConnectTimeout + PoolWait - 1
AliveConns == [state : {"alive"}, owes : BOOLEAN]
Timed(call) ==
    /\ call.stage = "queued" => call.age = call.at /\ call.at <= PoolWait
    /\ call.stage = "connecting" => call.age = call.at /\ call.at <= ConnectTimeout
    /\ call.stage = "preparing" => call.age <= call.at + Patience
    /\ call.stage \in {"queued", "connecting", "preparing"} => call.slow = FALSE
    /\ call.stage = "streaming" =>
          /\ call.conn.owes = FALSE
          /\ site.timeout # 0 => call.at <= site.timeout
          /\ call.slow = FALSE => call.age <= call.at + Patience + Margin
Connects(call) == call.stage \in {"preparing", "streaming"} => call.conn \in AliveConns
Excused(call) == call.stage = "done" /\ ~call.answer[1].ok => Explained(call.answer[1])
Saturated == Len(idle) + Cardinality(Holding) >= site.pool
Calm ==
    /\ link = "up"
    /\ idle \in Seq(AliveConns)
    /\ remote[1].warned = (site.pool < site.max_inflight)
    /\ \A c \in Callers : Connects(calls[c]) /\ Timed(calls[c]) /\ Excused(calls[c])
    /\ (\E c \in Callers : calls[c].stage = "queued" /\ calls[c].at > 0) => Saturated

IInv == Shapes /\ EndInTime /\ PoolKept /\ (Clean => Calm)

---------------------------------------------------------------------------
\* Who holds a connection, when one caller moves.

LEMMA HoldingFinite ==
  ASSUME Configured, Shapes
  PROVE  /\ IsFiniteSet(Callers)
         /\ IsFiniteSet(Holding)
         /\ Cardinality(Holding) \in Nat
         /\ Cardinality(Callers) = site.max_inflight
         /\ site.pool \in Nat /\ site.max_inflight \in Nat /\ site.timeout \in Nat
<1>1. site.pool \in Nat /\ site.max_inflight \in Nat /\ site.timeout \in Nat
  BY DEF Configured, Shapes
<1>2. IsFiniteSet(Callers) /\ Cardinality(Callers) = site.max_inflight
  BY <1>1, FS_Interval DEF Shapes, Callers
<1>3. Holding \subseteq Callers
  BY DEF Holding
<1> QED
  BY <1>1, <1>2, <1>3, FS_Subset, FS_CardinalityType

LEMMA HoldingMoves ==
  ASSUME Configured, Shapes, UNCHANGED <<site, outages>>, NEW c \in Callers, NEW call,
         WellFormed(call), calls' = [calls EXCEPT ![c] = call]
  PROVE  Cardinality(Holding') = Cardinality(Holding) - One(Holds(c)) + One(call.stage \in HoldStages)
<1>1. /\ calls'[c] = call
      /\ \A d \in Callers \ {c} : calls'[d] = calls[d]
      /\ Callers' = Callers
  BY OneMoves DEF Shapes, Callers
<1>2. Holding' = IF call.stage \in HoldStages THEN Holding \cup {c} ELSE Holding \ {c}
  BY <1>1 DEF Holding, Holds, HoldStages
<1>3. IsFiniteSet(Holding) /\ Cardinality(Holding) \in Nat
  BY HoldingFinite
<1>4. Holds(c) <=> c \in Holding
  BY DEF Holding
<1>5. CASE call.stage \in HoldStages
  <2>1. Cardinality(Holding \cup {c}) = IF c \in Holding THEN Cardinality(Holding) ELSE Cardinality(Holding) + 1
    BY <1>3, FS_AddElement
  <2> QED
    BY <1>2, <1>3, <1>4, <1>5, <2>1 DEF One
<1>6. CASE call.stage \notin HoldStages
  <2>1. Cardinality(Holding \ {c}) = IF c \in Holding THEN Cardinality(Holding) - 1 ELSE Cardinality(Holding)
    BY <1>3, FS_RemoveElement
  <2> QED
    BY <1>2, <1>3, <1>4, <1>6, <2>1 DEF One
<1> QED
  BY <1>5, <1>6

---------------------------------------------------------------------------
\* What it takes for a move of one caller to keep the invariant.

Settled == UNCHANGED <<site, remote, link, outages>>

LEMMA MoveKeeps ==
  ASSUME Configured, IInv, Settled, NEW c \in Callers, NEW call,
         WellFormed(call), calls' = [calls EXCEPT ![c] = call],
         InTime(call),
         call.stage \in HoldStages => Holds(c) \/ Permits > 0,
         Clean =>
            /\ idle' \in Seq(AliveConns)
            /\ Connects(call) /\ Timed(call) /\ Excused(call)
            /\ call.stage = "queued" => call.at = 0
            /\ \/ Len(idle') + One(call.stage \in HoldStages) >= Len(idle) + One(Holds(c))
               \/ \A d \in Callers \ {c} : calls[d].stage = "queued" => calls[d].at = 0
  PROVE  IInv'
<1>1. Shapes' /\ Callers' = Callers
  BY OneMoves DEF IInv, Shapes, Callers, Settled
<1>2. calls'[c] = call /\ \A d \in Callers \ {c} : calls'[d] = calls[d]
  BY OneMoves DEF IInv, Settled
<1>3. Cardinality(Holding') = Cardinality(Holding) - One(Holds(c)) + One(call.stage \in HoldStages)
  BY HoldingMoves DEF IInv, Settled
<1>4. Cardinality(Holding) \in Nat /\ site.pool \in Nat
  BY HoldingFinite DEF IInv
<1>5. EndInTime'
  BY <1>1, <1>2 DEF IInv, EndInTime, InTime, Settled
<1>6. PoolKept'
  BY <1>3, <1>4 DEF IInv, PoolKept, Permits, One, Settled
<1>7. Clean' => Calm'
  <2> SUFFICES ASSUME Clean PROVE Calm'
    BY DEF Clean, Settled
  <2>1. /\ link' = "up"
        /\ idle' \in Seq(AliveConns) /\ idle \in Seq(AliveConns)
        /\ remote'[1].warned = (site'.pool < site'.max_inflight)
    BY DEF IInv, Calm, Settled
  <2>2. \A d \in Callers' : (Connects(calls[d]) /\ Timed(calls[d]) /\ Excused(calls[d]))'
    BY <1>1, <1>2 DEF IInv, Calm, Connects, Timed, Excused, Explained, Settled
  <2>3. (\E d \in Callers : calls[d].stage = "queued" /\ calls[d].at > 0)' => Saturated'
    <3> SUFFICES ASSUME NEW d \in Callers, calls'[d].stage = "queued", calls'[d].at > 0
                 PROVE  Saturated'
      BY <1>1
    <3>1. d # c /\ calls'[d] = calls[d]
      BY <1>2
    <3>2. Saturated
      BY <3>1 DEF IInv, Calm
    <3>3. Len(idle') + One(call.stage \in HoldStages) >= Len(idle) + One(Holds(c))
      BY <3>1, <1>1 DEF IInv, Shapes, WellFormed
    <3> QED
      BY <1>3, <1>4, <2>1, <3>2, <3>3, LenProperties DEF Saturated, One, Settled
  <2> QED
    BY <2>1, <2>2, <2>3 DEF Calm
<1> QED
  BY <1>1, <1>5, <1>6, <1>7 DEF IInv

---------------------------------------------------------------------------
\* The callers' steps.

LEMMA CallFacts ==
  ASSUME Configured, IInv, NEW c \in Callers
  PROVE  /\ WellFormed(calls[c])
         /\ InTime(calls[c])
         /\ ConnectTimeout \in Nat \ {0} /\ PoolWait \in Nat \ {0} /\ Margin \in Nat
         /\ site.timeout \in Nat /\ site.pool \in Nat
  BY HoldingFinite DEF IInv, Shapes, EndInTime, Configured

LEMMA CalmFacts ==
  ASSUME Configured, IInv, Clean, NEW c \in Callers
  PROVE  /\ Connects(calls[c]) /\ Timed(calls[c]) /\ Excused(calls[c])
         /\ link = "up"
         /\ idle \in Seq(AliveConns) /\ Len(idle) \in Nat
  BY LenProperties DEF IInv, Calm

LEMMA PreparingIsCalm ==
  ASSUME NEW call, call.stage = "preparing", call.conn \in AliveConns, call.slow = FALSE,
         call.age <= call.at + Patience
  PROVE  Connects(call) /\ Timed(call) /\ Excused(call)
  BY DEF Connects, Timed, Excused

LEMMA AskedKeeps ==
  ASSUME Configured, IInv, NEW c \in Callers, NEW place, NEW gate, query_gated(c, place, gate)
  PROVE  IInv'
<1> DEFINE call == [[Resting EXCEPT !.stage = "queued", !.place = place, !.gate = gate] EXCEPT !.at = 0]
<1>1. calls' = [calls EXCEPT ![c] = call] /\ Settled /\ idle' = idle
  BY DEF query_gated, Enter, Settled
<1>2. WellFormed(call) /\ call.stage = "queued" /\ call.at = 0 /\ call.age = 0 /\ call.slow = FALSE
  BY DEF WellFormed, Resting, Fields, Stages
<1>3. ~Holds(c)
  BY DEF query_gated, Asking, Holds
<1>4. InTime(call)
  BY <1>2, CallFacts DEF InTime
<1>5. Connects(call) /\ Timed(call) /\ Excused(call) /\ call.stage \notin HoldStages
  BY <1>2, CallFacts DEF Connects, Timed, Excused, HoldStages
<1>6. Clean => idle' \in Seq(AliveConns) /\ Len(idle) \in Nat
  BY <1>1, LenProperties DEF IInv, Calm
<1>7. Clean => Len(idle') + One(call.stage \in HoldStages) >= Len(idle) + One(Holds(c))
  BY <1>1, <1>3, <1>5, <1>6 DEF One
<1> HIDE DEF call
<1> QED
  BY <1>1, <1>2, <1>4, <1>5, <1>6, <1>7, MoveKeeps

LEMMA UsableWhenAlive ==
  ASSUME idle \in Seq(AliveConns)
  PROVE  Usable(idle) = idle
<1>1. \A i \in DOMAIN idle : idle[i].state = "alive"
  <2>1. DOMAIN idle = 1 .. Len(idle)
    BY LenProperties
  <2>2. \A i \in 1 .. Len(idle) : idle[i] \in AliveConns
    BY ElementOfSeq
  <2> QED
    BY <2>1, <2>2 DEF AliveConns
<1>2. {i \in DOMAIN idle : idle[i].state # "closed"} = DOMAIN idle
  BY <1>1
<1>3. CASE idle = <<>>
  BY <1>2, <1>3 DEF Usable
<1>4. CASE idle # <<>>
  <2>1. DOMAIN idle = 1 .. Len(idle) /\ Len(idle) \in Nat \ {0}
    BY <1>4, LenProperties, EmptySeq
  <2>2. Min(DOMAIN idle) = 1
    BY <2>1 DEF Min
  <2>3. SubSeq(idle, 1, Len(idle)) = idle
    BY <2>1, SubSeqFull
  <2>4. DOMAIN idle # {}
    <3>1. 1 \in 1 .. Len(idle)
      BY <2>1
    <3> QED
      BY <2>1, <3>1
  <2> QED
    BY <1>2, <2>2, <2>3, <2>4 DEF Usable
<1> QED
  BY <1>3, <1>4

LEMMA GetKeeps ==
  ASSUME Configured, IInv, NEW c \in Callers, Get(c)
  PROVE  IInv'
<1>1. calls[c].stage = "queued" /\ Permits > 0 /\ Settled /\ ~Holds(c)
  BY DEF Get, Settled, Holds
<1>2. Clean => /\ idle \in Seq(AliveConns) /\ Len(idle) \in Nat
               /\ Usable(idle) = idle
               /\ calls[c].age = calls[c].at /\ calls[c].at <= PoolWait /\ calls[c].slow = FALSE
               /\ calls[c].at > 0 => idle # <<>>
  <2> SUFFICES ASSUME Clean
               PROVE  /\ idle \in Seq(AliveConns) /\ Len(idle) \in Nat
                      /\ Usable(idle) = idle
                      /\ calls[c].age = calls[c].at /\ calls[c].at <= PoolWait /\ calls[c].slow = FALSE
                      /\ calls[c].at > 0 => idle # <<>>
    OBVIOUS
  <2>1. idle \in Seq(AliveConns) /\ Len(idle) \in Nat /\ Usable(idle) = idle
    BY UsableWhenAlive, LenProperties DEF IInv, Calm
  <2>2. calls[c].age = calls[c].at /\ calls[c].at <= PoolWait /\ calls[c].slow = FALSE
    BY <1>1 DEF IInv, Calm, Timed
  <2>3. ASSUME calls[c].at > 0 PROVE idle # <<>>
    <3>1. Saturated
      BY <1>1, <2>3 DEF IInv, Calm
    <3>2. Cardinality(Holding) < site.pool /\ Cardinality(Holding) \in Nat /\ site.pool \in Nat
      BY <1>1, HoldingFinite DEF Permits, IInv
    <3>3. Len(idle) > 0
      BY <2>1, <3>1, <3>2 DEF Saturated
    <3> QED
      BY <3>3, EmptySeq
  <2> QED
    BY <2>1, <2>2, <2>3
<1>3. CASE Usable(idle) = <<>>
  <2> DEFINE call == [[calls[c] EXCEPT !.stage = "connecting"] EXCEPT !.at = 0]
  <2>1. calls' = [calls EXCEPT ![c] = call] /\ idle' = <<>>
    BY <1>3 DEF Get, Enter
  <2>2. /\ WellFormed(call) /\ call.stage = "connecting" /\ call.at = 0 /\ call.age = calls[c].age
        /\ call.slow = calls[c].slow
    BY CallFacts DEF WellFormed, Fields, Stages
  <2>3. InTime(call)
    BY <2>2, CallFacts DEF InTime
  <2>4. Clean => calls[c].at = 0 /\ idle = <<>>
    BY <1>2, <1>3, CallFacts DEF WellFormed
  <2>5. Clean => Connects(call) /\ Timed(call) /\ Excused(call)
    BY <1>2, <2>2, <2>4, CallFacts DEF Connects, Timed, Excused
  <2>6. idle' \in Seq(AliveConns) /\ call.stage # "queued"
    BY <2>1, <2>2
  <2>7. Clean => Len(idle') + One(call.stage \in HoldStages) >= Len(idle) + One(Holds(c))
    BY <1>1, <1>2, <2>1, <2>2, <2>4 DEF One, HoldStages
  <2> HIDE DEF call
  <2> QED
    BY <1>1, <2>1, <2>2, <2>3, <2>5, <2>6, <2>7, MoveKeeps
<1>4. CASE Usable(idle) # <<>>
  <2> DEFINE call == [[calls[c] EXCEPT !.stage = "preparing", !.conn = Usable(idle)[1]] EXCEPT !.at = 0]
  <2>1. calls' = [calls EXCEPT ![c] = call] /\ idle' = Tail(Usable(idle))
    BY <1>4 DEF Get, Enter
  <2>2. /\ WellFormed(call) /\ call.stage = "preparing" /\ call.at = 0 /\ call.age = calls[c].age
        /\ call.conn = Usable(idle)[1] /\ call.slow = calls[c].slow
    BY CallFacts DEF WellFormed, Fields, Stages
  <2>3. InTime(call)
    BY <2>2, CallFacts DEF InTime
  <2>4. Clean => call.conn \in AliveConns /\ idle' \in Seq(AliveConns) /\ Len(idle') = Len(idle) - 1
    BY <1>2, <1>4, <2>1, <2>2, HeadTailProperties, EmptySeq, LenProperties, ElementOfSeq
  <2>5. Clean => Connects(call) /\ Timed(call) /\ Excused(call)
    <3> HIDE DEF call
    <3>1. Clean => call.age <= call.at + Patience
      BY <1>2, <2>2, CallFacts DEF Patience, WellFormed
    <3> QED
      BY <1>2, <2>2, <2>4, <3>1, PreparingIsCalm
  <2>7. Clean => Len(idle') + One(call.stage \in HoldStages) >= Len(idle) + One(Holds(c))
    BY <1>1, <1>2, <2>2, <2>4 DEF One, HoldStages
  <2> HIDE DEF call
  <2> QED
    BY <1>1, <2>1, <2>2, <2>3, <2>4, <2>5, <2>7, MoveKeeps
<1> QED
  BY <1>3, <1>4

LEMMA CreateKeeps ==
  ASSUME Configured, IInv, NEW c \in Callers, Create(c)
  PROVE  IInv'
<1> DEFINE call == [[calls[c] EXCEPT !.stage = "preparing", !.conn = Fresh] EXCEPT !.at = 0]
<1>1. calls' = [calls EXCEPT ![c] = call] /\ Settled /\ idle' = idle /\ calls[c].stage = "connecting" /\ Holds(c)
  BY DEF Create, Enter, Settled, Holds
<1>2. /\ WellFormed(call) /\ call.stage = "preparing" /\ call.at = 0 /\ call.age = calls[c].age
      /\ call.conn = Fresh /\ call.slow = calls[c].slow
  BY CallFacts DEF WellFormed, Fields, Stages
<1>3. InTime(call)
  BY <1>2, CallFacts DEF InTime
<1>4. Fresh \in AliveConns
  BY DEF Fresh, AliveConns
<1>5. Clean => Connects(call) /\ Timed(call) /\ Excused(call)
  <2> HIDE DEF call
  <2>1. Clean => calls[c].age <= ConnectTimeout /\ calls[c].slow = FALSE
    BY <1>1, CalmFacts, CallFacts DEF Timed, WellFormed
  <2>2. Clean => call.age <= call.at + Patience
    BY <1>2, <2>1, CallFacts DEF Patience, WellFormed
  <2> QED
    BY <1>2, <1>4, <2>1, <2>2, PreparingIsCalm
<1>6. Clean => idle' \in Seq(AliveConns) /\ Len(idle) \in Nat
  BY <1>1, LenProperties DEF IInv, Calm
<1>7. Clean => Len(idle') + One(call.stage \in HoldStages) >= Len(idle) + One(Holds(c))
  BY <1>1, <1>2, <1>6 DEF One, HoldStages
<1> HIDE DEF call
<1> QED
  BY <1>1, <1>2, <1>3, <1>5, <1>6, <1>7, MoveKeeps

LEMMA PrepareKeeps ==
  ASSUME Configured, IInv, NEW c \in Callers, Prepare(c)
  PROVE  IInv'
<1> PICK rows \in Run(build_sql(remote[1], site.cap, calls[c].gate), EnvelopeOf(c), site.db) :
      Enter(c, [calls[c] EXCEPT !.stage = "streaming", !.todo = rows, !.slow = Slow(c)])
  BY DEF Prepare
<1> DEFINE call == [[calls[c] EXCEPT !.stage = "streaming", !.todo = rows, !.slow = Slow(c)] EXCEPT !.at = 0]
<1>1. /\ calls' = [calls EXCEPT ![c] = call] /\ Settled /\ idle' = idle
      /\ calls[c].stage = "preparing" /\ Holds(c) /\ ~calls[c].conn.owes
  BY DEF Prepare, Enter, Settled, Holds, Answers
<1>2. /\ WellFormed(call) /\ call.stage = "streaming" /\ call.at = 0 /\ call.age = calls[c].age
      /\ call.conn = calls[c].conn /\ call.slow = Slow(c)
  <2>1. Slow(c) \in BOOLEAN
    BY CallFacts, Zenon DEF Slow, WellFormed
  <2> QED
    BY <2>1, CallFacts DEF WellFormed, Fields, Stages
<1> HIDE DEF call
<1>3. InTime(call)
  BY <1>2, CallFacts DEF InTime
<1>4. ASSUME Clean PROVE Connects(call) /\ Timed(call) /\ Excused(call)
  <2>1. calls[c].conn \in AliveConns /\ calls[c].age <= calls[c].at + Patience
    BY <1>1, <1>4, CalmFacts DEF Connects, Timed
  <2>2. call.slow = FALSE => calls[c].at <= Margin
    <3>1. call.slow = FALSE => ~Slow(c)
      BY <1>2
    <3>2. ~Slow(c) => ~(calls[c].at > Margin)
      BY <1>1 DEF Slow
    <3> QED
      BY <3>1, <3>2, CallFacts DEF WellFormed
  <2>3. call.slow = FALSE => call.age <= call.at + Patience + Margin
    BY <1>2, <2>1, <2>2, CallFacts DEF Patience, WellFormed
  <2>4. call.conn.owes = FALSE
    BY <1>1, <1>2, <2>1 DEF AliveConns
  <2> QED
    BY <1>2, <2>1, <2>3, <2>4, CallFacts DEF Connects, Timed, Excused
<1>5. Clean => idle' \in Seq(AliveConns) /\ Len(idle) \in Nat
  BY <1>1, CalmFacts
<1>6. Clean => Len(idle') + One(call.stage \in HoldStages) >= Len(idle) + One(Holds(c))
  BY <1>1, <1>2, <1>5 DEF One, HoldStages
<1> QED
  BY <1>1, <1>2, <1>3, <1>4, <1>5, <1>6, MoveKeeps

LEMMA NextRowKeeps ==
  ASSUME Configured, IInv, NEW c \in Callers, NextRow(c)
  PROVE  IInv'
<1> DEFINE i == Min(calls[c].todo)
           call == [calls[c] EXCEPT !.todo = @ \ {i}, !.rows = @ + 1,
                                    !.out = AddRow(@, remote[1], site.db, site.db.rows[i])]
<1>1. calls' = [calls EXCEPT ![c] = call] /\ Settled /\ idle' = idle /\ calls[c].stage = "streaming" /\ Holds(c)
  BY DEF NextRow, Settled, Holds
<1>2. /\ WellFormed(call) /\ call.stage = "streaming" /\ call.at = calls[c].at /\ call.age = calls[c].age
      /\ call.conn = calls[c].conn /\ call.slow = calls[c].slow
  BY <1>1, CallFacts DEF WellFormed, Fields
<1> HIDE DEF call
<1>3. InTime(call)
  BY <1>2, CallFacts DEF InTime
<1>4. Clean => Connects(call) /\ Timed(call) /\ Excused(call)
  BY <1>1, <1>2, CalmFacts DEF Connects, Timed, Excused
<1>5. Clean => idle' \in Seq(AliveConns) /\ Len(idle) \in Nat
  BY <1>1, CalmFacts
<1>6. Clean => Len(idle') + One(call.stage \in HoldStages) >= Len(idle) + One(Holds(c))
  BY <1>1, <1>2, <1>5 DEF One, HoldStages
<1> QED
  BY <1>1, <1>2, <1>3, <1>4, <1>5, <1>6, MoveKeeps

---------------------------------------------------------------------------
\* The ends of a query.

LEMMA EndKeeps ==
  ASSUME Configured, IInv, NEW c \in Callers, NEW answer, NEW owes \in BOOLEAN,
         Asking(c), End(c, answer, owes),
         Clean => (answer.ok \/ Explained(answer)) /\ calls[c].stage # "connecting"
  PROVE  IInv'
<1> DEFINE call == [[Resting EXCEPT !.stage = "done", !.place = calls[c].place, !.gate = calls[c].gate,
                                    !.answer = Some(answer)] EXCEPT !.at = 0]
<1>1. calls' = [calls EXCEPT ![c] = call] /\ Settled /\ idle' = GivenBack(c, owes)
  BY DEF End, Done, Enter, Settled
<1>2. /\ WellFormed(call) /\ call.stage = "done" /\ call.at = 0 /\ call.age = 0
      /\ call.answer[1] = answer
  BY DEF WellFormed, Resting, Fields, Stages, Some
<1> HIDE DEF call
<1>3. InTime(call)
  BY <1>2, CallFacts DEF InTime
<1>4. Clean => Connects(call) /\ Timed(call) /\ Excused(call)
  BY <1>2 DEF Connects, Timed, Excused
<1>5. ASSUME Clean
      PROVE  /\ idle' \in Seq(AliveConns)
             /\ Len(idle') + One(call.stage \in HoldStages) >= Len(idle) + One(Holds(c))
  <2>1. CASE Stating(c)
    <3> DEFINE conn == [Noticed(calls[c].conn) EXCEPT !.owes = @ \/ owes]
    <3>1. calls[c].conn \in AliveConns
      BY <1>5, <2>1, CalmFacts DEF Connects, Stating
    <3>2. Noticed(calls[c].conn) = calls[c].conn
      BY <3>1 DEF Noticed, AliveConns
    <3>3. conn \in AliveConns
      BY <3>1, <3>2 DEF AliveConns
    <3>4. idle' = Append(idle, conn)
      BY <1>1, <2>1 DEF GivenBack
    <3> HIDE DEF conn
    <3>5. idle' \in Seq(AliveConns) /\ Len(idle') = Len(idle) + 1
      BY <1>5, <3>3, <3>4, CalmFacts, AppendProperties
    <3> QED
      BY <1>2, <1>5, <3>5, CalmFacts DEF One, HoldStages
  <2>2. CASE ~Stating(c)
    <3>1. idle' = idle /\ ~Holds(c)
      BY <1>1, <1>5, <2>2 DEF GivenBack, Stating, Holds
    <3> QED
      BY <1>2, <1>5, <3>1, CalmFacts DEF One, HoldStages
  <2> QED
    BY <2>1, <2>2
<1> QED
  BY <1>1, <1>2, <1>3, <1>4, <1>5, MoveKeeps DEF HoldStages

LEMMA CompleteKeeps ==
  ASSUME Configured, IInv, NEW c \in Callers, Complete(c)
  PROVE  IInv'
<1> DEFINE answer == [ok |-> TRUE, features |-> calls[c].out, warned |-> calls[c].rows >= site.cap]
<1>1. End(c, answer, FALSE) /\ calls[c].stage = "streaming" /\ Asking(c)
  BY DEF Complete, Asking
<1>2. answer.ok
  OBVIOUS
<1> HIDE DEF answer
<1> QED
  BY <1>1, <1>2, EndKeeps

LEMMA PoolFailsKeeps ==
  ASSUME Configured, IInv, NEW c \in Callers, PoolFails(c)
  PROVE  IInv'
<1>1. WaitOver(c) /\ End(c, Failed("pool"), FALSE) /\ Asking(c) /\ calls[c].stage = "queued"
  BY DEF PoolFails, WaitOver, Asking
<1>2. ASSUME Clean PROVE Explained(Failed("pool"))
  <2>1. Holding \subseteq Callers \ {c}
    BY <1>1 DEF Holding, Holds
  <2>2. /\ IsFiniteSet(Callers) /\ Cardinality(Callers) = site.max_inflight
        /\ site.max_inflight \in Nat /\ Cardinality(Holding) \in Nat /\ site.pool \in Nat
    BY HoldingFinite DEF IInv
  <2>3. IsFiniteSet(Callers \ {c}) /\ Cardinality(Callers \ {c}) = site.max_inflight - 1
    BY <2>2, FS_RemoveElement
  <2>4. Cardinality(Holding) <= site.max_inflight - 1
    BY <2>1, <2>3, FS_Subset
  <2>5. site.pool < site.max_inflight
    BY <1>1, <2>2, <2>4 DEF WaitOver, Permits
  <2>6. remote[1].warned
    BY <1>2, <2>5 DEF IInv, Calm
  <2> QED
    BY <2>6 DEF Explained, Failed
<1> QED
  BY <1>1, <1>2, EndKeeps

LEMMA CreateFailsKeeps ==
  ASSUME Configured, IInv, NEW c \in Callers, CreateFails(c)
  PROVE  IInv'
<1>1. End(c, Failed("connect"), FALSE) /\ Asking(c) /\ link # "up"
  BY DEF CreateFails, Asking
<1>2. ~Clean
  BY <1>1 DEF IInv, Calm
<1> QED
  BY <1>1, <1>2, EndKeeps

LEMMA StatementFailsKeeps ==
  ASSUME Configured, IInv, NEW c \in Callers, StatementFails(c)
  PROVE  IInv'
<1>1. End(c, Failed("statement"), FALSE) /\ Asking(c) /\ calls[c].stage # "connecting"
  BY DEF StatementFails, StatementOver, Stating, Asking
<1>2. Explained(Failed("statement"))
  BY DEF Explained, Failed
<1> QED
  BY <1>1, <1>2, EndKeeps

LEMMA ConnectionFailsKeeps ==
  ASSUME Configured, IInv, NEW c \in Callers, ConnectionFails(c)
  PROVE  IInv'
<1>1. End(c, Failed("closed"), FALSE) /\ Asking(c) /\ Stating(c) /\ calls[c].conn.state # "alive"
  BY DEF ConnectionFails, Stating, Asking
<1>2. ~Clean
  BY <1>1, CalmFacts DEF Connects, Stating, AliveConns
<1> QED
  BY <1>1, <1>2, EndKeeps

\* Inside its budget whatever it waited for, as long as the plan was not slow.
LEMMA BudgetFailsKeeps ==
  ASSUME Configured, IInv, NEW c \in Callers, BudgetFails(c)
  PROVE  IInv'
<1> DEFINE why == IF Slow(c) THEN "planning" ELSE "budget"
<1>1. BudgetOver(c) /\ End(c, Failed(why), TRUE) /\ Asking(c)
  BY DEF BudgetFails, BudgetOver
<1>2. site.timeout # 0 /\ calls[c].age >= ConnectTimeout + PoolWait + site.timeout + Margin
  BY <1>1 DEF BudgetOver, query_budget, Some, Nothing
<1>3. ASSUME Clean PROVE Slow(c) /\ calls[c].stage # "connecting"
  <2>1. Timed(calls[c])
    BY <1>3, CalmFacts
  <2>2. calls[c].stage \notin {"queued", "connecting"}
    BY <1>2, <2>1, CallFacts DEF Timed, WellFormed
  <2>3. CASE calls[c].stage = "preparing"
    <3>1. calls[c].at > Margin
      BY <1>2, <2>1, <2>3, CallFacts DEF Timed, WellFormed, Patience
    <3> QED
      BY <2>3, <3>1 DEF Slow
  <2>4. CASE calls[c].stage = "streaming"
    <3>1. ~(calls[c].age <= calls[c].at + Patience + Margin)
      <4>1. calls[c].at <= site.timeout
        BY <1>2, <2>1, <2>4 DEF Timed
      <4> QED
        BY <1>2, <4>1, CallFacts DEF Patience, WellFormed
    <3>2. calls[c].slow # FALSE
      BY <2>1, <2>4, <3>1, Zenon DEF Timed
    <3>3. calls[c].slow
      BY <3>2, CallFacts DEF WellFormed
    <3> QED
      BY <2>4, <3>3, Zenon DEF Slow
  <2> QED
    BY <1>1, <2>2, <2>3, <2>4, CallFacts DEF Asking, WellFormed, Stages
<1>4. Clean => Explained(Failed(why))
  BY <1>2, <1>3 DEF Explained, Failed
<1> HIDE DEF why
<1> QED
  BY <1>1, <1>3, <1>4, EndKeeps

---------------------------------------------------------------------------
\* The database's steps and time's.

\* Only connections change.
LEMMA ConnectionsKeep ==
  ASSUME Configured, IInv, UNCHANGED <<site, remote>>,
         outages' \in Nat, outages' = 0 => outages = 0,
         DOMAIN calls' = DOMAIN calls,
         \A c \in Callers : /\ WellFormed(calls'[c])
                            /\ \A f \in Fields \ {"conn"} : calls'[c][f] = calls[c][f],
         Clean' => /\ link' = link
                   /\ idle' \in Seq(AliveConns) /\ Len(idle') = Len(idle)
                   /\ \A c \in Callers : calls[c].conn \in AliveConns =>
                         calls'[c].conn \in AliveConns /\ (calls[c].conn.owes = FALSE => calls'[c].conn.owes = FALSE)
  PROVE  IInv'
<1>1. Shapes' /\ Callers' = Callers
  BY DEF IInv, Shapes, Callers
<1>2. \A c \in Callers : /\ calls'[c].stage = calls[c].stage /\ calls'[c].at = calls[c].at
                         /\ calls'[c].age = calls[c].age /\ calls'[c].slow = calls[c].slow
                         /\ calls'[c].answer = calls[c].answer
  BY DEF Fields
<1>3. Holding' = Holding
  BY <1>1, <1>2 DEF Holding, Holds
<1>4. EndInTime' /\ PoolKept'
  BY <1>1, <1>2, <1>3 DEF IInv, EndInTime, InTime, PoolKept
<1>5. ASSUME Clean' PROVE Calm'
  <2>1. Clean /\ Calm
    BY <1>5 DEF Clean, IInv
  <2>2. \A c \in Callers : (Connects(calls[c]) /\ Timed(calls[c]) /\ Excused(calls[c]))'
    <3> SUFFICES ASSUME NEW c \in Callers
                 PROVE  (Connects(calls[c]) /\ Timed(calls[c]) /\ Excused(calls[c]))'
      OBVIOUS
    <3>1. Connects(calls[c]) /\ Timed(calls[c]) /\ Excused(calls[c])
      BY <2>1, CalmFacts
    <3>2. Connects(calls[c])'
      BY <1>2, <1>5, <3>1 DEF Connects
    <3>3. calls[c].stage = "streaming" => calls'[c].conn.owes = FALSE
      BY <1>2, <1>5, <3>1 DEF Connects, Timed
    <3>4. Timed(calls[c])'
      BY <1>2, <3>1, <3>3 DEF Timed
    <3>5. Excused(calls[c])'
      BY <1>2, <1>5, <2>1, <3>1 DEF Excused, Explained, Clean
    <3> QED
      BY <3>2, <3>4, <3>5
  <2>3. (\E c \in Callers : calls[c].stage = "queued" /\ calls[c].at > 0)' => Saturated'
    BY <1>1, <1>2, <1>3, <1>5, <2>1 DEF Calm, Saturated
  <2> QED
    BY <1>1, <1>5, <2>1, <2>2, <2>3 DEF Calm
<1> QED
  BY <1>1, <1>4, <1>5 DEF IInv

LEMMA OutageKeeps ==
  ASSUME Configured, IInv, NEW to, Outage(to)
  PROVE  IInv'
<1>1. outages \in Nat /\ outages' = outages + 1 /\ UNCHANGED <<site, remote>>
  BY DEF IInv, Shapes, Outage
<1>2. ~Clean' /\ outages' \in Nat /\ (outages' = 0 => outages = 0)
  BY <1>1 DEF Clean
<1>3. \A c \in Callers : WellFormed(calls[c])
  BY DEF IInv, Shapes
<1>4. DOMAIN calls' = DOMAIN calls
  BY DEF Outage, Callers
<1>5. \A c \in Callers : /\ WellFormed(calls'[c])
                         /\ \A f \in Fields \ {"conn"} : calls'[c][f] = calls[c][f]
  <2>1. CASE to = "silent"
    BY <1>3, <2>1 DEF Outage
  <2>2. CASE to # "silent"
    <3>1. \A c \in Callers : calls'[c] = [calls[c] EXCEPT !.conn = Breaks(@)]
      BY <2>2 DEF Outage
    <3> QED
      BY <1>3, <3>1 DEF WellFormed, Fields
  <2> QED
    BY <2>1, <2>2
<1> QED
  BY <1>1, <1>2, <1>4, <1>5, ConnectionsKeep

LEMMA RecoverKeeps ==
  ASSUME Configured, IInv, Recover
  PROVE  IInv'
<1>1. UNCHANGED <<site, remote, outages, calls>> /\ ~Clean
  BY DEF Recover, IInv, Calm
<1>2. /\ ~Clean' /\ outages' \in Nat /\ (outages' = 0 => outages = 0)
      /\ DOMAIN calls' = DOMAIN calls
      /\ \A c \in Callers : /\ WellFormed(calls'[c])
                             /\ \A f \in Fields \ {"conn"} : calls'[c][f] = calls[c][f]
  BY <1>1 DEF Clean, IInv, Shapes
<1> QED
  BY <1>1, <1>2, ConnectionsKeep

LEMMA NoticeKeeps ==
  ASSUME Configured, IInv, Notice
  PROVE  IInv'
<1>1. UNCHANGED <<site, remote, link, outages, calls>> /\ idle' = [i \in DOMAIN idle |-> Noticed(idle[i])]
  BY DEF Notice
<1>2. Clean => idle' \in Seq(AliveConns) /\ Len(idle') = Len(idle)
  <2> SUFFICES ASSUME Clean PROVE idle' \in Seq(AliveConns) /\ Len(idle') = Len(idle)
    OBVIOUS
  <2>1. idle \in Seq(AliveConns)
    BY DEF IInv, Calm
  <2>2. \A i \in 1 .. Len(idle) : idle[i] \in AliveConns
    BY <2>1, ElementOfSeq
  <2>3. \A i \in 1 .. Len(idle) : Noticed(idle[i]) = idle[i]
    BY <2>2 DEF Noticed, AliveConns
  <2>4. idle' = idle
    BY <1>1, <2>1, <2>3, LenProperties
  <2> QED
    BY <2>1, <2>4
<1> QED
  BY <1>1, <1>2, ConnectionsKeep DEF Clean, IInv, Shapes

LEMMA CatchUpKeeps ==
  ASSUME Configured, IInv, CatchUp
  PROVE  IInv'
<1>1. /\ UNCHANGED <<site, remote, link, outages>>
      /\ idle' = [i \in DOMAIN idle |-> [idle[i] EXCEPT !.owes = FALSE]]
      /\ DOMAIN calls' = DOMAIN calls
      /\ \A c \in Callers : calls'[c] = [calls[c] EXCEPT !.conn.owes = FALSE]
  BY DEF CatchUp, Callers
<1>2. \A c \in Callers : /\ WellFormed(calls'[c])
                         /\ \A f \in Fields \ {"conn"} : calls'[c][f] = calls[c][f]
  BY <1>1 DEF IInv, Shapes, WellFormed, Fields
<1>3. \A c \in Callers : calls'[c].conn = [calls[c].conn EXCEPT !.owes = FALSE]
  BY <1>1 DEF IInv, Shapes, WellFormed, Fields
<1>4. \A c \in Callers : calls[c].conn \in AliveConns =>
         calls'[c].conn \in AliveConns /\ calls'[c].conn.owes = FALSE
  BY <1>3 DEF AliveConns
<1>5. Clean => idle' \in Seq(AliveConns) /\ Len(idle') = Len(idle)
  <2> SUFFICES ASSUME Clean PROVE idle' \in Seq(AliveConns) /\ Len(idle') = Len(idle)
    OBVIOUS
  <2>1. idle \in Seq(AliveConns) /\ DOMAIN idle = 1 .. Len(idle) /\ Len(idle) \in Nat
    BY LenProperties DEF IInv, Calm
  <2>2. ASSUME NEW i \in 1 .. Len(idle) PROVE [idle[i] EXCEPT !.owes = FALSE] \in AliveConns
    <3>1. idle[i] \in AliveConns
      BY <2>1, ElementOfSeq
    <3> QED
      BY <3>1 DEF AliveConns
  <2>3. idle' \in [1 .. Len(idle) -> AliveConns]
    BY <1>1, <2>1, <2>2
  <2>4. idle' \in Seq(AliveConns)
    BY <2>1, <2>3, SeqDef
  <2>5. 1 .. Len(idle') = 1 .. Len(idle) /\ Len(idle') \in Nat
    BY <2>3, <2>4, LenProperties
  <2>6. Cardinality(1 .. Len(idle')) = Len(idle') /\ Cardinality(1 .. Len(idle)) = Len(idle)
    <3>1. \A n \in Nat : Cardinality(1 .. n) = n
      BY FS_Interval
    <3> QED
      BY <2>1, <2>5, <3>1
  <2> QED
    BY <2>4, <2>5, <2>6
<1> QED
  BY <1>1, <1>2, <1>4, <1>5, ConnectionsKeep DEF Clean, IInv, Shapes

\* How long a caller has waited after a step of time.
LEMMA OlderFacts ==
  ASSUME Configured, Shapes, NEW n \in Nat
  PROVE  /\ Older(n) \in Nat
         /\ n < Longest => Older(n) = n + 1
         /\ \A m \in Nat, d \in Nat \ {0} : n <= m + d => Older(n) <= Older(m) + d
<1>1. Longest \in Nat
  BY HoldingFinite DEF Configured, Longest
<1> QED
  BY <1>1 DEF Older

LEMMA TickKeeps ==
  ASSUME Configured, IInv, Tick
  PROVE  IInv'
<1>0. ASSUME NEW c \in Callers
      PROVE  /\ ~WaitOver(c) /\ ~CreateOver(c) /\ ~StatementOver(c) /\ ~BudgetOver(c)
             /\ ~(calls[c].stage = "queued" /\ Permits > 0)
  BY Zenon DEF Tick, Overdue
<1>1. /\ UNCHANGED <<site, remote, link, outages, idle>>
      /\ DOMAIN calls' = DOMAIN calls
      /\ \A c \in Callers : ~Asking(c) => calls'[c] = calls[c]
      /\ \A c \in Callers : Asking(c) =>
            calls'[c] = [calls[c] EXCEPT !.at = Older(@), !.age = Older(@)]
  BY DEF Tick, Callers
<1>2. \A c \in Callers : WellFormed(calls[c])
  BY DEF IInv, Shapes
<1>3. ASSUME NEW c \in Callers, Asking(c)
      PROVE  /\ WellFormed(calls'[c])
             /\ calls'[c].at = Older(calls[c].at) /\ calls'[c].age = Older(calls[c].age)
             /\ \A f \in Fields \ {"at", "age"} : calls'[c][f] = calls[c][f]
  <2>1. Older(calls[c].at) \in Nat /\ Older(calls[c].age) \in Nat
    BY <1>2, OlderFacts DEF IInv, WellFormed
  <2> QED
    BY <1>1, <1>2, <1>3, <2>1 DEF WellFormed, Fields
<1>4. Shapes' /\ Callers' = Callers
  BY <1>1, <1>2, <1>3 DEF IInv, Shapes, Callers
<1>5. \A c \in Callers : calls'[c].stage = calls[c].stage
  BY <1>1, <1>3 DEF Fields
<1>6. Holding' = Holding
  BY <1>4, <1>5 DEF Holding, Holds
<1>7. ConnectTimeout \in Nat \ {0} /\ PoolWait \in Nat \ {0} /\ Margin \in Nat
      /\ site.timeout \in Nat /\ site.pool \in Nat /\ Cardinality(Holding) \in Nat /\ Longest \in Nat
  BY HoldingFinite DEF IInv, Configured, Longest
<1>8. EndInTime'
  <2> SUFFICES ASSUME NEW c \in Callers PROVE InTime(calls[c])'
    BY <1>4 DEF EndInTime
  <2>1. CASE Asking(c)
    <3> SUFFICES ASSUME site.timeout # 0 PROVE calls'[c].age <= Longest
      BY <1>1 DEF InTime, Longest
    <3>1. calls[c].age \in Nat
      BY <1>2 DEF WellFormed
    <3>2. query_budget(site) = Some(Longest) /\ Some(Longest) # Nothing /\ Some(Longest)[1] = Longest
      BY DEF query_budget, Longest, Some, Nothing
    <3>3. calls[c].age < Longest
      BY <1>0, <1>7, <2>1, <3>1, <3>2 DEF BudgetOver
    <3>4. calls'[c].age = calls[c].age + 1
      BY <1>3, <2>1, <3>1, <3>3, OlderFacts DEF IInv
    <3> QED
      BY <1>7, <3>1, <3>3, <3>4
  <2>2. CASE ~Asking(c)
    BY <1>1, <2>2 DEF IInv, EndInTime, InTime
  <2> QED
    BY <2>1, <2>2
<1>9. PoolKept'
  BY <1>1, <1>6 DEF IInv, PoolKept
<1>10. ASSUME NEW c \in Callers, calls[c].stage = "queued"
       PROVE  Permits = 0 /\ calls[c].at < PoolWait
  <2>1. Permits = 0
    BY <1>0, <1>7, <1>10 DEF Permits, IInv, PoolKept
  <2> QED
    BY <1>0, <1>2, <1>7, <1>10, <2>1 DEF WaitOver, WellFormed
<1>11. ASSUME Clean' PROVE Calm'
  <2>1. Clean /\ Calm
    BY <1>1, <1>11 DEF Clean, IInv
  <2>2. ASSUME NEW c \in Callers PROVE (Connects(calls[c]) /\ Timed(calls[c]) /\ Excused(calls[c]))'
    <3>1. Connects(calls[c]) /\ Timed(calls[c]) /\ Excused(calls[c])
      BY <2>1, CalmFacts
    <3>2. CASE ~Asking(c)
      BY <1>1, <3>1, <3>2 DEF Connects, Timed, Excused, Explained
    <3>3. CASE Asking(c)
      <4>1. /\ calls'[c].at = Older(calls[c].at) /\ calls'[c].age = Older(calls[c].age)
            /\ calls'[c].stage = calls[c].stage /\ calls'[c].slow = calls[c].slow
            /\ calls'[c].conn = calls[c].conn
            /\ calls[c].at \in Nat /\ calls[c].age \in Nat
        BY <1>2, <1>3, <3>3 DEF Fields, WellFormed
      <4>2. calls[c].stage = "queued" => calls'[c].age = calls'[c].at /\ calls'[c].at <= PoolWait
        <5> SUFFICES ASSUME calls[c].stage = "queued"
                     PROVE  calls'[c].age = calls'[c].at /\ calls'[c].at <= PoolWait
          OBVIOUS
        <5>1. calls[c].at < PoolWait /\ calls[c].at < Longest
          BY <1>7, <1>10, <4>1 DEF Longest
        <5>2. Older(calls[c].at) = calls[c].at + 1
          BY <4>1, <5>1, OlderFacts DEF IInv
        <5> QED
          BY <1>7, <3>1, <4>1, <5>1, <5>2 DEF Timed
      <4>3. calls[c].stage = "connecting" => calls'[c].age = calls'[c].at /\ calls'[c].at <= ConnectTimeout
        <5> SUFFICES ASSUME calls[c].stage = "connecting"
                     PROVE  calls'[c].age = calls'[c].at /\ calls'[c].at <= ConnectTimeout
          OBVIOUS
        <5>1. calls[c].at < ConnectTimeout /\ calls[c].at < Longest
          BY <1>0, <1>7, <4>1 DEF Longest, CreateOver
        <5>2. Older(calls[c].at) = calls[c].at + 1
          BY <4>1, <5>1, OlderFacts DEF IInv
        <5> QED
          BY <1>7, <3>1, <4>1, <5>1, <5>2 DEF Timed
      <4>4. calls[c].stage = "preparing" => calls'[c].age <= calls'[c].at + Patience
        <5>1. Patience \in Nat \ {0}
          BY <1>7 DEF Patience
        <5> QED
          BY <3>1, <4>1, <5>1, OlderFacts DEF Timed, IInv
      <4>5. calls[c].stage = "streaming" /\ site.timeout # 0 => calls'[c].at <= site.timeout
        <5> SUFFICES ASSUME calls[c].stage = "streaming", site.timeout # 0
                     PROVE  calls'[c].at <= site.timeout
          OBVIOUS
        <5>1. Answers(c)
          BY <2>1, <3>1 DEF Answers, Calm, Connects, Timed, AliveConns
        <5>2. calls[c].at < site.timeout /\ calls[c].at < Longest
          BY <1>0, <1>7, <4>1, <5>1 DEF Longest, StatementOver, Stating
        <5>3. Older(calls[c].at) = calls[c].at + 1
          BY <4>1, <5>2, OlderFacts DEF IInv
        <5> QED
          BY <1>7, <4>1, <5>2, <5>3
      <4>6. calls[c].stage = "streaming" /\ calls[c].slow = FALSE =>
               calls'[c].age <= calls'[c].at + Patience + Margin
        <5>1. Patience + Margin \in Nat \ {0} /\ Patience \in Nat
          BY <1>7 DEF Patience
        <5> SUFFICES ASSUME calls[c].stage = "streaming", calls[c].slow = FALSE
                     PROVE  calls'[c].age <= calls'[c].at + Patience + Margin
          OBVIOUS
        <5>2. calls[c].age <= calls[c].at + (Patience + Margin)
          BY <1>7, <3>1, <4>1, <5>1 DEF Timed
        <5>3. Older(calls[c].age) <= Older(calls[c].at) + (Patience + Margin)
          BY <4>1, <5>1, <5>2, OlderFacts DEF IInv
        <5>4. Older(calls[c].at) \in Nat
          BY <4>1, OlderFacts DEF IInv
        <5> QED
          BY <1>7, <4>1, <5>1, <5>3, <5>4
      <4>7. Timed(calls[c])'
        BY <1>1, <3>1, <4>1, <4>2, <4>3, <4>4, <4>5, <4>6 DEF Timed
      <4>8. Connects(calls[c])' /\ Excused(calls[c])'
        BY <3>1, <3>3, <4>1 DEF Connects, Excused, Asking
      <4> QED
        BY <4>7, <4>8
    <3> QED
      BY <3>2, <3>3
  <2>3. (\E c \in Callers : calls[c].stage = "queued" /\ calls[c].at > 0)' => Saturated'
    <3> SUFFICES ASSUME NEW c \in Callers, calls[c].stage = "queued" PROVE Saturated'
      BY <1>4, <1>5
    <3>1. Cardinality(Holding) = site.pool
      BY <1>7, <1>10 DEF Permits
    <3>2. Len(idle) \in Nat
      BY <2>1, CalmFacts
    <3>3. Len(idle) + Cardinality(Holding) >= site.pool
      BY <1>7, <3>1, <3>2
    <3> QED
      BY <1>1, <1>6, <3>3 DEF Saturated
  <2> QED
    BY <1>1, <1>4, <2>1, <2>2, <2>3 DEF Calm
<1> QED
  BY <1>4, <1>8, <1>9, <1>11 DEF IInv

---------------------------------------------------------------------------
\* The start, and every step.

\* A layer is opened only by a database that answers, and says whether its
\* pool is too small.
LEMMA OpenedByALiveDatabase ==
  ASSUME NEW s, NEW up \in BOOLEAN, OpenLayer(s, up) # Nothing
  PROVE  up /\ OpenLayer(s, up)[1].warned = (s.pool < s.max_inflight)
<1> DEFINE parsed == parse_postgis_uri(s.uri, s.env)
           target == parsed[1]
           meta == resolve_metadata(target, s.db, up)
           src == Source(s, target, meta[1])
<1>1. OpenLayer(s, up) = Connected(s, target, meta, up)
  BY DEF OpenLayer, OpenTarget
<1>2. OpenLayer(s, up) = Checked(s, src, up)
  BY <1>1 DEF Connected
<1>3. validate_columns(src, s.db, up) /\ OpenLayer(s, up) = Some(src)
  BY <1>2 DEF Checked
<1>4. up
  BY <1>3 DEF validate_columns, prepare_once
<1>5. src.warned = (s.pool < s.max_inflight)
  BY DEF Source, pool_sizing_warning
<1> HIDE DEF src
<1>6. Some(src)[1] = src
  BY DEF Some
<1>7. OpenLayer(s, up)[1] = src
  BY <1>3, <1>6
<1> QED
  BY <1>4, <1>5, <1>7

LEMMA InitKeeps ==
  ASSUME Configured, RemoteInit
  PROVE  IInv
<1>1. /\ site \in Sites /\ link \in {"up", "down"} /\ remote = OpenLayer(site, link = "up")
      /\ outages = 0 /\ idle = <<>>
      /\ calls = [c \in 1 .. site.max_inflight |-> Resting]
  BY DEF RemoteInit
<1>2. Callers = 1 .. site.max_inflight /\ \A c \in Callers : calls[c] = Resting
  BY <1>1 DEF Callers
<1>3. Shapes
  BY <1>1, <1>2, RestingWellFormed DEF Shapes
<1>4. Resting.stage = "resting" /\ Resting.age = 0
  BY DEF Resting
<1>5. EndInTime
  BY <1>2, <1>3, <1>4, HoldingFinite DEF EndInTime, InTime, Configured
<1>6. PoolKept
  <2>1. Holding = {}
    BY <1>2, <1>4 DEF Holding, Holds
  <2> QED
    BY <1>3, <2>1, FS_EmptySet, HoldingFinite DEF PoolKept
<1>7. ASSUME Clean PROVE Calm
  <2>1. link = "up" /\ remote[1].warned = (site.pool < site.max_inflight)
    BY <1>1, <1>7, OpenedByALiveDatabase DEF Clean
  <2>2. idle \in Seq(AliveConns)
    BY <1>1
  <2>3. \A c \in Callers : Connects(calls[c]) /\ Timed(calls[c]) /\ Excused(calls[c])
    BY <1>2, <1>4 DEF Connects, Timed, Excused
  <2>4. \A c \in Callers : calls[c].stage # "queued"
    BY <1>2, <1>4
  <2> QED
    BY <2>1, <2>2, <2>3, <2>4 DEF Calm
<1> QED
  BY <1>3, <1>5, <1>6, <1>7 DEF IInv

LEMMA StepKeeps ==
  ASSUME Configured, IInv, [RemoteNext]_remoteVars
  PROVE  IInv'
<1>1. ASSUME NEW c \in Callers, Step(c) PROVE IInv'
  BY <1>1, GetKeeps, CreateKeeps, PrepareKeeps, NextRowKeeps, CompleteKeeps, PoolFailsKeeps,
     CreateFailsKeeps, StatementFailsKeeps, ConnectionFailsKeeps, BudgetFailsKeeps DEF Step
<1>2. ASSUME NEW c \in Callers, NEW place \in site.places, NEW gate \in site.gates, query_gated(c, place, gate)
      PROVE  IInv'
  BY <1>2, AskedKeeps
<1>3. CASE Outage("silent") \/ Outage("down")
  BY <1>3, OutageKeeps
<1>4. CASE Recover
  BY <1>4, RecoverKeeps
<1>5. CASE Notice
  BY <1>5, NoticeKeeps
<1>6. CASE CatchUp
  BY <1>6, CatchUpKeeps
<1>7. CASE Tick
  BY <1>7, TickKeeps
<1>8. CASE UNCHANGED remoteVars
  BY <1>8 DEF remoteVars, IInv, Shapes, Callers, EndInTime, InTime, PoolKept, Holding, Holds, Clean, Calm,
              Connects, Timed, Excused, Explained, Saturated
<1> QED
  BY <1>1, <1>2, <1>3, <1>4, <1>5, <1>6, <1>7, <1>8 DEF RemoteNext

---------------------------------------------------------------------------
\* What holds for every site, any number of callers and any timers.

LEMMA Invariance ==
  ASSUME Configured
  PROVE  RemoteSpec => []IInv
<1>1. RemoteInit => IInv
  BY InitKeeps
<1>2. IInv /\ [RemoteNext]_remoteVars => IInv'
  BY StepKeeps
<1> QED
  BY <1>1, <1>2, PTL DEF RemoteSpec

\* With a limit on statements, no query outlives the sum of its waits and the
\* margin, whatever the database does: a silent database cannot hold a caller
\* (postgis.rs query_budget and the timeout of query_gated).
THEOREM QueriesEndInTime == RemoteSpec => [](remote # Nothing => EndInTime)
<1>1. IInv => (remote # Nothing => EndInTime)
  BY DEF IInv
<1> QED
  BY <1>1, Invariance, SitesConfigured, PTL

\* While the database has answered all along, the only errors are a statement
\* over its limit, a plan that took longer than the margin, and a wait for a
\* pool the operator was warned of: the budget itself never cuts a query the
\* database would have answered (postgis.rs query_budget, pool_sizing_warning).
THEOREM FailuresHaveACause == RemoteSpec => [](remote # Nothing => FailForACause)
<1>1. IInv => (remote # Nothing => FailForACause)
  <2> SUFFICES ASSUME IInv, remote # Nothing, NEW c \in Callers,
                      calls[c].stage = "done", ~calls[c].answer[1].ok
               PROVE  Explained(calls[c].answer[1])
    BY DEF FailForACause
  <2>1. CASE outages = 0
    BY <2>1 DEF IInv, Clean, Calm, Excused
  <2>2. CASE outages # 0
    BY <2>2 DEF Explained
  <2> QED
    BY <2>1, <2>2
<1> QED
  BY <1>1, Invariance, SitesConfigured, PTL

\* Callers never hold more connections than the pool has room for, after any
\* outage and any query given up (postgis.rs connect, the pool's max_size).
THEOREM ThePoolIsKept == RemoteSpec => []PoolKept
<1>1. IInv => PoolKept
  BY DEF IInv
<1> QED
  BY <1>1, Invariance, SitesConfigured, PTL

---------------------------------------------------------------------------
\* Answers: the layer that was opened.

\* what a source knows of its table, when the URI and the catalogue are truthful
AsOpened(s, src) ==
    /\ src.geom = s.meant /\ src.crs = s.db.crs
    /\ src.columns = s.style \cup s.config /\ src.columns \subseteq s.db.columns

\* A truthful catalogue and a truthful URI lead to the column that is meant and to its
\* CRS, whichever of the two names them; a layer that would need another is refused
\* (postgis.rs resolve_metadata, resolve_from, validate_columns).
LEMMA OpenedAsMeant ==
  ASSUME NEW s, Truthful(s), NEW up \in BOOLEAN, OpenLayer(s, up) # Nothing
  PROVE  AsOpened(s, OpenLayer(s, up)[1])
<1> DEFINE parsed == parse_postgis_uri(s.uri, s.env)
           target == parsed[1]
           rows == GeometryColumns(target, s.db)
           meta == resolve_metadata(target, s.db, up)
           src == Source(s, target, meta[1])
<1>1. parsed # Nothing /\ OpenLayer(s, up) = Connected(s, target, meta, up)
  BY DEF OpenLayer, OpenTarget
<1>2. meta # Nothing /\ OpenLayer(s, up) = Checked(s, src, up)
  BY <1>1 DEF Connected
<1>3. validate_columns(src, s.db, up) /\ OpenLayer(s, up) = Some(src)
  BY <1>2 DEF Checked
<1>4. /\ src.target = target /\ src.geom = meta[1][2] /\ src.crs = Epsg(meta[1][1])
      /\ src.columns = s.style \cup s.config
  BY DEF Source
<1>5. OpenLayer(s, up)[1] = src
  BY <1>3 DEF Some
<1>6. TruthfulUri(target, s) /\ TruthfulCatalogue(target, s)
  BY <1>1 DEF Truthful
<1> HIDE DEF src, target, parsed
<1>7. IsRelation(target, s.db) /\ src.geom \in s.db.columns /\ src.columns \subseteq s.db.columns
  <2>1. Plannable(build_sql(src, 1, 0), s.db)
    BY <1>3 DEF validate_columns, prepare_once
  <2> QED
    BY <1>4, <2>1 DEF Plannable, build_sql
<1>8. CASE target.srid # Nothing /\ target.geom_col # Nothing
  <2>1. meta = Some(<<target.srid[1], target.geom_col[1]>>)
    BY <1>8 DEF resolve_metadata
  <2>2. meta[1][1] = target.srid[1] /\ meta[1][2] = target.geom_col[1]
    BY <2>1 DEF Some
  <2> QED
    BY <1>4, <1>5, <1>6, <1>7, <1>8, <2>2 DEF AsOpened, TruthfulUri
<1>9. CASE ~(target.srid # Nothing /\ target.geom_col # Nothing)
  <2> DEFINE geom == GeomOf(target, rows)
             srid == SridOf(target, rows, geom[1])
  <2>1. meta = resolve_from(target, rows)
    BY <1>2, <1>9 DEF resolve_metadata
  <2>2. geom # Nothing /\ meta = WithSrid(geom[1], srid)
    BY <1>2, <2>1 DEF resolve_from
  <2>3. srid # Nothing /\ meta = Some(<<srid[1], geom[1]>>)
    BY <1>2, <2>2 DEF WithSrid
  <2>4. meta[1][1] = srid[1] /\ meta[1][2] = geom[1]
    BY <2>3 DEF Some
  <2>5. src.geom = geom[1]
    BY <1>4, <2>4
  <2>6. geom[1] = s.meant
    <3>1. CASE target.geom_col # Nothing
      <4>1. geom = target.geom_col
        BY <3>1 DEF GeomOf
      <4> QED
        BY <1>6, <1>7, <2>5, <3>1, <4>1 DEF TruthfulUri
    <3>2. CASE target.geom_col = Nothing
      <4>1. rows = s.db.registered
        BY <1>7, <3>2 DEF GeometryColumns
      <4>2. Cardinality(rows) = 1 /\ geom = Some((CHOOSE r \in rows : TRUE)[2])
        BY <2>2, <3>2 DEF GeomOf
      <4>3. rows # {}
        BY <4>2, FS_EmptySet
      <4>4. (CHOOSE r \in rows : TRUE) \in rows
        BY <4>3
      <4>5. (CHOOSE r \in rows : TRUE)[2] = s.meant
        BY <1>6, <3>2, <4>1, <4>2, <4>4 DEF TruthfulCatalogue
      <4> QED
        BY <4>2, <4>5 DEF Some
    <3> QED
      BY <3>1, <3>2
  <2>7. Epsg(srid[1]) = s.db.crs
    <3>1. CASE target.srid # Nothing
      <4>1. srid = target.srid
        BY <3>1 DEF SridOf
      <4> QED
        BY <1>6, <3>1, <4>1 DEF TruthfulUri
    <3>2. CASE target.srid = Nothing
      <4> DEFINE known == {r[1] : r \in {q \in rows : q[2] = geom[1] /\ q[1] > 0}}
      <4>1. known # {} /\ srid = Some(CHOOSE n \in known : TRUE)
        BY <2>3, <3>2 DEF SridOf
      <4>2. (CHOOSE n \in known : TRUE) \in known
        BY <4>1
      <4>3. \A n \in known : Epsg(n) = s.db.crs
        <5>1. rows \subseteq s.db.registered
          BY DEF GeometryColumns
        <5> QED
          BY <1>6, <2>6, <3>2, <5>1 DEF TruthfulCatalogue
      <4> QED
        BY <4>1, <4>2, <4>3 DEF Some
    <3> QED
      BY <3>1, <3>2
  <2> QED
    BY <1>4, <1>5, <1>7, <2>4, <2>6, <2>7 DEF AsOpened
<1> QED
  BY <1>8, <1>9

---------------------------------------------------------------------------
\* Answers: what the statement selects.

\* Boxes that overlap on the ground overlap in the units of the table.
LEMMA OverlapInUnits ==
  ASSUME NEW crs, Unit[crs] \in Nat \ {0}, NEW a, IsBox(a), NEW b, IsBox(b)
  PROVE  Overlap(Placed(a, crs), Placed(b, crs)) <=> Overlap(a, b)
<1> DEFINE u == Unit[crs]
<1>1. \A k \in 1 .. 4 : /\ Placed(a, crs)[k] = a[k] * u /\ Placed(b, crs)[k] = b[k] * u
                        /\ a[k] \in Int /\ b[k] \in Int
  BY DEF Placed, IsBox
<1>2. u \in Nat \ {0}
  OBVIOUS
<1> HIDE DEF u
<1>3. ASSUME NEW m \in Int, NEW n \in Int PROVE m * u >= n * u <=> m >= n
  <2>1. CASE m >= n
    <3>1. PICK d \in Nat : m = n + d
      BY <2>1
    <3>2. m * u = n * u + d * u /\ d * u \in Nat /\ n * u \in Int
      BY <1>2, <3>1
    <3> QED
      BY <2>1, <3>2
  <2>2. CASE m < n
    <3>1. PICK d \in Nat : n = m + 1 + d
      <4>1. n - m - 1 \in Nat /\ n = m + 1 + (n - m - 1)
        BY <2>2
      <4> QED
        BY <4>1
    <3>2. n * u = m * u + u + d * u /\ d * u \in Nat /\ m * u \in Int
      BY <1>2, <3>1
    <3> QED
      BY <1>2, <2>2, <3>2
  <2> QED
    BY <2>1, <2>2
<1>4. \A m, n \in Int : m * u <= n * u <=> m <= n
  <2> TAKE m, n \in Int
  <2>1. n * u >= m * u <=> n >= m
    BY <1>3
  <2>2. n * u \in Int /\ m * u \in Int
    BY <1>2
  <2> QED
    BY <2>1, <2>2
<1> QED
  BY <1>1, <1>3, <1>4 DEF Overlap

\* The statement selects the rows of the place that are big enough, of any row that has
\* a geometry (postgis.rs build_sql, size_gate_sql, envelope_in_srid).
LEMMA SelectsThePlace ==
  ASSUME NEW s, Truthful(s), NEW src, AsOpened(s, src), NEW place \in s.places, NEW gate,
         NEW i \in DOMAIN s.db.rows
  PROVE  LET r == s.db.rows[i] IN
         Selects(build_sql(src, s.cap, gate), Placed(place, s.db.crs), s.db, r) <=>
           /\ r.geoms[s.meant].wkb \notin {"null", "empty"}
           /\ Overlap(r.geoms[s.meant].box, place) /\ Visible(s, r, gate)
<1> DEFINE r == s.db.rows[i]
           sql == build_sql(src, s.cap, gate)
           box == r.geoms[s.meant].box
<1>1. r \in ToSet(s.db.rows)
  BY DEF ToSet
<1>2. IsBox(box) /\ IsBox(place) /\ Unit[s.db.crs] \in Nat \ {0}
  BY <1>1 DEF Truthful, Table
<1>3. sql.geom = s.meant /\ sql.gate = size_gate_sql(gate)
  BY DEF build_sql, AsOpened
<1>4. InUnits(r, s.meant, s.db.crs).box = Placed(box, s.db.crs)
  BY DEF InUnits
<1>5. Overlap(Placed(box, s.db.crs), Placed(place, s.db.crs)) <=> Overlap(box, place)
  BY <1>2, OverlapInUnits
<1> HIDE DEF sql, r, box
<1>6. Selects(sql, Placed(place, s.db.crs), s.db, r) <=>
        /\ r.geoms[s.meant].wkb \notin {"null", "empty"}
        /\ Overlap(box, place) /\ Visible(s, r, gate)
  BY <1>3, <1>4, <1>5, Zenon DEF Selects, Visible
<1> QED
  BY <1>6 DEF sql, r, box

---------------------------------------------------------------------------
\* Answers: the rows of a statement, one by one.

Drawn(s, i) == s.db.rows[i].geoms[s.meant].wkb = "good"
Statement(s, src, call) == Run(build_sql(src, s.cap, call.gate), Placed(call.place, s.db.crs), s.db)
\* a feature of one row of the table, at any place among the features
Features(s, src) ==
    {[row |-> s.db.rows[i].id, fid |-> n, geom |-> InUnits(s.db.rows[i], src.geom, s.db.crs),
      props |-> PropsIn(src, s.db, s.db.rows[i])] : i \in DOMAIN s.db.rows, n \in Nat}
\* out holds the rows seen of those kept by the statement: each that is drawn, and each once
Gathered(s, src, out, seen) ==
    /\ out \in Seq(Features(s, src))
    /\ \A k \in DOMAIN out : \E i \in seen :
         Drawn(s, i) /\ out[k].row = s.db.rows[i].id /\ out[k].props = PropsIn(src, s.db, s.db.rows[i])
    /\ \A k, m \in DOMAIN out : out[k].row = out[m].row => k = m
    /\ \A i \in seen : Drawn(s, i) => \E k \in DOMAIN out : out[k].row = s.db.rows[i].id
Streamed(s, src, call) ==
    \E kept \in Statement(s, src, call) :
      /\ call.todo \subseteq kept
      /\ call.rows = Cardinality(kept \ call.todo)
      /\ Gathered(s, src, call.out, kept \ call.todo)

\* A statement keeps as many of the rows it selects as the cap allows
\* (postgis.rs build_sql, max_query_features).
LEMMA StatementKeeps ==
  ASSUME NEW s, Truthful(s), NEW src, NEW call, NEW kept \in Statement(s, src, call)
  PROVE  LET selected == {i \in DOMAIN s.db.rows :
                            Selects(build_sql(src, s.cap, call.gate), Placed(call.place, s.db.crs), s.db, s.db.rows[i])}
         IN  /\ IsFiniteSet(kept) /\ kept \subseteq selected /\ kept \subseteq Nat
             /\ Cardinality(kept) \in Nat
             /\ Cardinality(kept) < s.cap => kept = selected
<1> DEFINE sql == build_sql(src, s.cap, call.gate)
           selected == {i \in DOMAIN s.db.rows : Selects(sql, Placed(call.place, s.db.crs), s.db, s.db.rows[i])}
<1>1. sql.limit = s.cap /\ s.cap \in Nat
  BY DEF build_sql, Truthful
<1>2. DOMAIN s.db.rows = 1 .. Len(s.db.rows) /\ Len(s.db.rows) \in Nat
  BY DEF Truthful, Table
<1>3. selected \subseteq 1 .. Len(s.db.rows)
  BY <1>2
<1> HIDE DEF sql
<1>4. kept \in kSubset(Fewest(s.cap, selected), selected)
  BY <1>1 DEF Statement, Run, LimitTo, sql
<1> HIDE DEF selected
<1>5. kept \in SUBSET selected /\ Cardinality(kept) = Fewest(s.cap, selected)
  BY <1>4 DEF kSubset
<1>6. IsFiniteSet(1 .. Len(s.db.rows))
  BY <1>2, FS_Interval
<1>7. IsFiniteSet(selected) /\ Cardinality(selected) \in Nat
  BY <1>3, <1>6, FS_Subset, FS_CardinalityType
<1>8. IsFiniteSet(kept) /\ Cardinality(kept) \in Nat /\ (Cardinality(selected) = Cardinality(kept) => selected = kept)
  BY <1>5, <1>7, FS_Subset, FS_CardinalityType
<1>9. Cardinality(kept) < s.cap => Cardinality(kept) = Cardinality(selected)
  BY <1>1, <1>5, <1>7 DEF Fewest
<1>10. kept \subseteq Nat
  BY <1>2, <1>3, <1>5
<1> QED
  BY <1>5, <1>8, <1>9, <1>10 DEF selected, sql

\* Before the first row.
LEMMA NothingSeen ==
  ASSUME NEW s, NEW src, NEW call, call.todo \in Statement(s, src, call), call.rows = 0, call.out = <<>>
  PROVE  Streamed(s, src, call)
<1>1. call.todo \ call.todo = {}
  OBVIOUS
<1>2. Gathered(s, src, call.out, {})
  <2>1. call.out \in Seq(Features(s, src)) /\ DOMAIN call.out = {}
    <3>1. <<>> \in Seq(Features(s, src)) /\ DOMAIN <<>> = {}
      OBVIOUS
    <3> QED
      BY <3>1
  <2> QED
    BY <2>1 DEF Gathered
<1> QED
  BY <1>1, <1>2, FS_EmptySet DEF Streamed

\* A row more: passed over when it is not drawn, a feature more when it is
\* (postgis.rs fetch).
LEMMA OneMoreRow ==
  ASSUME NEW s, Truthful(s), NEW src, AsOpened(s, src), NEW out, NEW seen, seen \subseteq DOMAIN s.db.rows,
         Gathered(s, src, out, seen), NEW i \in DOMAIN s.db.rows, i \notin seen
  PROVE  Gathered(s, src, AddRow(out, src, s.db, s.db.rows[i]), seen \cup {i})
<1> DEFINE r == s.db.rows[i]
           new == [row |-> r.id, fid |-> Len(out), geom |-> InUnits(r, src.geom, s.db.crs), props |-> PropsIn(src, s.db, r)]
<1>1. src.geom = s.meant
  BY DEF AsOpened
<1>2. CASE ~Drawn(s, i)
  <2>1. AddRow(out, src, s.db, r) = out
    BY <1>1, <1>2 DEF AddRow, Drawn
  <2> HIDE DEF r
  <2>2. Gathered(s, src, out, seen \cup {i})
    BY <1>2 DEF Gathered
  <2> QED
    BY <2>1, <2>2 DEF r
<1>3. CASE Drawn(s, i)
  <2>1. AddRow(out, src, s.db, r) = Append(out, new)
    BY <1>1, <1>3 DEF AddRow, Drawn
  <2>2. out \in Seq(Features(s, src)) /\ Len(out) \in Nat /\ DOMAIN out = 1 .. Len(out)
    BY LenProperties DEF Gathered
  <2>3. new \in Features(s, src)
    BY <2>2 DEF Features
  <2>4. new.row = r.id /\ new.props = PropsIn(src, s.db, r)
    OBVIOUS
  <2> DEFINE more == Append(out, new)
  <2> HIDE DEF new
  <2>5. /\ more \in Seq(Features(s, src)) /\ DOMAIN more = 1 .. Len(out) + 1
        /\ \A k \in 1 .. Len(out) : more[k] = out[k]
        /\ more[Len(out) + 1] = new
    BY <2>2, <2>3, AppendProperties, LenProperties
  <2> HIDE DEF more
  <2>6. \A k \in 1 .. Len(out) : \E j \in seen :
          Drawn(s, j) /\ more[k].row = s.db.rows[j].id /\ more[k].props = PropsIn(src, s.db, s.db.rows[j])
    BY <2>2, <2>5 DEF Gathered
  <2>7. \A k \in 1 .. Len(out) : more[k].row # r.id
    <3> TAKE k \in 1 .. Len(out)
    <3>1. PICK j \in seen : more[k].row = s.db.rows[j].id
      BY <2>6
    <3>2. s.db.rows[j].id = s.db.rows[i].id => i = j
      BY DEF Truthful, Table
    <3> QED
      BY <3>1, <3>2
  <2>8. \A k, m \in 1 .. Len(out) : more[k].row = more[m].row => k = m
    BY <2>2, <2>5 DEF Gathered
  <2>9. \A k \in 1 .. Len(out) + 1 : k \in 1 .. Len(out) \/ k = Len(out) + 1
    BY <2>2
  <2>10. Len(out) + 1 \in 1 .. Len(out) + 1 /\ 1 .. Len(out) \subseteq 1 .. Len(out) + 1
    BY <2>2
  <2>11. \A k \in DOMAIN more : \E j \in seen \cup {i} :
           Drawn(s, j) /\ more[k].row = s.db.rows[j].id /\ more[k].props = PropsIn(src, s.db, s.db.rows[j])
    <3> TAKE k \in DOMAIN more
    <3>1. CASE k \in 1 .. Len(out)
      BY <2>6, <3>1
    <3>2. CASE k = Len(out) + 1
      BY <1>3, <2>4, <2>5, <3>2
    <3> QED
      BY <2>5, <2>9, <3>1, <3>2
  <2> HIDE DEF r
  <2>12. \A k, m \in DOMAIN more : more[k].row = more[m].row => k = m
    BY <2>4, <2>5, <2>7, <2>8, <2>9
  <2>13. \A j \in seen \cup {i} : Drawn(s, j) => \E k \in DOMAIN more : more[k].row = s.db.rows[j].id
    <3> TAKE j \in seen \cup {i}
    <3>1. CASE j \in seen
      <4> SUFFICES ASSUME Drawn(s, j) PROVE \E k \in DOMAIN more : more[k].row = s.db.rows[j].id
        OBVIOUS
      <4>1. PICK k \in DOMAIN out : out[k].row = s.db.rows[j].id
        BY <3>1 DEF Gathered
      <4>2. k \in DOMAIN more /\ more[k].row = out[k].row
        BY <2>2, <2>5, <2>10, <4>1
      <4> QED
        BY <4>1, <4>2
    <3>2. CASE j = i
      <4>1. more[Len(out) + 1].row = s.db.rows[j].id /\ Len(out) + 1 \in DOMAIN more
        BY <2>4, <2>5, <2>10, <3>2 DEF r
      <4> QED
        BY <4>1
    <3> QED
      BY <3>1, <3>2
  <2>14. Gathered(s, src, more, seen \cup {i})
    BY <2>5, <2>11, <2>12, <2>13 DEF Gathered
  <2> QED
    BY <2>1, <2>14 DEF more, r
<1> QED
  BY <1>2, <1>3

\* The least of a set of numbers.
LEMMA LeastElement ==
  ASSUME NEW S \in SUBSET Nat, S # {}
  PROVE  Min(S) \in S
<1> DEFINE R == {p \in Nat \X Nat : p[1] < p[2]}
<1>1. IsWellFoundedOn(R, Nat)
  BY NatLessThanWellFounded, Zenon DEF OpToRel
<1>2. \A j, k \in Nat : j < k => <<j, k>> \in R
  OBVIOUS
<1> HIDE DEF R
<1>3. PICK k \in S : \A j \in S : ~(<<j, k>> \in R)
  BY <1>1, WFMin
<1>4. \A j \in S : k <= j
  <2> TAKE j \in S
  <2>1. ~(j < k) /\ j \in Nat /\ k \in Nat
    BY <1>2, <1>3, Zenon
  <2> QED
    BY <2>1
<1> QED
  BY <1>4 DEF Min

\* A step through the rows keeps what holds of them.
LEMMA RowKeepsStreamed ==
  ASSUME NEW s, Truthful(s), NEW src, AsOpened(s, src), NEW old, NEW new,
         Streamed(s, src, old), old.todo # {},
         new.place = old.place, new.gate = old.gate, new.rows = old.rows + 1,
         new.todo = old.todo \ {Min(old.todo)},
         new.out = AddRow(old.out, src, s.db, s.db.rows[Min(old.todo)])
  PROVE  Streamed(s, src, new)
<1> DEFINE i == Min(old.todo)
<1>1. PICK kept \in Statement(s, src, old) :
        /\ old.todo \subseteq kept
        /\ old.rows = Cardinality(kept \ old.todo)
        /\ Gathered(s, src, old.out, kept \ old.todo)
  BY DEF Streamed
<1>2. /\ IsFiniteSet(kept) /\ kept \subseteq Nat /\ kept \subseteq DOMAIN s.db.rows
  BY StatementKeeps
<1>3. i \in old.todo
  BY <1>1, <1>2, LeastElement
<1> HIDE DEF i
<1>4. kept \ new.todo = (kept \ old.todo) \cup {i} /\ i \notin kept \ old.todo /\ i \in DOMAIN s.db.rows
  BY <1>1, <1>2, <1>3 DEF i
<1>5. IsFiniteSet(kept \ old.todo)
  BY <1>2, FS_Subset
<1>6. new.rows = Cardinality(kept \ new.todo)
  <2>1. Cardinality((kept \ old.todo) \cup {i}) = Cardinality(kept \ old.todo) + 1
    BY <1>4, <1>5, FS_AddElement
  <2> QED
    BY <1>1, <1>4, <2>1, Zenon
<1>7. Gathered(s, src, new.out, kept \ new.todo)
  <2>1. kept \ old.todo \subseteq DOMAIN s.db.rows
    BY <1>2
  <2>2. Gathered(s, src, AddRow(old.out, src, s.db, s.db.rows[i]), (kept \ old.todo) \cup {i})
    BY <1>1, <1>4, <2>1, OneMoreRow
  <2>3. new.out = AddRow(old.out, src, s.db, s.db.rows[i])
    BY DEF i
  <2> QED
    BY <1>4, <2>2, <2>3, Zenon
<1>8. kept \in Statement(s, src, new) /\ new.todo \subseteq kept
  BY <1>1 DEF Statement
<1> QED
  BY <1>6, <1>7, <1>8 DEF Streamed

\* The rows all seen, the features are the answer the operator means
\* (postgis.rs fetch, query_gated).
LEMMA AllSeenIsRight ==
  ASSUME NEW s, Truthful(s), NEW src, AsOpened(s, src), NEW call, Streamed(s, src, call), call.todo = {},
         call.place \in s.places, NEW asked, asked.place = call.place, asked.gate = call.gate,
         NEW a, a.features = call.out, a.warned = (call.rows >= s.cap)
  PROVE  Right(s, asked, a)
<1>1. PICK kept \in Statement(s, src, call) :
        /\ call.rows = Cardinality(kept) /\ Gathered(s, src, call.out, kept)
  <2>1. \A kept : kept \ {} = kept
    OBVIOUS
  <2> QED
    BY <2>1 DEF Streamed
<1> DEFINE selected == {i \in DOMAIN s.db.rows :
                          Selects(build_sql(src, s.cap, call.gate), Placed(call.place, s.db.crs), s.db, s.db.rows[i])}
<1>2. /\ kept \subseteq selected /\ Cardinality(kept) \in Nat
      /\ Cardinality(kept) < s.cap => kept = selected
  BY StatementKeeps
<1>3. \A i \in DOMAIN s.db.rows :
        i \in selected <=> /\ s.db.rows[i].geoms[s.meant].wkb \notin {"null", "empty"}
                           /\ Overlap(s.db.rows[i].geoms[s.meant].box, call.place) /\ Visible(s, s.db.rows[i], call.gate)
  BY SelectsThePlace
<1>4. selected \subseteq DOMAIN s.db.rows
  OBVIOUS
<1> HIDE DEF selected
<1>5. \A i \in DOMAIN s.db.rows : s.db.rows[i] \in ToSet(s.db.rows)
  BY DEF ToSet
<1>6. \A i, j \in DOMAIN a.features : a.features[i].row = a.features[j].row => i = j
  BY <1>1 DEF Gathered
<1>7. ASSUME NEW k \in DOMAIN a.features
      PROVE  \E r \in ToSet(s.db.rows) :
               a.features[k].row = r.id /\ InPlace(s, r, asked.place) /\ a.features[k].props = Truly(s, r)
  <2>1. PICK i \in kept : /\ Drawn(s, i) /\ call.out[k].row = s.db.rows[i].id
                          /\ call.out[k].props = PropsIn(src, s.db, s.db.rows[i])
    BY <1>1 DEF Gathered
  <2> DEFINE r == s.db.rows[i]
  <2>2. i \in DOMAIN s.db.rows /\ r \in ToSet(s.db.rows)
    BY <1>2, <1>4, <1>5, <2>1
  <2>3. InPlace(s, r, asked.place)
    BY <1>2, <1>3, <2>1, <2>2 DEF InPlace, Drawn
  <2>4. PropsIn(src, s.db, r) = Truly(s, r)
    <3>1. src.columns = s.style \cup s.config /\ src.columns \subseteq s.db.columns
      BY DEF AsOpened
    <3>2. \A n \in src.columns : r.shown[n] = column_value(s.db.types[n], r.values[n])
      BY <2>2, <3>1 DEF Truthful
    <3> HIDE DEF r
    <3> QED
      BY <3>1, <3>2 DEF PropsIn, Truly
  <2> QED
    BY <2>1, <2>2, <2>3, <2>4
<1>8. ASSUME NEW r \in ToSet(s.db.rows), InPlace(s, r, asked.place), Visible(s, r, asked.gate), ~a.warned
      PROVE  \E k \in DOMAIN a.features : a.features[k].row = r.id
  <2>1. PICK i \in DOMAIN s.db.rows : r = s.db.rows[i]
    BY DEF ToSet
  <2>2. Drawn(s, i) /\ i \in selected
    BY <1>3, <1>8, <2>1 DEF InPlace, Drawn
  <2>3. Cardinality(kept) < s.cap
    <3>1. s.cap \in Nat
      BY DEF Truthful
    <3>2. ~(Cardinality(kept) >= s.cap)
      BY <1>1, <1>8, Zenon
    <3> QED
      BY <1>2, <3>1, <3>2
  <2>4. i \in kept
    BY <1>2, <2>2, <2>3
  <2> QED
    BY <1>1, <2>1, <2>2, <2>4 DEF Gathered
<1> QED
  BY <1>6, <1>7, <1>8 DEF Right

---------------------------------------------------------------------------
\* Answers: the invariant, and the steps.

\* what holds of a query at each of its stages, for a site and its source
Answering(s, r, call) ==
    /\ call.stage \in {"queued", "connecting", "preparing", "streaming"} => r # Nothing /\ call.place \in s.places
    /\ call.stage \in {"queued", "connecting", "preparing"} => call.out = <<>> /\ call.rows = 0
    /\ call.stage = "streaming" => Streamed(s, r[1], call)
    /\ call.stage = "done" /\ call.answer[1].ok => Right(s, call, call.answer[1])
AnswersInv ==
    /\ remote # Nothing => AsOpened(site, remote[1])
    /\ \A c \in Callers : Answering(site, remote, calls[c])
Told == {"stage", "place", "gate", "todo", "rows", "out", "answer"}

\* A query is judged by its stage, its question, its rows and its answer alone.
LEMMA OnlyWhatIsTold ==
  ASSUME NEW s, NEW r, NEW old, NEW new, \A f \in Told : new[f] = old[f], Answering(s, r, old)
  PROVE  Answering(s, r, new)
<1>1. /\ new.stage = old.stage /\ new.place = old.place /\ new.gate = old.gate /\ new.todo = old.todo
      /\ new.rows = old.rows /\ new.out = old.out /\ new.answer = old.answer
  BY DEF Told
<1>2. Statement(s, r[1], new) = Statement(s, r[1], old)
  BY <1>1 DEF Statement
<1>3. Streamed(s, r[1], new) = Streamed(s, r[1], old)
  BY <1>1, <1>2 DEF Streamed
<1>4. Right(s, new, new.answer[1]) = Right(s, old, old.answer[1])
  BY <1>1 DEF Right
<1> QED
  BY <1>1, <1>3, <1>4 DEF Answering

\* One caller moves to a state that is sound: the others are as they were.
LEMMA OneAnswers ==
  ASSUME IInv, AnswersInv, UNCHANGED <<site, remote>>, NEW c \in Callers, NEW call,
         calls' = [calls EXCEPT ![c] = call], Answering(site, remote, call)
  PROVE  AnswersInv'
<1>1. Callers' = Callers /\ \A d \in Callers : calls'[d] = IF d = c THEN call ELSE calls[d]
  BY DEF Callers, IInv, Shapes
<1>2. \A d \in Callers : Answering(site, remote, calls'[d])
  BY <1>1 DEF AnswersInv
<1>3. \A d \in Callers' : Answering(site', remote', calls'[d])
  BY <1>1, <1>2
<1> QED
  BY <1>3 DEF AnswersInv

\* Nobody asks, gets a row or is answered: nothing is told anew.
LEMMA NobodyAnswers ==
  ASSUME AnswersInv, UNCHANGED <<site, remote>>, Callers' = Callers,
         \A c \in Callers : \A f \in Told : calls'[c][f] = calls[c][f]
  PROVE  AnswersInv'
<1>1. \A c \in Callers : Answering(site, remote, calls'[c])
  BY OnlyWhatIsTold DEF AnswersInv
<1>2. \A c \in Callers' : Answering(site', remote', calls'[c])
  BY <1>1
<1> QED
  BY <1>2 DEF AnswersInv

LEMMA AskedAnswers ==
  ASSUME IInv, AnswersInv, NEW c \in Callers, NEW place \in site.places, NEW gate, query_gated(c, place, gate)
  PROVE  AnswersInv'
<1> DEFINE call == [[Resting EXCEPT !.stage = "queued", !.place = place, !.gate = gate] EXCEPT !.at = 0]
<1>1. calls' = [calls EXCEPT ![c] = call] /\ UNCHANGED <<site, remote>> /\ remote # Nothing
  BY DEF query_gated, Enter
<1>2. call.stage = "queued" /\ call.place = place /\ call.out = <<>> /\ call.rows = 0
  BY DEF Resting
<1> HIDE DEF call
<1>3. Answering(site, remote, call)
  BY <1>1, <1>2 DEF Answering
<1> QED
  BY <1>1, <1>3, OneAnswers

\* A connection is there, or is to be made.
LEMMA GetAnswers ==
  ASSUME IInv, AnswersInv, NEW c \in Callers, Get(c) \/ Create(c)
  PROVE  AnswersInv'
<1>1. /\ WellFormed(calls[c]) /\ Answering(site, remote, calls[c])
      /\ calls[c].stage \in {"queued", "connecting"} /\ UNCHANGED <<site, remote>>
  BY DEF IInv, Shapes, AnswersInv, Get, Create
<1>2. ASSUME NEW call, calls' = [calls EXCEPT ![c] = call],
             call.stage \in {"connecting", "preparing"}, call.place = calls[c].place,
             call.out = calls[c].out, call.rows = calls[c].rows
      PROVE  AnswersInv'
  <2>1. Answering(site, remote, call)
    BY <1>1, <1>2 DEF Answering
  <2> QED
    BY <1>1, <1>2, <2>1, OneAnswers
<1>3. DOMAIN calls[c] = Fields
  BY <1>1 DEF WellFormed
<1>4. CASE Get(c) /\ Usable(idle) = <<>>
  <2> DEFINE call == [[calls[c] EXCEPT !.stage = "connecting"] EXCEPT !.at = 0]
  <2>1. calls' = [calls EXCEPT ![c] = call]
    BY <1>4 DEF Get, Enter
  <2>2. /\ call.stage = "connecting" /\ call.place = calls[c].place /\ call.out = calls[c].out
        /\ call.rows = calls[c].rows
    BY <1>3 DEF Fields
  <2> HIDE DEF call
  <2> QED
    BY <1>2, <2>1, <2>2
<1>5. CASE Get(c) /\ Usable(idle) # <<>>
  <2> DEFINE call == [[calls[c] EXCEPT !.stage = "preparing", !.conn = Usable(idle)[1]] EXCEPT !.at = 0]
  <2>1. calls' = [calls EXCEPT ![c] = call]
    BY <1>5 DEF Get, Enter
  <2>2. /\ call.stage = "preparing" /\ call.place = calls[c].place /\ call.out = calls[c].out
        /\ call.rows = calls[c].rows
    BY <1>3 DEF Fields
  <2> HIDE DEF call
  <2> QED
    BY <1>2, <2>1, <2>2
<1>6. CASE Create(c)
  <2> DEFINE call == [[calls[c] EXCEPT !.stage = "preparing", !.conn = Fresh] EXCEPT !.at = 0]
  <2>1. calls' = [calls EXCEPT ![c] = call]
    BY <1>6 DEF Create, Enter
  <2>2. /\ call.stage = "preparing" /\ call.place = calls[c].place /\ call.out = calls[c].out
        /\ call.rows = calls[c].rows
    BY <1>3 DEF Fields
  <2> HIDE DEF call
  <2> QED
    BY <1>2, <2>1, <2>2
<1> QED
  BY <1>4, <1>5, <1>6

LEMMA PrepareAnswers ==
  ASSUME IInv, AnswersInv, NEW c \in Callers, Prepare(c)
  PROVE  AnswersInv'
<1>1. /\ WellFormed(calls[c]) /\ Answering(site, remote, calls[c]) /\ calls[c].stage = "preparing"
      /\ UNCHANGED <<site, remote>>
  BY DEF IInv, Shapes, AnswersInv, Prepare
<1>2. remote # Nothing /\ AsOpened(site, remote[1]) /\ calls[c].place \in site.places
  BY <1>1 DEF Answering, AnswersInv
<1>3. EnvelopeOf(c) = Placed(calls[c].place, site.db.crs)
  BY <1>2 DEF EnvelopeOf, envelope_in_srid, AsOpened
<1>4. PICK rows \in Run(build_sql(remote[1], site.cap, calls[c].gate), EnvelopeOf(c), site.db) :
        Enter(c, [calls[c] EXCEPT !.stage = "streaming", !.todo = rows, !.slow = Slow(c)])
  BY DEF Prepare
<1> DEFINE call == [[calls[c] EXCEPT !.stage = "streaming", !.todo = rows, !.slow = Slow(c)] EXCEPT !.at = 0]
<1>5. calls' = [calls EXCEPT ![c] = call]
  BY <1>4 DEF Enter
<1>6. /\ call.stage = "streaming" /\ call.todo = rows /\ call.place = calls[c].place /\ call.gate = calls[c].gate
      /\ call.out = calls[c].out /\ call.rows = calls[c].rows
  BY <1>1 DEF WellFormed, Fields
<1> HIDE DEF call
<1>7. call.todo \in Statement(site, remote[1], call)
  BY <1>3, <1>4, <1>6 DEF Statement
<1>8. call.out = <<>> /\ call.rows = 0
  BY <1>1, <1>6 DEF Answering
<1>9. Streamed(site, remote[1], call)
  BY <1>7, <1>8, NothingSeen
<1>10. Answering(site, remote, call)
  BY <1>2, <1>6, <1>9 DEF Answering
<1> QED
  BY <1>1, <1>5, <1>10, OneAnswers

LEMMA NextRowAnswers ==
  ASSUME IInv, AnswersInv, NEW c \in Callers, NextRow(c)
  PROVE  AnswersInv'
<1>1. /\ WellFormed(calls[c]) /\ Answering(site, remote, calls[c]) /\ calls[c].stage = "streaming"
      /\ calls[c].todo # {} /\ UNCHANGED <<site, remote>> /\ Truthful(site)
  BY SitesTruthful DEF IInv, Shapes, AnswersInv, NextRow
<1>2. /\ remote # Nothing /\ AsOpened(site, remote[1]) /\ calls[c].place \in site.places
      /\ Streamed(site, remote[1], calls[c])
  BY <1>1 DEF Answering, AnswersInv
<1> DEFINE i == Min(calls[c].todo)
           call == [calls[c] EXCEPT !.todo = @ \ {i}, !.rows = @ + 1,
                                    !.out = AddRow(@, remote[1], site.db, site.db.rows[i])]
<1>3. calls' = [calls EXCEPT ![c] = call]
  BY DEF NextRow
<1>4. /\ call.stage = "streaming" /\ call.place = calls[c].place /\ call.gate = calls[c].gate
      /\ call.todo = calls[c].todo \ {i} /\ call.rows = calls[c].rows + 1
      /\ call.out = AddRow(calls[c].out, remote[1], site.db, site.db.rows[i])
  BY <1>1 DEF WellFormed, Fields
<1> HIDE DEF call
<1>5. Streamed(site, remote[1], call)
  BY <1>1, <1>2, <1>4, RowKeepsStreamed
<1>6. Answering(site, remote, call)
  BY <1>2, <1>4, <1>5 DEF Answering
<1> QED
  BY <1>1, <1>3, <1>6, OneAnswers

\* The end of a query, with an answer that is right or with an error.
LEMMA EndAnswers ==
  ASSUME IInv, AnswersInv, NEW c \in Callers, NEW answer, NEW owes, End(c, answer, owes),
         answer.ok => \A asked : asked.place = calls[c].place /\ asked.gate = calls[c].gate => Right(site, asked, answer)
  PROVE  AnswersInv'
<1> DEFINE call == [[Resting EXCEPT !.stage = "done", !.place = calls[c].place, !.gate = calls[c].gate,
                                    !.answer = Some(answer)] EXCEPT !.at = 0]
<1>1. calls' = [calls EXCEPT ![c] = call] /\ UNCHANGED <<site, remote>>
  BY DEF End, Done, Enter
<1>2. /\ call.stage = "done" /\ call.place = calls[c].place /\ call.gate = calls[c].gate
      /\ call.answer[1] = answer
  BY DEF Resting, Some
<1> HIDE DEF call
<1>3. Answering(site, remote, call)
  BY <1>2 DEF Answering
<1> QED
  BY <1>1, <1>3, OneAnswers

LEMMA CompleteAnswers ==
  ASSUME IInv, AnswersInv, NEW c \in Callers, Complete(c)
  PROVE  AnswersInv'
<1> DEFINE answer == [ok |-> TRUE, features |-> calls[c].out, warned |-> calls[c].rows >= site.cap]
<1>1. End(c, answer, FALSE) /\ calls[c].stage = "streaming" /\ calls[c].todo = {}
  BY DEF Complete
<1>2. /\ AsOpened(site, remote[1]) /\ calls[c].place \in site.places
      /\ Streamed(site, remote[1], calls[c]) /\ Truthful(site)
  BY <1>1, SitesTruthful DEF Answering, AnswersInv, IInv, Shapes
<1>3. answer.features = calls[c].out /\ answer.warned = (calls[c].rows >= site.cap)
  OBVIOUS
<1> HIDE DEF answer
<1>4. ASSUME NEW asked, asked.place = calls[c].place, asked.gate = calls[c].gate
      PROVE  Right(site, asked, answer)
  BY <1>1, <1>2, <1>3, <1>4, AllSeenIsRight
<1> QED
  BY <1>1, <1>4, EndAnswers

\* An error is no answer.
LEMMA FailureAnswers ==
  ASSUME IInv, AnswersInv, NEW c \in Callers,
         PoolFails(c) \/ CreateFails(c) \/ StatementFails(c) \/ ConnectionFails(c) \/ BudgetFails(c)
  PROVE  AnswersInv'
<1>1. ASSUME NEW why, NEW owes, End(c, Failed(why), owes) PROVE AnswersInv'
  <2>1. ~Failed(why).ok
    BY DEF Failed
  <2> QED
    BY <1>1, <2>1, EndAnswers
<1>2. \E why : \E owes : End(c, Failed(why), owes)
  BY Zenon DEF PoolFails, CreateFails, StatementFails, ConnectionFails, BudgetFails
<1> QED
  BY <1>1, <1>2

\* Neither the database nor the clock changes what a query has gathered.
LEMMA WorldAnswers ==
  ASSUME IInv, AnswersInv,
         Outage("silent") \/ Outage("down") \/ Recover \/ Notice \/ CatchUp \/ Tick \/ UNCHANGED remoteVars
  PROVE  AnswersInv'
<1>1. UNCHANGED <<site, remote>>
  BY DEF Outage, Recover, Notice, CatchUp, Tick, remoteVars
<1>2. \A c \in Callers : DOMAIN calls[c] = Fields
  BY DEF IInv, Shapes, WellFormed
<1>3. Callers' = Callers /\ \A c \in Callers : \A f \in Told : calls'[c][f] = calls[c][f]
  <2>1. CASE UNCHANGED calls
    BY <2>1 DEF Callers
  <2>2. CASE calls' = [c \in Callers |-> [calls[c] EXCEPT !.conn = Breaks(@)]]
    BY <1>2, <2>2 DEF Callers, Told, Fields
  <2>3. CASE calls' = [c \in Callers |-> [calls[c] EXCEPT !.conn.owes = FALSE]]
    BY <1>2, <2>3 DEF Callers, Told, Fields
  <2>4. CASE calls' = [c \in Callers |-> IF Asking(c) THEN [calls[c] EXCEPT !.at = Older(@), !.age = Older(@)] ELSE calls[c]]
    <3>1. Callers' = Callers
      BY <2>4 DEF Callers
    <3>2. ASSUME NEW c \in Callers, NEW f \in Told PROVE calls'[c][f] = calls[c][f]
      <4>1. CASE Asking(c)
        <5>1. calls'[c] = [calls[c] EXCEPT !.at = Older(@), !.age = Older(@)]
          BY <2>4, <4>1
        <5> QED
          BY <1>2, <5>1 DEF Told, Fields
      <4>2. CASE ~Asking(c)
        BY <2>4, <4>2
      <4> QED
        BY <4>1, <4>2
    <3> QED
      BY <3>1, <3>2
  <2> QED
    BY <2>1, <2>2, <2>3, <2>4 DEF Outage, Recover, Notice, CatchUp, Tick, remoteVars
<1> QED
  BY <1>1, <1>3, NobodyAnswers

LEMMA StartAnswers ==
  ASSUME RemoteInit
  PROVE  AnswersInv
<1>1. /\ site \in Sites /\ remote = OpenLayer(site, link = "up")
      /\ calls = [c \in 1 .. site.max_inflight |-> Resting]
  BY DEF RemoteInit
<1>2. remote # Nothing => AsOpened(site, remote[1])
  BY <1>1, SitesTruthful, OpenedAsMeant
<1>3. Resting.stage = "resting"
  BY DEF Resting
<1>4. \A c \in Callers : calls[c] = Resting
  BY <1>1 DEF Callers
<1> QED
  BY <1>2, <1>3, <1>4 DEF AnswersInv, Answering

LEMMA StepAnswers ==
  ASSUME IInv, AnswersInv, [RemoteNext]_remoteVars
  PROVE  AnswersInv'
<1>1. ASSUME NEW c \in Callers, Step(c) PROVE AnswersInv'
  BY <1>1, GetAnswers, PrepareAnswers, NextRowAnswers, CompleteAnswers, FailureAnswers DEF Step
<1>2. ASSUME NEW c \in Callers, NEW place \in site.places, NEW gate \in site.gates, query_gated(c, place, gate)
      PROVE  AnswersInv'
  BY <1>2, AskedAnswers
<1> QED
  BY <1>1, <1>2, WorldAnswers DEF RemoteNext

LEMMA AnswersInvariance == RemoteSpec => []AnswersInv
<1>1. RemoteInit => AnswersInv
  BY StartAnswers
<1>2. IInv /\ AnswersInv /\ [RemoteNext]_remoteVars => AnswersInv'
  BY StepAnswers
<1>3. RemoteSpec => []IInv
  BY Invariance, SitesConfigured
<1> QED
  BY <1>1, <1>2, <1>3, PTL DEF RemoteSpec

\* A query of a database ends in time, and either with the features of the place, each
\* once and with its attributes, or with an error that has a cause, for any table, any
\* number of callers, any pool and any timers: whatever the database does meanwhile,
\* an outage is never an empty map (postgis.rs query_gated).
THEOREM AnswersOrErrors == RemoteSpec => []QueriesAnswerOrFail
<1>1. AnswersInv => AnswersRight
  BY DEF AnswersInv, Answering, AnswersRight
<1>2. RemoteSpec => [](remote # Nothing => EndInTime)
  BY QueriesEndInTime
<1>3. RemoteSpec => [](remote # Nothing => FailForACause)
  BY FailuresHaveACause
<1>4. AnswersInv /\ (remote # Nothing => EndInTime) /\ (remote # Nothing => FailForACause) => QueriesAnswerOrFail
  BY <1>1 DEF QueriesAnswerOrFail
<1> QED
  BY <1>2, <1>3, <1>4, AnswersInvariance, PTL
=============================================================================
