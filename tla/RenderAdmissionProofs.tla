---------------------- MODULE RenderAdmissionProofs ----------------------
(***************************************************************************)
(* Safety of RenderAdmission for any finite number of requests, any keys,  *)
(* permits and threads.  Every permit is free or held by one handler, and  *)
(* every render belongs to a handler that holds a permit or was dropped.   *)
(***************************************************************************)
EXTENDS RenderAdmission, FiniteSetTheorems, SequenceTheorems, TLAPS

Holders   == {r \in Requests : phase[r] = "holding"}
Abandoned == {r \in Requests : phase[r] = "gone"}

Types ==
  /\ phase \in [Requests -> {"idle", "queued", "holding", "gone"}]
  /\ key \in [Requests -> Keys \cup {None}]
  /\ job \in [Requests -> {"none", "spawned", "entered", "rendering", "joined", "ok", "error", "panicked"}]
  /\ cached \in [Keys -> {"nothing", "ok"}]
  /\ failed \subseteq Requests

\* the queue is of handlers that wait, each once
QueueOfWaiters ==
  /\ queue \in Seq(Requests)
  /\ \A i \in 1 .. Len(queue) : phase[queue[i]] = "queued"
  /\ \A i, j \in 1 .. Len(queue) : queue[i] = queue[j] => i = j

\* a render belongs to a handler that holds a permit, or held one
JobsBelong ==
  \A r \in Requests :
    /\ phase[r] # "idle" => key[r] \in Keys
    /\ job[r] # "none" => phase[r] \in {"holding", "gone"}

PermitsCounted == free \in Nat /\ free + Cardinality(Holders) = Permits

\* two threads that render one tile are the same thread
SingleFlight ==
  \A q, r \in Requests :
    /\ job[q] = "rendering" /\ job[r] = "rendering"
    /\ key[q] = key[r] /\ key[r] \in TileKeys
    => q = r

IInv ==
  /\ Types
  /\ QueueOfWaiters
  /\ JobsBelong
  /\ PermitsCounted
  /\ SingleFlight
  /\ ErrorsAreNeverPinned

(***************************************************************************)
(* The queue and the permits.                                              *)
(***************************************************************************)
LEMMA WithoutOne ==
  ASSUME QueueOfWaiters, NEW i \in 1 .. Len(queue)
  PROVE  /\ Without(i) \in Seq(Requests)
         /\ \A j \in 1 .. Len(Without(i)) :
              \E k \in 1 .. Len(queue) : k # i /\ Without(i)[j] = queue[k]
         /\ \A j, k \in 1 .. Len(Without(i)) : Without(i)[j] = Without(i)[k] => j = k
<1> DEFINE w == Without(i)
<1>1. queue \in Seq(Requests) /\ Len(queue) \in Nat
  BY DEF QueueOfWaiters
<1>2. /\ w \in Seq(Requests) /\ Len(w) = Len(queue) - 1
      /\ \A j \in 1 .. Len(w) : w[j] = IF j < i THEN queue[j] ELSE queue[j + 1]
  <2> DEFINE a == SubSeq(queue, 1, i - 1)
             b == SubSeq(queue, i + 1, Len(queue))
  <2>1. /\ a \in Seq(Requests) /\ Len(a) = i - 1
        /\ \A j \in 1 .. i - 1 : a[j] = queue[j]
    BY <1>1, SubSeqProperties
  <2>2. /\ b \in Seq(Requests) /\ Len(b) = Len(queue) - i
        /\ \A j \in 1 .. Len(queue) - i : b[j] = queue[i + j]
    BY <1>1, SubSeqProperties
  <2> HIDE DEF a, b
  <2>3. Len(a) + Len(b) = Len(queue) - 1 /\ i \in Nat
    BY <1>1, <2>1, <2>2
  <2>4. /\ a \o b \in Seq(Requests) /\ Len(a \o b) = Len(queue) - 1
        /\ \A j \in 1 .. Len(queue) - 1 :
             (a \o b)[j] = IF j <= Len(a) THEN a[j] ELSE b[j - Len(a)]
    <3>1. /\ a \o b \in Seq(Requests) /\ Len(a \o b) = Len(a) + Len(b)
          /\ \A j \in 1 .. Len(a) + Len(b) :
               (a \o b)[j] = IF j <= Len(a) THEN a[j] ELSE b[j - Len(a)]
      BY <2>1, <2>2, ConcatProperties, Zenon
    <3> QED
      BY <2>3, <3>1
  <2>5. ASSUME NEW j \in 1 .. Len(queue) - 1
        PROVE  (a \o b)[j] = IF j < i THEN queue[j] ELSE queue[j + 1]
    <3>1. CASE j < i
      BY <1>1, <2>1, <2>3, <2>4, <3>1
    <3>2. CASE ~(j < i)
      <4>1. j - (i - 1) \in 1 .. Len(queue) - i /\ i + (j - (i - 1)) = j + 1 /\ ~(j <= i - 1)
        BY <1>1, <2>3, <3>2
      <4> QED
        BY <2>1, <2>2, <2>4, <3>2, <4>1
    <3> QED
      BY <3>1, <3>2
  <2> QED
    BY <2>4, <2>5 DEF Without, a, b
<1> HIDE DEF w
<1>3. \A j \in 1 .. Len(w) : \E k \in 1 .. Len(queue) : k # i /\ w[j] = queue[k]
  <2> SUFFICES ASSUME NEW j \in 1 .. Len(w)
               PROVE  \E k \in 1 .. Len(queue) : k # i /\ w[j] = queue[k]
    OBVIOUS
  <2>1. CASE j < i
    BY <1>1, <1>2, <2>1
  <2>2. CASE ~(j < i)
    <3>1. j + 1 \in 1 .. Len(queue) /\ j + 1 # i /\ w[j] = queue[j + 1]
      BY <1>1, <1>2, <2>2
    <3> QED
      BY <3>1
  <2> QED
    BY <2>1, <2>2
<1>4. \A j, k \in 1 .. Len(w) : w[j] = w[k] => j = k
  BY <1>1, <1>2 DEF QueueOfWaiters
<1> QED
  BY <1>2, <1>3, <1>4 DEF w

LEMMA HoldersFinite ==
  IsFiniteSet(Holders) /\ IsFiniteSet(Abandoned)
  /\ Cardinality(Holders) \in Nat /\ Cardinality(Abandoned) \in Nat
<1>1. Holders \in SUBSET Requests /\ Abandoned \in SUBSET Requests
  BY DEF Holders, Abandoned
<1> QED
  BY <1>1, RequestsAssumption, FS_Subset, FS_CardinalityType

LEMMA HoldersSame ==
  ASSUME PermitsCounted, UNCHANGED free, Holders' = Holders
  PROVE  PermitsCounted'
BY DEF PermitsCounted

LEMMA PermitGoes ==
  ASSUME PermitsCounted, NEW r \in Requests, phase[r] # "holding", free > 0,
         free' = free - 1, Holders' = Holders \cup {r}
  PROVE  PermitsCounted'
<1>1. Cardinality(Holders') = Cardinality(Holders) + 1
  BY HoldersFinite, FS_AddElement DEF Holders
<1> QED
  BY <1>1, HoldersFinite, PermitsAssumption DEF PermitsCounted

LEMMA PermitComesBack ==
  ASSUME PermitsCounted, NEW r \in Requests, phase[r] = "holding",
         free' = free + 1, Holders' = Holders \ {r}
  PROVE  PermitsCounted'
<1>1. r \in Holders
  BY DEF Holders
<1>2. Cardinality(Holders') = Cardinality(Holders) - 1
  BY <1>1, HoldersFinite, FS_RemoveElement
<1> QED
  BY <1>2, HoldersFinite, PermitsAssumption DEF PermitsCounted

(***************************************************************************)
(* The handler.                                                            *)
(***************************************************************************)
LEMMA InitInv == Init => IInv
<1> SUFFICES ASSUME Init PROVE IInv
  OBVIOUS
<1>1. Types /\ QueueOfWaiters /\ JobsBelong /\ SingleFlight /\ ErrorsAreNeverPinned
  BY DEF Init, Types, QueueOfWaiters, JobsBelong, SingleFlight, ErrorsAreNeverPinned
<1>2. Holders = {} /\ free = Permits
  BY DEF Init, Holders
<1>3. PermitsCounted
  BY <1>2, FS_EmptySet, PermitsAssumption DEF PermitsCounted
<1> QED
  BY <1>1, <1>3 DEF IInv

LEMMA ArriveInv == ASSUME IInv, NEW r \in Requests, NEW k \in Keys, Arrive(r, k) PROVE IInv'
<1>1. /\ phase[r] = "idle" /\ job[r] = "none"
      /\ phase' = [phase EXCEPT ![r] = "queued"] /\ key' = [key EXCEPT ![r] = k]
      /\ queue' = Append(queue, r) /\ failed' = failed \ {r}
      /\ UNCHANGED <<free, job, cached>>
  BY DEF Arrive, IInv, JobsBelong
<1>2. Types' /\ JobsBelong'
  BY <1>1 DEF IInv, Types, JobsBelong
<1>3. SingleFlight' /\ ErrorsAreNeverPinned'
  BY <1>1 DEF IInv, Types, SingleFlight, ErrorsAreNeverPinned
<1>4. QueueOfWaiters'
  <2>1. queue \in Seq(Requests) /\ \A i \in 1 .. Len(queue) : queue[i] # r
    BY <1>1 DEF IInv, QueueOfWaiters
  <2>2. /\ queue' \in Seq(Requests) /\ Len(queue') = Len(queue) + 1
        /\ queue'[Len(queue) + 1] = r /\ \A i \in 1 .. Len(queue) : queue'[i] = queue[i]
    BY <1>1, <2>1
  <2>3. \A i \in 1 .. Len(queue') : i \in 1 .. Len(queue) \/ i = Len(queue) + 1
    BY <2>1, <2>2
  <2> QED
    BY <1>1, <2>1, <2>2, <2>3 DEF IInv, Types, QueueOfWaiters
<1>5. PermitsCounted'
  <2>1. Holders' = Holders
    BY <1>1 DEF Holders, IInv, Types
  <2> QED
    BY <1>1, <2>1, HoldersSame DEF IInv
<1> QED
  BY <1>2, <1>3, <1>4, <1>5 DEF IInv

LEMMA AcquireInv == ASSUME IInv, NEW r \in Requests, Acquire(r) PROVE IInv'
<1>1. /\ queue # <<>> /\ r = Head(queue) /\ free > 0
      /\ queue' = Tail(queue) /\ free' = free - 1
      /\ phase' = [phase EXCEPT ![r] = "holding"] /\ job' = [job EXCEPT ![r] = "spawned"]
      /\ UNCHANGED <<key, cached, failed>>
  BY DEF Acquire, PermitTaken
<1>2. /\ queue \in Seq(Requests) /\ Len(queue) \in Nat /\ Len(queue) > 0 /\ r = queue[1]
      /\ phase[r] = "queued"
  <2>1. queue \in Seq(Requests) /\ Len(queue) \in Nat /\ Len(queue) > 0
    BY <1>1 DEF IInv, QueueOfWaiters
  <2>2. r = queue[1]
    BY <1>1, <2>1
  <2> QED
    BY <2>1, <2>2 DEF IInv, QueueOfWaiters
<1>3. Types' /\ JobsBelong'
  BY <1>1, <1>2 DEF IInv, Types, JobsBelong
<1>4. SingleFlight' /\ ErrorsAreNeverPinned'
  BY <1>1 DEF IInv, Types, SingleFlight, ErrorsAreNeverPinned
<1>5. QueueOfWaiters'
  <2>1. /\ queue' \in Seq(Requests) /\ Len(queue') = Len(queue) - 1
        /\ \A i \in 1 .. Len(queue') : queue'[i] = queue[i + 1]
    BY <1>1, <1>2, HeadTailProperties
  <2>2. \A i \in 1 .. Len(queue') : i + 1 \in 1 .. Len(queue) /\ i + 1 # 1
    BY <1>2, <2>1
  <2>3. \A i \in 1 .. Len(queue') : queue'[i] # r
    BY <1>2, <2>1, <2>2 DEF IInv, QueueOfWaiters
  <2>4. \A i \in 1 .. Len(queue') : phase'[queue'[i]] = "queued"
    BY <1>1, <2>1, <2>2, <2>3 DEF IInv, Types, QueueOfWaiters
  <2>5. \A i, j \in 1 .. Len(queue') : queue'[i] = queue'[j] => i = j
    <3> SUFFICES ASSUME NEW i \in 1 .. Len(queue'), NEW j \in 1 .. Len(queue'),
                        queue'[i] = queue'[j]
                 PROVE  i = j
      OBVIOUS
    <3>1. i + 1 = j + 1
      BY <2>1, <2>2 DEF IInv, QueueOfWaiters
    <3> QED
      BY <1>2, <2>1, <3>1
  <2> QED
    BY <2>1, <2>4, <2>5 DEF QueueOfWaiters
<1>6. PermitsCounted'
  <2>1. Holders' = Holders \cup {r}
    BY <1>1 DEF Holders, IInv, Types
  <2> QED
    BY <1>1, <1>2, <2>1, PermitGoes DEF IInv
<1> QED
  BY <1>3, <1>4, <1>5, <1>6 DEF IInv

\* a handler that leaves, answered or discarded, is not in the queue
LEMMA LeaveInv ==
  ASSUME IInv, NEW r \in Requests, phase[r] \in {"holding", "gone"},
         phase' = [phase EXCEPT ![r] = "idle"], job' = [job EXCEPT ![r] = "none"],
         key' = [key EXCEPT ![r] = None], UNCHANGED <<queue, cached, failed>>,
         PermitsCounted'
  PROVE  IInv'
<1>1. Types' /\ JobsBelong'
  BY DEF IInv, Types, JobsBelong
<1>2. SingleFlight' /\ ErrorsAreNeverPinned'
  BY DEF IInv, Types, SingleFlight, ErrorsAreNeverPinned
<1>3. QueueOfWaiters'
  BY DEF IInv, Types, QueueOfWaiters
<1> QED
  BY <1>1, <1>2, <1>3 DEF IInv

LEMMA AnswerInv == ASSUME IInv, NEW r \in Requests, Answer(r) \/ Discard(r) PROVE IInv'
<1>1. CASE Answer(r)
  <2>1. Holders' = Holders \ {r}
    BY <1>1 DEF Answer, Holders, IInv, Types
  <2>2. PermitsCounted'
    BY <1>1, <2>1, PermitComesBack DEF Answer, Released, IInv
  <2> QED
    BY <1>1, <2>2, LeaveInv DEF Answer
<1>2. CASE Discard(r)
  <2>1. Holders' = Holders
    BY <1>2 DEF Discard, Holders, IInv, Types
  <2>2. PermitsCounted'
    BY <1>2, <2>1, HoldersSame DEF Discard, IInv
  <2> QED
    BY <1>2, <2>2, LeaveInv DEF Discard
<1> QED
  BY <1>1, <1>2

LEMMA DisconnectInv == ASSUME IInv, NEW r \in Requests, Disconnect(r) PROVE IInv'
<1>1. CASE /\ phase[r] = "queued"
           /\ phase' = [phase EXCEPT ![r] = "idle"] /\ key' = [key EXCEPT ![r] = None]
           /\ \E i \in DOMAIN queue : queue[i] = r /\ queue' = Without(i)
           /\ UNCHANGED <<free, job, cached, failed>>
  <2>1. queue \in Seq(Requests)
    BY DEF IInv, QueueOfWaiters
  <2>2. PICK i \in 1 .. Len(queue) : queue[i] = r /\ queue' = Without(i)
    BY <1>1, <2>1
  <2>3. /\ queue' \in Seq(Requests)
        /\ \A j \in 1 .. Len(queue') :
             \E k \in 1 .. Len(queue) : k # i /\ queue'[j] = queue[k]
        /\ \A j, k \in 1 .. Len(queue') : queue'[j] = queue'[k] => j = k
    BY <2>2, WithoutOne DEF IInv
  <2>4. \A j \in 1 .. Len(queue') : queue'[j] # r /\ phase[queue'[j]] = "queued" /\ queue'[j] \in Requests
    BY <2>1, <2>2, <2>3 DEF IInv, QueueOfWaiters
  <2>5. QueueOfWaiters'
    BY <1>1, <2>3, <2>4 DEF QueueOfWaiters, IInv, Types
  <2>6. job[r] = "none"
    BY <1>1 DEF IInv, JobsBelong
  <2>7. Types' /\ JobsBelong'
    BY <1>1, <2>6 DEF IInv, Types, JobsBelong
  <2>8. SingleFlight' /\ ErrorsAreNeverPinned'
    BY <1>1, <2>6 DEF IInv, Types, SingleFlight, ErrorsAreNeverPinned
  <2>9. Holders' = Holders
    BY <1>1 DEF Holders, IInv, Types
  <2> QED
    BY <1>1, <2>5, <2>7, <2>8, <2>9, HoldersSame DEF IInv
<1>2. CASE /\ phase[r] = "holding" /\ phase' = [phase EXCEPT ![r] = "gone"]
           /\ free' = free + 1 /\ UNCHANGED <<key, queue, job, cached, failed>>
  <2>1. Types' /\ JobsBelong' /\ QueueOfWaiters'
    BY <1>2 DEF IInv, Types, JobsBelong, QueueOfWaiters
  <2>2. SingleFlight' /\ ErrorsAreNeverPinned'
    BY <1>2 DEF IInv, SingleFlight, ErrorsAreNeverPinned
  <2>3. Holders' = Holders \ {r}
    BY <1>2 DEF Holders, IInv, Types
  <2> QED
    BY <1>2, <2>1, <2>2, <2>3, PermitComesBack DEF IInv
<1> QED
  BY <1>1, <1>2 DEF Disconnect

(***************************************************************************)
(* The blocking threads.                                                   *)
(***************************************************************************)
Jobs == {"none", "spawned", "entered", "rendering", "joined", "ok", "error", "panicked"}

LEMMA ThreadInv ==
  ASSUME IInv, UNCHANGED <<phase, key, queue, free>>,
         job' \in [Requests -> Jobs], \A q \in Requests : job'[q] # "none" => job[q] # "none",
         cached' \in [Keys -> {"nothing", "ok"}], failed' \subseteq Requests,
         SingleFlight', ErrorsAreNeverPinned'
  PROVE  IInv'
<1>1. Types' /\ JobsBelong' /\ QueueOfWaiters'
  BY DEF IInv, Types, JobsBelong, QueueOfWaiters, Jobs
<1>2. Holders' = Holders
  BY DEF Holders
<1> QED
  BY <1>1, <1>2, HoldersSame DEF IInv

LEMMA EnterInv == ASSUME IInv, NEW r \in Requests, Start(r) \/ Enter(r) PROVE IInv'
<1>1. job \in [Requests -> Jobs] /\ cached \in [Keys -> {"nothing", "ok"}] /\ failed \subseteq Requests
  BY DEF IInv, Types, Jobs
<1>2. CASE Start(r)
  <2>1. /\ job[r] = "spawned" /\ job' = [job EXCEPT ![r] = "entered"]
        /\ UNCHANGED <<phase, key, queue, free, cached, failed>>
    BY <1>2 DEF Start
  <2>2. SingleFlight' /\ ErrorsAreNeverPinned'
    BY <1>1, <2>1 DEF IInv, SingleFlight, ErrorsAreNeverPinned
  <2>3. job' \in [Requests -> Jobs] /\ \A q \in Requests : job'[q] # "none" => job[q] # "none"
    BY <1>1, <2>1 DEF Jobs
  <2> QED
    BY <1>1, <2>1, <2>2, <2>3, ThreadInv
<1>3. CASE Enter(r)
  <2>1. /\ job[r] = "entered" /\ job' = [job EXCEPT ![r] = job'[r]]
        /\ job'[r] \in {"ok", "joined", "rendering"}
        /\ job'[r] = "rendering" => ~Joins(r)
        /\ UNCHANGED <<phase, key, queue, free, cached, failed>>
    <3>1. job[r] = "entered" /\ key[r] \in Keys
      BY <1>3 DEF Enter, IInv, JobsBelong
    <3>2. cached[key[r]] \in {"nothing", "ok"}
      BY <1>1, <3>1
    <3> QED
      BY <1>1, <1>3, <3>1, <3>2 DEF Enter
  <2>2. ErrorsAreNeverPinned'
    BY <1>1, <2>1 DEF IInv, ErrorsAreNeverPinned
  <2>3. job'[r] = "rendering" /\ key[r] \in TileKeys =>
          \A q \in Requests : job[q] = "rendering" => key[q] # key[r]
    BY <2>1 DEF Joins, Rendering
  <2>4. SingleFlight'
    BY <1>1, <2>1, <2>3 DEF IInv, SingleFlight
  <2>5. job' \in [Requests -> Jobs] /\ \A q \in Requests : job'[q] # "none" => job[q] # "none"
    BY <1>1, <2>1 DEF Jobs
  <2> QED
    BY <1>1, <2>1, <2>2, <2>4, <2>5, ThreadInv
<1> QED
  BY <1>2, <1>3

LEMMA RenderInv ==
  ASSUME IInv, NEW r \in Requests, RenderOk(r) \/ RenderFails(r) \/ RenderPanics(r)
  PROVE  IInv'
<1>1. /\ job \in [Requests -> Jobs] /\ cached \in [Keys -> {"nothing", "ok"}]
      /\ failed \subseteq Requests /\ job[r] = "rendering"
      /\ UNCHANGED <<phase, key, queue, free>>
  BY DEF IInv, Types, Jobs, RenderOk, RenderFails, RenderPanics
<1>2. ASSUME job' \in [Requests -> Jobs],
             \A q \in Requests : job'[q] = job[q] \/ (job'[q] # "rendering" /\ job[q] # "none")
      PROVE  SingleFlight' /\ \A q \in Requests : job'[q] # "none" => job[q] # "none"
  BY <1>1, <1>2 DEF IInv, SingleFlight
<1>3. CASE RenderOk(r) \/ RenderFails(r)
  <2>1. PICK res \in {"ok", "error"} :
          /\ Settle(r, res)
          /\ res = "ok" => cached' = [cached EXCEPT ![key[r]] = "ok"] /\ failed' = failed
          /\ res = "error" => /\ cached' = cached
                              /\ failed' = failed \cup {q \in Requests : key[q] = key[r]}
    BY <1>3 DEF RenderOk, RenderFails, KeptOnError
  <2>2. /\ job' = [q \in Requests |-> IF q = r \/ q \in JoinedOn(key[r]) THEN res ELSE job[q]]
        /\ \A q \in JoinedOn(key[r]) : job[q] = "joined" /\ key[q] = key[r]
    BY <2>1 DEF Settle, JoinedOn
  <2>3. job' \in [Requests -> Jobs]
        /\ \A q \in Requests : job'[q] = job[q] \/ (job'[q] # "rendering" /\ job[q] # "none")
    BY <1>1, <2>2 DEF Jobs
  <2>4. cached' \in [Keys -> {"nothing", "ok"}] /\ failed' \subseteq Requests
    BY <1>1, <2>1
  <2>5. ErrorsAreNeverPinned'
    BY <1>1, <2>1, <2>2 DEF IInv, ErrorsAreNeverPinned
  <2> QED
    BY <1>1, <1>2, <2>3, <2>4, <2>5, ThreadInv
<1>4. CASE RenderPanics(r)
  <2>1. /\ UNCHANGED <<cached, failed>>
        /\ job' = [q \in Requests |-> IF q = r THEN "panicked"
                                      ELSE IF q \in JoinedOn(key[r]) THEN "entered" ELSE job[q]]
        /\ \A q \in JoinedOn(key[r]) : job[q] = "joined"
    BY <1>4 DEF RenderPanics, JoinedOn
  <2>2. job' \in [Requests -> Jobs]
        /\ \A q \in Requests : job'[q] = job[q] \/ (job'[q] # "rendering" /\ job[q] # "none")
    BY <1>1, <2>1 DEF Jobs
  <2>3. ErrorsAreNeverPinned'
    BY <1>1, <2>1 DEF IInv, ErrorsAreNeverPinned
  <2> QED
    BY <1>1, <1>2, <2>1, <2>2, <2>3, ThreadInv
<1> QED
  BY <1>3, <1>4

LEMMA NextInv == IInv /\ [Next]_vars => IInv'
<1> SUFFICES ASSUME IInv, [Next]_vars PROVE IInv'
  OBVIOUS
<1>1. CASE UNCHANGED vars
  <2>1. Holders' = Holders
    BY <1>1 DEF vars, Holders
  <2> QED
    BY <1>1, <2>1 DEF vars, IInv, Types, QueueOfWaiters, JobsBelong, PermitsCounted,
       SingleFlight, ErrorsAreNeverPinned
<1>2. CASE \E k \in Keys : Evict(k)
  <2>1. /\ UNCHANGED <<phase, key, queue, free, job, failed>>
        /\ cached' \in [Keys -> {"nothing", "ok"}]
    BY <1>2 DEF Evict, IInv, Types
  <2>2. SingleFlight' /\ ErrorsAreNeverPinned' /\ job \in [Requests -> Jobs] /\ failed \subseteq Requests
    BY <2>1 DEF IInv, Types, Jobs, SingleFlight, ErrorsAreNeverPinned
  <2> QED
    BY <2>1, <2>2, ThreadInv
<1> QED
  BY <1>1, <1>2, ArriveInv, AcquireInv, AnswerInv, DisconnectInv, EnterInv, RenderInv DEF Next

(***************************************************************************)
(* Theorems.                                                               *)
(***************************************************************************)
LEMMA SpecInv == Spec => []IInv
<1>1. Init => IInv
  BY InitInv
<1>2. IInv /\ [Next]_vars => IInv'
  BY NextInv
<1> QED
  BY <1>1, <1>2, PTL DEF Spec

\* Handlers, keys, permits, threads' jobs and cache keep their types; no error is ever cached.
\* (server.rs: ServeState, cached_or_render_png)
THEOREM AdmissionTypes == Spec => []TypeOK
<1>1. IInv => TypeOK
  <2> SUFFICES ASSUME IInv PROVE TypeOK
    OBVIOUS
  <2>1. free \in 0 .. Permits
    BY HoldersFinite, PermitsAssumption DEF IInv, PermitsCounted
  <2> QED
    BY <2>1 DEF IInv, Types, QueueOfWaiters, TypeOK
<1> QED
  BY <1>1, SpecInv, PTL

\* No permit is lost and none is given back twice, whoever disconnects, fails or panics.
\* (server.rs: render_limiter)
THEOREM PermitsNeverLeak == Spec => []PermitsAreKept
<1>1. IInv => PermitsAreKept
  BY DEF IInv, PermitsCounted, PermitsAreKept, Holders
<1> QED
  BY <1>1, SpecInv, PTL

\* One render per cold tile, for any number of requests, whoever disconnects, fails, panics or
\* evicts.  (server.rs: cached_or_render_png)
THEOREM RenderedOnce == Spec => []OneRenderPerTile
<1>1. IInv => OneRenderPerTile
  <2> SUFFICES ASSUME IInv, NEW k \in TileKeys PROVE Cardinality(Rendering(k)) <= 1
    BY DEF OneRenderPerTile
  <2>1. \A q, r \in Rendering(k) : q = r
    BY DEF IInv, SingleFlight, Rendering
  <2>2. CASE Rendering(k) = {}
    BY <2>2, FS_EmptySet
  <2>3. CASE Rendering(k) # {}
    <3>1. PICK r : Rendering(k) = {r}
      BY <2>1, <2>3
    <3>2. Cardinality({r}) = 1
      BY FS_Singleton
    <3> QED
      BY <3>1, <3>2
  <2> QED
    BY <2>2, <2>3
<1> QED
  BY <1>1, SpecInv, PTL

\* An error is never answered from before a request came.  (server.rs: cached_or_render_png,
\* wms_handler)
THEOREM NeverPinned == Spec => []ErrorsAreNeverPinned
<1>1. IInv => ErrorsAreNeverPinned
  BY DEF IInv
<1> QED
  BY <1>1, SpecInv, PTL

\* The renders that run are at most the permits and the renders whose clients left.
\* (server.rs: render_limiter)
THEOREM Bounded == Spec => []RendersWithinPermits
<1>1. IInv => RendersWithinPermits
  <2> SUFFICES ASSUME IInv PROVE RendersWithinPermits
    OBVIOUS
  <2> DEFINE Busy == {r \in Requests : job[r] = "rendering"}
  <2>1. Busy \subseteq Holders \cup Abandoned
    BY DEF IInv, JobsBelong, Holders, Abandoned
  <2>2. Holders \cap Abandoned = {}
    BY DEF Holders, Abandoned
  <2>3. /\ IsFiniteSet(Holders \cup Abandoned)
        /\ Cardinality(Holders \cup Abandoned) =
             Cardinality(Holders) + Cardinality(Abandoned) - Cardinality(Holders \cap Abandoned)
    BY HoldersFinite, FS_Union
  <2>4. Cardinality(Holders \cap Abandoned) = 0
    BY <2>2, FS_EmptySet
  <2>5. Cardinality(Busy) <= Cardinality(Holders \cup Abandoned) /\ Cardinality(Busy) \in Nat
    BY <2>1, <2>3, FS_Subset, FS_CardinalityType
  <2>6. Cardinality(Busy) <= Permits + Cardinality(Abandoned)
    BY <2>3, <2>4, <2>5, HoldersFinite, PermitsAssumption DEF IInv, PermitsCounted
  <2> QED
    BY <2>6 DEF RendersWithinPermits, Abandoned
<1> QED
  BY <1>1, SpecInv, PTL
==========================================================================
