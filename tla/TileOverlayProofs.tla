------------------------ MODULE TileOverlayProofs ------------------------
(***************************************************************************)
(* Proofs about TileOverlay, for any set of tiles and requests and any     *)
(* bounds.  First what the scan of a log returns, then the inductive       *)
(* invariant, then the theorems.                                           *)
(***************************************************************************)
EXTENDS TileOverlay, SequenceTheorems, TLAPS

(***************************************************************************)
(* The scan of a log.                                                      *)
(***************************************************************************)

\* A scanned record lies wholly inside the file.  (parse_record)
LEMMA ScannedInside ==
  ASSUME NEW f \in Seq(Cells), NEW k \in Nat \ {0}, Scanned(f, k)
  PROVE  k \in 1 .. Len(f) \div 2 /\ 2 * k \in 1 .. Len(f) /\ f[2 * k] = Body(f[2 * k].blob)
<1>1. Parses(f, k)
  BY DEF Scanned
<1>2. 2 * k <= Len(f) /\ f[2 * k] = Body(f[2 * k - 1].blob)
  BY <1>1 DEF Parses
<1>3. Len(f) \in Nat
  OBVIOUS
<1> QED
  BY <1>2, <1>3 DEF Body

\* A tile has at most one last record, and LastBlob finds it.  (open: "index.insert")
LEMMA LastIs ==
  ASSUME NEW f \in Seq(Cells), NEW t, NEW k \in Nat \ {0}, IsLast(f, t, k)
  PROVE  LastBlob(f, t) = 2 * k
<1>1. k \in 1 .. Len(f) \div 2 /\ Len(f) \div 2 \in Nat
  BY ScannedInside DEF IsLast
<1> DEFINE m == CHOOSE i \in 1 .. Len(f) \div 2 : IsLast(f, t, i)
<1>2. m \in 1 .. Len(f) \div 2 /\ IsLast(f, t, m)
  BY <1>1
<1>3. m = k
  BY <1>1, <1>2 DEF IsLast
<1> QED
  BY <1>1, <1>3 DEF LastBlob

\* What LastBlob returns when it is not 0.
LEMMA LastBlobIsRecord ==
  ASSUME NEW f \in Seq(Cells), NEW t, LastBlob(f, t) # 0
  PROVE  \E k \in Nat \ {0} : IsLast(f, t, k) /\ LastBlob(f, t) = 2 * k
<1>1. \E k \in 1 .. Len(f) \div 2 : IsLast(f, t, k)
  BY DEF LastBlob
<1>2. PICK k \in Nat \ {0} : IsLast(f, t, k)
  BY <1>1
<1>3. LastBlob(f, t) = 2 * k
  BY <1>2, LastIs
<1> QED
  BY <1>2, <1>3

LEMMA LastBlobCell ==
  ASSUME NEW f \in Seq(Cells), NEW t, LastBlob(f, t) # 0
  PROVE  /\ LastBlob(f, t) \in 1 .. Len(f)
         /\ f[LastBlob(f, t)] = Body(f[LastBlob(f, t)].blob)
         /\ f[LastBlob(f, t)].blob \in Blobs
         /\ f[LastBlob(f, t)].blob.tile = t
<1>1. PICK k \in Nat \ {0} : IsLast(f, t, k) /\ LastBlob(f, t) = 2 * k
  BY LastBlobIsRecord
<1>2. 2 * k \in 1 .. Len(f) /\ f[2 * k] = Body(f[2 * k].blob)
  BY <1>1, ScannedInside DEF IsLast
<1>3. f[2 * k] \in Cells
  BY <1>2
<1> QED
  BY <1>1, <1>2, <1>3 DEF IsLast, Cells

LEMMA LastBlobNat ==
  ASSUME NEW f \in Seq(Cells), NEW t
  PROVE  LastBlob(f, t) \in Nat
<1>1. CASE LastBlob(f, t) = 0
  BY <1>1
<1>2. CASE LastBlob(f, t) # 0
  BY <1>2, LastBlobCell
<1> QED
  BY <1>1, <1>2

\* Two logs that agree on their first n records scan alike that far.
LEMMA ScanOfPrefix ==
  ASSUME NEW f \in Seq(Cells), NEW g \in Seq(Cells), NEW n \in Nat,
         2 * n <= Len(f), 2 * n <= Len(g), \A i \in 1 .. 2 * n : f[i] = g[i]
  PROVE  \A k \in 0 .. n : (Scanned(f, k) <=> Scanned(g, k)) /\ (k > 0 => f[2 * k] = g[2 * k])
<1>1. \A k \in 1 .. n : (Parses(f, k) <=> Parses(g, k)) /\ f[2 * k] = g[2 * k]
  <2> TAKE k \in 1 .. n
  <2>1. 2 * k \in 1 .. 2 * n /\ 2 * k - 1 \in 1 .. 2 * n
    OBVIOUS
  <2>2. f[2 * k] = g[2 * k] /\ f[2 * k - 1] = g[2 * k - 1] /\ 2 * k <= Len(f) /\ 2 * k <= Len(g)
    BY <2>1
  <2> QED
    BY <2>2 DEF Parses
<1> QED
  BY <1>1 DEF Scanned

\* If both stop scanning there, or what follows is of other tiles, they index t alike.
LEMMA SameLast ==
  ASSUME NEW f \in Seq(Cells), NEW g \in Seq(Cells), NEW n \in Nat, NEW t,
         2 * n <= Len(f), 2 * n <= Len(g), \A i \in 1 .. 2 * n : f[i] = g[i],
         \A k \in Nat : k > n /\ Scanned(f, k) => f[2 * k].blob.tile # t,
         \A k \in Nat : k > n /\ Scanned(g, k) => g[2 * k].blob.tile # t
  PROVE  LastBlob(f, t) = LastBlob(g, t)
<1>1. ASSUME NEW a \in Seq(Cells), NEW b \in Seq(Cells),
             2 * n <= Len(a), 2 * n <= Len(b), \A i \in 1 .. 2 * n : a[i] = b[i],
             \A k \in Nat : k > n /\ Scanned(a, k) => a[2 * k].blob.tile # t,
             \A k \in Nat : k > n /\ Scanned(b, k) => b[2 * k].blob.tile # t,
             NEW k \in Nat \ {0}, IsLast(a, t, k)
      PROVE  IsLast(b, t, k)
  <2>1. k \in 1 .. n
    BY <1>1 DEF IsLast
  <2>2. \A j \in 0 .. n : (Scanned(a, j) <=> Scanned(b, j)) /\ (j > 0 => a[2 * j] = b[2 * j])
    BY <1>1, ScanOfPrefix
  <2>3. Scanned(b, k) /\ b[2 * k].blob.tile = t
    BY <1>1, <2>1, <2>2 DEF IsLast
  <2>4. ASSUME NEW j \in k + 1 .. Len(b) \div 2, Scanned(b, j)
        PROVE  b[2 * j].blob.tile # t
    <3>1. CASE j > n
      BY <1>1, <2>4, <3>1
    <3>2. CASE j <= n
      <4>1. Scanned(a, j) /\ a[2 * j] = b[2 * j]
        BY <2>2, <2>4, <3>2
      <4>2. j \in k + 1 .. Len(a) \div 2
        BY <2>4, <4>1, ScannedInside
      <4> QED
        BY <1>1, <2>4, <4>1, <4>2 DEF IsLast
    <3> QED
      BY <3>1, <3>2
  <2> QED
    BY <2>3, <2>4 DEF IsLast
<1>2. CASE LastBlob(f, t) # 0
  <2>1. PICK k \in Nat \ {0} : IsLast(f, t, k) /\ LastBlob(f, t) = 2 * k
    BY <1>2, LastBlobIsRecord
  <2>2. IsLast(g, t, k)
    BY <1>1, <2>1
  <2> QED
    BY <2>1, <2>2, LastIs
<1>3. CASE LastBlob(g, t) # 0
  <2>1. PICK k \in Nat \ {0} : IsLast(g, t, k) /\ LastBlob(g, t) = 2 * k
    BY <1>3, LastBlobIsRecord
  <2>2. IsLast(f, t, k)
    BY <1>1, <2>1
  <2> QED
    BY <2>1, <2>2, LastIs
<1> QED
  BY <1>2, <1>3

(***************************************************************************)
(* What an append, a torn append and an empty log do to the scan.          *)
(***************************************************************************)

\* The log holds n whole records, and what follows them, if anything, starts with a torn one.
Whole(f, n) == Scanned(f, n) /\ 2 * n <= Len(f) /\ (2 * n + 2 <= Len(f) => f[2 * n + 2].kind = "prefix")

\* Nothing past a whole log is scanned.
LEMMA WholeStops ==
  ASSUME NEW f \in Seq(Cells), NEW n \in Nat, Whole(f, n), NEW k \in Nat, Scanned(f, k)
  PROVE  k <= n
<1> SUFFICES ASSUME k > n PROVE FALSE
  OBVIOUS
<1>1. Parses(f, n + 1)
  BY DEF Scanned
<1>2. 2 * n + 2 <= Len(f) /\ f[2 * n + 2] = Body(f[2 * n + 1].blob)
  <2>1. 2 * (n + 1) = 2 * n + 2 /\ 2 * (n + 1) - 1 = 2 * n + 1
    OBVIOUS
  <2> QED
    BY <1>1, <2>1 DEF Parses
<1> QED
  BY <1>2 DEF Whole, Body

LEMMA EmptyLog == ASSUME NEW t PROVE Whole(<<>>, 0) /\ LastBlob(<<>>, t) = 0
<1>1. Whole(<<>>, 0)
  BY DEF Whole, Scanned
<1>2. <<>> \in Seq(Cells) /\ Len(<<>>) = 0
  OBVIOUS
<1>3. ASSUME LastBlob(<<>>, t) # 0 PROVE FALSE
  <2>1. LastBlob(<<>>, t) \in 1 .. Len(<<>>)
    BY <1>2, <1>3, LastBlobCell
  <2> QED
    BY <1>2, <2>1
<1> QED
  BY <1>1, <1>3

\* An append after whole records indexes its own tile at the new blob and moves no other.  (put)
LEMMA AppendRecord ==
  ASSUME NEW f \in Seq(Cells), NEW n \in Nat, Whole(f, n), Len(f) = 2 * n, NEW b \in Blobs
  PROVE  LET g == f \o Record(b) IN
         /\ g \in Seq(Cells) /\ Len(g) = 2 * n + 2
         /\ \A i \in 1 .. 2 * n : g[i] = f[i]
         /\ Whole(g, n + 1)
         /\ LastBlob(g, b.tile) = 2 * n + 2 /\ g[2 * n + 2] = Body(b)
         /\ \A t \in Tiles \ {b.tile} : LastBlob(g, t) = LastBlob(f, t)
<1> DEFINE g == f \o Record(b)
<1>1. Record(b) \in Seq(Cells) /\ Len(Record(b)) = 2
      /\ Record(b)[1] = Prefix(b) /\ Record(b)[2] = Body(b)
  BY DEF Record, Prefix, Body, Cells
<1>0. /\ g \in Seq(Cells) /\ Len(g) = Len(f) + Len(Record(b))
      /\ \A i \in 1 .. Len(f) + Len(Record(b)) :
           g[i] = IF i <= Len(f) THEN f[i] ELSE Record(b)[i - Len(f)]
  BY <1>1, ConcatProperties
<1> HIDE DEF g
<1>2. g \in Seq(Cells) /\ Len(g) = 2 * n + 2 /\ \A i \in 1 .. 2 * n : g[i] = f[i]
  BY <1>1, <1>0
<1>3. g[2 * n + 1] = Prefix(b) /\ g[2 * n + 2] = Body(b)
  BY <1>1, <1>0
<1>4. Parses(g, n + 1)
  <2>1. 2 * (n + 1) = 2 * n + 2 /\ 2 * (n + 1) - 1 = 2 * n + 1
    OBVIOUS
  <2> QED
    BY <1>2, <1>3, <2>1 DEF Parses, Prefix, Body
<1>5. \A k \in 0 .. n : (Scanned(f, k) <=> Scanned(g, k)) /\ (k > 0 => f[2 * k] = g[2 * k])
  BY <1>2, ScanOfPrefix
<1>6. Scanned(g, n + 1)
  <2>1. Scanned(g, n)
    BY <1>5 DEF Whole
  <2> QED
    BY <2>1, <1>4 DEF Scanned
<1>7. Whole(g, n + 1)
  BY <1>2, <1>6 DEF Whole
<1>8. \A k \in Nat : k > n + 1 => ~Scanned(g, k)
  BY <1>2, <1>7, WholeStops
<1>9. g[2 * (n + 1)].blob = b
  BY <1>3 DEF Body
<1>10. IsLast(g, b.tile, n + 1)
  BY <1>6, <1>8, <1>9 DEF IsLast
<1>11. LastBlob(g, b.tile) = 2 * n + 2
  BY <1>2, <1>10, LastIs
<1>12. ASSUME NEW t \in Tiles \ {b.tile} PROVE LastBlob(g, t) = LastBlob(f, t)
  <2>1. \A k \in Nat : k > n /\ Scanned(f, k) => f[2 * k].blob.tile # t
    BY WholeStops
  <2>2. \A k \in Nat : k > n /\ Scanned(g, k) => g[2 * k].blob.tile # t
    BY <1>8, <1>9
  <2> QED
    BY <1>2, <2>1, <2>2, SameLast
<1> QED
  BY <1>2, <1>3, <1>7, <1>11, <1>12 DEF g

\* What is appended at a torn record, or stops after its first cell, is invisible to the scan.
\* (put after an append cut short, or cut short itself)
LEMMA AppendTorn ==
  ASSUME NEW f \in Seq(Cells), NEW n \in Nat, Whole(f, n),
         NEW g \in Seq(Cells), Len(g) > Len(f), \A i \in 1 .. Len(f) : g[i] = f[i],
         g[Len(f) + 1].kind = "prefix", Len(f) = 2 * n => Len(g) = 2 * n + 1
  PROVE  Whole(g, n)
<1>1. Len(f) \in Nat /\ Len(g) \in Nat /\ 2 * n <= Len(f)
  BY DEF Whole
<1>2. Scanned(g, n)
  <2>1. \A i \in 1 .. 2 * n : f[i] = g[i]
    BY <1>1
  <2> QED
    BY <1>1, <2>1, ScanOfPrefix DEF Whole
<1>3. ASSUME 2 * n + 2 <= Len(g) PROVE g[2 * n + 2].kind = "prefix"
  <2>1. CASE Len(f) = 2 * n
    BY <1>3, <2>1
  <2>2. CASE Len(f) = 2 * n + 1
    BY <2>2
  <2>3. CASE Len(f) > 2 * n + 1
    BY <1>1, <2>3 DEF Whole
  <2> QED
    BY <1>1, <2>1, <2>2, <2>3
<1> QED
  BY <1>1, <1>2, <1>3 DEF Whole

LEMMA OneCellMore ==
  ASSUME NEW f \in Seq(Cells), NEW n \in Nat, Whole(f, n), NEW c \in Cells, c.kind = "prefix"
  PROVE  Whole(Append(f, c), n)
<1> DEFINE g == Append(f, c)
<1>1. g \in Seq(Cells) /\ Len(g) = Len(f) + 1 /\ g[Len(f) + 1] = c
      /\ \A i \in 1 .. Len(f) : g[i] = f[i]
  OBVIOUS
<1> HIDE DEF g
<1>2. Len(f) \in Nat
  OBVIOUS
<1>3. Whole(g, n)
  BY <1>1, <1>2, AppendTorn
<1> QED
  BY <1>3 DEF g

\* Two logs that agree on the whole records they both end with are indexed alike.
LEMMA SameWhole ==
  ASSUME NEW f \in Seq(Cells), NEW g \in Seq(Cells), NEW n \in Nat, Whole(f, n), Whole(g, n),
         \A i \in 1 .. 2 * n : g[i] = f[i], NEW t
  PROVE  /\ LastBlob(g, t) = LastBlob(f, t)
         /\ LastBlob(f, t) # 0 => g[LastBlob(f, t)] = f[LastBlob(f, t)]
<1>1. \A k \in Nat : k > n => ~Scanned(f, k) /\ ~Scanned(g, k)
  BY WholeStops
<1>2. LastBlob(g, t) = LastBlob(f, t)
  BY <1>1, SameLast DEF Whole
<1>3. ASSUME LastBlob(f, t) # 0 PROVE g[LastBlob(f, t)] = f[LastBlob(f, t)]
  <2>1. PICK k \in Nat \ {0} : IsLast(f, t, k) /\ LastBlob(f, t) = 2 * k
    BY <1>3, LastBlobIsRecord
  <2>2. k <= n
    BY <2>1, WholeStops DEF IsLast
  <2> QED
    BY <2>1, <2>2
<1> QED
  BY <1>2, <1>3

\* Cutting a log where its scan stops loses nothing the scan had found.  (open)
LEMMA CutTail ==
  ASSUME NEW f \in Seq(Cells), NEW n \in Nat, Scanned(f, n), ~Parses(f, n + 1), 2 * n <= Len(f),
         NEW g \in Seq(Cells), Len(g) = 2 * n, \A i \in 1 .. 2 * n : g[i] = f[i]
  PROVE  Whole(g, n) /\ \A t \in Tiles : LastBlob(g, t) = LastBlob(f, t)
<1>1. Whole(g, n)
  BY ScanOfPrefix DEF Whole
<1>2. \A k \in Nat : k > n => ~Scanned(f, k) /\ ~Scanned(g, k)
  <2>1. \A k \in Nat : k > n => ~Scanned(f, k)
    BY DEF Scanned
  <2> QED
    BY <2>1, <1>1, WholeStops
<1>3. ASSUME NEW t \in Tiles PROVE LastBlob(g, t) = LastBlob(f, t)
  BY <1>2, SameLast
<1> QED
  BY <1>1, <1>3

(***************************************************************************)
(* The inductive invariant.  AnswersSurviveRestart is not inductive: it    *)
(* says nothing of the archive a compaction is about to publish, of the    *)
(* length the next append will trust, or of the offsets readers hold.      *)
(***************************************************************************)

\* the log is whole records; after a torn one, which log_len does not count, it is longer than it
LogIsWhole ==
  \E n \in Nat :
    /\ Whole(log, n)
    /\ up /\ cut = {} => Len(log) = 2 * n /\ logLen = 2 * n
    /\ up /\ cut # {} => 2 * n < Len(log) /\ logLen <= Len(log) /\ \A c \in cut : c <= logLen

\* the index is what a replay of the log would rebuild, but for the entries gone astray
IndexIsReplay ==
  up => \A t \in Tiles :
          /\ index[t] \in 0 .. logLen
          /\ ~Astray(index[t]) => index[t] = LastBlob(log, t)

\* where the index is silent, the open reader and the archive on disk agree
BaseIsArchive == up => \A t \in Tiles : index[t] = 0 => base[t] = archive[t]

\* a compaction owns the overlay, and what it has merged is what the process holds
JobIsSound ==
  /\ job.phase # "idle" => compacting
  /\ job.phase = "begun" => \A t \in Tiles : job.out[t] = None
  /\ job.phase = "merge" => \A t \in Tiles \ job.todo : job.out[t] = Held(t)
  /\ job.phase = "renamed" => \A t \in Tiles : archive[t] = Held(t)

\* nothing runs while the process is down; a request under way has a tile
NothingRunsDown ==
  /\ ~up => cut = {} /\ job.phase = "idle" /\ job.by = "nobody" /\ \A r \in Requests : req[r].pc = "idle"
  /\ \A r \in Requests : req[r].pc # "idle" => req[r].tile \in Tiles

IInv ==
  TypeOK /\ LogIsWhole /\ IndexIsReplay /\ BaseIsArchive /\ JobIsSound /\ NothingRunsDown
  /\ OnlyAClearMakesAReadStale

\* Inside the log there is always something to read, and an append leaves it as it was.
LEMMA ReadInside ==
  ASSUME log \in Seq(Cells), NEW p \in 1 .. Len(log)
  PROVE  ReadAt(p) \in Bytes
<1>1. log[p] \in Cells
  OBVIOUS
<1> QED
  BY <1>1 DEF ReadAt, Cells, Bytes

\* An index entry points into the log.
LEMMA IndexInside ==
  ASSUME IInv, up, NEW t \in Tiles, index[t] # 0
  PROVE  index[t] \in 1 .. Len(log)
<1>1. index[t] \in 1 .. logLen /\ logLen \in Nat /\ log \in Seq(Cells)
  BY DEF IInv, TypeOK, IndexIsReplay
<1>2. logLen <= Len(log)
  BY DEF IInv, LogIsWhole
<1> QED
  BY <1>1, <1>2

\* An index entry is read as the blob of its tile, unless it has gone astray.
LEMMA IndexedCell ==
  ASSUME IInv, up, NEW t \in Tiles, index[t] # 0
  PROVE  /\ ReadAt(index[t]) # None
         /\ ~Astray(index[t]) => ReadAt(index[t]).tile = t
<1>1. log \in Seq(Cells) /\ index[t] \in 1 .. Len(log)
  BY IndexInside DEF IInv, TypeOK
<1>2. ReadAt(index[t]) \in Bytes
  BY <1>1, ReadInside
<1>3. ASSUME ~Astray(index[t]) PROVE ReadAt(index[t]).tile = t
  <2>1. index[t] = LastBlob(log, t)
    BY <1>3 DEF IInv, IndexIsReplay
  <2>2. log[index[t]] = Body(log[index[t]].blob) /\ log[index[t]].blob.tile = t
    BY <1>1, <2>1, LastBlobCell
  <2>3. \A b : Body(b).kind = "blob"
    BY DEF Body
  <2> QED
    BY <1>1, <2>2, <2>3 DEF ReadAt
<1> QED
  BY <1>2, <1>3, NoneAssumption

LEMMA InitInv == Init => IInv
<1> SUFFICES ASSUME Init PROVE IInv
  OBVIOUS
<1>1. TypeOK
  <2>1. archive \in [Tiles -> Bytes \cup {None}] /\ rev \in Revs
    BY BoundsAssumption DEF Init, Blobs, Bytes, Revs
  <2>2. log \in Seq(Cells) /\ index \in [Tiles -> Nat] /\ logLen \in Nat
        /\ base \in [Tiles -> Bytes \cup {None}] /\ raced \subseteq Requests /\ cut \subseteq Nat
    BY DEF Init, NoIndex
  <2>3. job \in [phase : {"idle", "begun", "merge", "renamed", "done"},
                 by : {"controller", "flush", "nobody"},
                 todo : SUBSET Tiles,
                 out : [Tiles -> Bytes \cup {None}]]
    BY DEF Init, NoJob
  <2>4. req \in [Requests -> [pc : {"idle", "read", "miss", "encode", "put"},
                              tile : Tiles \cup {None}, at : Nat]]
    BY DEF Init, NoRequest
  <2> QED
    BY <2>1, <2>2, <2>3, <2>4 DEF Init, TypeOK
<1>2. LogIsWhole
  BY EmptyLog DEF Init, LogIsWhole
<1> QED
  BY <1>1, <1>2 DEF Init, IInv, IndexIsReplay, BaseIsArchive, JobIsSound, NothingRunsDown,
     OnlyAClearMakesAReadStale, NoJob, NoRequest, Astray, NoIndex

\* Steps that touch neither the files nor the index, the base or the length of the log.
LEMMA QuietStep ==
  ASSUME IInv, TypeOK', UNCHANGED <<log, archive, up, index, logLen, base, cut>>,
         JobIsSound', NothingRunsDown', OnlyAClearMakesAReadStale'
  PROVE  IInv'
<1>1. LogIsWhole'
  BY DEF IInv, LogIsWhole
<1>2. IndexIsReplay'
  BY DEF IInv, IndexIsReplay, Astray
<1>3. BaseIsArchive'
  BY DEF IInv, BaseIsArchive
<1> QED
  BY <1>1, <1>2, <1>3 DEF IInv

LEMMA OpenInv == IInv /\ Open => IInv'
<1> SUFFICES ASSUME IInv, Open PROVE IInv'
  OBVIOUS
<1>1. PICK n \in 0 .. Len(log) :
        Scanned(log, n) /\ ~Parses(log, n + 1) /\ log' = SubSeq(log, 1, 2 * n) /\ logLen' = 2 * n
  BY DEF Open, KeptOnOpen
<1>2. log \in Seq(Cells) /\ ~up /\ up' /\ base' = archive /\ index' = [t \in Tiles |-> LastBlob(log, t)]
  BY DEF Open, IInv, TypeOK
<1>3. 2 * n <= Len(log)
  <2>1. CASE n = 0
    BY <1>1, <1>2, <2>1
  <2>2. CASE n # 0
    BY <1>1, <1>2, <2>2, ScannedInside
  <2> QED
    BY <2>1, <2>2
<1>4. /\ log' \in Seq(Cells) /\ Len(log') = 2 * n
      /\ Whole(log', n)
      /\ \A t \in Tiles : LastBlob(log', t) = LastBlob(log, t)
  <2>1. n \in Nat /\ log \in Seq(Cells) /\ Scanned(log, n) /\ ~Parses(log, n + 1)
    BY <1>1, <1>2
  <2>2. log' \in Seq(Cells) /\ Len(log') = 2 * n /\ \A i \in 1 .. 2 * n : log'[i] = log[i]
    BY <1>1, <1>3, <2>1
  <2> QED
    BY <1>3, <2>1, <2>2, CutTail
<1>5. TypeOK'
  <2>1. index' \in [Tiles -> Nat]
    BY <1>2, LastBlobNat
  <2> QED
    BY <1>1, <1>2, <1>4, <2>1 DEF Open, IInv, TypeOK
<1>6. LogIsWhole'
  BY <1>1, <1>2, <1>4 DEF Open, IInv, NothingRunsDown, LogIsWhole
<1>7. IndexIsReplay'
  <2>1. \A t \in Tiles : LastBlob(log', t) \in 0 .. logLen'
    <3>1. logLen' = 2 * n /\ log' \in Seq(Cells) /\ Len(log') = 2 * n
      BY <1>1, <1>4
    <3> QED
      BY <3>1, LastBlobCell
  <2> QED
    BY <1>2, <1>4, <2>1 DEF IndexIsReplay
<1>8. BaseIsArchive'
  BY <1>2 DEF Open, BaseIsArchive
<1>9. JobIsSound' /\ NothingRunsDown' /\ OnlyAClearMakesAReadStale'
  BY <1>2 DEF Open, IInv, JobIsSound, NothingRunsDown, OnlyAClearMakesAReadStale
<1> QED
  BY <1>5, <1>6, <1>7, <1>8, <1>9 DEF IInv

\* What a crash leaves, whatever the log's last record looks like.
LEMMA DownInv ==
  ASSUME IInv, Volatile, log' \in Seq(Cells), NEW n \in Nat, Whole(log', n),
         UNCHANGED archive, header' \in {"absent", "torn", "whole"}
  PROVE  IInv'
<1>1. TypeOK'
  BY DEF IInv, TypeOK, Volatile, NoIndex, NoJob, NoRequest
<1>2. LogIsWhole'
  BY DEF Volatile, LogIsWhole
<1> QED
  BY <1>1, <1>2 DEF Volatile, IInv, IndexIsReplay, BaseIsArchive, JobIsSound, NothingRunsDown,
     OnlyAClearMakesAReadStale, NoJob, NoRequest

LEMMA CrashInv == IInv /\ Crash => IInv'
<1> SUFFICES ASSUME IInv, Crash PROVE IInv'
  OBVIOUS
<1>1. PICK n \in Nat : Whole(log, n)
  BY DEF IInv, LogIsWhole
<1> QED
  BY <1>1, DownInv DEF Crash, disk, IInv, TypeOK

LEMMA CrashInPutInv == ASSUME NEW r \in Requests, IInv, CrashInPut(r) PROVE IInv'
<1>1. up /\ req[r].tile \in Tiles /\ Live(r) \in Blobs
  BY DEF CrashInPut, IInv, NothingRunsDown, TypeOK, Live, Blobs
<1>2. PICK n \in Nat : Whole(log, n)
  BY DEF IInv, LogIsWhole
<1>3. log' = Append(log, Prefix(Live(r))) /\ Prefix(Live(r)) \in Cells /\ log \in Seq(Cells)
  BY <1>1 DEF CrashInPut, IInv, TypeOK, Prefix, Cells
<1>4. Whole(log', n)
  BY <1>2, <1>3, OneCellMore DEF Prefix
<1> QED
  BY <1>3, <1>4, DownInv DEF CrashInPut, IInv, TypeOK

(***************************************************************************)
(* The requests.                                                           *)
(***************************************************************************)
LEMMA LookupInv == ASSUME NEW r \in Requests, NEW t \in Tiles, IInv, Lookup(r, t) PROVE IInv'
<1>1. TypeOK'
  BY DEF Lookup, IInv, TypeOK
<1>2. JobIsSound' /\ NothingRunsDown'
  BY DEF Lookup, IInv, TypeOK, JobIsSound, NothingRunsDown, Held, ReadAt
<1>3. OnlyAClearMakesAReadStale'
  <2>1. /\ UNCHANGED <<log, cut>> /\ raced' = raced \ {r}
        /\ \A q \in Requests \ {r} : req'[q] = req[q]
        /\ req'[r].pc = (IF index[t] # 0 THEN "read" ELSE "miss")
        /\ req'[r].tile = t /\ req'[r].at = index[t]
    BY DEF Lookup, IInv, TypeOK
  <2>2. ASSUME index[t] # 0
        PROVE  ReadAt(index[t]) # None /\ (~Astray(index[t]) => ReadAt(index[t]).tile = t)
    BY <2>2, IndexedCell DEF Lookup
  <2>3. OnlyAClearMakesAReadStale
    BY DEF IInv
  <2> QED
    BY <2>1, <2>2, <2>3 DEF OnlyAClearMakesAReadStale, ReadAt, Astray
<1> QED
  BY <1>1, <1>2, <1>3, QuietStep DEF Lookup

LEMMA ReadsInv ==
  ASSUME NEW r \in Requests, IInv, ReadLog(r) \/ ReadBase(r) \/ Encode(r)
  PROVE  IInv'
<1>1. /\ UNCHANGED <<header, log, archive, up, rev, index, logLen, base, compacting, woken, job, cut>>
      /\ raced' \in {raced, raced \ {r}}
      /\ req[r].pc # "idle"
      /\ \/ req' = [req EXCEPT ![r] = NoRequest]
         \/ \E l \in {"encode", "put"} :
              req' = [req EXCEPT ![r] = [pc |-> l, tile |-> req[r].tile, at |-> 0]]
  BY DEF ReadLog, ReadBase, Encode, Answered, Goto
<1>2. /\ req'[r].pc \in {"idle", "encode", "put"}
      /\ req'[r].pc # "idle" => req'[r].tile = req[r].tile
      /\ \A q \in Requests \ {r} : req'[q] = req[q]
      /\ req' \in [Requests -> [pc : {"idle", "read", "miss", "encode", "put"},
                               tile : Tiles \cup {None}, at : Nat]]
  <2>1. req \in [Requests -> [pc : {"idle", "read", "miss", "encode", "put"},
                              tile : Tiles \cup {None}, at : Nat]]
    BY DEF IInv, TypeOK
  <2>2. CASE req' = [req EXCEPT ![r] = NoRequest]
    BY <2>1, <2>2 DEF NoRequest
  <2>3. CASE \E l \in {"encode", "put"} :
               req' = [req EXCEPT ![r] = [pc |-> l, tile |-> req[r].tile, at |-> 0]]
    BY <2>1, <2>3
  <2> QED
    BY <1>1, <2>2, <2>3
<1>3. TypeOK'
  BY <1>1, <1>2 DEF IInv, TypeOK
<1>4. JobIsSound'
  BY <1>1 DEF IInv, JobIsSound, Held, ReadAt
<1>5. NothingRunsDown'
  BY <1>1, <1>2 DEF IInv, NothingRunsDown
<1>6. OnlyAClearMakesAReadStale'
  <2> SUFFICES ASSUME NEW q \in Requests, req'[q].pc = "read", q \notin raced'
               PROVE  q # r /\ req'[q] = req[q] /\ q \notin raced
    BY <1>1 DEF IInv, OnlyAClearMakesAReadStale, ReadAt, Astray
  <2> QED
    BY <1>1, <1>2
<1> QED
  BY <1>1, <1>3, <1>4, <1>5, <1>6, QuietStep

\* What a request holds stays readable while the log only grows.
LEMMA ReadsKept ==
  ASSUME IInv, log' \in Seq(Cells), Len(log) <= Len(log'), \A i \in 1 .. Len(log) : log'[i] = log[i],
         cut \subseteq cut',
         \A q \in Requests : req'[q].pc = "read" /\ q \notin raced' => req'[q] = req[q] /\ q \notin raced
  PROVE  OnlyAClearMakesAReadStale'
<1> SUFFICES ASSUME NEW q \in Requests, req'[q].pc = "read", q \notin raced'
             PROVE  /\ ReadAt(req[q].at)' # None
                    /\ ~Astray(req[q].at)' => ReadAt(req[q].at)'.tile = req[q].tile
  BY DEF OnlyAClearMakesAReadStale, ReadAt, Astray
<1>1. req'[q] = req[q] /\ q \notin raced
  OBVIOUS
<1>2. /\ ReadAt(req[q].at) # None
      /\ ~Astray(req[q].at) => ReadAt(req[q].at).tile = req[q].tile
  BY <1>1 DEF IInv, OnlyAClearMakesAReadStale
<1>3. ReadAt(req[q].at)' = ReadAt(req[q].at)
  <2>1. req[q].at \in 1 .. Len(log)
    BY <1>2 DEF ReadAt
  <2>2. req[q].at \in 1 .. Len(log') /\ log'[req[q].at] = log[req[q].at]
    BY <2>1 DEF IInv, TypeOK
  <2> QED
    BY <1>1, <2>1, <2>2 DEF ReadAt
<1>4. Astray(req[q].at) => Astray(req[q].at)'
  BY <1>1 DEF Astray
<1> QED
  BY <1>2, <1>3, <1>4

LEMMA LiveBlob ==
  ASSUME IInv, NEW r \in Requests, req[r].pc = "put"
  PROVE  up /\ req[r].tile \in Tiles /\ Live(r) \in Blobs /\ Live(r).tile = req[r].tile
  BY DEF IInv, NothingRunsDown, TypeOK, Live, Blobs

\* The append: every tile keeps its blob but the one saved.
LEMMA PutEffect ==
  ASSUME NEW r \in Requests, IInv, Put(r), MaySave, cut = {}
  PROVE  \E n \in Nat :
           /\ Len(log) = 2 * n /\ Len(log') = 2 * n + 2 /\ logLen' = 2 * n + 2
           /\ log' \in Seq(Cells) /\ \A i \in 1 .. 2 * n : log'[i] = log[i]
           /\ Whole(log', n + 1)
           /\ log'[2 * n + 2] = Body(Live(r))
           /\ index' = [index EXCEPT ![req[r].tile] = 2 * n + 2]
           /\ \A t \in Tiles : LastBlob(log', t) = index'[t] /\ index[t] = LastBlob(log, t)
<1>1. up /\ req[r].tile \in Tiles /\ Live(r) \in Blobs /\ Live(r).tile = req[r].tile
  BY LiveBlob DEF Put
<1>2. PICK n \in Nat : Whole(log, n) /\ Len(log) = 2 * n /\ logLen = 2 * n
  BY <1>1 DEF IInv, LogIsWhole
<1>3. log \in Seq(Cells) /\ index \in [Tiles -> Nat]
  BY DEF IInv, TypeOK
<1>4. log' = log \o Record(Live(r)) /\ logLen' = 2 * n + 2
      /\ index' = [index EXCEPT ![req[r].tile] = 2 * n + 2]
  BY <1>2 DEF Put, BlobOffset
<1>5. /\ log' \in Seq(Cells) /\ Len(log') = 2 * n + 2 /\ \A i \in 1 .. 2 * n : log'[i] = log[i]
      /\ Whole(log', n + 1)
      /\ LastBlob(log', req[r].tile) = 2 * n + 2 /\ log'[2 * n + 2] = Body(Live(r))
      /\ \A t \in Tiles \ {req[r].tile} : LastBlob(log', t) = LastBlob(log, t)
  <2> DEFINE b == Live(r)
  <2>1. b \in Blobs /\ b.tile = req[r].tile /\ log' = log \o Record(b)
    BY <1>1, <1>4
  <2> HIDE DEF b
  <2>2. LET g == log \o Record(b) IN
        /\ g \in Seq(Cells) /\ Len(g) = 2 * n + 2
        /\ \A i \in 1 .. 2 * n : g[i] = log[i]
        /\ Whole(g, n + 1)
        /\ LastBlob(g, b.tile) = 2 * n + 2 /\ g[2 * n + 2] = Body(b)
        /\ \A t \in Tiles \ {b.tile} : LastBlob(g, t) = LastBlob(log, t)
    BY <1>2, <1>3, <2>1, AppendRecord
  <2>3. log'[2 * n + 2] = Body(Live(r))
    BY <2>1, <2>2 DEF b
  <2> QED
    BY <2>1, <2>2, <2>3
<1>6. \A t \in Tiles : index[t] = LastBlob(log, t)
  BY <1>1 DEF IInv, IndexIsReplay, Astray
<1>7. \A t \in Tiles : LastBlob(log', t) = index'[t]
  BY <1>1, <1>3, <1>4, <1>5, <1>6
<1> QED
  BY <1>2, <1>4, <1>5, <1>6, <1>7

\* An append where the scan has already stopped changes nothing the scan finds.
LEMMA UnseenAppend ==
  ASSUME log \in Seq(Cells), log' \in Seq(Cells), Len(log) < Len(log'),
         \A i \in 1 .. Len(log) : log'[i] = log[i],
         NEW n \in Nat, Whole(log, n), Whole(log', n), NEW t \in Tiles
  PROVE  /\ LastBlob(log', t) = LastBlob(log, t)
         /\ LastBlob(log, t) # 0 => log'[LastBlob(log, t)] = log[LastBlob(log, t)]
<1>1. PICK f \in Seq(Cells) : f = log
  OBVIOUS
<1>2. PICK g \in Seq(Cells) : g = log'
  OBVIOUS
<1>3. Whole(f, n) /\ Whole(g, n) /\ \A i \in 1 .. 2 * n : g[i] = f[i]
  BY <1>1, <1>2 DEF Whole
<1>4. /\ LastBlob(g, t) = LastBlob(f, t)
      /\ LastBlob(f, t) # 0 => g[LastBlob(f, t)] = f[LastBlob(f, t)]
  BY <1>3, SameWhole
<1> QED
  BY <1>1, <1>2, <1>4

\* The append after one cut short: the record lands where no replay finds it, past where its entry
\* points.
LEMMA PutAstray ==
  ASSUME NEW r \in Requests, IInv, Put(r), MaySave, cut # {}
  PROVE  \E n \in Nat :
           /\ Whole(log, n) /\ Whole(log', n) /\ 2 * n < Len(log)
           /\ log' \in Seq(Cells) /\ Len(log') = Len(log) + 2
           /\ \A i \in 1 .. Len(log) : log'[i] = log[i]
           /\ logLen' = logLen + 2 /\ logLen + 2 \in 1 .. Len(log')
           /\ \A c \in cut : c < logLen + 2
           /\ index' = [index EXCEPT ![req[r].tile] = logLen + 2]
<1>1. up /\ req[r].tile \in Tiles /\ Live(r) \in Blobs
  BY LiveBlob DEF Put
<1>2. PICK n \in Nat : /\ Whole(log, n) /\ 2 * n < Len(log) /\ logLen <= Len(log)
                       /\ \A c \in cut : c <= logLen
  BY <1>1 DEF IInv, LogIsWhole
<1>3. log \in Seq(Cells) /\ logLen \in Nat /\ cut \subseteq Nat
  BY DEF IInv, TypeOK
<1>4. /\ log' = log \o Record(Live(r)) /\ logLen' = logLen + 2
      /\ index' = [index EXCEPT ![req[r].tile] = logLen + 2]
  BY DEF Put, BlobOffset
<1>5. Record(Live(r)) \in Seq(Cells) /\ Len(Record(Live(r))) = 2
      /\ Record(Live(r))[1].kind = "prefix"
  BY <1>1 DEF Record, Prefix, Body, Cells
<1>6. /\ log' \in Seq(Cells) /\ Len(log') = Len(log) + 2 /\ \A i \in 1 .. Len(log) : log'[i] = log[i]
      /\ log'[Len(log) + 1].kind = "prefix"
  <2>1. PICK c \in Seq(Cells) : c = Record(Live(r))
    BY <1>5
  <2>2. /\ log \o c \in Seq(Cells) /\ Len(log \o c) = Len(log) + Len(c)
        /\ \A i \in 1 .. Len(log) + Len(c) : (log \o c)[i] = IF i <= Len(log) THEN log[i] ELSE c[i - Len(log)]
    BY <1>3, ConcatProperties
  <2>3. Len(c) = 2 /\ c[1].kind = "prefix" /\ log' = log \o c
    BY <1>4, <1>5, <2>1
  <2> QED
    BY <1>3, <2>2, <2>3
<1>7. Whole(log', n)
  <2>1. PICK f \in Seq(Cells) : f = log
    BY <1>3
  <2>2. PICK g \in Seq(Cells) : g = log'
    BY <1>6
  <2>3. /\ Whole(f, n) /\ 2 * n < Len(f) /\ Len(g) = Len(f) + 2 /\ Len(f) \in Nat
        /\ \A i \in 1 .. Len(f) : g[i] = f[i]
        /\ g[Len(f) + 1].kind = "prefix"
    BY <1>2, <1>6, <2>1, <2>2
  <2>4. Whole(g, n)
    BY <2>3, AppendTorn
  <2> QED
    BY <2>2, <2>4
<1>8. logLen + 2 \in 1 .. Len(log') /\ \A c \in cut : c < logLen + 2
  BY <1>2, <1>3, <1>6
<1> QED
  BY <1>2, <1>4, <1>6, <1>7, <1>8

LEMMA PutInv == ASSUME NEW r \in Requests, IInv, Put(r) PROVE IInv'
<1>0. /\ UNCHANGED <<header, archive, up, rev, base, compacting, job, raced, cut>>
      /\ req' = [req EXCEPT ![r] = NoRequest] /\ woken' \in BOOLEAN /\ up
      /\ log \in Seq(Cells) /\ index \in [Tiles -> Nat] /\ req[r].tile \in Tiles
      /\ cut \subseteq Nat /\ logLen \in Nat
  BY LiveBlob DEF Put, Answered, IInv, TypeOK
<1>1. CASE ~MaySave
  <2>1. UNCHANGED <<header, log, archive, up, rev, index, logLen, base, compacting, woken, job, raced, cut>>
        /\ req' = [req EXCEPT ![r] = NoRequest]
    BY <1>1 DEF Put, Answered
  <2>2. TypeOK' /\ JobIsSound' /\ NothingRunsDown'
    BY <2>1 DEF IInv, TypeOK, JobIsSound, NothingRunsDown, Held, ReadAt, NoRequest
  <2>3. OnlyAClearMakesAReadStale'
    <3>1. \A q \in Requests : req'[q].pc = "read" => req'[q] = req[q]
      BY <1>0 DEF IInv, TypeOK, NoRequest
    <3> QED
      BY <2>1, <3>1 DEF IInv, OnlyAClearMakesAReadStale, ReadAt, Astray
  <2> QED
    BY <2>1, <2>2, <2>3, QuietStep
<1>2. ASSUME MaySave,
             log' \in Seq(Cells), Len(log) <= Len(log'), \A i \in 1 .. Len(log) : log'[i] = log[i],
             index' \in [Tiles -> Nat], logLen' \in Nat, \A t \in Tiles : index'[t] = 0 => index[t] = 0,
             LogIsWhole', IndexIsReplay'
      PROVE  IInv'
  <2>1. TypeOK'
    BY <1>0, <1>2 DEF IInv, TypeOK, NoRequest
  <2>2. BaseIsArchive'
    BY <1>0, <1>2 DEF IInv, BaseIsArchive
  <2>3. JobIsSound'
    BY <1>0, <1>2 DEF IInv, JobIsSound, MaySave
  <2>4. NothingRunsDown'
    BY <1>0 DEF IInv, TypeOK, NothingRunsDown, NoRequest
  <2>5. OnlyAClearMakesAReadStale'
    <3>1. \A q \in Requests : req'[q].pc = "read" => req'[q] = req[q]
      BY <1>0 DEF IInv, TypeOK, NoRequest
    <3> QED
      BY <1>0, <1>2, <3>1, ReadsKept
  <2> QED
    BY <1>2, <2>1, <2>2, <2>3, <2>4, <2>5 DEF IInv
<1>3. CASE MaySave /\ cut = {}
  <2>1. PICK n \in Nat :
           /\ Len(log) = 2 * n /\ Len(log') = 2 * n + 2 /\ logLen' = 2 * n + 2
           /\ log' \in Seq(Cells) /\ \A i \in 1 .. 2 * n : log'[i] = log[i]
           /\ Whole(log', n + 1)
           /\ index' = [index EXCEPT ![req[r].tile] = 2 * n + 2]
           /\ \A t \in Tiles : LastBlob(log', t) = index'[t] /\ index[t] = LastBlob(log, t)
    BY <1>3, PutEffect
  <2>2. LogIsWhole'
    BY <1>0, <1>3, <2>1 DEF LogIsWhole
  <2>3. \A t \in Tiles : LastBlob(log', t) \in 0 .. logLen'
    BY <2>1, LastBlobCell
  <2>4. IndexIsReplay'
    BY <2>1, <2>3 DEF IndexIsReplay
  <2> QED
    BY <1>0, <1>2, <1>3, <2>1, <2>2, <2>4
<1>4. CASE MaySave /\ cut # {}
  <2>1. PICK n \in Nat :
           /\ Whole(log, n) /\ Whole(log', n) /\ 2 * n < Len(log)
           /\ log' \in Seq(Cells) /\ Len(log') = Len(log) + 2
           /\ \A i \in 1 .. Len(log) : log'[i] = log[i]
           /\ logLen' = logLen + 2 /\ logLen + 2 \in 1 .. Len(log')
           /\ \A c \in cut : c < logLen + 2
           /\ index' = [index EXCEPT ![req[r].tile] = logLen + 2]
    BY <1>4, PutAstray
  <2>2. LogIsWhole'
    <3>1. 2 * n < Len(log') /\ logLen' <= Len(log') /\ \A c \in cut' : c <= logLen'
      BY <1>0, <2>1
    <3> QED
      BY <1>0, <1>4, <2>1, <3>1 DEF LogIsWhole
  <2>3. IndexIsReplay'
    <3> SUFFICES ASSUME NEW t \in Tiles
                 PROVE  /\ index'[t] \in 0 .. logLen'
                        /\ ~Astray(index[t])' => index'[t] = LastBlob(log', t)
      BY DEF IndexIsReplay
    <3>1. CASE t = req[r].tile
      <4>1. index'[t] = logLen + 2
        BY <1>0, <2>1, <3>1
      <4>2. Astray(index[t])'
        BY <1>0, <1>4, <2>1, <4>1 DEF Astray
      <4> QED
        BY <2>1, <4>1, <4>2
    <3>2. CASE t # req[r].tile
      <4>1. index'[t] = index[t]
        BY <1>0, <2>1, <3>2
      <4>2. index[t] \in 0 .. logLen /\ (~Astray(index[t]) => index[t] = LastBlob(log, t))
        BY <1>0 DEF IInv, IndexIsReplay
      <4>3. LastBlob(log', t) = LastBlob(log, t)
        BY <1>0, <2>1, UnseenAppend
      <4>4. Astray(index[t]) => Astray(index[t])'
        BY <1>0, <4>1 DEF Astray
      <4> QED
        BY <1>0, <2>1, <4>1, <4>2, <4>3, <4>4
    <3> QED
      BY <3>1, <3>2
  <2> QED
    BY <1>0, <1>2, <1>4, <2>1, <2>2, <2>3
<1> QED
  BY <1>1, <1>3, <1>4

\* A failed append leaves the log as it was, or a torn record that no replay will read.
LEMMA AppendFailsInv == ASSUME NEW r \in Requests, IInv, AppendFails(r) PROVE IInv'
<1>0. /\ UNCHANGED <<header, archive, up, rev, index, logLen, base, compacting, woken, job, raced>>
      /\ req' = [req EXCEPT ![r] = NoRequest] /\ MaySave
      /\ log \in Seq(Cells) /\ cut \subseteq Nat /\ logLen \in Nat
      /\ cut' = IF log' = log THEN cut ELSE cut \cup {logLen}
      /\ up /\ Live(r) \in Blobs
  BY LiveBlob DEF AppendFails, Answered, IInv, TypeOK
<1>1. \A q \in Requests : req'[q].pc = "read" => req'[q] = req[q]
  BY <1>0 DEF IInv, TypeOK, NoRequest
<1>2. CASE log' = log
  <2>1. TypeOK' /\ JobIsSound' /\ NothingRunsDown'
    BY <1>0, <1>2 DEF IInv, TypeOK, JobIsSound, NothingRunsDown, Held, ReadAt, NoRequest
  <2>2. OnlyAClearMakesAReadStale'
    BY <1>0, <1>1, <1>2 DEF IInv, OnlyAClearMakesAReadStale, ReadAt, Astray
  <2> QED
    BY <1>0, <1>2, <2>1, <2>2, QuietStep
<1>3. CASE log' # log
  <2>1. PICK n \in Nat :
          /\ Whole(log, n)
          /\ cut = {} => Len(log) = 2 * n /\ logLen = 2 * n
          /\ cut # {} => 2 * n < Len(log) /\ logLen <= Len(log) /\ \A c \in cut : c <= logLen
    BY <1>0 DEF IInv, LogIsWhole
  <2>2. log' = Append(log, Prefix(Live(r))) /\ Prefix(Live(r)) \in Cells /\ cut' = cut \cup {logLen}
    BY <1>0, <1>3 DEF AppendFails, Prefix, Cells
  <2>3. log' \in Seq(Cells) /\ Len(log') = Len(log) + 1 /\ \A i \in 1 .. Len(log) : log'[i] = log[i]
    BY <1>0, <2>2
  <2>4. Whole(log', n)
    BY <1>0, <2>1, <2>2, OneCellMore DEF Prefix
  <2>5. LogIsWhole'
    <3>1. 2 * n < Len(log') /\ logLen' <= Len(log') /\ \A c \in cut' : c <= logLen'
      BY <1>0, <2>1, <2>2, <2>3
    <3> QED
      BY <2>2, <2>4, <3>1 DEF LogIsWhole
  <2>6. IndexIsReplay'
    <3>1. \A t \in Tiles : LastBlob(log', t) = LastBlob(log, t)
      BY <1>0, <2>1, <2>3, <2>4, UnseenAppend
    <3> QED
      BY <1>0, <2>2, <2>3, <3>1 DEF IInv, IndexIsReplay, Astray
  <2>7. TypeOK'
    BY <1>0, <2>2, <2>3 DEF IInv, TypeOK, NoRequest
  <2>8. BaseIsArchive' /\ JobIsSound' /\ NothingRunsDown'
    BY <1>0 DEF IInv, TypeOK, BaseIsArchive, JobIsSound, MaySave, NothingRunsDown, NoRequest
  <2>9. OnlyAClearMakesAReadStale'
    BY <1>0, <1>1, <2>2, <2>3, ReadsKept
  <2> QED
    BY <2>5, <2>6, <2>7, <2>8, <2>9 DEF IInv
<1> QED
  BY <1>2, <1>3

(***************************************************************************)
(* The compaction.                                                         *)
(***************************************************************************)

\* The record space of `job`, named once for the proofs.
Jobs == [phase : {"idle", "begun", "merge", "renamed", "done"},
         by : {"controller", "flush", "nobody"},
         todo : SUBSET Tiles,
         out : [Tiles -> Bytes \cup {None}]]

LEMMA RunsUp == ASSUME IInv, job.phase # "idle" \/ job.by # "nobody" PROVE up
  BY DEF IInv, NothingRunsDown, TypeOK

\* Steps that change only the ownership and the progress of the compaction.
LEMMA JobStep ==
  ASSUME IInv, up, job' \in Jobs, compacting' \in BOOLEAN, woken' \in BOOLEAN, JobIsSound',
         UNCHANGED <<header, log, archive, up, rev, index, logLen, base, req, raced, cut>>
  PROVE  IInv'
<1>1. TypeOK'
  BY DEF IInv, TypeOK, Jobs
<1>2. NothingRunsDown' /\ OnlyAClearMakesAReadStale'
  BY DEF IInv, NothingRunsDown, OnlyAClearMakesAReadStale, ReadAt, Astray
<1> QED
  BY <1>1, <1>2, QuietStep

LEMMA BeginInv ==
  ASSUME IInv, ControllerTick \/ ControllerWake \/ Flush
  PROVE  IInv'
<1>1. /\ up /\ woken' \in BOOLEAN
      /\ UNCHANGED <<header, log, archive, up, rev, index, logLen, base, req, raced, cut>>
      /\ \/ \E who \in {"controller", "flush"} : Begin(who)
         \/ UNCHANGED <<compacting, job>>
  BY DEF ControllerTick, ControllerWake, Flush, ControllerFree, IInv, TypeOK
<1>2. CASE UNCHANGED <<compacting, job>>
  <2>1. job' \in Jobs /\ compacting' \in BOOLEAN
    BY <1>2 DEF IInv, TypeOK, Jobs
  <2>2. JobIsSound'
    BY <1>1, <1>2 DEF IInv, JobIsSound, Held, ReadAt
  <2> QED
    BY <1>1, <2>1, <2>2, JobStep
<1>3. CASE \E who \in {"controller", "flush"} : Begin(who)
  <2>1. PICK who \in {"controller", "flush"} : Begin(who)
    BY <1>3
  <2>2. job' = [phase |-> "begun", by |-> who, todo |-> {}, out |-> [t \in Tiles |-> None]]
        /\ compacting' = TRUE
    BY <2>1 DEF Begin, NoJob
  <2>3. job' \in Jobs
    BY <2>2 DEF Jobs
  <2>4. JobIsSound'
    BY <2>2 DEF JobIsSound
  <2> QED
    BY <1>1, <2>2, <2>3, <2>4, JobStep
<1> QED
  BY <1>1, <1>2, <1>3

LEMMA FlushAbandonedInv == IInv /\ FlushAbandoned => IInv'
<1> SUFFICES ASSUME IInv, FlushAbandoned PROVE IInv'
  OBVIOUS
<1>1. job \in Jobs /\ job' = [job EXCEPT !.by = "nobody"] /\ up
  BY RunsUp DEF FlushAbandoned, IInv, TypeOK, Jobs
<1>2. job' \in Jobs /\ job'.phase = job.phase /\ job'.todo = job.todo /\ job'.out = job.out
  BY <1>1 DEF Jobs
<1>3. JobIsSound'
  BY <1>2 DEF FlushAbandoned, IInv, JobIsSound, Held, ReadAt
<1> QED
  BY <1>1, <1>2, <1>3, JobStep DEF FlushAbandoned, IInv, TypeOK

LEMMA SnapshotInv == IInv /\ Snapshot => IInv'
<1> SUFFICES ASSUME IInv, Snapshot PROVE IInv'
  OBVIOUS
<1>1. job \in Jobs /\ up /\ job.phase = "begun"
      /\ job' = [job EXCEPT !.phase = "merge", !.todo = Indexed \cup {t \in Tiles : base[t] # None}]
  BY RunsUp DEF Snapshot, IInv, TypeOK, Jobs
<1>2. /\ job' \in Jobs /\ job'.phase = "merge" /\ job'.out = job.out
      /\ job'.todo = Indexed \cup {t \in Tiles : base[t] # None}
  BY <1>1 DEF Jobs, Indexed
<1>3. \A t \in Tiles : job.out[t] = None
  BY <1>1 DEF IInv, JobIsSound
<1>4. JobIsSound'
  BY <1>1, <1>2, <1>3 DEF Snapshot, IInv, JobIsSound, Held, ReadAt, Indexed
<1> QED
  BY <1>1, <1>2, <1>4, JobStep DEF Snapshot, IInv, TypeOK

LEMMA MergeOneInv == ASSUME NEW t \in Tiles, IInv, MergeOne(t) PROVE IInv'
<1>1. job \in Jobs /\ up /\ job.phase = "merge"
      /\ job' = [job EXCEPT !.todo = @ \ {t}, !.out[t] = Merged(t)]
  BY RunsUp DEF MergeOne, IInv, TypeOK, Jobs
<1>2. Merged(t) = Held(t) /\ Held(t) \in Bytes \cup {None}
  <2>1. CASE index[t] # 0
    <3>1. log \in Seq(Cells) /\ index[t] \in 1 .. Len(log)
      BY <1>1, <2>1, IndexInside DEF IInv, TypeOK
    <3> QED
      BY <2>1, <3>1, ReadInside DEF Merged, Held
  <2>2. CASE index[t] = 0
    BY <2>2 DEF Merged, Held, IInv, TypeOK
  <2> QED
    BY <2>1, <2>2
<1>3. /\ job' \in Jobs /\ job'.phase = "merge" /\ job'.todo = job.todo \ {t}
      /\ job'.out = [job.out EXCEPT ![t] = Held(t)]
  BY <1>1, <1>2 DEF Jobs
<1>4. \A u \in Tiles \ job.todo : job.out[u] = Held(u)
  BY <1>1 DEF IInv, JobIsSound
<1>5. \A u \in Tiles : Held(u)' = Held(u)
  BY DEF MergeOne, Held, ReadAt
<1>6. \A u \in Tiles \ job'.todo : job'.out[u] = Held(u)
  BY <1>1, <1>3, <1>4 DEF Jobs
<1>7. JobIsSound'
  BY <1>1, <1>3, <1>5, <1>6 DEF MergeOne, IInv, JobIsSound
<1> QED
  BY <1>1, <1>3, <1>7, JobStep DEF MergeOne, IInv, TypeOK

LEMMA CompactionFailsInv == IInv /\ CompactionFails => IInv'
<1> SUFFICES ASSUME IInv, CompactionFails PROVE IInv'
  OBVIOUS
<1>1. job \in Jobs /\ up /\ job.phase # "idle" /\ job' = [job EXCEPT !.phase = "done"]
  BY RunsUp DEF CompactionFails, IInv, TypeOK, Jobs
<1>2. job' \in Jobs /\ job'.phase = "done"
  BY <1>1 DEF Jobs
<1>3. JobIsSound'
  BY <1>1, <1>2 DEF CompactionFails, IInv, JobIsSound
<1> QED
  BY <1>1, <1>2, <1>3, JobStep DEF CompactionFails, IInv, TypeOK

LEMMA EndInv == IInv /\ End => IInv'
<1> SUFFICES ASSUME IInv, End PROVE IInv'
  OBVIOUS
<1>1. up /\ job' = NoJob /\ compacting' = FALSE
  BY RunsUp DEF End
<1>2. job' \in Jobs /\ job'.phase = "idle"
  BY <1>1 DEF Jobs, NoJob
<1>3. JobIsSound'
  BY <1>2 DEF JobIsSound
<1> QED
  BY <1>1, <1>2, <1>3, JobStep DEF End, IInv, TypeOK

\* The archive is replaced by one that answers, for every tile, what the process answers.
LEMMA RenameInv == IInv /\ Rename => IInv'
<1> SUFFICES ASSUME IInv, Rename PROVE IInv'
  OBVIOUS
<1>1. /\ job \in Jobs /\ job.phase = "merge" /\ job.todo = {} /\ archive' = job.out /\ up
      /\ job' = [job EXCEPT !.phase = "renamed"]
  BY RunsUp DEF Rename, IInv, TypeOK, Jobs
<1>2. \A t \in Tiles : archive'[t] = Held(t) /\ Held(t)' = Held(t)
  BY <1>1 DEF Rename, IInv, JobIsSound, Held, ReadAt
<1>3. job' \in Jobs /\ job'.phase = "renamed"
  BY <1>1 DEF Jobs
<1>4. TypeOK'
  BY <1>1, <1>3 DEF Rename, IInv, TypeOK, Jobs
<1>5. LogIsWhole' /\ IndexIsReplay' /\ OnlyAClearMakesAReadStale'
  BY DEF Rename, IInv, LogIsWhole, IndexIsReplay, OnlyAClearMakesAReadStale, ReadAt, Astray
<1>6. BaseIsArchive'
  BY <1>2 DEF Rename, BaseIsArchive, Held, ReadAt
<1>7. JobIsSound' /\ NothingRunsDown'
  BY <1>1, <1>2, <1>3 DEF Rename, IInv, JobIsSound, NothingRunsDown
<1> QED
  BY <1>4, <1>5, <1>6, <1>7 DEF IInv

LEMMA ClearInv == IInv /\ Clear => IInv'
<1> SUFFICES ASSUME IInv, Clear PROVE IInv'
  OBVIOUS
<1>1. /\ job \in Jobs /\ up /\ job.phase = "renamed" /\ job' = [job EXCEPT !.phase = "done"]
      /\ log' = <<>> /\ index' = [t \in Tiles |-> 0] /\ logLen' = 0 /\ base' = archive
  BY RunsUp DEF Clear, IInv, TypeOK, Jobs, NoIndex
<1>2. job' \in Jobs /\ job'.phase = "done"
  BY <1>1 DEF Jobs
<1>3. TypeOK'
  <2>1. log' \in Seq(Cells) /\ index' \in [Tiles -> Nat] /\ logLen' \in Nat
    BY <1>1
  <2>2. base' \in [Tiles -> Bytes \cup {None}] /\ raced' \subseteq Requests /\ cut' = {}
    BY DEF Clear, IInv, TypeOK
  <2> QED
    BY <1>2, <2>1, <2>2 DEF Clear, IInv, TypeOK, Jobs
<1>4. LogIsWhole' /\ IndexIsReplay'
  <2>1. cut' = {} /\ Len(<<>>) = 0
    BY DEF Clear
  <2> QED
    BY <1>1, <2>1, EmptyLog DEF LogIsWhole, IndexIsReplay
<1>5. BaseIsArchive'
  BY <1>1 DEF Clear, BaseIsArchive
<1>6. JobIsSound' /\ NothingRunsDown'
  BY <1>1, <1>2 DEF Clear, IInv, JobIsSound, NothingRunsDown
<1>7. OnlyAClearMakesAReadStale'
  BY DEF Clear, OnlyAClearMakesAReadStale
<1> QED
  BY <1>3, <1>4, <1>5, <1>6, <1>7 DEF IInv

LEMMA CrashCreatingInv == IInv /\ CrashCreating => IInv'
<1> SUFFICES ASSUME IInv, CrashCreating PROVE IInv'
  OBVIOUS
<1>1. TypeOK'
  BY DEF CrashCreating, IInv, TypeOK
<1>2. JobIsSound' /\ NothingRunsDown' /\ OnlyAClearMakesAReadStale'
  BY DEF CrashCreating, IInv, JobIsSound, NothingRunsDown, OnlyAClearMakesAReadStale, Held,
     ReadAt, Astray
<1> QED
  BY <1>1, <1>2, QuietStep DEF CrashCreating

LEMMA StutterInv == IInv /\ UNCHANGED vars => IInv'
  BY DEF vars, IInv, TypeOK, LogIsWhole, IndexIsReplay, BaseIsArchive, JobIsSound, Held, ReadAt,
     Astray, NothingRunsDown, OnlyAClearMakesAReadStale

\* Every step keeps the invariant.
LEMMA NextInv == IInv /\ [Next]_vars => IInv'
<1> SUFFICES ASSUME IInv, [Next]_vars PROVE IInv'
  OBVIOUS
<1>1. CASE UNCHANGED vars
  BY <1>1, StutterInv
<1>2. CASE Open \/ Crash \/ CrashCreating
  BY <1>2, OpenInv, CrashInv, CrashCreatingInv
<1>3. CASE Compaction
  BY <1>3, BeginInv, FlushAbandonedInv, SnapshotInv, MergeOneInv, RenameInv, ClearInv,
     CompactionFailsInv, EndInv DEF Compaction
<1>4. ASSUME NEW r \in Requests, Request(r) \/ CrashInPut(r) PROVE IInv'
  BY <1>4, LookupInv, ReadsInv, PutInv, AppendFailsInv, CrashInPutInv DEF Request
<1> QED
  BY <1>1, <1>2, <1>3, <1>4 DEF Next

(***************************************************************************)
(* Theorems.                                                               *)
(***************************************************************************)
LEMMA SpecInv == Spec => []IInv
<1>1. Init => IInv
  BY InitInv
<1>2. IInv /\ [Next]_vars => IInv'
  BY NextInv
<1> QED
  BY <1>1, <1>2, PTL DEF Spec

\* The variables keep their types.
THEOREM TypeCorrect == Spec => []TypeOK
<1>1. IInv => TypeOK
  BY DEF IInv
<1> QED
  BY <1>1, SpecInv, PTL

\* Reading the log without the lock is safe but for a `clear` in between, and for the entries gone
\* astray, for any number of requests, tiles and records.  (overlay.rs: get_by_id_raw)
THEOREM ReadsSafe == Spec => []OnlyAClearMakesAReadStale
<1>1. IInv => OnlyAClearMakesAReadStale
  BY DEF IInv
<1> QED
  BY <1>1, SpecInv, PTL

\* While the process is up, a restart would answer what it holds, but for the entries gone astray.
LEMMA DurableIsHeld ==
  ASSUME IInv, up, NEW t \in Tiles, ~Astray(index[t])
  PROVE  Durable(t) = Held(t)
<1>1. index[t] = LastBlob(log, t) /\ (index[t] = 0 => base[t] = archive[t])
  BY DEF IInv, IndexIsReplay, BaseIsArchive
<1>2. CASE index[t] = 0
  BY <1>1, <1>2 DEF Durable, Held
<1>3. CASE index[t] # 0
  <2>1. log \in Seq(Cells) /\ LastBlob(log, t) # 0
    BY <1>1, <1>3 DEF IInv, TypeOK
  <2>2. index[t] \in 1 .. Len(log) /\ log[index[t]] = Body(log[index[t]].blob)
    BY <1>1, <2>1, LastBlobCell
  <2>3. \A b : Body(b).kind = "blob"
    BY DEF Body
  <2>4. ReadAt(index[t]) = log[index[t]].blob
    BY <2>2, <2>3 DEF ReadAt
  <2> QED
    BY <1>1, <1>3, <2>4 DEF Durable, Held
<1> QED
  BY <1>2, <1>3

\* In every state of every run the process answers what a restart would, but for the tiles put
\* after an append cut short.  (overlay.rs as a whole)
THEOREM RestartSafe == Spec => []AnswersSurviveRestart
<1>1. IInv => AnswersSurviveRestart
  BY DurableIsHeld DEF AnswersSurviveRestart
<1> QED
  BY <1>1, SpecInv, PTL

(***************************************************************************)
(* TileOverlay implements TileStore.                                       *)
(***************************************************************************)
Stored      == [t \in Tiles |-> Durable(t)]
Offered     == [r \in Requests |-> IF req[r].pc = "put" THEN Live(r) ELSE None]
AstrayTiles == {t \in Tiles : Astray(index[t])}

\* A file answers a blob, garbage or nothing for a tile.
LEMMA DurableType ==
  ASSUME log \in Seq(Cells), archive \in [Tiles -> Bytes \cup {None}], NEW t \in Tiles
  PROVE  Durable(t) \in Bytes \cup {None}
<1>1. LastBlob(log, t) # 0 => log[LastBlob(log, t)].blob \in Blobs
  BY LastBlobCell
<1> QED
  BY <1>1 DEF Durable, Bytes

\* Where the scan of the log and the archive are as before, so is what is kept.
LEMMA SameStored ==
  ASSUME UNCHANGED archive,
         \A t \in Tiles : /\ LastBlob(log', t) = LastBlob(log, t)
                          /\ LastBlob(log, t) # 0 => log'[LastBlob(log, t)] = log[LastBlob(log, t)]
  PROVE  UNCHANGED Stored
BY DEF Stored, Durable

\* One cell at the end of the log is invisible to the scan.
LEMMA TornKeeps ==
  ASSUME IInv, NEW b \in Blobs, log' = Append(log, Prefix(b)), UNCHANGED archive
  PROVE  UNCHANGED Stored
<1>1. PICK n \in Nat : Whole(log, n)
  BY DEF IInv, LogIsWhole
<1>2. log \in Seq(Cells) /\ Prefix(b) \in Cells
  BY DEF IInv, TypeOK, Prefix, Cells
<1>3. log' \in Seq(Cells) /\ Len(log) < Len(log') /\ \A i \in 1 .. Len(log) : log'[i] = log[i]
  BY <1>2
<1>4. Whole(log', n)
  BY <1>1, <1>2, OneCellMore DEF Prefix
<1> QED
  BY <1>1, <1>2, <1>3, <1>4, UnseenAppend, SameStored

\* A request that ends hands its blob over, and no other does.
LEMMA Hands ==
  ASSUME IInv, NEW r \in Requests, req[r].pc = "put", req' = [req EXCEPT ![r] = NoRequest],
         UNCHANGED rev
  PROVE  /\ Offered[r] = Live(r) /\ Offered[r] # None
         /\ Offered' = [Offered EXCEPT ![r] = None]
<1>1. Offered[r] = Live(r) /\ Live(r) # None
  BY LiveBlob, NoneAssumption DEF Offered, Bytes
<1>2. req \in [Requests -> [pc : {"idle", "read", "miss", "encode", "put"},
                            tile : Tiles \cup {None}, at : Nat]]
  BY DEF IInv, TypeOK
<1>3. \A q \in Requests : Offered'[q] = IF q = r THEN None ELSE Offered[q]
  BY <1>2 DEF Offered, Live, NoRequest
<1>4. Offered' = [q \in Requests |-> IF q = r THEN None ELSE Offered[q]]
  BY <1>3 DEF Offered
<1> QED
  BY <1>1, <1>4 DEF Offered

\* Nobody is about to save while every request stays as far from it as it was.
LEMMA SameOffers ==
  ASSUME UNCHANGED rev,
         \A q \in Requests : req'[q] = req[q] \/ (req[q].pc # "put" /\ req'[q].pc # "put")
  PROVE  UNCHANGED Offered
BY DEF Offered, Live

\* The put is the save of what its request offered.
LEMMA PutSaves ==
  ASSUME NEW r \in Requests, IInv, Put(r), MaySave, cut = {}
  PROVE  Promise!Save(r)
<1>0. PICK t0 \in Tiles : t0 = req[r].tile
  BY LiveBlob DEF Put
<1>1. PICK n \in Nat :
           /\ Len(log) = 2 * n /\ Len(log') = 2 * n + 2
           /\ log' \in Seq(Cells) /\ \A i \in 1 .. 2 * n : log'[i] = log[i]
           /\ log'[2 * n + 2] = Body(Live(r))
           /\ index' = [index EXCEPT ![t0] = 2 * n + 2]
           /\ \A t \in Tiles : LastBlob(log', t) = index'[t] /\ index[t] = LastBlob(log, t)
  BY <1>0, PutEffect
<1>2. /\ archive' = archive /\ cut' = {} /\ rev' = rev
      /\ log \in Seq(Cells) /\ index \in [Tiles -> Nat]
      /\ req' = [req EXCEPT ![r] = NoRequest] /\ req[r].pc = "put"
  BY DEF Put, Answered, IInv, TypeOK
<1>3. Durable(t0)' = Live(r)
  <2>1. LastBlob(log', t0) = 2 * n + 2 /\ 2 * n + 2 # 0
    BY <1>0, <1>1, <1>2
  <2>2. log'[2 * n + 2].blob = Live(r)
    BY <1>1 DEF Body
  <2> QED
    BY <2>1, <2>2 DEF Durable
<1>4. ASSUME NEW t \in Tiles, t # t0 PROVE Durable(t)' = Durable(t)
  <2>1. LastBlob(log', t) = LastBlob(log, t)
    BY <1>1, <1>2, <1>4
  <2>2. LastBlob(log, t) # 0 => log'[LastBlob(log, t)] = log[LastBlob(log, t)]
    BY <1>1, <1>2, LastBlobCell
  <2> QED
    BY <1>2, <2>1, <2>2 DEF Durable
<1>5. Offered[r] = Live(r) /\ Offered[r] # None /\ Offered' = [Offered EXCEPT ![r] = None]
  BY <1>2, Hands
<1>6. Stored' = [Stored EXCEPT ![Offered[r].tile] = Offered[r]]
  <2>1. Live(r).tile = t0
    BY <1>0 DEF Live
  <2>2. \A t \in Tiles : Stored'[t] = IF t = t0 THEN Live(r) ELSE Stored[t]
    BY <1>3, <1>4 DEF Stored
  <2>3. Stored' = [t \in Tiles |-> IF t = t0 THEN Live(r) ELSE Stored[t]]
    BY <2>2 DEF Stored
  <2> QED
    BY <1>5, <2>1, <2>3 DEF Stored
<1>7. UNCHANGED AstrayTiles
  BY <1>2 DEF AstrayTiles, Astray
<1> QED
  BY <1>2, <1>5, <1>6, <1>7 DEF Promise!Save, Promise!Handed, Stored, Offered, AstrayTiles

\* After an append cut short, a put goes astray.
LEMMA PutGoesAstray ==
  ASSUME NEW r \in Requests, IInv, Put(r), MaySave, cut # {}
  PROVE  Promise!GoAstray(r)
<1>1. PICK n \in Nat :
           /\ Whole(log, n) /\ Whole(log', n) /\ 2 * n < Len(log)
           /\ log' \in Seq(Cells) /\ Len(log') = Len(log) + 2
           /\ \A i \in 1 .. Len(log) : log'[i] = log[i]
           /\ \A c \in cut : c < logLen + 2
           /\ index' = [index EXCEPT ![req[r].tile] = logLen + 2]
  BY PutAstray
<1>2. /\ UNCHANGED <<archive, cut, rev>>
      /\ log \in Seq(Cells) /\ index \in [Tiles -> Nat]
      /\ req' = [req EXCEPT ![r] = NoRequest] /\ req[r].pc = "put"
      /\ req[r].tile \in Tiles
  BY LiveBlob DEF Put, Answered, IInv, TypeOK
<1>3. Offered[r] = Live(r) /\ Offered[r] # None /\ Offered' = [Offered EXCEPT ![r] = None]
  BY <1>2, Hands
<1>4. UNCHANGED Stored
  <2>1. Len(log) < Len(log')
    BY <1>1, <1>2
  <2>2. \A t \in Tiles : /\ LastBlob(log', t) = LastBlob(log, t)
                         /\ LastBlob(log, t) # 0 => log'[LastBlob(log, t)] = log[LastBlob(log, t)]
    BY <1>1, <1>2, <2>1, UnseenAppend
  <2> QED
    BY <1>2, <2>2, SameStored
<1>5. AstrayTiles' = AstrayTiles \cup {Offered[r].tile}
  <2>1. Offered[r].tile = req[r].tile
    BY <1>3 DEF Live
  <2>2. PICK c \in cut : c < logLen + 2
    BY <1>1
  <2>3. \A t \in Tiles : Astray(index[t])' <=> t = req[r].tile \/ Astray(index[t])
    BY <1>1, <1>2, <2>2 DEF Astray
  <2> QED
    BY <1>2, <2>1, <2>3 DEF AstrayTiles
<1> QED
  BY <1>2, <1>3, <1>4, <1>5 DEF Promise!GoAstray, Promise!Handed, Stored, Offered, AstrayTiles

\* A put that is skipped and an append that fails keep nothing; one cut short is noticed.
LEMMA NothingSaved ==
  ASSUME NEW r \in Requests, IInv, (Put(r) /\ ~MaySave) \/ AppendFails(r)
  PROVE  Promise!Drop(r) \/ Promise!CutShort(r)
<1>1. /\ UNCHANGED <<archive, index, rev>>
      /\ req' = [req EXCEPT ![r] = NoRequest] /\ req[r].pc = "put"
      /\ log \in Seq(Cells)
      /\ log' # log => AppendFails(r)
      /\ cut' = IF log' = log THEN cut ELSE cut \cup {logLen}
  BY DEF Put, AppendFails, Answered, IInv, TypeOK
<1>2. Offered[r] # None /\ Offered' = [Offered EXCEPT ![r] = None]
  BY <1>1, Hands
<1>3. CASE log' = log
  <2>1. UNCHANGED <<Stored, AstrayTiles>>
    BY <1>1, <1>3 DEF Stored, AstrayTiles, Durable, Astray
  <2> QED
    BY <1>1, <1>2, <1>3, <2>1 DEF Promise!Drop, Promise!Handed, Stored, Offered, AstrayTiles
<1>4. CASE log' # log
  <2>1. up /\ Live(r) \in Blobs
    BY <1>1, LiveBlob
  <2>2. log' = Append(log, Prefix(Live(r))) /\ Prefix(Live(r)) \in Cells /\ cut' = cut \cup {logLen}
    BY <1>1, <1>4, <2>1 DEF AppendFails, Prefix, Cells
  <2>3. UNCHANGED Stored
    BY <1>1, <2>1, <2>2, TornKeeps
  <2>4. UNCHANGED AstrayTiles
    <3>1. \A t \in Tiles : index[t] \in 0 .. logLen /\ logLen \in Nat
      BY <2>1 DEF IInv, IndexIsReplay, TypeOK
    <3> QED
      BY <1>1, <2>2, <3>1 DEF AstrayTiles, Astray
  <2>5. cut' # {}
    BY <2>2
  <2> QED
    BY <1>2, <2>3, <2>4, <2>5 DEF Promise!CutShort, Promise!Handed, Stored, Offered, AstrayTiles
<1> QED
  BY <1>3, <1>4

\* The step from encoding to saving is the offer.
LEMMA EncodeOffers ==
  ASSUME NEW r \in Requests, IInv, Encode(r)
  PROVE  Promise!Offer(r) \/ UNCHANGED Promise!vars
<1>1. /\ UNCHANGED <<log, archive, index, cut, rev>> /\ req[r].pc = "encode"
      /\ req \in [Requests -> [pc : {"idle", "read", "miss", "encode", "put"},
                               tile : Tiles \cup {None}, at : Nat]]
  BY DEF Encode, IInv, TypeOK
<1>2. UNCHANGED <<Stored, AstrayTiles>>
  BY <1>1 DEF Stored, AstrayTiles, Durable, Astray
<1>3. CASE req' = [req EXCEPT ![r] = NoRequest]
  <2>1. UNCHANGED Offered
    BY <1>1, <1>3, SameOffers DEF NoRequest
  <2> QED
    BY <1>1, <1>2, <2>1 DEF Promise!vars, Stored, Offered, AstrayTiles
<1>4. CASE req' = [req EXCEPT ![r] = [pc |-> "put", tile |-> req[r].tile, at |-> 0]]
  <2>1. \A q \in Requests : Offered'[q] = IF q = r THEN Live(r) ELSE Offered[q]
    BY <1>1, <1>4 DEF Offered, Live
  <2>2. Offered' = [q \in Requests |-> IF q = r THEN Live(r) ELSE Offered[q]]
    BY <2>1 DEF Offered
  <2>3. Offered[r] = None /\ Offered' = [Offered EXCEPT ![r] = Live(r)]
    BY <1>1, <2>2 DEF Offered
  <2>4. Live(r) \in Blobs
    BY <1>1 DEF IInv, NothingRunsDown, TypeOK, Live, Blobs
  <2> QED
    BY <1>1, <1>2, <2>3, <2>4 DEF Promise!Offer, Stored, Offered, AstrayTiles
<1> QED
  BY <1>3, <1>4 DEF Encode, Answered, Goto

\* Lookups and reads are invisible.
LEMMA ReadsShowNothing ==
  ASSUME NEW r \in Requests, IInv,
         (\E t \in Tiles : Lookup(r, t)) \/ ReadLog(r) \/ ReadBase(r)
  PROVE  UNCHANGED Promise!vars
<1>1. /\ UNCHANGED <<log, archive, index, cut, rev>> /\ req[r].pc # "put"
      /\ req \in [Requests -> [pc : {"idle", "read", "miss", "encode", "put"},
                               tile : Tiles \cup {None}, at : Nat]]
  BY DEF Lookup, ReadLog, ReadBase, IInv, TypeOK
<1>2. /\ req'[r].pc # "put"
      /\ \A q \in Requests \ {r} : req'[q] = req[q]
  BY <1>1 DEF Lookup, ReadLog, ReadBase, Answered, Goto, NoRequest
<1>3. UNCHANGED Offered
  BY <1>1, <1>2, SameOffers
<1>4. UNCHANGED <<Stored, AstrayTiles>>
  BY <1>1 DEF Stored, AstrayTiles, Durable, Astray
<1> QED
  BY <1>1, <1>3, <1>4 DEF Promise!vars, Stored, Offered, AstrayTiles

\* A replay finds what was there before it.
LEMMA OpenShowsNothing ==
  ASSUME IInv, IInv', Open
  PROVE  UNCHANGED Promise!vars
<1>1. PICK n \in 0 .. Len(log) : log' = SubSeq(log, 1, 2 * n)
  BY DEF Open, KeptOnOpen
<1>2. /\ log \in Seq(Cells) /\ log' \in Seq(Cells) /\ archive' = archive /\ up' /\ ~up
      /\ index' = [u \in Tiles |-> LastBlob(log, u)] /\ req' = req /\ cut = {} /\ cut' = {}
  BY DEF Open, IInv, TypeOK, NothingRunsDown
<1>3. \A t \in Tiles : LastBlob(log', t) = LastBlob(log, t)
  BY <1>2 DEF IInv, IndexIsReplay, Astray
<1>4. \A i \in 1 .. Len(log') : log'[i] = log[i]
  BY <1>1, <1>2
<1>5. \A t \in Tiles : LastBlob(log', t) # 0 => LastBlob(log', t) \in 1 .. Len(log')
  BY <1>2, LastBlobCell
<1>6. UNCHANGED Stored
  BY <1>2, <1>3, <1>4, <1>5, SameStored
<1>7. UNCHANGED Offered
  BY <1>2 DEF IInv, NothingRunsDown, Offered
<1>8. UNCHANGED AstrayTiles
  BY <1>2 DEF AstrayTiles, Astray
<1> QED
  BY <1>2, <1>6, <1>7, <1>8 DEF Promise!vars, Stored, Offered, AstrayTiles

\* A crash takes what was not saved, and nothing else.
LEMMA CrashDies ==
  ASSUME IInv, Crash \/ \E r \in Requests : CrashInPut(r)
  PROVE  Promise!Die
<1>1. Volatile /\ archive' = archive
  BY DEF Crash, disk, CrashInPut
<1>2. UNCHANGED Stored
  <2>1. CASE log' = log
    BY <1>1, <2>1 DEF Stored, Durable
  <2>2. ASSUME NEW r \in Requests, CrashInPut(r) PROVE UNCHANGED Stored
    <3>1. Live(r) \in Blobs /\ log' = Append(log, Prefix(Live(r)))
      BY <2>2, LiveBlob DEF CrashInPut
    <3> QED
      BY <1>1, <3>1, TornKeeps
  <2> QED
    BY <2>1, <2>2 DEF Crash, disk
<1>3. Offered' = [r \in Requests |-> None] /\ cut' = {} /\ AstrayTiles' = {}
  BY <1>1 DEF Volatile, Offered, NoRequest, AstrayTiles, Astray
<1> QED
  BY <1>2, <1>3 DEF Promise!Die, Stored, Offered, AstrayTiles

\* The new archive, and the truncation, keep what every tile had that was not put astray.
LEMMA Compacted ==
  ASSUME IInv, Rename \/ Clear, NEW t \in Tiles, ~Astray(index[t])
  PROVE  Durable(t)' = Durable(t)
<1>1. up /\ Durable(t) = Held(t) /\ index[t] = LastBlob(log, t)
  BY RunsUp, DurableIsHeld DEF Rename, Clear, IInv, IndexIsReplay
<1>2. CASE Rename
  <2>1. log' = log /\ archive' = job.out /\ job.out[t] = Held(t)
    BY <1>2 DEF Rename, IInv, JobIsSound
  <2> QED
    BY <1>1, <2>1 DEF Durable
<1>3. CASE Clear
  <2>1. log' = <<>> /\ archive' = archive /\ archive[t] = Held(t)
    BY <1>3 DEF Clear, IInv, JobIsSound
  <2> QED
    BY <1>1, <2>1, EmptyLog DEF Durable
<1> QED
  BY <1>2, <1>3

\* A compaction is invisible, or publishes what was put astray.
LEMMA CompactionPublishes ==
  ASSUME IInv, IInv', Compaction
  PROVE  Promise!Publish \/ UNCHANGED Promise!vars
<1>1. UNCHANGED Offered
  BY DEF Compaction, ControllerTick, ControllerWake, Flush, FlushAbandoned, Snapshot, MergeOne,
     Rename, Clear, CompactionFails, End, Offered, Live
<1>2. CASE UNCHANGED <<log, archive, index, cut>>
  <2>1. UNCHANGED <<Stored, AstrayTiles>>
    BY <1>2 DEF Stored, AstrayTiles, Durable, Astray
  <2> QED
    BY <1>1, <1>2, <2>1 DEF Promise!vars, Stored, Offered, AstrayTiles
<1>3. CASE Rename \/ Clear
  <2>1. \A t \in Tiles \ AstrayTiles : Durable(t)' = Durable(t)
    BY <1>3, Compacted DEF AstrayTiles
  <2>2. (UNCHANGED <<cut, AstrayTiles>>) \/ (cut' = {} /\ AstrayTiles' = {})
    BY <1>3 DEF Rename, Clear, AstrayTiles, Astray
  <2>3. CASE cut = {}
    <3>1. AstrayTiles = {} /\ cut' = {} /\ AstrayTiles' = {}
      BY <2>2, <2>3 DEF AstrayTiles, Astray
    <3>2. UNCHANGED Stored
      BY <2>1, <3>1 DEF Stored
    <3> QED
      BY <1>1, <2>3, <3>1, <3>2 DEF Promise!vars, Stored, Offered, AstrayTiles
  <2>4. CASE cut # {}
    <3>1. log' \in Seq(Cells) /\ archive' \in [Tiles -> Bytes \cup {None}]
      BY DEF IInv, TypeOK
    <3>2. \A t \in Tiles : Durable(t)' \in Blobs \cup {Garbage, None}
      <4>1. \A t \in Tiles : LastBlob(log', t) # 0 => log'[LastBlob(log', t)].blob \in Blobs
        BY <3>1, LastBlobCell
      <4> QED
        BY <3>1, <4>1 DEF Durable, Bytes
    <3>3. Stored' \in [Tiles -> Blobs \cup {Garbage, None}]
      BY <3>2 DEF Stored
    <3>4. \A t \in Tiles \ AstrayTiles : Stored'[t] = Stored[t]
      BY <2>1 DEF Stored
    <3> QED
      BY <1>1, <2>2, <2>4, <3>3, <3>4 DEF Promise!Publish, Stored, Offered, AstrayTiles
  <2> QED
    BY <2>3, <2>4
<1> QED
  BY <1>2, <1>3 DEF Compaction, ControllerTick, ControllerWake, Flush, FlushAbandoned, Snapshot,
     MergeOne, CompactionFails, End

\* The log, the index, the lock-free reads, the compactions, crashes and replays together keep
\* the promise of TileStore: what is kept changes by the append of an offered blob alone, and after an
\* append cut short by a compaction, under the tiles put since.  (overlay.rs as a whole)
THEOREM Implements == Spec => KeepsWhatWasSaved
<1>1. Init => Promise!Init
  <2> SUFFICES ASSUME Init PROVE Promise!Init
    OBVIOUS
  <2>1. \A t \in Tiles : Durable(t) = archive[t]
    BY EmptyLog DEF Init, Durable
  <2>2. archive \in [Tiles -> Blobs \cup {None}] /\ cut = {}
        /\ \A r \in Requests : req[r].pc # "put"
    BY BoundsAssumption DEF Init, Blobs, Revs, NoRequest
  <2>3. Stored \in [Tiles -> Blobs \cup {None}] /\ Offered = [r \in Requests |-> None]
        /\ AstrayTiles = {}
    BY <2>1, <2>2 DEF Stored, Offered, AstrayTiles, Astray
  <2> QED
    BY <2>2, <2>3 DEF Promise!Init, Stored, Offered, AstrayTiles
<1>2. IInv /\ IInv' /\ [Next]_vars => [Promise!Next]_Promise!vars
  <2> SUFFICES ASSUME IInv, IInv', [Next]_vars PROVE Promise!Next \/ UNCHANGED Promise!vars
    OBVIOUS
  <2>1. ASSUME NEW r \in Requests, Request(r) PROVE Promise!Next \/ UNCHANGED Promise!vars
    BY <2>1, PutSaves, PutGoesAstray, NothingSaved, EncodeOffers, ReadsShowNothing
    DEF Request, Promise!Next
  <2>2. CASE UNCHANGED vars \/ CrashCreating
    <3>1. UNCHANGED <<log, archive, index, cut, req, rev>>
      BY <2>2 DEF vars, CrashCreating
    <3> QED
      BY <3>1 DEF Promise!vars, Durable, Live, Astray
  <2> QED
    BY <2>1, <2>2, OpenShowsNothing, CrashDies, CompactionPublishes DEF Next, Promise!Next
<1> QED
  BY <1>1, <1>2, SpecInv, PTL DEF Spec, KeepsWhatWasSaved, Promise!Spec
==========================================================================
