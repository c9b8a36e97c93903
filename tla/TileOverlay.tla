--------------------------- MODULE TileOverlay ---------------------------
(***************************************************************************)
(* The write-through tile cache of one (layer, grid): an append-only log   *)
(* of tile records (<archive>.pmtiles.wal) over a PMTiles archive.         *)
(* Request threads look tiles up, read the log WITHOUT the lock, and       *)
(* persist what they had to encode live.  A compaction folds the log into  *)
(* a fresh archive, renames it over the old one and truncates the log.     *)
(* The process may die between any two steps and reopens log and archive.  *)
(*                                                                         *)
(* The log body is a sequence of cells: a record is a 16-byte prefix       *)
(* (tile id, length, CRC of the blob) followed by its blob, one cell each. *)
(* So a record torn by a crash is a prefix cell alone, an append lands at  *)
(* the END of the file (O_APPEND) while its index entry is computed from   *)
(* log_len, and an offset may denote any cell.  A blob is the tile it was  *)
(* encoded from and the revision of the source it was encoded from; what   *)
(* is read at an offset that is no blob's is garbage, no tile's blob.      *)
(***************************************************************************)
EXTENDS Naturals, Sequences

CONSTANTS
  Tiles,          \* tile ids of the grid
  Requests,       \* threads serving GET /mvt/{layer}/{tms}/{z}/{x}/{y}
  MaxRev,         \* bound: times the vector source is replaced between two runs
  MaxCells,       \* bound: the log body never grows past this many cells
  CapCells,       \* --pmtiles-max-bytes in cells; 0 = off
  ShortAppends,   \* may an append fail after a part of it was written (a full disk)?
  None            \* "no blob"

Revs  == 0 .. MaxRev
Blobs == [tile : Tiles, rev : Revs]
Cells == [kind : {"prefix", "blob"}, blob : Blobs]

\* bytes that are no tile's blob, and all that a file may answer for a tile
Garbage == [tile |-> None, rev |-> 0]
Bytes   == Blobs \cup {Garbage}

ASSUME NoneAssumption   == None \notin Bytes \cup Tiles

ASSUME BoundsAssumption == MaxRev \in Nat /\ MaxCells \in Nat /\ CapCells \in Nat
ASSUME FlagAssumption   == ShortAppends \in BOOLEAN

VARIABLES
  \* ---- on disk
  header,         \* the log's 16-byte header: "absent", "torn" or "whole"
  log,            \* the log body
  archive,        \* the .pmtiles file under its final name: [Tiles -> blob or None]
  \* ---- in the process
  up,             \* is the server running (its overlay open)?
  rev,            \* revision of the source this process encodes from
  index,          \* OverlayInner.index: cell of the tile's blob, 0 = no entry
  logLen,         \* OverlayInner.log_len, in cells
  base,           \* OverlayInner.base: what the open reader answers (an unlinked file after a rename)
  compacting,     \* OverlayInner.compacting
  woken,          \* the permit latched by compact_notify.notify_one
  job,            \* the compaction: [phase, by, todo, out]
  req,            \* per request: [pc, tile, at]
  \* ---- history
  raced,          \* requests that looked the index up before a clear and have not read yet
  cut             \* the log_len of each append cut short since the log was opened or cleared

disk == <<header, log, archive>>
ram  == <<up, rev, index, logLen, base>>
vars == <<header, log, archive, up, rev, index, logLen, base, compacting, woken, job, req, raced, cut>>

(***************************************************************************)
(* The log file.                                                           *)
(***************************************************************************)
Prefix(b) == [kind |-> "prefix", blob |-> b]
Body(b)   == [kind |-> "blob",   blob |-> b]

\* write_record: the prefix carries the tile id and the CRC of the blob
Record(b) == <<Prefix(b), Body(b)>>

\* parse_record at the k-th record boundary succeeds: not torn, and the CRC matches
Parses(f, k) ==
  /\ 2 * k <= Len(f)
  /\ f[2 * k - 1].kind = "prefix"
  /\ f[2 * k] = Body(f[2 * k - 1].blob)

\* the scan of `open` reaches the k-th record: nothing before it fails to parse
Scanned(f, k) == \A j \in 1 .. k : Parses(f, j)

\* the index `open` rebuilds: of a tile's scanned records, the last wins
IsLast(f, t, k) ==
  /\ Scanned(f, k) /\ f[2 * k].blob.tile = t
  /\ \A j \in k + 1 .. Len(f) \div 2 : Scanned(f, j) => f[2 * j].blob.tile # t

LastBlob(f, t) ==
  IF \E k \in 1 .. Len(f) \div 2 : IsLast(f, t, k)
  THEN 2 * (CHOOSE k \in 1 .. Len(f) \div 2 : IsLast(f, t, k))
  ELSE 0

\* read_exact_at: the bytes at an offset, or an error past the end of the file
ReadAt(p) ==
  IF p \notin 1 .. Len(log) THEN None
  ELSE IF log[p].kind = "blob" THEN log[p].blob ELSE Garbage

NoIndex   == [t \in Tiles |-> 0]
NoJob     == [phase |-> "idle", by |-> "nobody", todo |-> {}, out |-> [t \in Tiles |-> None]]
NoRequest == [pc |-> "idle", tile |-> None, at |-> 0]

Init ==
  /\ header = "absent" /\ log = <<>>
  /\ archive \in [Tiles -> [tile : Tiles, rev : {0}] \cup {None}]
  /\ \A t \in Tiles : archive[t] # None => archive[t].tile = t     \* a baked archive
  /\ up = FALSE /\ rev = 0
  /\ index = NoIndex /\ logLen = 0 /\ base = [t \in Tiles |-> None]
  /\ compacting = FALSE /\ woken = FALSE
  /\ job = NoJob
  /\ req = [r \in Requests |-> NoRequest]
  /\ raced = {} /\ cut = {}

(***************************************************************************)
(* Opening: create the log, or replay it and cut the torn tail.            *)
(***************************************************************************)
OpenSucceeds == header # "torn"          \* else "overlay: bad log header"

\* a record that does not parse is dropped, with everything after it
KeepTornTail(n) == log                   \* mutant: set_len forgotten
KeptOnOpen(n) == SubSeq(log, 1, 2 * n)

\* a log file that does not exist yet is created with its header
Open ==
  /\ ~up /\ OpenSucceeds
  /\ \E n \in 0 .. Len(log) :
       /\ Scanned(log, n) /\ ~Parses(log, n + 1)
       /\ log' = KeptOnOpen(n)
       /\ logLen' = 2 * n
  /\ index' = [t \in Tiles |-> LastBlob(log, t)]
  /\ header' = "whole"
  /\ base' = archive
  /\ up' = TRUE
  /\ rev' \in {rev, rev + 1} \cap Revs
  /\ UNCHANGED <<archive, compacting, woken, job, req, raced, cut>>

Volatile ==
  /\ up' = FALSE
  /\ index' = NoIndex /\ logLen' = 0 /\ base' = [t \in Tiles |-> None]
  /\ compacting' = FALSE /\ woken' = FALSE
  /\ job' = NoJob
  /\ req' = [r \in Requests |-> NoRequest]
  /\ raced' = {} /\ cut' = {}
  /\ UNCHANGED rev

\* the process dies between two steps (or simply exits)
Crash == up /\ Volatile /\ UNCHANGED disk

\* it dies after File::create and before the header is written
CrashCreating ==
  /\ ~up /\ header = "absent"
  /\ header' = "torn"
  /\ UNCHANGED <<log, archive, up, rev, index, logLen, base, compacting, woken, job, req, raced, cut>>

(***************************************************************************)
(* A request: get_raw (index under the lock, then the read without it, or  *)
(* the base), live encode, best-effort put.                                *)
(***************************************************************************)
Answered(r) == req' = [req EXCEPT ![r] = NoRequest]
Goto(r, l)  == req' = [req EXCEPT ![r] = [pc |-> l, tile |-> @.tile, at |-> 0]]
Live(r)     == [tile |-> req[r].tile, rev |-> rev]

Lookup(r, t) ==
  /\ up /\ req[r].pc = "idle"
  /\ req' = [req EXCEPT ![r] = [pc |-> IF index[t] # 0 THEN "read" ELSE "miss",
                                tile |-> t, at |-> index[t]]]
  /\ raced' = raced \ {r}
  /\ UNCHANGED <<header, log, archive, up, rev, index, logLen, base, compacting, woken, job, cut>>

\* no lock is held: whatever is at that offset by now, or a read error
ReadLog(r) ==
  /\ req[r].pc = "read"
  /\ \/ ReadAt(req[r].at) # None /\ Answered(r)
     \/ Goto(r, "encode")
  /\ raced' = raced \ {r}
  /\ UNCHANGED <<header, log, archive, up, rev, index, logLen, base, compacting, woken, job, cut>>

\* the base is cloned under a second acquisition of the lock
ReadBase(r) ==
  /\ req[r].pc = "miss"
  /\ \/ base[req[r].tile] # None /\ Answered(r)
     \/ Goto(r, "encode")
  /\ UNCHANGED <<header, log, archive, up, rev, index, logLen, base, compacting, woken, job, raced, cut>>

\* answered at once when the source read fails (500), the tile is empty or a compaction is
\* running; otherwise the tile is to be kept first
Encode(r) ==
  /\ req[r].pc = "encode"
  /\ \/ Answered(r)
     \/ ~compacting /\ Goto(r, "put")
  /\ UNCHANGED <<header, log, archive, up, rev, index, logLen, base, compacting, woken, job, raced, cut>>

MaySaveAlways == TRUE                    \* mutant: put no longer skips while compacting
MaySave == ~compacting

PrefixOffset == logLen + 1               \* mutant: the 16-byte prefix is not skipped
BlobOffset == logLen + 2

\* the skip and the append are decided under one acquisition of the lock
Put(r) ==
  /\ req[r].pc = "put"
  /\ \/ MaySave /\ Len(log) + 2 <= MaxCells
        /\ log' = log \o Record(Live(r))
        /\ logLen' = logLen + 2
        /\ index' = [index EXCEPT ![req[r].tile] = BlobOffset]
        /\ woken' = (woken \/ (CapCells > 0 /\ logLen' > CapCells))
     \/ ~MaySave /\ UNCHANGED <<log, logLen, index, woken>>
  /\ Answered(r)
  /\ UNCHANGED <<header, archive, up, rev, base, compacting, job, raced, cut>>

\* write_all fails, having written nothing or a part, which log_len does not count; the error is ignored
AppendFails(r) ==
  /\ req[r].pc = "put" /\ MaySave
  /\ \/ UNCHANGED log
     \/ ShortAppends /\ Len(log) < MaxCells /\ log' = Append(log, Prefix(Live(r)))
  /\ cut' = IF log' = log THEN cut ELSE cut \cup {logLen}
  /\ Answered(r)
  /\ UNCHANGED <<header, archive, up, rev, index, logLen, base, compacting, woken, job, raced>>

\* the process dies inside write_all: a torn record is left behind
CrashInPut(r) ==
  /\ req[r].pc = "put" /\ MaySave /\ Len(log) + 2 <= MaxCells
  /\ log' = Append(log, Prefix(Live(r)))
  /\ Volatile
  /\ UNCHANGED <<header, archive>>

(***************************************************************************)
(* The compaction.  `by` is the task that waits for it and will release    *)
(* it: the controller, a flush handler, or nobody once the client of the   *)
(* flush has gone and its handler was dropped at the await.                *)
(***************************************************************************)
Indexed == {t \in Tiles : index[t] # 0}

MayBegin == ~compacting                  \* try_begin_compaction: a compare-and-set
Begin(who) ==
  /\ MayBegin
  /\ compacting' = TRUE
  /\ job' = [NoJob EXCEPT !.phase = "begun", !.by = who]

ControllerFree == up /\ job.by # "controller"

\* the interval tick
ControllerTick ==
  /\ ControllerFree /\ Indexed # {}
  /\ Begin("controller")
  /\ UNCHANGED <<header, log, archive, up, rev, index, logLen, base, woken, req, raced, cut>>

\* the latched wake is consumed whether or not there is anything to do, or anything may be done
ControllerWake ==
  /\ ControllerFree /\ woken
  /\ woken' = FALSE
  /\ IF Indexed # {} /\ MayBegin THEN Begin("controller") ELSE UNCHANGED <<compacting, job>>
  /\ UNCHANGED <<header, log, archive, up, rev, index, logLen, base, req, raced, cut>>

\* POST /mvt/{layer}/flush does not ask whether the log is empty
Flush ==
  /\ up
  /\ Begin("flush")
  /\ UNCHANGED <<header, log, archive, up, rev, index, logLen, base, woken, req, raced, cut>>

FlushAbandoned ==
  /\ job.by = "flush"
  /\ job' = [job EXCEPT !.by = "nobody"]
  /\ UNCHANGED <<header, log, archive, up, rev, index, logLen, base, compacting, woken, req, raced, cut>>

\* base ids \cup overlay ids
Snapshot ==
  /\ job.phase = "begun"
  /\ job' = [job EXCEPT !.phase = "merge", !.todo = Indexed \cup {t \in Tiles : base[t] # None}]
  /\ UNCHANGED <<header, log, archive, up, rev, index, logLen, base, compacting, woken, req, raced, cut>>

BaseWins(t) == IF base[t] # None THEN base[t] ELSE ReadAt(index[t])   \* mutant
MergedWithPrefix(t) == IF index[t] # 0 THEN log[index[t]] ELSE base[t]  \* mutant
\* the overlay's record wins over the base's
Merged(t) == IF index[t] # 0 THEN ReadAt(index[t]) ELSE base[t]

\* one tile read and added; the ids come in ascending order, which nothing here depends on
MergeOne(t) ==
  /\ job.phase = "merge" /\ t \in job.todo
  /\ job' = [job EXCEPT !.todo = @ \ {t}, !.out[t] = Merged(t)]
  /\ UNCHANGED <<header, log, archive, up, rev, index, logLen, base, compacting, woken, req, raced, cut>>

\* PmtilesWriter::finish ends in a rename over the archive; `base` keeps the unlinked one
Rename ==
  /\ job.phase = "merge" /\ job.todo = {}
  /\ archive' = job.out
  /\ job' = [job EXCEPT !.phase = "renamed"]
  /\ UNCHANGED <<header, log, up, rev, index, logLen, base, compacting, woken, req, raced, cut>>

\* the new archive is opened; truncation, index and base change under one acquisition of the lock
Clear ==
  /\ job.phase = "renamed"
  /\ log' = <<>> /\ index' = NoIndex /\ logLen' = 0
  /\ base' = archive
  /\ job' = [job EXCEPT !.phase = "done"]
  /\ raced' = {r \in Requests : req[r].pc = "read"} /\ cut' = {}
  /\ UNCHANGED <<header, archive, up, rev, compacting, woken, req>>

\* a read, the scratch file, the rename or the reopening fails, or the task panics
CompactionFails ==
  /\ job.phase \in {"begun", "merge", "renamed"}
  /\ job' = [job EXCEPT !.phase = "done"]
  /\ UNCHANGED <<header, log, archive, up, rev, index, logLen, base, compacting, woken, req, raced, cut>>

\* end_compaction, by the task that awaited the job
End ==
  /\ job.phase = "done" /\ job.by # "nobody"
  /\ compacting' = FALSE
  /\ job' = NoJob
  /\ UNCHANGED <<header, log, archive, up, rev, index, logLen, base, woken, req, raced, cut>>

Compaction ==
  \/ ControllerTick \/ ControllerWake \/ Flush \/ FlushAbandoned
  \/ Snapshot \/ (\E t \in Tiles : MergeOne(t)) \/ Rename \/ Clear
  \/ CompactionFails \/ End

Request(r) ==
  \/ (\E t \in Tiles : Lookup(r, t))
  \/ ReadLog(r) \/ ReadBase(r) \/ Encode(r) \/ Put(r) \/ AppendFails(r)

Next ==
  \/ Open \/ Crash \/ CrashCreating
  \/ Compaction
  \/ \E r \in Requests : Request(r) \/ CrashInPut(r)

Spec == Init /\ [][Next]_vars

(***************************************************************************)
(* Properties.                                                             *)
(***************************************************************************)
TypeOK ==
  /\ header \in {"absent", "torn", "whole"}
  /\ log \in Seq(Cells)
  /\ archive \in [Tiles -> Bytes \cup {None}]
  /\ up \in BOOLEAN /\ rev \in Revs
  /\ index \in [Tiles -> Nat] /\ logLen \in Nat
  /\ base \in [Tiles -> Bytes \cup {None}]
  /\ compacting \in BOOLEAN /\ woken \in BOOLEAN
  /\ job \in [phase : {"idle", "begun", "merge", "renamed", "done"},
              by : {"controller", "flush", "nobody"},
              todo : SUBSET Tiles,
              out : [Tiles -> Bytes \cup {None}]]
  /\ req \in [Requests -> [pc : {"idle", "read", "miss", "encode", "put"},
                           tile : Tiles \cup {None}, at : Nat]]
  /\ raced \subseteq Requests /\ cut \subseteq Nat

\* What a restart at this very moment would answer for a tile.
Durable(t) == LET k == LastBlob(log, t) IN IF k # 0 THEN log[k].blob ELSE archive[t]

\* What the running process answers to a lookup that is not overtaken by a compaction.
Held(t) == IF index[t] # 0 THEN ReadAt(index[t]) ELSE base[t]

\* an index entry of a put that followed an append cut short: O_APPEND wrote past where it points
Astray(p) == \E c \in cut : c < p

(***************************************************************************)
(* At every moment of a run, whatever a compaction is half-way through,    *)
(* the process answers for each tile exactly what a restart at that moment *)
(* would answer from the files: the in-RAM index and the open base reader  *)
(* never run ahead of, or behind, the log and the archive.  Only the tiles *)
(* put after an append cut short are excepted, until a compaction clears   *)
(* the log: their entries point beside the records that were written.      *)
(* (overlay.rs: put, compact, clear and open, against each other.)         *)
(***************************************************************************)
AnswersSurviveRestart ==
  up => \A t \in Tiles : ~Astray(index[t]) => Held(t) = Durable(t)

(***************************************************************************)
(* A request that found its tile in the index and was not overtaken by a   *)
(* truncation never reads past the end of the log, and unless the entry it *)
(* found had gone astray it will read that tile's own blob: reading the    *)
(* log without the lock is safe against any number of concurrent puts and  *)
(* failed appends, only `clear` makes the remembered offset stale.         *)
(* (overlay.rs: get_by_id_raw, put.)                                       *)
(***************************************************************************)
OnlyAClearMakesAReadStale ==
  \A r \in Requests :
    req[r].pc = "read" /\ r \notin raced =>
      /\ ReadAt(req[r].at) # None
      /\ ~Astray(req[r].at) => ReadAt(req[r].at).tile = req[r].tile

(***************************************************************************)
(* The blob answered for a tile is that tile's blob.  `get_by_id_raw` is   *)
(* an "overlay-only lookup" of one id "returning the STORED gzip blob",    *)
(* and the test stale_offset_past_eof_errs holds that a stale offset is an *)
(* error.  A truncation followed by new puts between the lookup and the    *)
(* unlocked read leaves another tile's bytes at the remembered offset.     *)
(***************************************************************************)
ServesTheTileAsked ==
  \A r \in Requests :
    req[r].pc = "read" /\ ReadAt(req[r].at) # None =>
      ReadAt(req[r].at).tile = req[r].tile

(***************************************************************************)
(* The cache keeps what TileStore promises: what a restart would answer    *)
(* changes only in the step that appends the record of a request's blob,   *)
(* and then for that blob's tile to that blob.  Compactions, crashes and   *)
(* restarts change nothing, but for a compaction after an append cut       *)
(* short, under the tiles put since.  (overlay.rs as a whole.)             *)
(***************************************************************************)
Promise == INSTANCE TileStore WITH
  kept    <- [t \in Tiles |-> Durable(t)],
  offered <- [r \in Requests |-> IF req[r].pc = "put" THEN Live(r) ELSE None],
  cut     <- cut # {},
  astray  <- {t \in Tiles : Astray(index[t])}
KeepsWhatWasSaved == Promise!Spec
==========================================================================
