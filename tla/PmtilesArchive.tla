-------------------------- MODULE PmtilesArchive --------------------------
(***************************************************************************)
(* One run of the PMTiles writer, as the bakes and the compaction drive    *)
(* it: tiles in ascending id order, then `finish`, which puts a complete   *)
(* archive in place of the one before, or nothing at all.                  *)
(***************************************************************************)
EXTENDS PmtilesFormat, FiniteSets

CONSTANTS
  TileIds,        \* ids a caller may add
  Blobs           \* blobs it may add, never empty: a gzip, brotli or zstd frame, or a PNG

ASSUME IdsAssumption  == TileIds \subseteq Nat
ASSUME BlobAssumption == \A b \in Blobs : b \in Seq(Nat) /\ b # <<>>
ASSUME HashAssumption == \A b, c \in Blobs : Hash(b) = Hash(c) => b = c      \* no collision in 64 bits
ASSUME MissAssumption ==                                                     \* None is no value
  NoTile \notin Seq(Nat) \cup [id : Nat, offset : Nat, length : Nat, run : Nat]

VARIABLES
  stage,          \* "adding", "done" or "failed"
  writer,         \* the PmtilesWriter
  archive,        \* the file under its final name, NoTile for none
  given           \* history: the blob of every id added

vars == <<stage, writer, archive, given>>

Init ==
  /\ stage = "adding" /\ writer = EmptyWriter
  /\ archive = NoTile /\ given = [id \in {} |-> <<>>]

Add(id, b) ==
  /\ stage = "adding" /\ Ascending(writer, id)
  /\ writer' = Added(writer, id, b)
  /\ given' = [i \in DOMAIN given \cup {id} |-> IF i = id THEN b ELSE given[i]]
  /\ UNCHANGED <<stage, archive>>

\* an id out of order, a failed write, or a source read that failed three times: the writer is dropped
Abort ==
  /\ stage = "adding" /\ stage' = "failed"
  /\ UNCHANGED <<writer, archive, given>>

\* assembled next to the archive, then renamed over it
Finish ==
  /\ stage = "adding"
  /\ archive' \in Assembled(writer)
  /\ stage' = "done"
  /\ UNCHANGED <<writer, given>>

Next == (\E id \in TileIds, b \in Blobs : Add(id, b)) \/ Abort \/ Finish

Spec == Init /\ [][Next]_vars

(***************************************************************************)
(* Properties.                                                             *)
(***************************************************************************)
Answer(id) == raw_tile_by_id(archive, id)

(***************************************************************************)
(* Whatever the deduplication, the runs, the columns of the directories    *)
(* and the size of the leaves, a reader gets for each id the blob that was *)
(* added for it, misses every other id, and enumerates exactly the ids     *)
(* added.  (write.rs: add, finish; codec.rs: serialize_directory,          *)
(* build_roots_leaves; read.rs: raw_tile_by_id, all_tile_ids)              *)
(***************************************************************************)
HoldsWhatWasGiven ==
  stage = "done" =>
    /\ \A id \in TileIds : Answer(id) = IF id \in DOMAIN given THEN given[id] ELSE NoTile
    /\ all_tile_ids(archive) = DOMAIN given

(***************************************************************************)
(* "Identical blobs still dedup and adjacent runs still collapse": no two  *)
(* entries could be one, and no blob is stored twice.  (write.rs: add;     *)
(* recompress.rs)                                                          *)
(***************************************************************************)
IsCompact ==
  /\ \A i \in 1 .. Len(writer.entries) - 1 :
       LET e == writer.entries[i]  n == writer.entries[i + 1] IN
       ~(e.id + e.run = n.id /\ given[e.id] = given[n.id])
  /\ \A i, j \in DOMAIN writer.entries :
       LET d == writer.entries[i]  e == writer.entries[j] IN
       d.offset # e.offset => given[d.id] # given[e.id]
===========================================================================
