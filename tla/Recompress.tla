---------------------------- MODULE Recompress ----------------------------
(***************************************************************************)
(* `terraserve pmtiles-recompress`: every stored blob of an archive is     *)
(* decompressed and compressed anew, run by run, into a new archive, and   *)
(* then every tile of the two is compared.  The input is an archive of     *)
(* this program (PmtilesArchive), or comes from any other PMTiles writer:  *)
(* then it may hold empty blobs, which are copied as they are.             *)
(***************************************************************************)
EXTENDS PmtilesArchive

CONSTANTS
  Tiles,          \* decoded tiles
  From, To        \* tile_compression of the input and of the output

VARIABLES
  foreign,        \* the input comes from another PMTiles writer
  step,           \* "waiting" for the input, "copying", "copied", "verified", "differs", "failed"
  at,             \* tile entry being copied
  copier,         \* the PmtilesWriter of the copy
  output          \* the archive written, NoTile before

input == archive                                     \* the archive read
commandVars == <<foreign, step, at, copier, output>>
allVars == <<stage, writer, archive, given, commandVars>>

\* a compressed tile is never empty, whatever the tile
compress(enc, tile)   == <<enc>> \o tile
decompress(enc, blob) == IF Head(blob) = enc THEN Tail(blob) ELSE NoTile     \* no tile comes out
decoded(enc, blob)    == IF blob = <<>> THEN <<>> ELSE decompress(enc, blob)

\* what an archive of such tiles may store: their blobs, and the empty blob
Stored(enc) == {compress(enc, t) : t \in Tiles} \cup {<<>>}

ASSUME EncodingsAssumption ==
  /\ {From, To} \subseteq Nat /\ Tiles \subseteq Seq(Nat)
  /\ Blobs = {compress(From, t) : t \in Tiles}
ASSUME HashesApart ==                                \* again no collision in 64 bits
  \A enc \in {From, To} : \A b, c \in Stored(enc) : Hash(b) = Hash(c) => b = c

CommandInit ==
  /\ Init
  /\ foreign \in BOOLEAN
  /\ step = "waiting" /\ at = 1 /\ copier = EmptyWriter /\ output = NoTile

(***************************************************************************)
(* The input: an archive of this program, or one of some other PMTiles     *)
(* writer, which may hold empty blobs and whose runs never mix lengths.    *)
(***************************************************************************)
ForeignAdded(w, id, b) ==
  IF w.entries # <<>> /\ Last(w.entries).length # Len(b)
  THEN [Added(w, id, b) EXCEPT
          !.entries = Append(w.entries, Entry(id, Place(w, b).offset, Len(b), 1))]
  ELSE Added(w, id, b)

ForeignAdd(id, b) ==
  /\ stage = "adding" /\ Ascending(writer, id)
  /\ writer' = ForeignAdded(writer, id, b)
  /\ given' = [i \in DOMAIN given \cup {id} |-> IF i = id THEN b ELSE given[i]]
  /\ UNCHANGED <<stage, archive>>

\* the bake or the compaction the input comes from
Bake == ~foreign /\ Next /\ UNCHANGED commandVars

BakeElsewhere ==
  /\ foreign /\ UNCHANGED commandVars
  /\ Finish \/ \E id \in TileIds, b \in Stored(From) : ForeignAdd(id, b)

\* recompress_pmtiles opens the input
Begin ==
  /\ step = "waiting" /\ stage = "done" /\ step' = "copying"
  /\ UNCHANGED <<stage, writer, archive, given, foreign, at, copier, output>>

AfterTheLastRun == at > Len(tile_entries(input))

LeftAsItWas(blob) == blob                \* mutant: only the header's tile_compression is changed
Recoded(blob) == IF blob = <<>> THEN blob ELSE compress(To, decompress(From, blob))

AddedRun(w, e, blob) ==
  LET added[k \in 0 .. e.run] == IF k = 0 THEN w ELSE Added(added[k - 1], e.id + k - 1, blob)
  IN  added[e.run]

\* one entry: its blob once through both codecs, then one `add` for each id of the run
Copy ==
  /\ step = "copying" /\ ~AfterTheLastRun
  /\ LET e == tile_entries(input)[at]
         blob == Recoded(entry_blob(input, e)) IN
     copier' = AddedRun(copier, e, blob)
  /\ at' = at + 1
  /\ UNCHANGED <<stage, writer, archive, given, foreign, step, output>>

\* a blob that does not decompress, a failed read or write
Fail ==
  /\ step = "copying" /\ step' = "failed"
  /\ UNCHANGED <<stage, writer, archive, given, foreign, at, copier, output>>

FinishCopy ==
  /\ step = "copying" /\ AfterTheLastRun
  /\ output' \in Assembled(copier)
  /\ step' = "copied"
  /\ UNCHANGED <<stage, writer, archive, given, foreign, at, copier>>

\* verify_same_tiles: the same ids, and under each of them the same tile
EmptyPasses(x, y) == y = <<>> \/ decoded(From, x) = decoded(To, y)    \* mutant: an empty blob not compared
DecodeAlike(x, y) == decoded(From, x) = decoded(To, y)

SameTiles(a, b) ==
  /\ all_tile_ids(a) = all_tile_ids(b)
  /\ \A i \in DOMAIN tile_entries(a) :
       LET e == tile_entries(a)[i] IN
       \A id \in Ids(e) : DecodeAlike(entry_blob(a, e), raw_tile_by_id(b, id))

Verify ==
  /\ step = "copied"
  /\ step' = IF SameTiles(input, output) THEN "verified" ELSE "differs"
  /\ UNCHANGED <<stage, writer, archive, given, foreign, at, copier, output>>

CommandNext == Bake \/ BakeElsewhere \/ Begin \/ Copy \/ Fail \/ FinishCopy \/ Verify

CommandSpec == CommandInit /\ [][CommandNext]_allVars

(***************************************************************************)
(* Properties.                                                             *)
(***************************************************************************)
Decoded(a, enc, id) ==
  IF raw_tile_by_id(a, id) = NoTile THEN NoTile ELSE decoded(enc, raw_tile_by_id(a, id))

SameAnswers == \A id \in TileIds : Decoded(input, From, id) = Decoded(output, To, id)

(***************************************************************************)
(* The command reports success exactly when a reader gets the same tile    *)
(* from both archives under every id, however their runs are cut.          *)
(* (recompress.rs: verify_same_tiles)                                      *)
(***************************************************************************)
VerifyTellsTheTruth ==
  /\ step = "verified" => SameAnswers
  /\ step = "differs"  => ~SameAnswers

(***************************************************************************)
(* "The decoded MVT is byte-identical by construction": the archive that   *)
(* is written answers every id with the input's tile, if no blob of the    *)
(* input is empty.  An empty blob takes no room in the data section, so    *)
(* the next new blob has its offset, and its tile, if it is the next id,   *)
(* is counted into the run of the empty one.  (recompress.rs:              *)
(* recompress_pmtiles; write.rs: add)                                      *)
(***************************************************************************)
KeepsTheTiles ==
  step \in {"copied", "verified", "differs"} /\ (\A id \in DOMAIN given : given[id] # <<>>) => SameAnswers
===========================================================================
