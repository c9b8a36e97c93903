-------------------------- MODULE PmtilesFormat --------------------------
(***************************************************************************)
(* The PMTiles v3 writer and reader as functions: what `add` does to the   *)
(* writer, what `finish` assembles, what the reader finds in it.  A blob   *)
(* is a sequence of bytes, and so are the data section and every slice     *)
(* the reader takes of it: two entries may share bytes, and an empty blob  *)
(* has the offset of whatever is written next.                             *)
(*                                                                         *)
(* A compressed directory's size in bytes is taken to be anything: the     *)
(* leaves may be of any size once the root does not fit.  A leaf directory *)
(* counts as one unit of the leaf section.                                 *)
(***************************************************************************)
EXTENDS Naturals, Sequences, SequencesExt

CONSTANTS
  Hash(_),        \* fnv1a64
  NoTile          \* a miss

Entry(id, offset, length, run) == [id |-> id, offset |-> offset, length |-> length, run |-> run]

(***************************************************************************)
(* The writer.                                                             *)
(***************************************************************************)
EmptyWriter == [last |-> 0, addressed |-> 0, data |-> <<>>, dedup |-> [h \in {} |-> 0], entries |-> <<>>]

Ascending(w, id) == w.addressed = 0 \/ id > w.last

\* the immediate next id AND the same blob, told by its offset
NeverExtends(w, id, offset) == FALSE     \* mutant: no runs
ExtendsRun(w, id, offset) ==
  /\ w.entries # <<>>
  /\ LET e == Last(w.entries) IN e.id + e.run = id /\ e.offset = offset

\* where a blob is, or is going to be
Place(w, b) ==
  IF Hash(b) \in DOMAIN w.dedup THEN w.dedup[Hash(b)] ELSE [offset |-> Len(w.data), length |-> Len(b)]

\* PmtilesWriter::add of an ascending id
Added(w, id, b) ==
  LET at == Place(w, b) IN
  [last      |-> id,
   addressed |-> w.addressed + 1,
   data      |-> IF Hash(b) \in DOMAIN w.dedup THEN w.data ELSE w.data \o b,
   dedup     |-> [h \in DOMAIN w.dedup \cup {Hash(b)} |-> IF h = Hash(b) THEN at ELSE w.dedup[h]],
   entries   |-> IF ExtendsRun(w, id, at.offset)
                 THEN [w.entries EXCEPT ![Len(w.entries)].run = @ + 1]
                 ELSE Append(w.entries, Entry(id, at.offset, at.length, 1))]

(***************************************************************************)
(* A directory on disk: columns, with ids as differences and an offset     *)
(* that follows on from the entry before written as 0.                     *)
(***************************************************************************)
FollowsOn(dir, i) == i > 1 /\ dir[i].offset = dir[i - 1].offset + dir[i - 1].length

serialize_directory(dir) ==
  [delta  |-> [i \in DOMAIN dir |-> IF i = 1 THEN dir[i].id ELSE dir[i].id - dir[i - 1].id],
   run    |-> [i \in DOMAIN dir |-> dir[i].run],
   length |-> [i \in DOMAIN dir |-> dir[i].length],
   offset |-> [i \in DOMAIN dir |-> IF FollowsOn(dir, i) THEN 0 ELSE dir[i].offset + 1]]

deserialize_directory(c) ==
  LET id[i \in 0 .. Len(c.delta)] == IF i = 0 THEN 0 ELSE id[i - 1] + c.delta[i]
      offset[i \in DOMAIN c.offset] ==
        IF c.offset[i] = 0 THEN offset[i - 1] + c.length[i - 1] ELSE c.offset[i] - 1
  IN  [i \in DOMAIN c.delta |-> Entry(id[i], offset[i], c.length[i], c.run[i])]

(***************************************************************************)
(* finish: everything in the root, or leaves of some size n under it.      *)
(***************************************************************************)
Leaves(dir, n) == [k \in 1 .. (Len(dir) + n - 1) \div n |->
                     SubSeq(dir, (k - 1) * n + 1, IF k * n < Len(dir) THEN k * n ELSE Len(dir))]

Flat(w) == [root |-> serialize_directory(w.entries), leaves |-> <<>>, data |-> w.data]

Spilled(w, n) ==
  LET ls == Leaves(w.entries, n) IN
  [root   |-> serialize_directory([k \in DOMAIN ls |-> Entry(ls[k][1].id, k - 1, 1, 0)]),
   leaves |-> [k \in DOMAIN ls |-> serialize_directory(ls[k])],
   data   |-> w.data]

\* build_roots_leaves grows the leaves until the root fits
Assembled(w) == {Flat(w)} \cup {Spilled(w, n) : n \in 1 .. Len(w.entries)}

(***************************************************************************)
(* The reader.                                                             *)
(***************************************************************************)
\* binary_search_by, with Err(i) taken as i - 1; 0 when every entry comes after the id
ExactOnly(dir, id) == SelectLastInSeq(dir, LAMBDA e : e.id = id)     \* mutant: Err(i) taken as a miss
Candidate(dir, id) == SelectLastInSeq(dir, LAMBDA e : e.id <= id)

IsLeaf(e)    == e.run = 0
LeafOf(a, e) == deserialize_directory(a.leaves[e.offset + 1])

Covers(e, id) == id < e.id + e.run

\* the entry a lookup ends at: the loop of raw_tile_by_id, whose second round is in a leaf
Found(a, id) ==
  LET root == deserialize_directory(a.root)
      i == Candidate(root, id)
      dir == IF i # 0 /\ IsLeaf(root[i]) THEN LeafOf(a, root[i]) ELSE root
      j == Candidate(dir, id)
  IN  IF j = 0 THEN NoTile ELSE IF Covers(dir[j], id) THEN dir[j] ELSE NoTile

entry_blob(a, e) == SubSeq(a.data, e.offset + 1, e.offset + e.length)

raw_tile_by_id(a, id) == IF Found(a, id) = NoTile THEN NoTile ELSE entry_blob(a, Found(a, id))

\* every tile entry, leaves descended, in directory order
tile_entries(a) ==
  LET root == deserialize_directory(a.root) IN
  IF root # <<>> /\ IsLeaf(root[1])
  THEN FlattenSeq([k \in DOMAIN root |-> LeafOf(a, root[k])])
  ELSE root

Ids(e) == e.id .. e.id + e.run - 1
all_tile_ids(a) == UNION {Ids(tile_entries(a)[i]) : i \in DOMAIN tile_entries(a)}
==========================================================================
