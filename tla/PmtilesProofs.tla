---------------------------- MODULE PmtilesProofs ----------------------------
(***************************************************************************)
(* The PMTiles format, the archive and the recompression, for any ids,     *)
(* tiles, codings and hash without collisions, and for directories of any  *)
(* length: what the writer keeps, what the reader finds, and what the copy *)
(* and its verification make of an archive.                                *)
(*                                                                         *)
(*   1. induction over the natural numbers, for what a recursive function  *)
(*      computes;                                                          *)
(*   2. the columns of a directory and back, the search in a directory;    *)
(*   3. leaves: the pieces of a directory, and the search through the root;*)
(*   4. the reader on an archive, flat or spilled;                         *)
(*   5. the writer's invariants and what `add` does to them;               *)
(*   6. one run of the writer (PmtilesArchive);                            *)
(*   7. the command (Recompress);                                          *)
(*   8. the files of compactions at the same time (CompactionScratch).     *)
(***************************************************************************)
EXTENDS Recompress, CompactionScratch, SequenceTheorems, WellFoundedInduction, TLAPS

(***************************************************************************)
(* 1. Induction.                                                           *)
(* A recursive function is defined by CHOOSE; what it computes is shown by *)
(* induction, and that from the well-foundedness of < alone.               *)
(***************************************************************************)

\* A set of naturals that is not empty has a least element.
LEMMA LeastElement ==
  ASSUME NEW T \in SUBSET Nat, T # {}
  PROVE  \E m \in T : \A k \in T : m <= k
<1> DEFINE R == {p \in Nat \X Nat : p[1] < p[2]}
<1>1. IsWellFoundedOn(R, Nat)
  BY NatLessThanWellFounded, Zenon DEF OpToRel
<1>3. \A k, m \in Nat : k < m => <<k, m>> \in R
  OBVIOUS
<1> HIDE DEF R
<1>2. PICK m \in T : \A k \in T : ~(<<k, m>> \in R)
  BY <1>1, WFMin
<1>4. ASSUME NEW k \in T PROVE m <= k
  <2>1. k \in Nat /\ m \in Nat /\ ~(k < m)
    BY <1>2, <1>3, Zenon
  <2> QED
    BY <2>1
<1> QED
  BY <1>4

\* Induction over the natural numbers, for a set.
LEMMA Induction ==
  ASSUME NEW T, 0 \in T, \A n \in Nat : n \in T => n + 1 \in T
  PROVE  Nat \subseteq T
<1> SUFFICES ASSUME Nat \ T # {} PROVE FALSE
  OBVIOUS
<1>1. PICK m \in Nat \ T : \A k \in Nat \ T : m <= k
  BY LeastElement
<1>2. m - 1 \in Nat /\ m - 1 \in T
  BY <1>1
<1> QED
  BY <1>1, <1>2

(***************************************************************************)
(* 2. Directories.                                                         *)
(***************************************************************************)

\* an entry of a directory
Cell == [id : Nat, offset : Nat, length : Nat, run : Nat]
\* a directory in the order of its ids
Rising(dir) == \A i, j \in DOMAIN dir : i < j => dir[i].id < dir[j].id

\* The columns of a rising directory are read back as the directory: deltas add up
\* to the ids, and an offset of 0 stands for the end of the entry before.
\* (codec.rs: serialize_directory, deserialize_directory)
LEMMA RoundTrip ==
  ASSUME NEW dir \in Seq(Cell), Rising(dir)
  PROVE  deserialize_directory(serialize_directory(dir)) = dir
<1> DEFINE c == serialize_directory(dir)
           N == Len(dir)
           IdEq(f) == f = [i \in 0 .. Len(c.delta) |-> IF i = 0 THEN 0 ELSE f[i - 1] + c.delta[i]]
           OffEq(f) == f = [i \in DOMAIN c.offset |->
                              IF c.offset[i] = 0 THEN f[i - 1] + c.length[i - 1] ELSE c.offset[i] - 1]
           id == CHOOSE f : IdEq(f)
           off == CHOOSE f : OffEq(f)
           Ids_ == [i \in 0 .. N |-> IF i = 0 THEN 0 ELSE dir[i].id]
           Offs == [i \in 1 .. N |-> dir[i].offset]
<1>0. N \in Nat /\ DOMAIN dir = 1 .. N /\ \A i \in 1 .. N : dir[i] \in Cell
  OBVIOUS
<1>1. /\ c.delta = [i \in 1 .. N |-> IF i = 1 THEN dir[i].id ELSE dir[i].id - dir[i - 1].id]
      /\ c.run = [i \in 1 .. N |-> dir[i].run]
      /\ c.length = [i \in 1 .. N |-> dir[i].length]
      /\ c.offset = [i \in 1 .. N |-> IF FollowsOn(dir, i) THEN 0 ELSE dir[i].offset + 1]
      /\ Len(c.delta) = N
  BY <1>0 DEF serialize_directory
<1>2. deserialize_directory(c) = [i \in 1 .. N |-> Entry(id[i], off[i], c.length[i], c.run[i])]
  BY <1>1, Zenon DEF deserialize_directory
<1> HIDE DEF c
<1>3. IdEq(Ids_)
  <2>1. \A i \in 1 .. N : dir[i].id \in Nat
    BY <1>0 DEF Cell
  <2>2. \A i \in 1 .. N : Ids_[i] = Ids_[i - 1] + c.delta[i]
    <3> SUFFICES ASSUME NEW i \in 1 .. N PROVE Ids_[i] = Ids_[i - 1] + c.delta[i]
      OBVIOUS
    <3>1. Ids_[i] = dir[i].id /\ Ids_[i - 1] = IF i = 1 THEN 0 ELSE dir[i - 1].id
      BY <1>0
    <3>2. c.delta[i] = IF i = 1 THEN dir[i].id ELSE dir[i].id - dir[i - 1].id
      BY <1>1
    <3>3. i # 1 => i - 1 \in 1 .. N
      BY <1>0
    <3> QED
      BY <2>1, <3>1, <3>2, <3>3
  <2>3. Ids_ = [i \in 0 .. N |-> IF i = 0 THEN 0 ELSE Ids_[i - 1] + c.delta[i]]
    <3> DEFINE G == [i \in 0 .. N |-> IF i = 0 THEN 0 ELSE Ids_[i - 1] + c.delta[i]]
    <3>1. ASSUME NEW i \in 0 .. N PROVE Ids_[i] = G[i]
      <4>1. CASE i = 0
        BY <4>1, <1>0
      <4>2. CASE i \in 1 .. N
        <5>1. G[i] = Ids_[i - 1] + c.delta[i]
          BY <4>2, <1>0
        <5> QED
          BY <5>1, <4>2, <2>2
      <4> QED
        BY <4>1, <4>2, <1>0
    <3> QED
      BY <3>1, Zenon
  <2> QED
    BY <2>3, <1>1
<1>4. /\ id[0] = 0
      /\ \A n \in Nat : n + 1 <= N => id[n + 1] = id[n] + c.delta[n + 1]
  <2>1. IdEq(id)
    BY <1>3
  <2> HIDE DEF id
  <2>2. id = [i \in 0 .. N |-> IF i = 0 THEN 0 ELSE id[i - 1] + c.delta[i]]
    BY <2>1, <1>1
  <2>3. \A i \in 0 .. N : id[i] = IF i = 0 THEN 0 ELSE id[i - 1] + c.delta[i]
    BY <2>2, Zenon
  <2> QED
    BY <2>3, <1>0
<1>5. OffEq(Offs)
  <2> DEFINE G == [i \in 1 .. N |->
                     IF c.offset[i] = 0 THEN Offs[i - 1] + c.length[i - 1] ELSE c.offset[i] - 1]
  <2>1. \A i \in 1 .. N : dir[i].offset \in Nat
    BY <1>0 DEF Cell
  <2>2. ASSUME NEW i \in 1 .. N PROVE Offs[i] = G[i]
    <3>1. CASE FollowsOn(dir, i)
      <4>1. i - 1 \in 1 .. N /\ dir[i].offset = dir[i - 1].offset + dir[i - 1].length
        BY <3>1, <1>0 DEF FollowsOn
      <4> QED
        BY <4>1, <3>1, <1>1, <2>1
    <3>2. CASE ~FollowsOn(dir, i)
      BY <3>2, <1>1, <2>1
    <3> QED
      BY <3>1, <3>2
  <2>3. Offs = G
    BY <2>2, Zenon
  <2> QED
    BY <2>3, <1>1
<1>6. \A n \in Nat : n + 1 <= N =>
         off[n + 1] = IF c.offset[n + 1] = 0 THEN off[n] + c.length[n] ELSE c.offset[n + 1] - 1
  <2>1. OffEq(off)
    BY <1>5
  <2> HIDE DEF off
  <2>2. DOMAIN c.offset = 1 .. N
    BY <1>1
  <2>3. \A i \in 1 .. N :
          off[i] = IF c.offset[i] = 0 THEN off[i - 1] + c.length[i - 1] ELSE c.offset[i] - 1
    BY <2>1, <2>2, Zenon
  <2> QED
    BY <2>3, <1>0
<1> HIDE DEF id, off
<1>7. \A i \in 1 .. N : id[i] = dir[i].id
  <2> DEFINE T == {n \in Nat : n <= N => id[n] = IF n = 0 THEN 0 ELSE dir[n].id}
  <2>1. 0 \in T
    BY <1>4
  <2>2. ASSUME NEW n \in T PROVE n + 1 \in T
    <3> SUFFICES ASSUME n + 1 <= N PROVE id[n + 1] = dir[n + 1].id
      OBVIOUS
    <3>1. id[n + 1] = id[n] + c.delta[n + 1]
      BY <1>4
    <3>2. n + 1 \in 1 .. N /\ id[n] = IF n = 0 THEN 0 ELSE dir[n].id
      BY <1>0
    <3>3. c.delta[n + 1] = IF n = 0 THEN dir[n + 1].id ELSE dir[n + 1].id - dir[n].id
      BY <1>1, <3>2
    <3>4. dir[n + 1].id \in Nat /\ (n # 0 => dir[n].id \in Nat)
      <4>1. n # 0 => n \in 1 .. N
        BY <3>2, <1>0
      <4> HIDE DEF T
      <4> QED
        BY <4>1, <3>2, <1>0 DEF Cell
    <3> QED
      BY <3>1, <3>2, <3>3, <3>4
  <2> HIDE DEF T
  <2>3. Nat \subseteq T
    BY <2>1, <2>2, Induction
  <2>4. \A n \in Nat : n <= N => id[n] = IF n = 0 THEN 0 ELSE dir[n].id
    BY <2>3 DEF T
  <2> QED
    BY <2>4, <1>0
<1>8. \A i \in 1 .. N : off[i] = dir[i].offset
  <2> DEFINE T == {n \in Nat : n + 1 <= N => off[n + 1] = dir[n + 1].offset}
  <2>1. ASSUME NEW n \in Nat, n + 1 <= N, n > 0 => n - 1 \in T
        PROVE  off[n + 1] = dir[n + 1].offset
    <3>1. off[n + 1] = IF c.offset[n + 1] = 0 THEN off[n] + c.length[n] ELSE c.offset[n + 1] - 1
      BY <1>6, <2>1
    <3>2. n + 1 \in 1 .. N
      BY <2>1, <1>0
    <3>3. c.offset[n + 1] = IF FollowsOn(dir, n + 1) THEN 0 ELSE dir[n + 1].offset + 1
      BY <1>1, <3>2
    <3>4. dir[n + 1].offset \in Nat
      BY <3>2, <1>0 DEF Cell
    <3>5. CASE FollowsOn(dir, n + 1)
      <4>1. n > 0 /\ dir[n + 1].offset = dir[n].offset + dir[n].length
        BY <3>5, <2>1, (n + 1) - 1 = n DEF FollowsOn
      <4>2. n \in 1 .. N /\ c.length[n] = dir[n].length
        BY <4>1, <1>1, <2>1, <1>0
      <4>3. off[n] = dir[n].offset
        BY <4>1, <2>1, (n - 1) + 1 = n
      <4> QED
        BY <3>1, <3>3, <3>5, <4>1, <4>2, <4>3
    <3>6. CASE ~FollowsOn(dir, n + 1)
      BY <3>1, <3>3, <3>4, <3>6
    <3> QED
      BY <3>5, <3>6
  <2>2. 0 \in T
    BY <2>1
  <2>3. ASSUME NEW n \in Nat, n \in T PROVE n + 1 \in T
    <3>1. (n + 1) - 1 = n
      OBVIOUS
    <3>2. ASSUME (n + 1) + 1 <= N PROVE off[(n + 1) + 1] = dir[(n + 1) + 1].offset
      BY <2>1, <2>3, <3>1, <3>2
    <3> QED
      BY <3>2
  <2>4. Nat \subseteq T
    <3> HIDE DEF T
    <3> QED
      BY <2>2, <2>3, Induction
  <2>5. ASSUME NEW i \in 1 .. N PROVE off[i] = dir[i].offset
    <3>1. i - 1 \in Nat /\ (i - 1) + 1 = i /\ i <= N
      BY <1>0
    <3> QED
      BY <3>1, <2>4
  <2> QED
    BY <2>5
<1>9. \A i \in 1 .. N : Entry(id[i], off[i], c.length[i], c.run[i]) = dir[i]
  BY <1>0, <1>1, <1>7, <1>8 DEF Entry, Cell
<1>10. deserialize_directory(c) = [i \in 1 .. N |-> dir[i]]
  BY <1>2, <1>9
<1>11. dir = [i \in 1 .. N |-> dir[i]]
  BY <1>0
<1> QED
  BY <1>10, <1>11 DEF c

\* The binary search ends at the last entry whose id is not above the one asked, or
\* before the first. (read.rs: raw_tile_by_id)
LEMMA CandidateIs ==
  ASSUME NEW dir, Len(dir) \in Nat, NEW id
  PROVE  LET j == Candidate(dir, id) IN
         \/ j = 0 /\ \A i \in 1 .. Len(dir) : ~(dir[i].id <= id)
         \/ /\ j \in 1 .. Len(dir) /\ dir[j].id <= id
            /\ \A i \in j + 1 .. Len(dir) : ~(dir[i].id <= id)
<1> DEFINE I == {i \in 1 .. Len(dir) : dir[i].id <= id}
<1>1. Candidate(dir, id) = IF I # {} THEN CHOOSE x \in I : \A y \in I : x >= y ELSE 0
  BY DEF Candidate, SelectLastInSeq, Max
<1>2. CASE I = {}
  BY <1>1, <1>2
<1>3. CASE I # {}
  <2> DEFINE T == {k \in Nat : Len(dir) - k \in I}
  <2>1. T # {}
    <3>1. PICK i \in I : TRUE
      BY <1>3
    <3> QED
      BY <3>1, Len(dir) - i \in Nat, Len(dir) - (Len(dir) - i) = i
  <2>2. PICK m \in T : \A k \in T : m <= k
    <3> HIDE DEF T
    <3> T \in SUBSET Nat
      BY DEF T
    <3> QED
      BY <2>1, LeastElement
  <2> DEFINE x == Len(dir) - m
  <2>3. x \in I /\ \A y \in I : x >= y
    <3>1. ASSUME NEW y \in I PROVE x >= y
      <4>1. y \in 1 .. Len(dir) /\ Len(dir) - y \in Nat /\ Len(dir) - (Len(dir) - y) = y
        OBVIOUS
      <4>2. Len(dir) - y \in T
        BY <4>1
      <4>3. m \in Nat /\ m <= Len(dir) - y
        BY <4>2, <2>2
      <4> QED
        BY <4>1, <4>3
    <3> QED
      BY <2>2, <3>1
  <2> HIDE DEF x, T
  <2>4. \E z \in I : \A y \in I : z >= y
    BY <2>3
  <2>5. Candidate(dir, id) \in I /\ \A y \in I : Candidate(dir, id) >= y
    BY <2>4, <1>1, <1>3
  <2> QED
    BY <2>5
<1> QED
  BY <1>2, <1>3

(***************************************************************************)
(* 3. Leaves.                                                              *)
(* A directory of N entries is cut at 0 = c[0] < c[1] < ... < c[K] = N.    *)
(***************************************************************************)

\* K pieces, none of them empty
IsCut(c, K, N) ==
  /\ K \in Nat /\ K >= 1 /\ c \in [0 .. K -> 0 .. N]
  /\ c[0] = 0 /\ c[K] = N
  /\ \A k \in 1 .. K : c[k - 1] < c[k]

\* the directory in pieces
Pieces(dir, c, K) == [k \in 1 .. K |-> SubSeq(dir, c[k - 1] + 1, c[k])]

\* Division of naturals with a remainder.
LEMMA Division ==
  ASSUME NEW n \in Nat \ {0}, NEW a \in Nat
  PROVE  a \div n \in Nat /\ n * (a \div n) <= a /\ a < n * (a \div n) + n
OBVIOUS

\* Leaves of n entries, the last one shorter, are a cut of the directory.
\* (codec.rs: build_roots_leaves)
LEMMA LeavesArePieces ==
  ASSUME NEW dir, Len(dir) \in Nat, NEW n \in 1 .. Len(dir)
  PROVE  \E K, c : IsCut(c, K, Len(dir)) /\ Leaves(dir, n) = Pieces(dir, c, K)
<1> DEFINE N == Len(dir)
           K == (N + n - 1) \div n
           times == [k \in 0 .. K |-> k * n]
           c == [k \in 0 .. K |-> IF k = K THEN N ELSE times[k]]
<1> N \in Nat /\ n \in Nat \ {0} /\ n <= N
  OBVIOUS
<1>1. K \in Nat /\ n * K <= N + n - 1 /\ N + n - 1 < n * K + n
  BY Division, N + n - 1 \in Nat
<1>2. K >= 1
  <2>1. K = 0 => n * K = 0
    OBVIOUS
  <2> HIDE DEF K
  <2> QED
    BY <1>1, <2>1
<1> HIDE DEF K
<1> DEFINE P == n * K
<1>6. P \in Nat /\ P <= N + n - 1 /\ N + n - 1 < P + n
  BY <1>1
<1>3. /\ \A k \in 0 .. K : times[k] \in Nat
      /\ \A k \in 1 .. K : times[k] = times[k - 1] + n
      /\ times[0] = 0
      /\ times[K] = P
  <2>1. ASSUME NEW k \in 0 .. K PROVE k * n \in Nat
    BY <1>1
  <2>2. ASSUME NEW k \in 1 .. K PROVE k * n = (k - 1) * n + n
    BY <1>1
  <2>3. 0 * n = 0 /\ K * n = P /\ 0 \in 0 .. K /\ K \in 0 .. K
    BY <1>1
  <2>4. \A k \in 0 .. K : times[k] = k * n
    BY Zenon
  <2>5. \A k \in 1 .. K : k \in 0 .. K /\ k - 1 \in 0 .. K
    BY <1>1
  <2> HIDE DEF times, P
  <2>6. ASSUME NEW k \in 1 .. K PROVE times[k] = times[k - 1] + n
    <3>1. times[k] = k * n /\ times[k - 1] = (k - 1) * n
      BY <2>4, <2>5, Zenon
    <3> QED
      BY <3>1, <2>2, Zenon
  <2>7. \A k \in 0 .. K : times[k] \in Nat
    BY <2>1, <2>4, Zenon
  <2>8. times[0] = 0 /\ times[K] = P
    BY <2>3, <2>4, Zenon
  <2> QED
    BY <2>6, <2>7, <2>8
<1> HIDE DEF P
<1>4. times[K - 1] = P - n
  <2>1. K \in 1 .. K
    BY <1>1, <1>2
  <2>2. times[K] = times[K - 1] + n /\ times[K - 1] \in Nat
    <3> HIDE DEF times
    <3> QED
      BY <2>1, <1>1, <1>2, <1>3, K - 1 \in 0 .. K
  <2> HIDE DEF times
  <2> QED
    BY <2>2, <1>3, <1>6
<1>5. \A k \in 0 .. K - 1 : times[k] <= times[K - 1]
  <2> DEFINE T == {m \in Nat : m <= K - 1 => times[K - 1 - m] <= times[K - 1]}
  <2>0. \A k \in 0 .. K : times[k] \in Int
    BY <1>3
  <2> HIDE DEF times
  <2>1. 0 \in T
    BY <1>1, <1>2, <2>0
  <2>2. ASSUME NEW m \in T PROVE m + 1 \in T
    <3> SUFFICES ASSUME m + 1 <= K - 1 PROVE times[K - 1 - (m + 1)] <= times[K - 1]
      OBVIOUS
    <3>1. m \in Nat /\ K - 1 - m \in 1 .. K /\ K - 1 - (m + 1) = (K - 1 - m) - 1 /\ (K - 1 - m) - 1 \in 0 .. K
      BY <1>1
    <3>2. times[K - 1 - m] <= times[K - 1]
      <4>1. m + 1 <= K - 1 => m <= K - 1
        BY <3>1, <1>1
      <4> QED
        BY <4>1
    <3>3. times[K - 1 - m] = times[(K - 1 - m) - 1] + n
      BY <3>1, <1>3
    <3>4. times[(K - 1 - m) - 1] \in Int /\ times[K - 1 - m] \in Int /\ times[K - 1] \in Int
      BY <3>1, <2>0, <1>1, <1>2
    <3> QED
      <4> HIDE DEF T
      <4> QED
        BY <3>1, <3>2, <3>3, <3>4
  <2> HIDE DEF T
  <2>3. Nat \subseteq T
    BY <2>1, <2>2, Induction
  <2>4. \A m \in Nat : m <= K - 1 => times[K - 1 - m] <= times[K - 1]
    BY <2>3 DEF T
  <2>5. ASSUME NEW k \in 0 .. K - 1 PROVE times[k] <= times[K - 1]
    <3>1. K - 1 - k \in Nat /\ K - 1 - k <= K - 1 /\ K - 1 - (K - 1 - k) = k
      BY <1>1
    <3> QED
      BY <3>1, <2>4
  <2> QED
    BY <2>5
<1>7. \A k \in 0 .. K - 1 : times[k] < N
  <2> HIDE DEF times
  <2>1. ASSUME NEW k \in 0 .. K - 1 PROVE times[k] < N
    <3>1. times[k] \in Nat /\ times[k] <= times[K - 1]
      BY <1>1, <1>3, <1>5
    <3> QED
      BY <3>1, <1>4, <1>6
  <2> QED
    BY <2>1
<1>10. IsCut(c, K, N)
  <2>1. \A k \in 0 .. K : c[k] = IF k = K THEN N ELSE times[k]
    OBVIOUS
  <2>3. ASSUME NEW k \in 0 .. K PROVE c[k] \in 0 .. N
    <3> HIDE DEF times, c
    <3>1. CASE k = K
      BY <3>1, <2>1
    <3>2. CASE k # K
      <4>1. k \in 0 .. K - 1
        BY <3>2, <1>1
      <4> QED
        BY <4>1, <3>2, <1>3, <2>1, <1>7
    <3> QED
      BY <3>1, <3>2
  <2>4. c[0] = 0 /\ c[K] = N
    <3> HIDE DEF times, c
    <3> QED
      BY <1>1, <1>2, <1>3, <2>1
  <2>5. ASSUME NEW k \in 1 .. K PROVE c[k - 1] < c[k]
    <3>1. k - 1 \in 0 .. K - 1 /\ k - 1 \in 0 .. K /\ k \in 0 .. K
      BY <1>1
    <3> HIDE DEF times, c
    <3>2. c[k - 1] = times[k - 1] /\ times[k - 1] \in Nat
      BY <3>1, <2>1, <1>1, <1>3
    <3>3. CASE k = K
      BY <3>1, <3>2, <3>3, <2>1, <1>7
    <3>4. CASE k # K
      <4>1. c[k] = times[k] /\ times[k] = times[k - 1] + n
        BY <3>1, <3>4, <2>1, <1>3
      <4> QED
        BY <4>1, <3>2
    <3> QED
      BY <3>3, <3>4
  <2>6. c \in [0 .. K -> 0 .. N]
    <3> HIDE DEF times
    <3> QED
      BY <2>3
  <2> HIDE DEF c
  <2> QED
    BY <1>1, <1>2, <2>4, <2>5, <2>6 DEF IsCut
<1>8. ASSUME NEW k \in 1 .. K
      PROVE  SubSeq(dir, (k - 1) * n + 1, IF k * n < N THEN k * n ELSE N) = SubSeq(dir, c[k - 1] + 1, c[k])
  <2>1. k - 1 \in 0 .. K /\ k \in 0 .. K /\ k - 1 # K /\ (k # K => k \in 0 .. K - 1)
    BY <1>1
  <2>2. c[k - 1] = (k - 1) * n /\ times[k] = k * n /\ c[k] = IF k = K THEN N ELSE times[k]
    BY <2>1
  <2>3. k # K => times[k] < N
    <3> HIDE DEF times
    <3> QED
      BY <1>7, <2>1
  <2>4. k = K => ~(times[k] < N)
    <3> HIDE DEF times
    <3> QED
      BY <1>1, <1>3, <1>6
  <2> HIDE DEF times, c
  <2>5. c[k] = IF k * n < N THEN k * n ELSE N
    BY <2>2, <2>3, <2>4
  <2> QED
    BY <2>2, <2>5, Zenon
<1>9. Leaves(dir, n) = Pieces(dir, c, K)
  <2> HIDE DEF c
  <2> QED
    BY <1>8, Zenon DEF Leaves, Pieces, K
<1> QED
  BY <1>10, <1>9

\* A cut rises from each place to every later one.
LEMMA CutGrows ==
  ASSUME NEW N \in Nat, NEW K, NEW c, IsCut(c, K, N)
  PROVE  \A i, k \in 0 .. K : i < k => c[i] < c[k]
<1> K \in Nat /\ K >= 1 /\ \A k \in 0 .. K : c[k] \in Nat
  BY DEF IsCut
<1> SUFFICES ASSUME NEW i \in 0 .. K PROVE \A k \in 0 .. K : i < k => c[i] < c[k]
  OBVIOUS
<1> DEFINE T == {m \in Nat : i + m + 1 <= K => c[i] < c[i + m + 1]}
<1>1. 0 \in T
  <2>1. i + 1 <= K => i + 1 \in 1 .. K /\ (i + 1) - 1 = i
    OBVIOUS
  <2>2. i + 1 <= K => c[i] < c[i + 1]
    BY <2>1 DEF IsCut
  <2> QED
    BY <2>2, i + 0 + 1 = i + 1
<1>2. ASSUME NEW m \in T PROVE m + 1 \in T
  <2> SUFFICES ASSUME i + (m + 1) + 1 <= K PROVE c[i] < c[i + (m + 1) + 1]
    OBVIOUS
  <2> DEFINE k == i + m + 1
  <2>1. m \in Nat /\ i + (m + 1) + 1 = k + 1 /\ k \in 0 .. K /\ k + 1 \in 1 .. K /\ (k + 1) - 1 = k
    OBVIOUS
  <2>2. c[i] < c[k]
    BY <2>1
  <2>3. c[k] < c[k + 1]
    BY <2>1 DEF IsCut
  <2>4. c[i] \in Nat /\ c[k] \in Nat /\ c[k + 1] \in Nat
    BY <2>1
  <2> HIDE DEF k, T
  <2>5. c[i] < c[k + 1]
    BY <2>2, <2>3, <2>4
  <2> QED
    BY <2>1, <2>5, Zenon
<1> HIDE DEF T
<1>3. Nat \subseteq T
  BY <1>1, <1>2, Induction
<1>4. ASSUME NEW k \in 0 .. K, i < k PROVE c[i] < c[k]
  <2>1. k - i - 1 \in Nat /\ i + (k - i - 1) + 1 = k
    BY <1>4
  <2>2. k - i - 1 \in T
    BY <2>1, <1>3
  <2>3. i + (k - i - 1) + 1 <= K => c[i] < c[i + (k - i - 1) + 1]
    BY <2>2, Zenon DEF T
  <2>4. i + (k - i - 1) + 1 <= K
    BY <2>1
  <2>5. c[i] < c[i + (k - i - 1) + 1]
    BY <2>3, <2>4
  <2> QED
    BY <2>1, <2>5, Zenon
<1> QED
  BY <1>4

\* What the search returns is told by its two sides.
LEMMA CandidateAt ==
  ASSUME NEW dir, Len(dir) \in Nat, NEW id, NEW j \in 1 .. Len(dir), dir[j].id <= id,
         \A i \in j + 1 .. Len(dir) : ~(dir[i].id <= id)
  PROVE  Candidate(dir, id) = j
<1> DEFINE m == Candidate(dir, id)
<1>1. \/ m = 0 /\ \A i \in 1 .. Len(dir) : ~(dir[i].id <= id)
      \/ /\ m \in 1 .. Len(dir) /\ dir[m].id <= id
         /\ \A i \in m + 1 .. Len(dir) : ~(dir[i].id <= id)
  BY CandidateIs
<1> HIDE DEF m
<1>2. m \in 1 .. Len(dir) /\ dir[m].id <= id /\ \A i \in m + 1 .. Len(dir) : ~(dir[i].id <= id)
  BY <1>1
<1>3. ~(m < j) /\ ~(j < m)
  BY <1>2
<1> QED
  BY <1>2, <1>3 DEF m

\* And it returns 0 when every id is above the one asked.
LEMMA CandidateNone ==
  ASSUME NEW dir, Len(dir) \in Nat, NEW id, \A i \in 1 .. Len(dir) : ~(dir[i].id <= id)
  PROVE  Candidate(dir, id) = 0
BY CandidateIs

\* A piece is a directory: the entries between its two cuts.
LEMMA PieceIs ==
  ASSUME NEW dir \in Seq(Cell), NEW K, NEW c, IsCut(c, K, Len(dir)), NEW k \in 1 .. K
  PROVE  LET p == Pieces(dir, c, K)[k] IN
         /\ c[k - 1] \in Nat /\ c[k] \in Nat /\ c[k - 1] < c[k] /\ c[k] <= Len(dir)
         /\ p \in Seq(Cell) /\ Len(p) = c[k] - c[k - 1]
         /\ \A j \in 1 .. c[k] - c[k - 1] : p[j] = dir[c[k - 1] + j]
<1>1. Pieces(dir, c, K)[k] = SubSeq(dir, c[k - 1] + 1, c[k])
  BY DEF Pieces
<1>2. c[k - 1] \in Nat /\ c[k] \in Nat /\ c[k - 1] < c[k] /\ c[k] <= Len(dir)
  <2>1. K \in Nat /\ k - 1 \in 0 .. K /\ k \in 0 .. K
    BY DEF IsCut
  <2> QED
    BY <2>1 DEF IsCut
<1> DEFINE a == c[k - 1]  b == c[k]
<1> HIDE DEF a, b
<1>3. a \in Nat /\ b \in Nat /\ a < b /\ b <= Len(dir)
  BY <1>2 DEF a, b
<1>4. /\ SubSeq(dir, a + 1, b) \in Seq(Cell) /\ Len(SubSeq(dir, a + 1, b)) = b - a
      /\ \A j \in 1 .. b - a : SubSeq(dir, a + 1, b)[j] = dir[a + j]
  BY <1>3
<1> QED
  BY <1>1, <1>2, <1>4 DEF a, b

\* The pieces one after another are the directory. (read.rs: tile_entries)
LEMMA Flattened ==
  ASSUME NEW dir \in Seq(Cell), NEW K, NEW c, IsCut(c, K, Len(dir))
  PROVE  FlattenSeq(Pieces(dir, c, K)) = dir
<1> DEFINE ps == Pieces(dir, c, K)
           Eq(f) == f = [i \in 1 .. Len(ps) |-> IF i = 1 THEN ps[i] ELSE f[i - 1] \o ps[i]]
           flatten == CHOOSE f : Eq(f)
           W == [i \in 1 .. K |-> SubSeq(dir, 1, c[i])]
<1>1. K \in Nat /\ K >= 1 /\ Len(ps) = K /\ c[0] = 0 /\ c[K] = Len(dir)
  BY DEF IsCut, Pieces
<1>2. FlattenSeq(ps) = flatten[K]
  <2>1. Len(ps) # 0
    BY <1>1
  <2>2. FlattenSeq(ps) = flatten[Len(ps)]
    <3> HIDE DEF ps
    <3> QED
      BY <2>1, Zenon DEF FlattenSeq
  <2> QED
    BY <2>2, <1>1, Zenon
<1>3. \A k \in 1 .. K : /\ c[k - 1] \in Nat /\ c[k] \in Nat /\ c[k - 1] < c[k] /\ c[k] <= Len(dir)
                        /\ ps[k] = SubSeq(dir, c[k - 1] + 1, c[k])
  BY PieceIs DEF Pieces
<1> HIDE DEF ps
<1>4. ASSUME NEW k \in 1 .. K PROVE W[k] = IF k = 1 THEN ps[k] ELSE W[k - 1] \o ps[k]
  <2>1. CASE k = 1
    <3>1. W[k] = SubSeq(dir, 1, c[k]) /\ ps[k] = SubSeq(dir, c[k - 1] + 1, c[k]) /\ c[k - 1] = 0
      BY <2>1, <1>1, <1>3
    <3>2. c[k - 1] + 1 = 1
      BY <3>1
    <3>3. W[k] = ps[k]
      BY <3>1, <3>2, Zenon
    <3> HIDE DEF W
    <3> QED
      BY <2>1, <3>3, Zenon
  <2>2. CASE k # 1
    <3>1. k - 1 \in 1 .. K
      BY <2>2, <1>1
    <3>2. W[k] = SubSeq(dir, 1, c[k]) /\ W[k - 1] = SubSeq(dir, 1, c[k - 1]) /\ ps[k] = SubSeq(dir, c[k - 1] + 1, c[k])
      BY <3>1, <1>3
    <3> DEFINE a == c[k - 1]  b == c[k]
    <3>3. a \in Nat /\ b \in Nat /\ a < b /\ b <= Len(dir)
      BY <1>3
    <3> HIDE DEF a, b
    <3>4. SubSeq(dir, 1, a) \o SubSeq(dir, a + 1, b) = SubSeq(dir, 1, b)
      BY <3>3
    <3>5. W[k - 1] \o ps[k] = W[k]
      BY <3>2, <3>4, Zenon DEF a, b
    <3> HIDE DEF W
    <3> QED
      BY <2>2, <3>5, Zenon
  <2> QED
    BY <2>1, <2>2
<1>5. Eq(W)
  <2> DEFINE G == [i \in 1 .. K |-> IF i = 1 THEN ps[i] ELSE W[i - 1] \o ps[i]]
  <2>1. \A i \in 1 .. K : W[i] = G[i]
    BY <1>4, Zenon
  <2>2. W = G
    BY <2>1, Zenon
  <2> HIDE DEF W
  <2> QED
    BY <2>2, <1>1
<1>6. \A i \in 1 .. K : flatten[i] = IF i = 1 THEN ps[i] ELSE flatten[i - 1] \o ps[i]
  <2>1. Eq(flatten)
    BY <1>5
  <2> HIDE DEF flatten
  <2> QED
    BY <2>1, <1>1, Zenon
<1> HIDE DEF flatten, W
<1>7. flatten[K] = W[K]
  <2> DEFINE T == {n \in Nat : n + 1 <= K => flatten[n + 1] = W[n + 1]}
  <2>1. 0 \in T
    BY <1>1, <1>4, <1>6
  <2>2. ASSUME NEW n \in T PROVE n + 1 \in T
    <3> SUFFICES ASSUME (n + 1) + 1 <= K PROVE flatten[(n + 1) + 1] = W[(n + 1) + 1]
      OBVIOUS
    <3>1. n \in Nat /\ (n + 1) + 1 \in 1 .. K /\ (n + 1) + 1 # 1 /\ ((n + 1) + 1) - 1 = n + 1 /\ n + 1 <= K
      BY <1>1
    <3>2. flatten[n + 1] = W[n + 1]
      BY <3>1
    <3> QED
      BY <3>1, <3>2, <1>4, <1>6
  <2> HIDE DEF T
  <2>3. Nat \subseteq T
    BY <2>1, <2>2, Induction
  <2> QED
    <3>1. K - 1 \in T /\ (K - 1) + 1 = K /\ K <= K
      BY <2>3, <1>1
    <3> QED
      BY <3>1 DEF T
<1>8. W[K] = SubSeq(dir, 1, Len(dir))
  BY <1>1 DEF W
<1>9. SubSeq(dir, 1, Len(dir)) = dir
  OBVIOUS
<1> QED
  BY <1>2, <1>7, <1>8, <1>9 DEF ps

\* the root directory: the first id of each leaf
RootOf(dir, c, K) == [k \in 1 .. K |-> Entry(dir[c[k - 1] + 1].id, k - 1, 1, 0)]

\* The root is itself a rising directory, one entry a leaf.
LEMMA RootIs ==
  ASSUME NEW dir \in Seq(Cell), Rising(dir), NEW K, NEW c, IsCut(c, K, Len(dir))
  PROVE  /\ RootOf(dir, c, K) \in Seq(Cell) /\ Len(RootOf(dir, c, K)) = K /\ Rising(RootOf(dir, c, K))
         /\ \A k \in 1 .. K : c[k - 1] + 1 \in 1 .. Len(dir)
<1> DEFINE r == RootOf(dir, c, K)
<1>1. K \in Nat /\ K >= 1
  BY DEF IsCut
<1>2. ASSUME NEW k \in 1 .. K PROVE c[k - 1] + 1 \in 1 .. Len(dir) /\ c[k - 1] \in Nat
  BY PieceIs
<1>3. ASSUME NEW k \in 1 .. K PROVE r[k] \in Cell /\ r[k].id = dir[c[k - 1] + 1].id
  <2>0. dir[c[k - 1] + 1] \in Cell
    BY <1>2
  <2>1. dir[c[k - 1] + 1].id \in Nat
    BY <2>0 DEF Cell
  <2>2. r[k] = Entry(dir[c[k - 1] + 1].id, k - 1, 1, 0)
    BY DEF RootOf
  <2> QED
    BY <2>1, <2>2, <1>1 DEF Entry, Cell
<1>4. r \in Seq(Cell) /\ Len(r) = K
  BY <1>1, <1>3 DEF RootOf
<1>5. ASSUME NEW i \in 1 .. K, NEW k \in 1 .. K, i < k PROVE r[i].id < r[k].id
  <2>1. c[i - 1] < c[k - 1]
    <3>1. i - 1 \in 0 .. K /\ k - 1 \in 0 .. K /\ i - 1 < k - 1
      BY <1>1, <1>5
    <3> QED
      BY <3>1, CutGrows, Len(dir) \in Nat
  <2>2. c[i - 1] + 1 < c[k - 1] + 1
    BY <2>1, <1>2
  <2>3. dir[c[i - 1] + 1].id < dir[c[k - 1] + 1].id
    BY SMTT(30), <2>2, <1>2 DEF Rising
  <2> QED
    BY <2>3, <1>3
<1> QED
  BY <1>2, <1>4, <1>5 DEF Rising

\* Search in the root, then in the leaf it names: the entry a search in the whole
\* directory finds. (read.rs: raw_tile_by_id)
LEMMA CandidateInPiece ==
  ASSUME NEW dir \in Seq(Cell), Rising(dir), NEW K, NEW c, IsCut(c, K, Len(dir)), NEW id \in Nat
  PROVE  LET i == Candidate(RootOf(dir, c, K), id) IN
         /\ i = 0 => Candidate(dir, id) = 0
         /\ i # 0 => /\ i \in 1 .. K
                     /\ LET j == Candidate(Pieces(dir, c, K)[i], id) IN
                        /\ j \in 1 .. c[i] - c[i - 1]
                        /\ Candidate(dir, id) = c[i - 1] + j
<1> DEFINE r == RootOf(dir, c, K)
           i == Candidate(r, id)
<1>1. K \in Nat /\ K >= 1 /\ c[0] = 0 /\ c[K] = Len(dir)
  BY DEF IsCut
<1>2. /\ r \in Seq(Cell) /\ Len(r) = K /\ Rising(r)
      /\ \A k \in 1 .. K : c[k - 1] + 1 \in 1 .. Len(dir) /\ r[k].id = dir[c[k - 1] + 1].id
  BY RootIs DEF RootOf, Entry
<1>3. \/ i = 0 /\ (\A k \in 1 .. K : ~(r[k].id <= id))
      \/ /\ i \in 1 .. K /\ r[i].id <= id
         /\ \A k \in i + 1 .. K : ~(r[k].id <= id)
  BY CandidateIs, <1>2
<1>4. \A m \in 1 .. Len(dir) : dir[m].id \in Nat
  <2>1. \A m \in 1 .. Len(dir) : dir[m] \in Cell
    OBVIOUS
  <2> QED
    BY <2>1 DEF Cell
<1> HIDE DEF i, r
<1>5. CASE i = 0
  <2>1. ~(dir[1].id <= id) /\ 1 \in 1 .. Len(dir)
    BY <1>1, <1>2, <1>3, <1>5, 0 + 1 = 1
  <2>2. ASSUME NEW m \in 1 .. Len(dir) PROVE ~(dir[m].id <= id)
    <3>1. m = 1 \/ dir[1].id < dir[m].id
      BY <2>1 DEF Rising
    <3> QED
      BY <3>1, <2>1, <1>4
  <2> QED
    BY <2>2, <1>5, CandidateNone, Len(dir) \in Nat DEF i, r
<1>6. CASE i # 0
  <2> DEFINE p == Pieces(dir, c, K)[i]
             a == c[i - 1]
             b == c[i]
             j == Candidate(p, id)
  <2>1. i \in 1 .. K /\ r[i].id <= id /\ \A k \in i + 1 .. K : ~(r[k].id <= id)
    BY <1>3, <1>6
  <2>2. /\ a \in Nat /\ b \in Nat /\ a < b /\ b <= Len(dir)
        /\ p \in Seq(Cell) /\ Len(p) = b - a
        /\ \A m \in 1 .. b - a : p[m] = dir[a + m]
    BY <2>1, PieceIs
  <2>3. dir[a + 1].id <= id
    BY <2>1, <1>2
  <2>4. b = Len(dir) \/ (~(dir[b + 1].id <= id) /\ b + 1 \in 1 .. Len(dir))
    <3>1. CASE i = K
      BY <3>1, <1>1
    <3>2. CASE i # K
      <4>1. i + 1 \in i + 1 .. K /\ i + 1 \in 1 .. K /\ (i + 1) - 1 = i
        BY <3>2, <2>1, <1>1
      <4> QED
        BY <4>1, <2>1, <1>2
    <3> QED
      BY <3>1, <3>2
  <2>5. \/ j = 0 /\ \A m \in 1 .. Len(p) : ~(p[m].id <= id)
        \/ /\ j \in 1 .. Len(p) /\ p[j].id <= id
           /\ \A m \in j + 1 .. Len(p) : ~(p[m].id <= id)
    <3>1. Len(p) \in Nat
      BY <2>2
    <3> HIDE DEF p
    <3> QED
      BY <3>1, CandidateIs
  <2> HIDE DEF p, a, b, j
  <2>6. /\ j \in 1 .. b - a /\ dir[a + j].id <= id
        /\ \A m \in j + 1 .. b - a : ~(dir[a + m].id <= id)
    <3>1. 1 \in 1 .. b - a /\ p[1].id <= id
      BY <2>2, <2>3
    <3>2. /\ j \in 1 .. b - a /\ p[j].id <= id
          /\ \A m \in j + 1 .. b - a : ~(p[m].id <= id)
      BY <3>1, <2>5, <2>2
    <3>3. \A m \in j + 1 .. b - a : m \in 1 .. b - a
      BY <3>2, <2>2
    <3> QED
      BY <3>2, <3>3, <2>2
  <2>7. ASSUME NEW m \in a + j + 1 .. Len(dir) PROVE ~(dir[m].id <= id)
    <3>1. CASE m <= b
      <4>1. m - a \in j + 1 .. b - a /\ a + (m - a) = m
        BY <3>1, <2>2, <2>6
      <4> QED
        BY <4>1, <2>6
    <3>2. CASE m > b
      <4>1. b # Len(dir) /\ m \in 1 .. Len(dir) /\ (m = b + 1 \/ b + 1 < m)
        BY <3>2, <2>2, <2>6
      <4>2. ~(dir[b + 1].id <= id) /\ b + 1 \in 1 .. Len(dir)
        BY <4>1, <2>4
      <4>3. m = b + 1 \/ dir[b + 1].id < dir[m].id
        BY <4>1, <4>2 DEF Rising
      <4> QED
        BY <4>1, <4>2, <4>3, <1>4
    <3> QED
      BY <3>1, <3>2, <2>2
  <2>8. a + j \in 1 .. Len(dir)
    BY <2>2, <2>6
  <2>9. Candidate(dir, id) = a + j
    BY <2>6, <2>7, <2>8, CandidateAt, Len(dir) \in Nat
  <2> QED
    BY <2>1, <2>6, <2>9, <1>6 DEF i, r, a, b, j, p
<1> QED
  BY <1>5, <1>6 DEF i, r

(***************************************************************************)
(* 4. The reader.                                                          *)
(***************************************************************************)

\* what the writer hands over: runs that never overlap, in ascending order
Orderly(dir) ==
  /\ dir \in Seq(Cell)
  /\ \A i \in DOMAIN dir : dir[i].run >= 1
  /\ \A i, j \in DOMAIN dir : i < j => dir[i].id + dir[i].run <= dir[j].id

\* Such a directory rises, so the lemmas above apply.
LEMMA OrderlyRises ==
  ASSUME NEW dir, Orderly(dir)
  PROVE  dir \in Seq(Cell) /\ Len(dir) \in Nat /\ DOMAIN dir = 1 .. Len(dir) /\ Rising(dir)
<1>1. dir \in Seq(Cell) /\ Len(dir) \in Nat /\ DOMAIN dir = 1 .. Len(dir)
  BY DEF Orderly
<1>2. \A i \in DOMAIN dir : dir[i] \in Cell
  BY <1>1
<1>3. \A i \in DOMAIN dir : dir[i].id \in Nat /\ dir[i].run \in Nat /\ dir[i].run >= 1
  BY <1>2 DEF Orderly, Cell
<1>4. Rising(dir)
  BY <1>3 DEF Orderly, Rising
<1> QED
  BY <1>1, <1>4

\* the entry that covers an id, as one search in the whole directory finds it
EntryOf(dir, id) ==
  IF Candidate(dir, id) # 0 /\ Covers(dir[Candidate(dir, id)], id) THEN dir[Candidate(dir, id)] ELSE NoTile

\* A directory that fits the root is read as it was written.
LEMMA ReadingFlat ==
  ASSUME NEW w, Orderly(w.entries)
  PROVE  /\ Flat(w).data = w.data
         /\ tile_entries(Flat(w)) = w.entries
         /\ \A id : Found(Flat(w), id) = EntryOf(w.entries, id)
<1> DEFINE dir == w.entries
           a == Flat(w)
<1>1. dir \in Seq(Cell) /\ Len(dir) \in Nat /\ DOMAIN dir = 1 .. Len(dir) /\ Rising(dir)
  BY OrderlyRises
<1>2. \A i \in 1 .. Len(dir) : ~IsLeaf(dir[i])
  BY <1>1 DEF Orderly, IsLeaf
<1>3. deserialize_directory(a.root) = dir /\ a.data = w.data
  BY <1>1, RoundTrip DEF Flat
<1>4. tile_entries(a) = dir
  <2>1. dir # <<>> => ~IsLeaf(dir[1])
    BY <1>1, <1>2
  <2> HIDE DEF a, dir
  <2> QED
    BY <1>3, <2>1 DEF tile_entries
<1>5. ASSUME NEW id PROVE Found(a, id) = EntryOf(dir, id)
  <2>1. Candidate(dir, id) # 0 => ~IsLeaf(dir[Candidate(dir, id)])
    BY <1>1, <1>2, CandidateIs
  <2> HIDE DEF a, dir
  <2> QED
    BY <1>3, <2>1 DEF Found, EntryOf
<1> QED
  BY <1>3, <1>4, <1>5

\* And so is one that was spilled into leaves, of whatever size.
LEMMA ReadingSpilled ==
  ASSUME NEW w, Orderly(w.entries), NEW n \in 1 .. Len(w.entries)
  PROVE  /\ Spilled(w, n).data = w.data
         /\ tile_entries(Spilled(w, n)) = w.entries
         /\ \A id \in Nat : Found(Spilled(w, n), id) = EntryOf(w.entries, id)
<1> DEFINE dir == w.entries
           a == Spilled(w, n)
<1>1. dir \in Seq(Cell) /\ Len(dir) \in Nat /\ DOMAIN dir = 1 .. Len(dir) /\ Rising(dir)
  BY OrderlyRises
<1>2. PICK K, c : IsCut(c, K, Len(dir)) /\ Leaves(dir, n) = Pieces(dir, c, K)
  BY <1>1, LeavesArePieces
<1> DEFINE root == RootOf(dir, c, K)
           ps == Pieces(dir, c, K)
<1>3. K \in Nat /\ K >= 1 /\ DOMAIN ps = 1 .. K
  BY <1>2 DEF IsCut, Pieces
<1>4. /\ root \in Seq(Cell) /\ Len(root) = K /\ DOMAIN root = 1 .. K /\ Rising(root)
      /\ \A k \in 1 .. K : root[k].offset = k - 1 /\ root[k].run = 0
  BY <1>1, <1>2, RootIs DEF RootOf, Entry
<1>5. ASSUME NEW k \in 1 .. K
      PROVE  /\ ps[k] \in Seq(Cell) /\ Len(ps[k]) \in Nat /\ Len(ps[k]) = c[k] - c[k - 1] /\ c[k - 1] \in Nat
             /\ Rising(ps[k]) /\ ps[k][1].id = dir[c[k - 1] + 1].id
             /\ \A j \in 1 .. Len(ps[k]) : c[k - 1] + j \in 1 .. Len(dir) /\ ps[k][j] = dir[c[k - 1] + j]
  <2>1. /\ c[k - 1] \in Nat /\ c[k] \in Nat /\ c[k - 1] < c[k] /\ c[k] <= Len(dir)
        /\ ps[k] \in Seq(Cell) /\ Len(ps[k]) = c[k] - c[k - 1]
        /\ \A j \in 1 .. c[k] - c[k - 1] : ps[k][j] = dir[c[k - 1] + j]
    <3>1. dir \in Seq(Cell) /\ IsCut(c, K, Len(dir))
      BY <1>1, <1>2
    <3> HIDE DEF dir
    <3> QED
      BY SMTT(30), <3>1, PieceIs
  <2> DEFINE p == ps[k]  x == c[k - 1]  y == c[k]
  <2> HIDE DEF p, x, y
  <2>2. /\ x \in Nat /\ y \in Nat /\ x < y /\ y <= Len(dir)
        /\ p \in Seq(Cell) /\ Len(p) = y - x
        /\ \A j \in 1 .. y - x : p[j] = dir[x + j]
    BY <2>1, Zenon DEF p, x, y
  <2> HIDE DEF dir
  <2>3. \A j \in 1 .. Len(p) : x + j \in 1 .. Len(dir) /\ p[j] = dir[x + j]
    BY <2>2, <1>1
  <2>4. ASSUME NEW i \in 1 .. Len(p), NEW j \in 1 .. Len(p), i < j
        PROVE  p[i].id < p[j].id
    <3>1. x + i < x + j
      BY <2>2, <2>4
    <3>2. dir[x + i].id < dir[x + j].id
      BY <3>1, <2>3, <1>1 DEF Rising
    <3> QED
      BY <3>2, <2>3
  <2>5. Rising(p) /\ p[1].id = dir[x + 1].id /\ Len(p) \in Nat
    BY <2>2, <2>3, <2>4 DEF Rising
  <2> QED
    BY <2>2, <2>3, <2>5, Zenon DEF p, x, y
<1>6. /\ a.data = w.data
      /\ a.root = serialize_directory(root)
      /\ \A k \in 1 .. K : a.leaves[k] = serialize_directory(ps[k])
  <2>1. Leaves(dir, n) = ps
    BY <1>2
  <2>2. root = [k \in 1 .. K |-> Entry(ps[k][1].id, k - 1, 1, 0)]
    <3>1. \A k \in 1 .. K : Entry(ps[k][1].id, k - 1, 1, 0) = Entry(dir[c[k - 1] + 1].id, k - 1, 1, 0)
      BY <1>5
    <3> HIDE DEF ps, dir
    <3> QED
      BY <3>1, Zenon DEF RootOf
  <2> HIDE DEF ps, root
  <2> QED
    BY <2>1, <2>2, <1>3 DEF Spilled
<1>7. deserialize_directory(a.root) = root
  BY <1>4, <1>6, RoundTrip
<1>8. \A k \in 1 .. K : deserialize_directory(a.leaves[k]) = ps[k]
  BY <1>5, <1>6, RoundTrip
<1> HIDE DEF a, ps, root, dir
<1>9. \A k \in 1 .. K : IsLeaf(root[k]) /\ LeafOf(a, root[k]) = ps[k]
  <2>1. \A k \in 1 .. K : root[k].offset + 1 = k
    BY <1>4
  <2> QED
    BY <2>1, <1>4, <1>8 DEF IsLeaf, LeafOf
<1>10. tile_entries(a) = dir
  <2>1. root # <<>> /\ IsLeaf(root[1])
    BY <1>3, <1>4, <1>9
  <2>2. ps = [k \in 1 .. K |-> ps[k]]
    BY DEF ps, Pieces
  <2>3. [k \in DOMAIN root |-> LeafOf(a, root[k])] = ps
    BY <2>2, <1>4, <1>9
  <2>4. FlattenSeq(ps) = dir
    BY <1>1, <1>2, Flattened DEF ps
  <2> QED
    BY <2>1, <2>3, <2>4, <1>7, Zenon DEF tile_entries
<1>11. ASSUME NEW id \in Nat PROVE Found(a, id) = EntryOf(dir, id)
  <2> DEFINE i == Candidate(root, id)
             j == Candidate(ps[i], id)
             d == IF i # 0 /\ IsLeaf(root[i]) THEN LeafOf(a, root[i]) ELSE root
  <2>1. /\ i = 0 => Candidate(dir, id) = 0
        /\ i # 0 => /\ i \in 1 .. K /\ j \in 1 .. c[i] - c[i - 1]
                    /\ Candidate(dir, id) = c[i - 1] + j
    BY <1>1, <1>2, CandidateInPiece DEF root, ps
  <2>2. Found(a, id) = IF Candidate(d, id) = 0 THEN NoTile
                       ELSE IF Covers(d[Candidate(d, id)], id) THEN d[Candidate(d, id)] ELSE NoTile
    BY <1>7, Zenon DEF Found
  <2>3. CASE i = 0
    <3>1. d = root /\ Candidate(d, id) = 0
      BY <2>3
    <3> QED
      BY <3>1, <2>1, <2>2, <2>3 DEF EntryOf
  <2>4. CASE i # 0
    <3>1. d = ps[i] /\ i \in 1 .. K
      BY <2>1, <2>4, <1>9
    <3>2. j \in 1 .. Len(ps[i]) /\ Candidate(dir, id) = c[i - 1] + j
      BY <2>1, <2>4, <1>5
    <3>3. ps[i][j] = dir[c[i - 1] + j] /\ c[i - 1] + j # 0 /\ j # 0
      BY SMTT(30), <3>1, <3>2, <1>5
    <3> HIDE DEF d, i
    <3>4. Candidate(d, id) = j /\ d[j] = dir[Candidate(dir, id)] /\ Candidate(dir, id) # 0
      BY <3>1, <3>2, <3>3
    <3> HIDE DEF j
    <3> QED
      BY <3>3, <3>4, <2>2 DEF EntryOf
  <2> QED
    BY <2>3, <2>4
<1> QED
  BY <1>6, <1>10, <1>11 DEF a, dir

\* Whatever `finish` assembles, the reader finds the entries of the writer.
\* (write.rs: finish; read.rs: tile_entries, raw_tile_by_id)
LEMMA Reading ==
  ASSUME NEW w, Orderly(w.entries), NEW a \in Assembled(w)
  PROVE  /\ a.data = w.data
         /\ tile_entries(a) = w.entries
         /\ \A id \in Nat : Found(a, id) = EntryOf(w.entries, id)
BY ReadingFlat, ReadingSpilled DEF Assembled

\* An id is found in the entry that covers it, and in no other.
LEMMA EntryOfIs ==
  ASSUME NEW dir, Orderly(dir), NEW id \in Nat
  PROVE  /\ \A i \in DOMAIN dir : id \in Ids(dir[i]) => EntryOf(dir, id) = dir[i]
         /\ (\A i \in DOMAIN dir : id \notin Ids(dir[i])) => EntryOf(dir, id) = NoTile
<1>1. dir \in Seq(Cell) /\ Len(dir) \in Nat /\ DOMAIN dir = 1 .. Len(dir)
  BY OrderlyRises
<1> DEFINE j == Candidate(dir, id)
<1>2. \A i \in 1 .. Len(dir) : dir[i].id \in Nat /\ dir[i].run \in Nat /\ dir[i].run >= 1
  <2>1. \A i \in 1 .. Len(dir) : dir[i] \in Cell
    BY <1>1
  <2> QED
    BY <2>1, <1>1 DEF Cell, Orderly
<1>3. \/ j = 0 /\ (\A i \in 1 .. Len(dir) : ~(dir[i].id <= id))
      \/ /\ j \in 1 .. Len(dir) /\ dir[j].id <= id
         /\ \A i \in j + 1 .. Len(dir) : ~(dir[i].id <= id)
  BY <1>1, CandidateIs
<1> HIDE DEF j
<1>4. ASSUME NEW i \in 1 .. Len(dir) PROVE id \in Ids(dir[i]) <=> dir[i].id <= id /\ Covers(dir[i], id)
  BY <1>2 DEF Ids, Covers
<1>5. ASSUME NEW i \in 1 .. Len(dir), id \in Ids(dir[i]) PROVE EntryOf(dir, id) = dir[i]
  <2>1. dir[i].id <= id /\ id < dir[i].id + dir[i].run
    BY <1>4, <1>5 DEF Covers
  <2>2. j \in 1 .. Len(dir) /\ dir[j].id <= id /\ ~(j < i)
    BY <1>3, <2>1
  <2>3. ~(i < j)
    <3> SUFFICES ASSUME i < j PROVE FALSE
      OBVIOUS
    <3>1. dir[i].id + dir[i].run <= dir[j].id
      BY <2>2, <1>1 DEF Orderly
    <3> QED
      BY <3>1, <2>1, <2>2, <1>2
  <2>4. i = j
    BY <2>2, <2>3
  <2> QED
    BY <2>4, <2>2, <1>4, <1>5 DEF EntryOf, j
<1>6. ASSUME \A i \in 1 .. Len(dir) : id \notin Ids(dir[i]) PROVE EntryOf(dir, id) = NoTile
  BY <1>3, <1>4, <1>6 DEF EntryOf, j
<1> QED
  BY <1>1, <1>5, <1>6

(***************************************************************************)
(* 5. The writer.                                                          *)
(***************************************************************************)

\* the bytes an entry or a dedup record stands for
Slice(w, p) == SubSeq(w.data, p.offset + 1, p.offset + p.length)
\* the ids of a directory
AllIds(dir) == UNION {Ids(dir[i]) : i \in DOMAIN dir}

\* the writer's ids: the entries in order, the last one ending at the last id
OrderOK(w) ==
  /\ w.last \in Nat /\ w.addressed \in Nat
  /\ Orderly(w.entries)
  /\ w.addressed = 0 <=> w.entries = <<>>
  /\ w.entries # <<>> => Last(w.entries).id + Last(w.entries).run = w.last + 1

\* inside the data section
IsStored(w, p) == p.offset \in Nat /\ p.length \in Nat /\ p.offset + p.length <= Len(w.data)

\* the data section: every dedup record is a blob with its hash, and every entry
\* points at one
StoreOK(w, B) ==
  /\ w.data \in Seq(Nat)
  /\ \A h \in DOMAIN w.dedup :
       IsStored(w, w.dedup[h]) /\ Slice(w, w.dedup[h]) \in B /\ Hash(Slice(w, w.dedup[h])) = h
  /\ \A i \in DOMAIN w.entries : \E h \in DOMAIN w.dedup :
       w.entries[i].offset = w.dedup[h].offset /\ w.entries[i].length = w.dedup[h].length

\* no two blobs at one offset: what an empty blob breaks
Apart(w) == \A h, k \in DOMAIN w.dedup : w.dedup[h].offset = w.dedup[k].offset => h = k

\* the writer holds what it was given
Holds(w, g) ==
  /\ DOMAIN g = AllIds(w.entries)
  /\ \A i \in DOMAIN w.entries : \A id \in Ids(w.entries[i]) : g[id] = Slice(w, w.entries[i])

\* no two entries could be one
Maximal(w) ==
  \A i \in 1 .. Len(w.entries) - 1 :
    LET e == w.entries[i]  n == w.entries[i + 1] IN
    ~(e.id + e.run = n.id /\ e.offset = n.offset /\ e.length = n.length)

\* blobs that their hashes tell apart
Told(B) == B \subseteq Seq(Nat) /\ \A b, c \in B : Hash(b) = Hash(c) => b = c

\* `add`, the decision to join the last run taken out of it
Wrote(w, id, b, join) ==
  [last      |-> id,
   addressed |-> w.addressed + 1,
   data      |-> IF Hash(b) \in DOMAIN w.dedup THEN w.data ELSE w.data \o b,
   dedup     |-> [h \in DOMAIN w.dedup \cup {Hash(b)} |-> IF h = Hash(b) THEN Place(w, b) ELSE w.dedup[h]],
   entries   |-> IF join
                 THEN [w.entries EXCEPT ![Len(w.entries)].run = @ + 1]
                 ELSE Append(w.entries, Entry(id, Place(w, b).offset, Place(w, b).length, 1))]

\* the id follows the last run
Adjoins(w, id) == w.entries # <<>> /\ Last(w.entries).id + Last(w.entries).run = id
\* the same bytes of the data section
SamePlace(p, q) == p.offset = q.offset /\ p.length = q.length

\* `add` is Wrote with the decision the code takes. (write.rs: add)
LEMMA AddedIsWrote ==
  ASSUME NEW w, NEW id, NEW b
  PROVE  Added(w, id, b) = Wrote(w, id, b, ExtendsRun(w, id, Place(w, b).offset))
BY DEF Added, Wrote

\* Appending bytes leaves the slices before them.
LEMMA SliceKept ==
  ASSUME NEW s \in Seq(Nat), NEW t \in Seq(Nat), NEW m \in Nat, NEW n \in Nat, m + n <= Len(s)
  PROVE  SubSeq(s \o t, m + 1, m + n) = SubSeq(s, m + 1, m + n)
OBVIOUS

\* And the bytes appended are a slice.
LEMMA SliceNew ==
  ASSUME NEW s \in Seq(Nat), NEW t \in Seq(Nat)
  PROVE  SubSeq(s \o t, Len(s) + 1, Len(s) + Len(t)) = t
OBVIOUS

\* A slice inside a sequence has the length asked.
LEMMA SliceLen ==
  ASSUME NEW s \in Seq(Nat), NEW m \in Nat, NEW n \in Nat, m + n <= Len(s)
  PROVE  SubSeq(s, m + 1, m + n) \in Seq(Nat) /\ Len(SubSeq(s, m + 1, m + n)) = n
OBVIOUS

\* After a write everything stored before is where it was, and the new blob is at its
\* place, written just now or long ago. (write.rs: add)
LEMMA Placed ==
  ASSUME NEW B, Told(B), NEW w, StoreOK(w, B), NEW b \in B, NEW id, NEW join
  PROVE  LET n == Wrote(w, id, b, join) IN
         /\ n.data \in Seq(Nat)
         /\ \A p : IsStored(w, p) => IsStored(n, p) /\ Slice(n, p) = Slice(w, p)
         /\ IsStored(n, Place(w, b)) /\ Place(w, b).length = Len(b) /\ Slice(n, Place(w, b)) = b
<1> DEFINE n == Wrote(w, id, b, join)
<1>1. w.data \in Seq(Nat) /\ b \in Seq(Nat) /\ Len(w.data) \in Nat /\ Len(b) \in Nat
  BY DEF Told, StoreOK
<1>2. n.data = IF Hash(b) \in DOMAIN w.dedup THEN w.data ELSE w.data \o b
  BY DEF Wrote
<1> HIDE DEF n
<1>3. n.data \in Seq(Nat) /\ Len(w.data) <= Len(n.data)
  BY <1>1, <1>2
<1>4. ASSUME NEW p, IsStored(w, p) PROVE IsStored(n, p) /\ Slice(n, p) = Slice(w, p)
  <2>1. SubSeq(w.data \o b, p.offset + 1, p.offset + p.length) = SubSeq(w.data, p.offset + 1, p.offset + p.length)
    BY <1>1, <1>4, SliceKept DEF IsStored
  <2>2. Slice(n, p) = Slice(w, p)
    BY <1>2, <2>1 DEF Slice
  <2>3. IsStored(n, p)
    BY <1>1, <1>3, <1>4 DEF IsStored
  <2> QED
    BY <2>2, <2>3
<1>5. CASE Hash(b) \in DOMAIN w.dedup
  <2>1. Place(w, b) = w.dedup[Hash(b)]
    BY <1>5 DEF Place
  <2>2. IsStored(w, Place(w, b)) /\ Slice(w, Place(w, b)) \in B /\ Hash(Slice(w, Place(w, b))) = Hash(b)
    BY <2>1, <1>5 DEF StoreOK
  <2>3. Slice(w, Place(w, b)) = b
    BY <2>2 DEF Told
  <2>4. Place(w, b).length = Len(b)
    BY <1>1, <2>2, <2>3, SliceLen DEF IsStored, Slice
  <2> QED
    BY <1>3, <1>4, <2>2, <2>3, <2>4 DEF n
<1>6. CASE ~(Hash(b) \in DOMAIN w.dedup)
  <2>1. Place(w, b).offset = Len(w.data) /\ Place(w, b).length = Len(b)
    BY <1>6 DEF Place
  <2>2. n.data = w.data \o b /\ Len(n.data) = Len(w.data) + Len(b)
    BY <1>1, <1>2, <1>6
  <2>3. Slice(n, Place(w, b)) = b
    BY <1>1, <2>1, <2>2, SliceNew DEF Slice
  <2>4. IsStored(n, Place(w, b))
    BY <1>1, <2>1, <2>2 DEF IsStored
  <2> QED
    BY <1>3, <1>4, <2>1, <2>3, <2>4 DEF n
<1> QED
  BY <1>5, <1>6

\* The last entry of a directory.
LEMMA LastEntry ==
  ASSUME NEW dir, Orderly(dir), dir # <<>>
  PROVE  Len(dir) \in DOMAIN dir /\ Last(dir) = dir[Len(dir)] /\ Last(dir) \in Cell /\ Len(dir) >= 1
<1>1. dir \in Seq(Cell) /\ Len(dir) \in Nat /\ DOMAIN dir = 1 .. Len(dir)
  BY OrderlyRises
<1>2. Len(dir) >= 1
  BY <1>1
<1> QED
  BY <1>1, <1>2 DEF Last

\* one more id in the last run
Joined(dir) == [dir EXCEPT ![Len(dir)].run = @ + 1]

\* Joining changes the length of the last run and nothing else.
LEMMA JoinedIs ==
  ASSUME NEW dir, Orderly(dir), dir # <<>>
  PROVE  /\ Joined(dir) \in Seq(Cell) /\ Len(Joined(dir)) = Len(dir)
         /\ \A i \in 1 .. Len(dir) :
              /\ Joined(dir)[i] \in Cell
              /\ Joined(dir)[i].id = dir[i].id /\ SamePlace(Joined(dir)[i], dir[i])
              /\ Joined(dir)[i].run = IF i = Len(dir) THEN dir[i].run + 1 ELSE dir[i].run
<1> DEFINE j == Joined(dir)
<1>1. dir \in Seq(Cell) /\ Len(dir) \in Nat /\ DOMAIN dir = 1 .. Len(dir) /\ Len(dir) >= 1
  BY OrderlyRises, LastEntry
<1>2. j = [i \in 1 .. Len(dir) |-> IF i = Len(dir) THEN [dir[i] EXCEPT !.run = @ + 1] ELSE dir[i]]
  BY <1>1 DEF Joined
<1>3. \A i \in 1 .. Len(dir) : dir[i] \in Cell
  BY <1>1
<1> HIDE DEF j
<1>4. ASSUME NEW i \in 1 .. Len(dir)
      PROVE  /\ j[i] \in Cell
             /\ j[i].id = dir[i].id /\ SamePlace(j[i], dir[i])
             /\ j[i].run = IF i = Len(dir) THEN dir[i].run + 1 ELSE dir[i].run
  <2>1. j[i] = IF i = Len(dir) THEN [dir[i] EXCEPT !.run = @ + 1] ELSE dir[i]
    BY <1>2
  <2> QED
    BY SMTT(30), <2>1, <1>3 DEF Cell, SamePlace
<1>5. j \in Seq(Cell) /\ Len(j) = Len(dir)
  <2>1. \A i \in 1 .. Len(dir) : j[i] \in Cell
    BY <1>4
  <2> QED
    BY <2>1, <1>2, <1>1
<1> QED
  BY <1>4, <1>5 DEF j

\* An id of a directory is an id of one of its entries.
LEMMA AllIdsAre ==
  ASSUME NEW dir, NEW id
  PROVE  id \in AllIds(dir) <=> \E i \in DOMAIN dir : id \in Ids(dir[i])
BY DEF AllIds

\* A write of an ascending id keeps the order, adds exactly that id, and leaves every
\* other id in an entry at the same place. (write.rs: add)
LEMMA WroteOrder ==
  ASSUME NEW w, OrderOK(w), NEW id \in Nat, Ascending(w, id), NEW b,
         Place(w, b).offset \in Nat, Place(w, b).length \in Nat,
         NEW join \in BOOLEAN, join => Adjoins(w, id)
  PROVE  LET n == Wrote(w, id, b, join) IN
         /\ OrderOK(n)
         /\ AllIds(n.entries) = AllIds(w.entries) \cup {id}
         /\ \A i \in DOMAIN n.entries : \A x \in Ids(n.entries[i]) :
              \/ x = id /\ i = Len(n.entries) /\ (~join => SamePlace(n.entries[i], Place(w, b)))
              \/ i \in DOMAIN w.entries /\ x \in Ids(w.entries[i]) /\ SamePlace(n.entries[i], w.entries[i])
         /\ \A i \in DOMAIN n.entries :
              \/ i \in DOMAIN w.entries /\ SamePlace(n.entries[i], w.entries[i])
              \/ SamePlace(n.entries[i], Place(w, b))
<1> DEFINE n == Wrote(w, id, b, join)
           dir == w.entries
           N == Len(dir)
<1>1. /\ dir \in Seq(Cell) /\ N \in Nat /\ DOMAIN dir = 1 .. N
      /\ \A i \in 1 .. N : dir[i] \in Cell
  BY OrderlyRises DEF OrderOK
<1>2. /\ \A i \in 1 .. N : dir[i].id \in Nat /\ dir[i].run \in Nat /\ dir[i].run >= 1
      /\ \A i, j \in 1 .. N : i < j => dir[i].id + dir[i].run <= dir[j].id
  BY <1>1 DEF OrderOK, Orderly, Cell
<1>3. dir # <<>> => N >= 1 /\ Last(dir) = dir[N] /\ dir[N].id + dir[N].run = w.last + 1 /\ id > w.last
  BY LastEntry DEF OrderOK, Ascending
<1>4. \A i \in 1 .. N : dir[i].id + dir[i].run <= id
  <2> SUFFICES ASSUME NEW i \in 1 .. N PROVE dir[i].id + dir[i].run <= id
    OBVIOUS
  <2>1. dir # <<>> /\ N \in 1 .. N
    BY <1>1
  <2>2. dir[N].id + dir[N].run <= id
    BY <2>1, <1>3 DEF OrderOK
  <2>3. i = N \/ dir[i].id + dir[i].run <= dir[N].id
    BY <2>1, <1>2
  <2>4. /\ dir[i].id \in Nat /\ dir[i].run \in Nat
        /\ dir[N].id \in Nat /\ dir[N].run \in Nat /\ dir[N].run >= 1
    BY <2>1, <1>2
  <2> HIDE DEF dir, N
  <2> QED
    BY <2>2, <2>3, <2>4
<1>5. CASE join
  <2> DEFINE e == n.entries
  <2>1. Adjoins(w, id) /\ e = Joined(dir) /\ dir # <<>>
    BY <1>5 DEF Adjoins, Wrote, Joined
  <2>2. N >= 1 /\ N \in 1 .. N /\ dir[N].id + dir[N].run = id
    BY <2>1, <1>3 DEF Adjoins
  <2>3. /\ e \in Seq(Cell) /\ Len(e) = N /\ DOMAIN e = 1 .. N /\ e # <<>>
        /\ \A i \in 1 .. N : /\ e[i].id = dir[i].id /\ SamePlace(e[i], dir[i])
                             /\ e[i].run = IF i = N THEN dir[i].run + 1 ELSE dir[i].run
    BY <2>1, <2>2, <1>1, JoinedIs DEF OrderOK
  <2> HIDE DEF e
  <2>4. Orderly(e)
    <3>1. \A i \in 1 .. N : e[i].run >= 1
      BY <2>3, <1>2
    <3>2. \A i, j \in 1 .. N : i < j => e[i].id + e[i].run <= e[j].id
      BY <2>3, <1>2
    <3> QED
      BY <3>1, <3>2, <2>3 DEF Orderly
  <2>5. Last(e).id + Last(e).run = id + 1
    <3>1. Last(e) = e[N] /\ e[N].id = dir[N].id /\ e[N].run = dir[N].run + 1
      BY <2>2, <2>3 DEF Last
    <3>2. dir[N].id \in Nat /\ dir[N].run \in Nat
      BY <2>2, <1>2
    <3> QED
      BY SMTT(30), <3>1, <3>2, <2>2
  <2>6. OrderOK(n)
    <3>1. n.last = id /\ n.addressed = w.addressed + 1 /\ n.entries = e
      BY DEF Wrote, e
    <3> HIDE DEF n
    <3> QED
      BY SMTT(30), <3>1, <2>3, <2>4, <2>5 DEF OrderOK
  <2>7. \A i \in 1 .. N : \A x : x \in Ids(e[i]) <=> x \in Ids(dir[i]) \/ (i = N /\ x = id)
    <3> SUFFICES ASSUME NEW i \in 1 .. N PROVE \A x : x \in Ids(e[i]) <=> x \in Ids(dir[i]) \/ (i = N /\ x = id)
      OBVIOUS
    <3>1. dir[i].id \in Nat /\ dir[i].run \in Nat /\ dir[i].run >= 1
      BY <1>2
    <3>2. e[i].id = dir[i].id /\ e[i].run = IF i = N THEN dir[i].run + 1 ELSE dir[i].run
      BY <2>3
    <3>3. i = N => dir[i].id + dir[i].run = id
      BY <2>2
    <3> QED
      BY SMTT(30), <3>1, <3>2, <3>3 DEF Ids
  <2>8. AllIds(e) = AllIds(dir) \cup {id}
    <3>1. \A x : x \in AllIds(e) <=> \E i \in 1 .. N : x \in Ids(e[i])
      BY AllIdsAre, <2>3
    <3>2. \A x : x \in AllIds(dir) <=> \E i \in 1 .. N : x \in Ids(dir[i])
      BY AllIdsAre, <1>1
    <3> HIDE DEF dir, N
    <3> QED
      BY <3>1, <3>2, <2>2, <2>7
  <2> QED
    BY <1>1, <1>5, <2>3, <2>6, <2>7, <2>8 DEF e
<1>6. CASE ~join
  <2> DEFINE e == n.entries
             new == Entry(id, Place(w, b).offset, Place(w, b).length, 1)
  <2>1. e = Append(dir, new)
    BY <1>6 DEF Wrote
  <2>2. new \in Cell /\ new.id = id /\ new.run = 1 /\ SamePlace(new, Place(w, b))
    BY DEF Entry, Cell, SamePlace
  <2> HIDE DEF e, new
  <2>3. /\ e \in Seq(Cell) /\ Len(e) = N + 1 /\ DOMAIN e = 1 .. N + 1 /\ e # <<>>
        /\ \A i \in 1 .. N : e[i] = dir[i]
        /\ e[N + 1] = new
    BY <2>1, <2>2, <1>1
  <2>4. Orderly(e)
    <3>1. \A i \in 1 .. N + 1 : e[i].run >= 1
      <4>1. ASSUME NEW i \in 1 .. N + 1 PROVE e[i].run >= 1
        <5>1. i \in 1 .. N \/ i = N + 1
          BY <1>1
        <5> QED
          BY <5>1, <2>2, <2>3, <1>2
      <4> QED
        BY <4>1
    <3>2. ASSUME NEW i \in 1 .. N + 1, NEW j \in 1 .. N + 1, i < j PROVE e[i].id + e[i].run <= e[j].id
      <4>1. i \in 1 .. N /\ (j \in 1 .. N \/ j = N + 1)
        BY <3>2, <1>1
      <4> QED
        BY <4>1, <2>2, <2>3, <1>2, <1>4, <3>2
    <3> QED
      BY <3>1, <3>2, <2>3 DEF Orderly
  <2>5. Last(e).id + Last(e).run = id + 1
    BY <2>2, <2>3 DEF Last
  <2>6. OrderOK(n)
    <3>1. n.last = id /\ n.addressed = w.addressed + 1 /\ n.entries = e
      BY DEF Wrote, e
    <3> HIDE DEF n
    <3> QED
      BY <3>1, <2>3, <2>4, <2>5 DEF OrderOK
  <2>7. \A x : x \in Ids(new) <=> x = id
    BY <2>2 DEF Ids
  <2>8. AllIds(e) = AllIds(dir) \cup {id}
    <3>1. \A x : x \in AllIds(e) <=> \E i \in 1 .. N + 1 : x \in Ids(e[i])
      BY AllIdsAre, <2>3
    <3>2. \A x : x \in AllIds(dir) <=> \E i \in 1 .. N : x \in Ids(dir[i])
      BY AllIdsAre, <1>1
    <3>3. \A i : i \in 1 .. N + 1 <=> i \in 1 .. N \/ i = N + 1
      BY <1>1
    <3>4. ASSUME NEW x PROVE x \in AllIds(e) <=> x \in AllIds(dir) \/ x = id
      <4> HIDE DEF dir, N
      <4> QED
        BY <3>1, <3>2, <3>3, <2>3, <2>7
    <3> QED
      BY <3>4
  <2>9. ASSUME NEW i \in DOMAIN e
        PROVE  \/ i \in DOMAIN dir /\ e[i] = dir[i]
               \/ i = Len(e) /\ e[i] = new
    BY <2>3, <1>1
  <2>10. \A d : SamePlace(d, d)
    BY DEF SamePlace
  <2> QED
    BY <1>6, <2>2, <2>6, <2>7, <2>8, <2>9, <2>10 DEF e
<1> QED
  BY <1>5, <1>6

\* A place has an offset and a length.
LEMMA PlaceIsNat ==
  ASSUME NEW B, Told(B), NEW w, StoreOK(w, B), NEW b \in B
  PROVE  Place(w, b).offset \in Nat /\ Place(w, b).length \in Nat
BY Placed DEF IsStored

\* Every entry is one of the blobs, inside the data section.
LEMMA EntryStored ==
  ASSUME NEW B, NEW w, StoreOK(w, B), NEW i \in DOMAIN w.entries
  PROVE  IsStored(w, w.entries[i]) /\ Slice(w, w.entries[i]) \in B
<1>1. PICK h \in DOMAIN w.dedup :
        w.entries[i].offset = w.dedup[h].offset /\ w.entries[i].length = w.dedup[h].length
  BY DEF StoreOK
<1>2. IsStored(w, w.dedup[h]) /\ Slice(w, w.dedup[h]) \in B
  BY DEF StoreOK
<1> QED
  BY <1>1, <1>2 DEF IsStored, Slice

\* A write keeps the data section sound, empty blobs or not. (write.rs: add)
LEMMA WroteStore ==
  ASSUME NEW B, Told(B), NEW w, StoreOK(w, B), OrderOK(w), NEW b \in B,
         NEW id \in Nat, Ascending(w, id), NEW join \in BOOLEAN, join => Adjoins(w, id)
  PROVE  StoreOK(Wrote(w, id, b, join), B)
<1> DEFINE n == Wrote(w, id, b, join)
           spot == Place(w, b)
<1>1. /\ n.data \in Seq(Nat)
      /\ \A p : IsStored(w, p) => IsStored(n, p) /\ Slice(n, p) = Slice(w, p)
      /\ IsStored(n, spot) /\ Slice(n, spot) = b
  BY Placed
<1>2. n.dedup = [h \in DOMAIN w.dedup \cup {Hash(b)} |-> IF h = Hash(b) THEN spot ELSE w.dedup[h]]
  BY DEF Wrote
<1>3. \A i \in DOMAIN n.entries :
         \/ i \in DOMAIN w.entries /\ SamePlace(n.entries[i], w.entries[i])
         \/ SamePlace(n.entries[i], spot)
  BY WroteOrder, PlaceIsNat
<1> HIDE DEF n
<1>4. DOMAIN n.dedup = DOMAIN w.dedup \cup {Hash(b)} /\ n.dedup[Hash(b)] = spot
  BY <1>2
<1>5. Hash(b) \in DOMAIN w.dedup => spot = w.dedup[Hash(b)]
  BY DEF Place
<1>6. \A h \in DOMAIN w.dedup : n.dedup[h] = w.dedup[h]
  BY <1>2, <1>5
<1> HIDE DEF spot
<1>7. ASSUME NEW h \in DOMAIN n.dedup
      PROVE  IsStored(n, n.dedup[h]) /\ Slice(n, n.dedup[h]) \in B /\ Hash(Slice(n, n.dedup[h])) = h
  <2>1. CASE h = Hash(b)
    BY <2>1, <1>1, <1>4
  <2>2. CASE h \in DOMAIN w.dedup
    <3>1. IsStored(w, w.dedup[h]) /\ Slice(w, w.dedup[h]) \in B /\ Hash(Slice(w, w.dedup[h])) = h
      BY <2>2 DEF StoreOK
    <3> QED
      BY <3>1, <2>2, <1>1, <1>6
  <2> QED
    BY <2>1, <2>2, <1>4
<1>8. ASSUME NEW i \in DOMAIN n.entries
      PROVE  \E h \in DOMAIN n.dedup :
               n.entries[i].offset = n.dedup[h].offset /\ n.entries[i].length = n.dedup[h].length
  <2>1. CASE SamePlace(n.entries[i], spot)
    BY <2>1, <1>4 DEF SamePlace
  <2>2. CASE i \in DOMAIN w.entries /\ SamePlace(n.entries[i], w.entries[i])
    <3>1. PICK h \in DOMAIN w.dedup :
            w.entries[i].offset = w.dedup[h].offset /\ w.entries[i].length = w.dedup[h].length
      BY <2>2 DEF StoreOK
    <3> QED
      BY <3>1, <2>2, <1>4, <1>6 DEF SamePlace
  <2> QED
    BY <2>1, <2>2, <1>3
<1> QED
  BY <1>1, <1>7, <1>8 DEF StoreOK, n

\* A write holds one blob more, if a joined run is really of that blob.
\* (write.rs: add)
LEMMA WroteHolds ==
  ASSUME NEW B, Told(B), NEW w, StoreOK(w, B), OrderOK(w), NEW b \in B,
         NEW id \in Nat, Ascending(w, id), NEW join \in BOOLEAN, join => Adjoins(w, id),
         NEW g, Holds(w, g), join => SamePlace(Last(w.entries), Place(w, b))
  PROVE  Holds(Wrote(w, id, b, join), [i \in DOMAIN g \cup {id} |-> IF i = id THEN b ELSE g[i]])
<1> DEFINE n == Wrote(w, id, b, join)
           spot == Place(w, b)
           f == [i \in DOMAIN g \cup {id} |-> IF i = id THEN b ELSE g[i]]
<1>1. /\ \A p : IsStored(w, p) => IsStored(n, p) /\ Slice(n, p) = Slice(w, p)
      /\ IsStored(n, spot) /\ Slice(n, spot) = b
  BY Placed
<1>2. /\ AllIds(n.entries) = AllIds(w.entries) \cup {id}
      /\ OrderOK(n)
      /\ \A i \in DOMAIN n.entries : \A x \in Ids(n.entries[i]) :
            \/ x = id /\ i = Len(n.entries) /\ (~join => SamePlace(n.entries[i], spot))
            \/ i \in DOMAIN w.entries /\ x \in Ids(w.entries[i]) /\ SamePlace(n.entries[i], w.entries[i])
  BY SMTT(30), WroteOrder, PlaceIsNat
<1>3. join => w.entries # <<>> /\ n.entries = Joined(w.entries)
  BY DEF Wrote, Joined, Adjoins
<1>4. \A i \in DOMAIN w.entries : w.entries[i].id \in Nat /\ w.entries[i].run \in Nat
  <2>1. w.entries \in Seq(Cell)
    BY DEF OrderOK, Orderly
  <2>2. \A i \in DOMAIN w.entries : w.entries[i] \in Cell
    BY <2>1
  <2> QED
    BY <2>2 DEF Cell
<1>5. \A i \in DOMAIN w.entries : id \notin Ids(w.entries[i])
  <2> SUFFICES ASSUME NEW i \in DOMAIN w.entries PROVE id \notin Ids(w.entries[i])
    OBVIOUS
  <2> DEFINE dir == w.entries  N == Len(dir)
  <2>1. /\ dir # <<>> /\ N \in DOMAIN dir /\ i \in 1 .. N /\ N \in Nat
        /\ w.last \in Nat /\ dir[N].id + dir[N].run = w.last + 1 /\ id > w.last
    BY LastEntry, OrderlyRises DEF OrderOK, Ascending
  <2>2. i = N \/ dir[i].id + dir[i].run <= dir[N].id
    BY <2>1 DEF OrderOK, Orderly
  <2>3. dir[i].id \in Nat /\ dir[i].run \in Nat /\ dir[N].id \in Nat /\ dir[N].run \in Nat
    BY <2>1, <1>4
  <2> HIDE DEF dir, N
  <2>4. dir[i].id + dir[i].run <= id
    BY SMTT(30), <2>1, <2>2, <2>3
  <2>5. id \notin Ids(dir[i])
    BY <2>3, <2>4 DEF Ids
  <2> QED
    BY <2>5 DEF dir
<1> HIDE DEF n, spot
<1>6. DOMAIN f = AllIds(n.entries)
  BY <1>2 DEF Holds
<1>7. ASSUME NEW i \in DOMAIN n.entries, NEW x \in Ids(n.entries[i])
      PROVE  f[x] = Slice(n, n.entries[i])
  <2>1. CASE x = id /\ i = Len(n.entries)
    <3>1. SamePlace(n.entries[i], spot)
      <4>1. CASE join
        <5>1. /\ w.entries # <<>> /\ n.entries = Joined(w.entries) /\ Len(n.entries) = Len(w.entries)
              /\ Last(w.entries) = w.entries[i] /\ i \in 1 .. Len(w.entries)
          BY <4>1, <2>1, <1>3, JoinedIs, LastEntry, OrderlyRises DEF OrderOK
        <5>2. SamePlace(n.entries[i], w.entries[i]) /\ SamePlace(w.entries[i], spot)
          BY <5>1, <4>1, JoinedIs DEF OrderOK, spot
        <5> QED
          BY <5>2 DEF SamePlace
      <4>2. CASE ~join
        BY <4>2, <2>1, <1>2, <1>5
      <4> QED
        BY <4>1, <4>2
    <3>2. Slice(n, n.entries[i]) = Slice(n, spot)
      BY <3>1 DEF Slice, SamePlace
    <3>3. f[x] = b
      BY <2>1
    <3> QED
      BY <3>2, <3>3, <1>1
  <2>2. CASE i \in DOMAIN w.entries /\ x \in Ids(w.entries[i]) /\ SamePlace(n.entries[i], w.entries[i])
    <3>1. x # id /\ x \in DOMAIN g /\ g[x] = Slice(w, w.entries[i])
      BY <2>2, <1>5, AllIdsAre DEF Holds
    <3>2. f[x] = g[x]
      BY <3>1
    <3>3. Slice(n, w.entries[i]) = Slice(w, w.entries[i])
      BY <2>2, <1>1, EntryStored
    <3>4. Slice(n, n.entries[i]) = Slice(n, w.entries[i])
      BY <2>2 DEF Slice, SamePlace
    <3> QED
      BY <3>1, <3>2, <3>3, <3>4, Zenon
  <2> HIDE DEF f
  <2>3. \/ x = id /\ i = Len(n.entries)
        \/ i \in DOMAIN w.entries /\ x \in Ids(w.entries[i]) /\ SamePlace(n.entries[i], w.entries[i])
    BY <1>2
  <2> QED
    BY <2>1, <2>2, <2>3, Zenon
<1> HIDE DEF f
<1> QED
  BY <1>6, <1>7 DEF Holds, n, f

\* If no blob is empty, a write keeps the blobs apart. (write.rs: add)
LEMMA WroteApart ==
  ASSUME NEW B, Told(B), NEW w, StoreOK(w, B), Apart(w), <<>> \notin B,
         NEW b \in B, NEW id, NEW join
  PROVE  Apart(Wrote(w, id, b, join))
<1> DEFINE n == Wrote(w, id, b, join)
<1>1. n.dedup = [h \in DOMAIN w.dedup \cup {Hash(b)} |-> IF h = Hash(b) THEN Place(w, b) ELSE w.dedup[h]]
  BY DEF Wrote
<1> HIDE DEF n
<1>2. CASE Hash(b) \in DOMAIN w.dedup
  <2>1. Place(w, b) = w.dedup[Hash(b)]
    BY <1>2 DEF Place
  <2>2. \A h \in DOMAIN n.dedup : h \in DOMAIN w.dedup /\ n.dedup[h] = w.dedup[h]
    BY <2>1, <1>1, <1>2
  <2> QED
    BY <2>2 DEF Apart, n
<1>3. CASE Hash(b) \notin DOMAIN w.dedup
  <2>1. Place(w, b).offset = Len(w.data)
    BY <1>3 DEF Place
  <2>2. \A h \in DOMAIN w.dedup : w.dedup[h].offset \in Nat /\ w.dedup[h].offset < Len(w.data)
    <3> SUFFICES ASSUME NEW h \in DOMAIN w.dedup
                 PROVE  w.dedup[h].offset \in Nat /\ w.dedup[h].offset < Len(w.data)
      OBVIOUS
    <3> DEFINE p == w.dedup[h]
    <3>1. p.offset \in Nat /\ p.length \in Nat /\ p.offset + p.length <= Len(w.data) /\ Slice(w, p) # <<>>
      BY DEF StoreOK, IsStored
    <3>2. w.data \in Seq(Nat)
      BY DEF StoreOK
    <3>3. Slice(w, p) \in Seq(Nat) /\ Len(Slice(w, p)) = p.length
      BY <3>1, <3>2, SliceLen DEF Slice
    <3>4. p.length # 0
      BY <3>1, <3>3
    <3> HIDE DEF p
    <3>5. p.offset < Len(w.data)
      BY <3>1, <3>2, <3>4
    <3> QED
      BY <3>1, <3>5 DEF p
  <2>3. /\ DOMAIN n.dedup = DOMAIN w.dedup \cup {Hash(b)}
        /\ \A h \in DOMAIN w.dedup : n.dedup[h] = w.dedup[h]
        /\ n.dedup[Hash(b)].offset = Len(w.data)
    BY <1>1, <1>3, <2>1
  <2>4. Len(w.data) \in Nat
    BY DEF StoreOK
  <2>5. ASSUME NEW h \in DOMAIN n.dedup, NEW k \in DOMAIN n.dedup, n.dedup[h].offset = n.dedup[k].offset
        PROVE  h = k
    <3>1. CASE h \in DOMAIN w.dedup /\ k \in DOMAIN w.dedup
      BY <3>1, <2>3, <2>5 DEF Apart
    <3>2. CASE h = Hash(b) \/ k = Hash(b)
      BY <3>2, <2>2, <2>3, <2>4, <2>5
    <3> QED
      BY <3>1, <3>2, <2>3
  <2> QED
    BY <2>5 DEF Apart, n
<1> QED
  BY <1>2, <1>3

\* A write keeps the runs maximal, if it joins whenever it may. (write.rs: add)
LEMMA WroteMaximal ==
  ASSUME NEW w, OrderOK(w), Maximal(w), NEW id \in Nat, NEW b, NEW join \in BOOLEAN, join => Adjoins(w, id),
         Adjoins(w, id) /\ SamePlace(Last(w.entries), Place(w, b)) => join
  PROVE  Maximal(Wrote(w, id, b, join))
<1> DEFINE dir == w.entries
           e == Wrote(w, id, b, join).entries
           N == Len(dir)
<1>1. dir \in Seq(Cell) /\ N \in Nat /\ DOMAIN dir = 1 .. N
  BY OrderlyRises DEF OrderOK
<1>2. CASE join
  <2>1. e = Joined(dir) /\ dir # <<>>
    BY <1>2 DEF Wrote, Joined, Adjoins
  <2>2. /\ Len(e) = N
        /\ \A i \in 1 .. N : /\ e[i].id = dir[i].id /\ SamePlace(e[i], dir[i])
                             /\ i # N => e[i].run = dir[i].run
    BY <2>1, JoinedIs DEF OrderOK
  <2>3. \A i \in 1 .. N - 1 : i \in 1 .. N /\ i + 1 \in 1 .. N /\ i # N
    BY <1>1
  <2> HIDE DEF e, dir
  <2>4. ASSUME NEW i \in 1 .. N - 1
        PROVE  ~(e[i].id + e[i].run = e[i + 1].id /\ e[i].offset = e[i + 1].offset /\ e[i].length = e[i + 1].length)
    <3>1. ~(dir[i].id + dir[i].run = dir[i + 1].id /\ dir[i].offset = dir[i + 1].offset /\ dir[i].length = dir[i + 1].length)
      BY DEF Maximal, dir
    <3> QED
      BY <3>1, <2>2, <2>3 DEF SamePlace
  <2> QED
    BY <2>2, <2>4 DEF Maximal, e
<1>3. CASE ~join
  <2> DEFINE new == Entry(id, Place(w, b).offset, Place(w, b).length, 1)
  <2>1. e = Append(dir, new)
    BY <1>3 DEF Wrote
  <2>2. new.id = id /\ SamePlace(new, Place(w, b))
    BY DEF Entry, SamePlace
  <2> HIDE DEF new
  <2>3. Len(e) = N + 1 /\ (\A i \in 1 .. N : e[i] = dir[i]) /\ e[N + 1] = new
    BY <2>1, <1>1
  <2> HIDE DEF e
  <2>4. ASSUME NEW i \in 1 .. N
        PROVE  ~(e[i].id + e[i].run = e[i + 1].id /\ e[i].offset = e[i + 1].offset /\ e[i].length = e[i + 1].length)
    <3>1. CASE i = N
      <4>1. dir # <<>> /\ Last(dir) = dir[N] /\ e[i] = dir[N] /\ e[i + 1] = new
        BY <3>1, <2>3, <1>1 DEF Last
      <4>2. ~(dir[N].id + dir[N].run = id /\ SamePlace(dir[N], Place(w, b)))
        BY <4>1, <1>3 DEF Adjoins
      <4> QED
        BY <4>1, <4>2, <2>2 DEF SamePlace
    <3>2. CASE i # N
      <4>1. i \in 1 .. N - 1 /\ i + 1 \in 1 .. N
        BY <3>2, <1>1
      <4>2. ~(dir[i].id + dir[i].run = dir[i + 1].id /\ dir[i].offset = dir[i + 1].offset /\ dir[i].length = dir[i + 1].length)
        BY <4>1 DEF Maximal
      <4> QED
        BY <4>1, <4>2, <2>3
    <3> QED
      BY <3>1, <3>2
  <2>5. Len(e) - 1 = N
    BY <2>3, <1>1
  <2> QED
    BY <2>4, <2>5 DEF Maximal, e
<1> QED
  BY <1>2, <1>3

\* `add` tells blobs by their offset alone, which is enough when none is empty.
\* (write.rs: add)
LEMMA JoinsTheSame ==
  ASSUME NEW B, Told(B), <<>> \notin B, NEW w, StoreOK(w, B), OrderOK(w), Apart(w), NEW b \in B,
         NEW id, ExtendsRun(w, id, Place(w, b).offset)
  PROVE  SamePlace(Last(w.entries), Place(w, b))
<1> DEFINE e == Last(w.entries)
           N == Len(w.entries)
<1>1. w.entries # <<>> /\ N \in DOMAIN w.entries /\ e = w.entries[N] /\ e.offset = Place(w, b).offset
  BY LastEntry DEF ExtendsRun, OrderOK
<1>2. PICK h \in DOMAIN w.dedup : e.offset = w.dedup[h].offset /\ e.length = w.dedup[h].length
  BY <1>1 DEF StoreOK
<1> HIDE DEF e
<1>3. CASE Hash(b) \in DOMAIN w.dedup
  <2>1. Place(w, b) = w.dedup[Hash(b)]
    BY <1>3 DEF Place
  <2>2. h = Hash(b)
    BY <2>1, <1>1, <1>2, <1>3 DEF Apart
  <2> QED
    BY <2>1, <2>2, <1>2 DEF SamePlace, e
<1>4. CASE Hash(b) \notin DOMAIN w.dedup
  <2>1. e.offset = Len(w.data)
    BY <1>1, <1>4 DEF Place
  <2>2. IsStored(w, e) /\ Slice(w, e) \in B /\ w.data \in Seq(Nat)
    BY <1>1, EntryStored DEF StoreOK
  <2>3. Len(Slice(w, e)) = e.length /\ Slice(w, e) \in Seq(Nat)
    BY <2>2, SliceLen DEF IsStored, Slice
  <2>4. e.length = 0
    BY <2>1, <2>2 DEF IsStored
  <2>5. Slice(w, e) = <<>>
    BY <2>3, <2>4
  <2> QED
    BY <2>2, <2>5
<1> QED
  BY <1>3, <1>4

\* `add` of an ascending id keeps order and data section, whatever the blobs.
\* (write.rs: add)
LEMMA AddedOK ==
  ASSUME NEW B, Told(B), NEW w, OrderOK(w), StoreOK(w, B), NEW b \in B, NEW id \in Nat, Ascending(w, id)
  PROVE  LET n == Added(w, id, b) IN
         /\ OrderOK(n) /\ StoreOK(n, B)
         /\ AllIds(n.entries) = AllIds(w.entries) \cup {id}
         /\ n.last = id
<1> DEFINE join == ExtendsRun(w, id, Place(w, b).offset)
<1>1. Added(w, id, b) = Wrote(w, id, b, join)
  BY AddedIsWrote
<1>2. join \in BOOLEAN /\ (join => Adjoins(w, id))
  BY DEF ExtendsRun, Adjoins
<1> HIDE DEF join
<1>3. Wrote(w, id, b, join).last = id
  BY DEF Wrote
<1> QED
  BY <1>1, <1>2, <1>3, WroteOrder, WroteStore, PlaceIsNat

\* one blob more
With(g, id, b) == [i \in DOMAIN g \cup {id} |-> IF i = id THEN b ELSE g[i]]

\* `add` of blobs that are not empty: nothing is mixed up and runs stay maximal.
\* (write.rs: add)
LEMMA AddedHolds ==
  ASSUME NEW B, Told(B), <<>> \notin B, NEW w, OrderOK(w), StoreOK(w, B), Apart(w),
         NEW b \in B, NEW id \in Nat, Ascending(w, id), NEW g, Holds(w, g)
  PROVE  /\ Apart(Added(w, id, b))
         /\ Holds(Added(w, id, b), With(g, id, b))
         /\ Maximal(w) => Maximal(Added(w, id, b))
<1> DEFINE join == ExtendsRun(w, id, Place(w, b).offset)
<1>1. Added(w, id, b) = Wrote(w, id, b, join)
  BY AddedIsWrote
<1>2. join \in BOOLEAN /\ (join => Adjoins(w, id))
  BY DEF ExtendsRun, Adjoins
<1>3. join => SamePlace(Last(w.entries), Place(w, b))
  BY JoinsTheSame
<1>4. Adjoins(w, id) /\ SamePlace(Last(w.entries), Place(w, b)) => join
  BY DEF ExtendsRun, Adjoins, SamePlace
<1> HIDE DEF join
<1>5. Apart(Wrote(w, id, b, join))
  BY WroteApart
<1>6. Holds(Wrote(w, id, b, join), With(g, id, b))
  BY <1>2, <1>3, WroteHolds DEF With
<1>7. Maximal(w) => Maximal(Wrote(w, id, b, join))
  BY <1>2, <1>4, WroteMaximal
<1> QED
  BY <1>1, <1>5, <1>6, <1>7, Zenon

\* A writer whose runs never mix lengths keeps all this with empty blobs too.
LEMMA ForeignAddedOK ==
  ASSUME NEW B, Told(B), NEW w, OrderOK(w), StoreOK(w, B), Maximal(w),
         NEW b \in B, NEW id \in Nat, Ascending(w, id), NEW g, Holds(w, g)
  PROVE  LET n == ForeignAdded(w, id, b) IN
         /\ OrderOK(n) /\ StoreOK(n, B) /\ Maximal(n)
         /\ AllIds(n.entries) = AllIds(w.entries) \cup {id}
         /\ Holds(n, With(g, id, b))
<1> DEFINE spot == Place(w, b)
           split == w.entries # <<>> /\ Last(w.entries).length # Len(b)
           join == ExtendsRun(w, id, spot.offset) /\ ~split
<1>1. spot.length = Len(b) /\ spot.offset \in Nat /\ spot.length \in Nat
  BY Placed, PlaceIsNat
<1>2. ForeignAdded(w, id, b) = Wrote(w, id, b, join)
  <2>1. CASE split
    <3>1. ForeignAdded(w, id, b) =
            [Added(w, id, b) EXCEPT !.entries = Append(w.entries, Entry(id, spot.offset, spot.length, 1))]
      BY <2>1, <1>1 DEF ForeignAdded
    <3>2. join = FALSE
      BY <2>1
    <3> HIDE DEF join
    <3>3. \A j : [Wrote(w, id, b, j) EXCEPT !.entries = Append(w.entries, Entry(id, spot.offset, spot.length, 1))]
                  = Wrote(w, id, b, FALSE)
      <4> DEFINE X == Append(w.entries, Entry(id, spot.offset, spot.length, 1))
                 count == w.addressed + 1
                 bytes == IF Hash(b) \in DOMAIN w.dedup THEN w.data ELSE w.data \o b
                 table == [h \in DOMAIN w.dedup \cup {Hash(b)} |->
                             IF h = Hash(b) THEN spot ELSE w.dedup[h]]
                 grown == [w.entries EXCEPT ![Len(w.entries)].run = @ + 1]
      <4>1. ASSUME NEW j
            PROVE  Wrote(w, id, b, j) = [last |-> id, addressed |-> count, data |-> bytes,
                                         dedup |-> table, entries |-> IF j THEN grown ELSE X]
        BY Zenon DEF Wrote
      <4> HIDE DEF X, count, bytes, table, grown
      <4>2. Wrote(w, id, b, FALSE) = [last |-> id, addressed |-> count, data |-> bytes,
                                      dedup |-> table, entries |-> X]
        BY <4>1
      <4>3. ASSUME NEW j
            PROVE  [Wrote(w, id, b, j) EXCEPT !.entries = X]
                     = [last |-> id, addressed |-> count, data |-> bytes, dedup |-> table, entries |-> X]
        <5> DEFINE E == IF j THEN grown ELSE X
        <5> HIDE DEF E
        <5>1. Wrote(w, id, b, j) = [last |-> id, addressed |-> count, data |-> bytes,
                                    dedup |-> table, entries |-> E]
          BY <4>1, Zenon DEF E
        <5> QED
          BY <5>1
      <4> QED
        BY <4>2, <4>3, Zenon DEF X
    <3> QED
      BY <3>1, <3>2, <3>3, AddedIsWrote
  <2>2. CASE ~split
    <3>1. ForeignAdded(w, id, b) = Added(w, id, b)
      BY <2>2 DEF ForeignAdded
    <3>2. join = ExtendsRun(w, id, spot.offset)
      BY <2>2 DEF ExtendsRun
    <3> QED
      BY <3>1, <3>2, AddedIsWrote
  <2> QED
    BY <2>1, <2>2
<1>3. join \in BOOLEAN /\ (join => Adjoins(w, id))
  BY DEF ExtendsRun, Adjoins
<1>4. join => SamePlace(Last(w.entries), spot)
  BY <1>1 DEF ExtendsRun, SamePlace
<1>5. Adjoins(w, id) /\ SamePlace(Last(w.entries), spot) => join
  BY <1>1 DEF ExtendsRun, Adjoins, SamePlace
<1> HIDE DEF join, spot
<1>6. OrderOK(Wrote(w, id, b, join)) /\ AllIds(Wrote(w, id, b, join).entries) = AllIds(w.entries) \cup {id}
  BY <1>1, <1>3, WroteOrder DEF spot
<1>7. StoreOK(Wrote(w, id, b, join), B)
  BY <1>3, WroteStore
<1>8. Maximal(Wrote(w, id, b, join))
  BY <1>3, <1>5, WroteMaximal DEF spot
<1>9. Holds(Wrote(w, id, b, join), With(g, id, b))
  BY <1>3, <1>4, WroteHolds DEF spot, With
<1> QED
  BY <1>2, <1>6, <1>7, <1>8, <1>9, Zenon

\* the writer after each id of a run
IsRun(f, w, e, b) ==
  \A k \in 0 .. e.run : f[k] = IF k = 0 THEN w ELSE Added(f[k - 1], e.id + k - 1, b)

\* The writer after a run is the last of a sequence of `add`s.
\* (recompress.rs: recompress_pmtiles)
LEMMA RunExists ==
  ASSUME NEW w, NEW e, e.run \in Nat, NEW b
  PROVE  \E f : IsRun(f, w, e, b) /\ AddedRun(w, e, b) = f[e.run]
<1> DEFINE Eq(f, n) == f = [k \in 0 .. n |-> IF k = 0 THEN w ELSE Added(f[k - 1], e.id + k - 1, b)]
           T == {n \in Nat : \E f : Eq(f, n)}
           added == CHOOSE f : Eq(f, e.run)
<1>1. 0 \in T
  <2>1. Eq([k \in 0 .. 0 |-> w], 0)
    <3>1. \A k \in 0 .. 0 : k = 0
      OBVIOUS
    <3> QED
      BY <3>1, Zenon
  <2>2. \E f : Eq(f, 0)
    BY <2>1, Zenon
  <2> QED
    BY <2>2
<1>2. ASSUME NEW n \in T PROVE n + 1 \in T
  <2>1. PICK f : Eq(f, n)
    OBVIOUS
  <2> DEFINE h == [k \in 0 .. n + 1 |-> IF k = n + 1 THEN Added(f[n], e.id + (n + 1) - 1, b) ELSE f[k]]
             G == [k \in 0 .. n + 1 |-> IF k = 0 THEN w ELSE Added(h[k - 1], e.id + k - 1, b)]
  <2>2. n \in Nat
    OBVIOUS
  <2> HIDE DEF T
  <2>3. \A k \in 0 .. n : f[k] = IF k = 0 THEN w ELSE Added(f[k - 1], e.id + k - 1, b)
    BY <2>1, Zenon
  <2>4. ASSUME NEW k \in 0 .. n + 1 PROVE h[k] = G[k]
    <3>1. G[k] = IF k = 0 THEN w ELSE Added(h[k - 1], e.id + k - 1, b)
      BY Zenon
    <3>2. h[k] = IF k = n + 1 THEN Added(f[n], e.id + (n + 1) - 1, b) ELSE f[k]
      BY Zenon
    <3>3. CASE k = n + 1
      <4>1. k # 0 /\ k - 1 = n /\ k - 1 \in 0 .. n + 1 /\ k - 1 # n + 1
        BY <3>3, <2>2
      <4>2. h[k - 1] = f[n]
        BY <4>1
      <4> HIDE DEF h, G
      <4> QED
        BY <3>1, <3>2, <3>3, <4>1, <4>2, Zenon
    <3>4. CASE k # n + 1
      <4>1. k \in 0 .. n /\ (k # 0 => k - 1 \in 0 .. n + 1 /\ k - 1 # n + 1)
        BY <3>4, <2>2
      <4>2. k # 0 => h[k - 1] = f[k - 1]
        BY <4>1
      <4> HIDE DEF h, G
      <4> QED
        BY <3>1, <3>2, <3>4, <4>1, <4>2, <2>3, Zenon
    <3> QED
      BY <3>3, <3>4
  <2>5. h = G
    BY <2>4, Zenon
  <2>6. Eq(h, n + 1)
    BY <2>5, Zenon
  <2> HIDE DEF h
  <2>7. \E x : Eq(x, n + 1)
    BY <2>6, Zenon
  <2> QED
    BY <2>2, <2>7 DEF T
<1>3. e.run \in T
  <2> HIDE DEF T
  <2>1. Nat \subseteq T
    BY <1>1, <1>2, Induction
  <2> QED
    BY <2>1
<1>4. Eq(added, e.run)
  BY <1>3, Zenon
<1>5. AddedRun(w, e, b) = added[e.run]
  BY Zenon DEF AddedRun
<1> HIDE DEF added
<1>6. IsRun(added, w, e, b)
  BY <1>4, Zenon DEF IsRun
<1> QED
  BY <1>5, <1>6

\* one blob under every id of a run
Overlaid(g, ids, b) == [i \in DOMAIN g \cup ids |-> IF i \in ids THEN b ELSE g[i]]

\* Adding a run id by id keeps the writer sound and adds exactly the ids of the run;
\* without empty blobs they hold its blob. (recompress.rs: recompress_pmtiles)
LEMMA RunOK ==
  ASSUME NEW B, Told(B), NEW w, OrderOK(w), StoreOK(w, B), NEW b \in B,
         NEW e \in Cell, e.run >= 1, Ascending(w, e.id)
  PROVE  LET n == AddedRun(w, e, b) IN
         /\ OrderOK(n) /\ StoreOK(n, B)
         /\ AllIds(n.entries) = AllIds(w.entries) \cup Ids(e)
         /\ \A g : <<>> \notin B /\ Apart(w) /\ Holds(w, g) => Apart(n) /\ Holds(n, Overlaid(g, Ids(e), b))
<1>1. e.id \in Nat /\ e.run \in Nat
  BY DEF Cell
<1>2. PICK f : IsRun(f, w, e, b) /\ AddedRun(w, e, b) = f[e.run]
  BY <1>1, RunExists
<1> DEFINE done(k) == e.id .. e.id + k - 1
           Good(k) == /\ OrderOK(f[k]) /\ StoreOK(f[k], B)
                      /\ AllIds(f[k].entries) = AllIds(w.entries) \cup done(k)
                      /\ Ascending(f[k], e.id + k)
           Right(k) == \A g : <<>> \notin B /\ Apart(w) /\ Holds(w, g) =>
                         Apart(f[k]) /\ Holds(f[k], Overlaid(g, done(k), b))
           T == {k \in Nat : k <= e.run => Good(k) /\ Right(k)}
<1>3. 0 \in T
  <2>1. f[0] = w /\ done(0) = {} /\ e.id + 0 = e.id
    BY <1>1, <1>2 DEF IsRun
  <2>2. Good(0)
    BY <2>1
  <2>3. Right(0)
    <3> SUFFICES ASSUME NEW g, Apart(w), Holds(w, g) PROVE Apart(f[0]) /\ Holds(f[0], Overlaid(g, done(0), b))
      BY Zenon
    <3> DEFINE h == Overlaid(g, done(0), b)
    <3>1. DOMAIN h = DOMAIN g /\ \A i \in DOMAIN g : h[i] = g[i]
      BY <2>1 DEF Overlaid
    <3> HIDE DEF h
    <3>2. Holds(w, h)
      BY <3>1, AllIdsAre DEF Holds
    <3> QED
      BY <2>1, <3>2 DEF h
  <2> HIDE DEF Good, Right
  <2> QED
    BY <2>2, <2>3
<1>4. ASSUME NEW k \in T PROVE k + 1 \in T
  <2> SUFFICES ASSUME k + 1 <= e.run PROVE Good(k + 1) /\ Right(k + 1)
    <3> HIDE DEF Good, Right
    <3> QED
      OBVIOUS
  <2>1. k \in Nat /\ k <= e.run /\ k + 1 \in 0 .. e.run
    BY <1>1
  <2>2. Good(k) /\ Right(k)
    <3> HIDE DEF Good, Right
    <3> QED
      BY <2>1
  <2>3. f[k + 1] = Added(f[k], e.id + k, b)
    <3>1. k + 1 # 0 /\ (k + 1) - 1 = k /\ e.id + (k + 1) - 1 = e.id + k
      BY <2>1, <1>1
    <3> QED
      BY <3>1, <2>1, <1>2 DEF IsRun
  <2>4. e.id + k \in Nat /\ done(k + 1) = done(k) \cup {e.id + k} /\ e.id + (k + 1) > e.id + k
    BY <2>1, <1>1
  <2>5. /\ OrderOK(f[k + 1]) /\ StoreOK(f[k + 1], B)
        /\ AllIds(f[k + 1].entries) = AllIds(f[k].entries) \cup {e.id + k}
        /\ f[k + 1].last = e.id + k
    <3>1. OrderOK(f[k]) /\ StoreOK(f[k], B) /\ Ascending(f[k], e.id + k)
      BY <2>2
    <3> DEFINE v == f[k]  id == e.id + k
    <3> HIDE DEF v, id
    <3>2. OrderOK(v) /\ StoreOK(v, B) /\ Ascending(v, id) /\ id \in Nat
      BY <3>1, <2>4 DEF v, id
    <3>3. /\ OrderOK(Added(v, id, b)) /\ StoreOK(Added(v, id, b), B)
          /\ AllIds(Added(v, id, b).entries) = AllIds(v.entries) \cup {id} /\ Added(v, id, b).last = id
      BY <3>2, AddedOK
    <3> QED
      BY <3>3, <2>3, Zenon DEF v, id
  <2>6. Good(k + 1)
    BY <2>2, <2>4, <2>5 DEF Ascending
  <2>7. Right(k + 1)
    <3> SUFFICES ASSUME NEW g, <<>> \notin B, Apart(w), Holds(w, g)
                 PROVE  Apart(f[k + 1]) /\ Holds(f[k + 1], Overlaid(g, done(k + 1), b))
      BY Zenon
    <3> DEFINE h == Overlaid(g, done(k), b)
    <3>1. Apart(f[k]) /\ Holds(f[k], h)
      BY <2>2
    <3>2. Overlaid(g, done(k + 1), b) = With(h, e.id + k, b)
      BY <2>4 DEF Overlaid, With
    <3> DEFINE v == f[k]  id == e.id + k
    <3>3. OrderOK(v) /\ StoreOK(v, B) /\ Ascending(v, id)
      BY <2>2
    <3> HIDE DEF h, v, id
    <3>4. Apart(v) /\ Holds(v, h) /\ id \in Nat
      BY <3>1, <2>4 DEF v, id
    <3>5. /\ Apart(Added(v, id, b))
          /\ Holds(Added(v, id, b), With(h, id, b))
      BY <3>3, <3>4, AddedHolds
    <3> QED
      BY <3>2, <3>5, <2>3, Zenon DEF v, id
  <2> HIDE DEF Good, Right
  <2> QED
    BY <2>6, <2>7
<1> HIDE DEF T
<1>5. Nat \subseteq T
  BY <1>3, <1>4, Induction
<1>6. Good(e.run) /\ Right(e.run)
  <2> HIDE DEF Good, Right
  <2> QED
    BY <1>1, <1>5 DEF T
<1>7. done(e.run) = Ids(e)
  BY DEF Ids
<1> QED
  BY <1>2, <1>6, <1>7

\* What is held under an id is one of the blobs, and has an entry.
LEMMA HeldIn ==
  ASSUME NEW B, B \subseteq Seq(Nat), NEW w, OrderOK(w), StoreOK(w, B), NEW g, Holds(w, g), NEW id \in DOMAIN g
  PROVE  g[id] \in B /\ \E i \in DOMAIN w.entries : id \in Ids(w.entries[i])
BY AllIdsAre, EntryStored DEF Holds

\* An archive assembled from a sound writer answers every id with what the writer
\* holds, misses every other id, enumerates exactly the ids, and gives every entry its
\* blob. (read.rs: raw_tile_by_id, all_tile_ids, entry_blob)
LEMMA Answers ==
  ASSUME NEW B, B \subseteq Seq(Nat), NEW w, OrderOK(w), StoreOK(w, B), NEW g, Holds(w, g), NEW a \in Assembled(w)
  PROVE  /\ all_tile_ids(a) = DOMAIN g
         /\ \A id \in Nat : raw_tile_by_id(a, id) = IF id \in DOMAIN g THEN g[id] ELSE NoTile
         /\ \A i \in DOMAIN tile_entries(a) : \A id \in Ids(tile_entries(a)[i]) :
              id \in DOMAIN g /\ entry_blob(a, tile_entries(a)[i]) = g[id]
<1> DEFINE dir == w.entries
<1>1. /\ a.data = w.data /\ tile_entries(a) = dir
      /\ \A id \in Nat : Found(a, id) = EntryOf(dir, id)
  BY Reading DEF OrderOK
<1>2. \A d : entry_blob(a, d) = Slice(w, d)
  BY <1>1 DEF entry_blob, Slice
<1>3. \A id : id \in DOMAIN g <=> \E i \in DOMAIN dir : id \in Ids(dir[i])
  BY AllIdsAre DEF Holds
<1>4. \A i \in DOMAIN dir : dir[i] # NoTile
  <2>1. \A i \in DOMAIN dir : dir[i] \in Cell
    BY DEF OrderOK, Orderly
  <2> QED
    BY <2>1, MissAssumption DEF Cell
<1>5. all_tile_ids(a) = DOMAIN g
  <2>1. all_tile_ids(a) = AllIds(dir)
    BY <1>1, Zenon DEF all_tile_ids, AllIds
  <2> QED
    BY <2>1 DEF Holds
<1>6. ASSUME NEW id \in Nat PROVE raw_tile_by_id(a, id) = IF id \in DOMAIN g THEN g[id] ELSE NoTile
  <2>1. CASE id \in DOMAIN g
    <3>1. PICK i \in DOMAIN dir : id \in Ids(dir[i])
      BY <2>1, <1>3
    <3>2. Found(a, id) = dir[i] /\ dir[i] # NoTile
      BY <3>1, <1>1, <1>4, EntryOfIs DEF OrderOK
    <3>3. g[id] = Slice(w, dir[i])
      BY <3>1 DEF Holds
    <3> QED
      BY <2>1, <3>2, <3>3, <1>2 DEF raw_tile_by_id
  <2>2. CASE id \notin DOMAIN g
    <3>1. Found(a, id) = NoTile
      BY <2>2, <1>1, <1>3, EntryOfIs DEF OrderOK
    <3> QED
      BY <2>2, <3>1 DEF raw_tile_by_id
  <2> QED
    BY <2>1, <2>2
<1>7. ASSUME NEW i \in DOMAIN dir, NEW id \in Ids(dir[i])
      PROVE  id \in DOMAIN g /\ entry_blob(a, dir[i]) = g[id]
  BY <1>2, <1>3, Zenon DEF Holds
<1> QED
  BY <1>1, <1>5, <1>6, <1>7

\* what a writer would be read to hold
Content(w) == [id \in AllIds(w.entries) |-> Slice(w, EntryOf(w.entries, id))]

\* Even one that mixed blobs up holds something under each of its ids.
LEMMA HoldsItsContent ==
  ASSUME NEW w, OrderOK(w), AllIds(w.entries) \subseteq Nat
  PROVE  Holds(w, Content(w))
<1>1. ASSUME NEW i \in DOMAIN w.entries, NEW id \in Ids(w.entries[i])
      PROVE  Content(w)[id] = Slice(w, w.entries[i])
  <2>1. id \in AllIds(w.entries)
    BY AllIdsAre
  <2>2. EntryOf(w.entries, id) = w.entries[i]
    BY <2>1, EntryOfIs DEF OrderOK
  <2> QED
    BY <2>1, <2>2 DEF Content
<1>2. DOMAIN Content(w) = AllIds(w.entries)
  BY DEF Content
<1> HIDE DEF Content
<1> QED
  BY <1>1, <1>2 DEF Holds

(***************************************************************************)
(* 6. One run of the writer.                                               *)
(***************************************************************************)

\* a writer that adds blobs of B
InputOK(B) ==
  /\ stage \in {"adding", "done", "failed"}
  /\ OrderOK(writer) /\ StoreOK(writer, B) /\ Maximal(writer) /\ Holds(writer, given)
  /\ DOMAIN given \subseteq TileIds
  /\ stage = "done" => archive \in Assembled(writer)

\* the inductive invariant of the archive: with the blobs of this program no blob is
\* empty, and they stay apart
ArchiveInv == InputOK(Blobs) /\ Apart(writer)

\* The blobs of this program are told apart by their hashes and never empty.
LEMMA ToldBlobs == Told(Blobs) /\ <<>> \notin Blobs
  BY BlobAssumption, HashAssumption DEF Told

\* An empty writer is sound and holds nothing. (write.rs: new)
LEMMA NothingHeld ==
  ASSUME NEW B, NEW g, DOMAIN g = {}
  PROVE  /\ OrderOK(EmptyWriter) /\ StoreOK(EmptyWriter, B) /\ Maximal(EmptyWriter)
         /\ Apart(EmptyWriter) /\ Holds(EmptyWriter, g) /\ AllIds(EmptyWriter.entries) = {}
<1> DEFINE w == EmptyWriter
<1>1. w.last = 0 /\ w.addressed = 0 /\ w.data = <<>> /\ DOMAIN w.dedup = {} /\ w.entries = <<>>
  BY DEF EmptyWriter
<1> HIDE DEF w
<1>2. DOMAIN w.entries = {} /\ w.entries \in Seq(Cell) /\ Len(w.entries) = 0
  BY <1>1
<1>3. OrderOK(w)
  BY <1>1, <1>2 DEF OrderOK, Orderly
<1>4. StoreOK(w, B)
  BY <1>1, <1>2 DEF StoreOK
<1>5. Maximal(w)
  BY <1>2 DEF Maximal
<1>6. Apart(w)
  BY <1>1 DEF Apart
<1>7. AllIds(w.entries) = {} /\ Holds(w, g)
  BY <1>2 DEF AllIds, Holds
<1> QED
  BY <1>3, <1>4, <1>5, <1>6, <1>7 DEF w

\* The invariant holds of a new writer.
LEMMA ArchiveStart == Init => ArchiveInv
<1> SUFFICES ASSUME Init PROVE ArchiveInv
  OBVIOUS
<1>1. writer = EmptyWriter /\ DOMAIN given = {} /\ stage = "adding"
  BY DEF Init
<1> QED
  BY <1>1, NothingHeld DEF ArchiveInv, InputOK

\* Every step of the writer keeps it. (write.rs: add, finish)
LEMMA ArchiveStep == ArchiveInv /\ [Next]_vars => ArchiveInv'
<1> SUFFICES ASSUME ArchiveInv, [Next]_vars PROVE ArchiveInv'
  OBVIOUS
<1> USE DEF ArchiveInv, InputOK
<1>1. ASSUME NEW id \in TileIds, NEW b \in Blobs, Add(id, b) PROVE ArchiveInv'
  <2>1. /\ stage = "adding" /\ Ascending(writer, id) /\ stage' = stage
        /\ writer' = Added(writer, id, b) /\ given' = With(given, id, b)
    BY <1>1 DEF Add, With
  <2>2. id \in Nat
    BY IdsAssumption
  <2>3. OrderOK(writer') /\ StoreOK(writer', Blobs)
    BY <2>1, <2>2, ToldBlobs, AddedOK
  <2>4. Apart(writer') /\ Holds(writer', given') /\ Maximal(writer')
    BY <2>1, <2>2, ToldBlobs, AddedHolds
  <2>5. DOMAIN given' \subseteq TileIds
    BY <2>1 DEF With
  <2> QED
    BY <2>1, <2>3, <2>4, <2>5 DEF OrderOK, StoreOK, Apart, Holds, Maximal
<1>2. CASE Abort
  BY <1>2 DEF Abort
<1>3. CASE Finish
  BY <1>3 DEF Finish
<1>4. CASE UNCHANGED vars
  BY <1>4 DEF vars
<1> QED
  BY <1>1, <1>2, <1>3, <1>4 DEF Next

\* A sound writer that has finished holds what was given.
LEMMA ArchiveHeld ==
  ASSUME NEW B, Told(B), InputOK(B)
  PROVE  HoldsWhatWasGiven
<1> SUFFICES ASSUME stage = "done"
             PROVE  /\ \A id \in TileIds : Answer(id) = IF id \in DOMAIN given THEN given[id] ELSE NoTile
                    /\ all_tile_ids(archive) = DOMAIN given
  BY DEF HoldsWhatWasGiven
<1>1. archive \in Assembled(writer)
  BY DEF InputOK
<1> QED
  BY <1>1, IdsAssumption, Answers DEF InputOK, Told, Answer

\* Maximal runs over told-apart blobs are a compact archive.
LEMMA HeldCompactly ==
  ASSUME NEW B, Told(B), OrderOK(writer), StoreOK(writer, B), Holds(writer, given), Maximal(writer)
  PROVE  IsCompact
<1> DEFINE dir == writer.entries
<1>1. /\ dir \in Seq(Cell) /\ Len(dir) \in Nat /\ DOMAIN dir = 1 .. Len(dir)
      /\ \A i \in DOMAIN dir : dir[i].id \in Ids(dir[i])
  <2>1. dir \in Seq(Cell) /\ Len(dir) \in Nat /\ DOMAIN dir = 1 .. Len(dir)
    BY OrderlyRises DEF OrderOK
  <2>2. \A i \in DOMAIN dir : dir[i].id \in Nat /\ dir[i].run \in Nat /\ dir[i].run >= 1
    <3>1. \A i \in DOMAIN dir : dir[i] \in Cell
      BY <2>1
    <3> QED
      BY <3>1 DEF OrderOK, Orderly, Cell
  <2> QED
    BY <2>1, <2>2 DEF Ids
<1>2. \A i \in DOMAIN dir : given[dir[i].id] = Slice(writer, dir[i])
  BY <1>1 DEF Holds
<1>3. ASSUME NEW i \in DOMAIN dir, NEW j \in DOMAIN dir, given[dir[i].id] = given[dir[j].id]
      PROVE  SamePlace(dir[i], dir[j])
  <2>1. PICK h \in DOMAIN writer.dedup :
          dir[i].offset = writer.dedup[h].offset /\ dir[i].length = writer.dedup[h].length
    BY DEF StoreOK
  <2>2. PICK k \in DOMAIN writer.dedup :
          dir[j].offset = writer.dedup[k].offset /\ dir[j].length = writer.dedup[k].length
    BY DEF StoreOK
  <2>3. Slice(writer, dir[i]) = Slice(writer, writer.dedup[h]) /\ Slice(writer, dir[j]) = Slice(writer, writer.dedup[k])
    BY <2>1, <2>2 DEF Slice
  <2>4. Hash(Slice(writer, writer.dedup[h])) = h /\ Hash(Slice(writer, writer.dedup[k])) = k
    BY DEF StoreOK
  <2>5. h = k
    BY <2>3, <2>4, <1>2, <1>3
  <2> QED
    BY <2>1, <2>2, <2>5 DEF SamePlace
<1>4. ASSUME NEW i \in 1 .. Len(dir) - 1
      PROVE  ~(dir[i].id + dir[i].run = dir[i + 1].id /\ given[dir[i].id] = given[dir[i + 1].id])
  <2>1. i \in DOMAIN dir /\ i + 1 \in DOMAIN dir
    BY <1>1
  <2>2. ~(dir[i].id + dir[i].run = dir[i + 1].id /\ SamePlace(dir[i], dir[i + 1]))
    BY DEF Maximal, SamePlace
  <2> QED
    BY <2>1, <2>2, <1>3
<1>5. ASSUME NEW i \in DOMAIN dir, NEW j \in DOMAIN dir, dir[i].offset # dir[j].offset
      PROVE  given[dir[i].id] # given[dir[j].id]
  BY <1>3, <1>5 DEF SamePlace
<1> QED
  BY <1>4, <1>5, Zenon DEF IsCompact

(***************************************************************************)
(* The inductive invariant of one run of the writer, for any number of ids *)
(* added: entries in order, blobs at their places, runs maximal, no two    *)
(* blobs at one offset. (write.rs: add, finish)                            *)
(***************************************************************************)
THEOREM ArchiveSound == Spec => []ArchiveInv
<1>1. Init => ArchiveInv
  BY ArchiveStart
<1>2. ArchiveInv /\ [Next]_vars => ArchiveInv'
  BY ArchiveStep
<1> QED
  BY <1>1, <1>2, PTL DEF Spec

(***************************************************************************)
(* A finished archive, flat or spilled into leaves of any size, answers    *)
(* each id with the blob added for it and misses every other id.           *)
(* (write.rs: add, finish; codec.rs; read.rs)                              *)
(***************************************************************************)
THEOREM ArchiveHolds == Spec => []HoldsWhatWasGiven
<1>1. ArchiveInv => HoldsWhatWasGiven
  BY ToldBlobs, ArchiveHeld DEF ArchiveInv
<1> QED
  BY <1>1, ArchiveSound, PTL

(***************************************************************************)
(* Identical blobs are stored once and adjacent runs of one blob are one   *)
(* entry, at every step of the writer. (write.rs: add)                     *)
(***************************************************************************)
THEOREM ArchiveIsCompact == Spec => []IsCompact
<1>1. ArchiveInv => IsCompact
  BY ToldBlobs, HeldCompactly DEF ArchiveInv, InputOK
<1> QED
  BY <1>1, ArchiveSound, PTL

(***************************************************************************)
(* 7. The command.                                                         *)
(***************************************************************************)

\* the tiles of an archive in one coding
Encoded(enc) == {compress(enc, t) : t \in Tiles}
\* no blob of the input is empty
NoneEmpty == \A id \in DOMAIN given : given[id] # <<>>
\* the ids of the entries before the n-th
IdsBefore(n) == UNION {Ids(writer.entries[i]) : i \in 1 .. n - 1}
\* what the copy is to hold after them
Copied(n) == [id \in IdsBefore(n) |-> Recoded(given[id])]

\* the copy: sound whatever the input, and with no empty blob it holds the input's
\* tiles in the new coding
CopierOK ==
  /\ OrderOK(copier) /\ StoreOK(copier, Stored(To))
  /\ AllIds(copier.entries) = IdsBefore(at)
  /\ NoneEmpty => /\ StoreOK(copier, Encoded(To)) /\ Apart(copier)
                  /\ Holds(copier, Copied(at))

\* the steps after `finish`
Written == {"copied", "verified", "differs"}

\* the inductive invariant of the command
CommandInv ==
  /\ IF foreign THEN InputOK(Stored(From)) ELSE ArchiveInv
  /\ at \in 1 .. Len(writer.entries) + 1
  /\ step \in {"waiting", "copying", "failed"} \cup Written
  /\ step = "waiting" => at = 1 /\ copier = EmptyWriter
  /\ step # "waiting" => stage = "done" /\ CopierOK
  /\ step \in Written => at = Len(writer.entries) + 1 /\ output \in Assembled(copier)
  /\ step = "verified" => SameTiles(input, output)
  /\ step = "differs" => ~SameTiles(input, output)

\* No collision among the blobs of an archive in either coding.
LEMMA ToldStored ==
  ASSUME NEW enc \in {From, To}
  PROVE  /\ Told(Stored(enc)) /\ Told(Encoded(enc)) /\ <<>> \notin Encoded(enc)
         /\ Encoded(enc) \subseteq Stored(enc)
<1>1. enc \in Nat /\ Tiles \subseteq Seq(Nat)
  BY EncodingsAssumption
<1>2. \A t \in Tiles : compress(enc, t) \in Seq(Nat) /\ compress(enc, t) # <<>>
  BY <1>1 DEF compress
<1>3. Encoded(enc) \subseteq Stored(enc) /\ Stored(enc) \subseteq Seq(Nat) /\ <<>> \notin Encoded(enc)
  <2>1. <<>> \in Seq(Nat)
    OBVIOUS
  <2> QED
    BY <2>1, <1>2 DEF Encoded, Stored
<1>4. \A b, c \in Stored(enc) : Hash(b) = Hash(c) => b = c
  BY HashesApart
<1> QED
  BY <1>3, <1>4 DEF Told

\* What this program bakes is what the command can read.
LEMMA BlobsAreEncoded == Blobs = Encoded(From)
  BY EncodingsAssumption DEF Encoded

\* A data section of some blobs is one of more blobs.
LEMMA StoreGrows ==
  ASSUME NEW w, NEW B, NEW C, B \subseteq C, StoreOK(w, B)
  PROVE  StoreOK(w, C)
BY DEF StoreOK

\* A stored blob decodes to a tile. (encoding.rs: decompress)
LEMMA Decodes ==
  ASSUME NEW enc \in {From, To}, NEW b \in Stored(enc)
  PROVE  decoded(enc, b) \in Seq(Nat)
<1>1. enc \in Nat /\ Tiles \subseteq Seq(Nat)
  BY EncodingsAssumption
<1>2. CASE b = <<>>
  BY <1>2 DEF decoded
<1>3. CASE b # <<>>
  <2>1. PICK t \in Tiles : b = <<enc>> \o t
    BY <1>3 DEF Stored, compress
  <2>2. t \in Seq(Nat) /\ Head(b) = enc /\ Tail(b) = t
    BY <2>1, <1>1
  <2> QED
    BY <2>2, <1>3 DEF decoded, decompress
<1> QED
  BY <1>2, <1>3

\* A blob put through both codecs is a blob of the output that decodes to the same
\* tile, and only an empty one stays empty. (recompress.rs: recompress_pmtiles)
LEMMA Recodes ==
  ASSUME NEW b \in Stored(From)
  PROVE  /\ Recoded(b) \in Stored(To) /\ (b # <<>> => Recoded(b) \in Encoded(To))
         /\ decoded(To, Recoded(b)) = decoded(From, b)
<1>1. From \in Nat /\ To \in Nat /\ Tiles \subseteq Seq(Nat)
  BY EncodingsAssumption
<1>2. CASE b = <<>>
  BY <1>2 DEF Recoded, Stored, decoded
<1>3. CASE b # <<>>
  <2>1. PICK t \in Tiles : b = <<From>> \o t
    BY <1>3 DEF Stored, compress
  <2>2. t \in Seq(Nat) /\ Head(b) = From /\ Tail(b) = t
    BY <2>1, <1>1
  <2>3. decompress(From, b) = t
    BY <2>2 DEF decompress
  <2>4. Recoded(b) = <<To>> \o t
    BY <2>3, <1>3 DEF Recoded, compress
  <2>5. Recoded(b) # <<>> /\ Head(Recoded(b)) = To /\ Tail(Recoded(b)) = t
    BY <2>2, <2>4, <1>1
  <2>6. Recoded(b) \in Encoded(To) /\ Recoded(b) \in Stored(To)
    BY <2>4 DEF Encoded, Stored, compress
  <2> QED
    BY <2>3, <2>5, <2>6, <1>3 DEF decoded, decompress
<1> QED
  BY <1>2, <1>3

\* What the invariant says of the input, wherever it comes from.
LEMMA InputFacts ==
  ASSUME CommandInv
  PROVE  /\ InputOK(Stored(From)) /\ Told(Stored(From))
         /\ OrderOK(writer) /\ StoreOK(writer, Stored(From)) /\ Holds(writer, given) /\ Maximal(writer)
         /\ DOMAIN given \subseteq TileIds /\ DOMAIN given \subseteq Nat
         /\ stage = "done" => input \in Assembled(writer)
<1>1. Told(Stored(From)) /\ Blobs \subseteq Stored(From)
  BY ToldStored, BlobsAreEncoded
<1>2. InputOK(Stored(From))
  BY <1>1, StoreGrows DEF CommandInv, ArchiveInv, InputOK
<1> QED
  BY <1>1, <1>2, IdsAssumption DEF InputOK, input

\* Before the first entry nothing is copied.
LEMMA BeforeTheFirst == IdsBefore(1) = {} /\ DOMAIN Copied(1) = {}
  BY DEF IdsBefore, Copied

\* After the last entry everything is.
LEMMA BeforeTheEnd ==
  ASSUME OrderOK(writer), Holds(writer, given)
  PROVE  IdsBefore(Len(writer.entries) + 1) = DOMAIN given
<1>1. Len(writer.entries) \in Nat /\ DOMAIN writer.entries = 1 .. Len(writer.entries)
  BY OrderlyRises DEF OrderOK
<1>2. 1 .. (Len(writer.entries) + 1) - 1 = DOMAIN writer.entries
  BY <1>1
<1> QED
  BY <1>2, Zenon DEF IdsBefore, Holds, AllIds

\* And each entry adds the ids of its run.
LEMMA OneMore ==
  ASSUME NEW n \in Nat, n >= 1
  PROVE  IdsBefore(n + 1) = IdsBefore(n) \cup Ids(writer.entries[n])
<1>1. \A i : i \in 1 .. (n + 1) - 1 <=> i \in 1 .. n - 1 \/ i = n
  OBVIOUS
<1>2. ASSUME NEW x PROVE x \in IdsBefore(n + 1) <=> x \in IdsBefore(n) \/ x \in Ids(writer.entries[n])
  <2>1. x \in IdsBefore(n + 1) <=> \E i \in 1 .. (n + 1) - 1 : x \in Ids(writer.entries[i])
    BY Zenon DEF IdsBefore
  <2>2. x \in IdsBefore(n) <=> \E i \in 1 .. n - 1 : x \in Ids(writer.entries[i])
    BY Zenon DEF IdsBefore
  <2> QED
    BY <2>1, <2>2, <1>1, Zenon
<1> QED
  BY <1>2

\* The invariant holds when the command starts.
LEMMA CommandStart == CommandInit => CommandInv
<1> SUFFICES ASSUME CommandInit PROVE CommandInv
  OBVIOUS
<1>1. ArchiveInv /\ writer = EmptyWriter /\ DOMAIN given = {} /\ stage = "adding"
  BY ArchiveStart DEF CommandInit, Init
<1>2. InputOK(Stored(From))
  BY <1>1, NothingHeld DEF InputOK
<1>3. Len(writer.entries) = 0
  BY <1>1 DEF EmptyWriter
<1> QED
  BY <1>1, <1>2, <1>3 DEF CommandInit, CommandInv, Written

\* Writing the input, here or elsewhere, keeps it.
LEMMA BakeKeeps == CommandInv /\ (Bake \/ BakeElsewhere) => CommandInv'
<1> SUFFICES ASSUME CommandInv, Bake \/ BakeElsewhere PROVE CommandInv'
  OBVIOUS
<1>1. stage = "adding" /\ UNCHANGED commandVars
  BY DEF Bake, BakeElsewhere, Next, Add, Abort, Finish, ForeignAdd
<1>2. step = "waiting" /\ step' = "waiting" /\ at' = 1 /\ copier' = EmptyWriter /\ foreign' = foreign
  BY <1>1 DEF CommandInv, commandVars
<1>3. (IF foreign THEN InputOK(Stored(From)) ELSE ArchiveInv)'
  <2>1. CASE Bake
    BY <2>1, <1>2, ArchiveStep DEF CommandInv, Bake
  <2>2. CASE BakeElsewhere /\ Finish
    <3>1. foreign /\ InputOK(Stored(From))
      BY <2>2 DEF CommandInv, BakeElsewhere
    <3> QED
      BY <3>1, <2>2, <1>2 DEF InputOK, Finish
  <2>3. ASSUME NEW id \in TileIds, NEW b \in Stored(From), foreign, ForeignAdd(id, b)
        PROVE  InputOK(Stored(From))'
    <3>1. /\ stage = "adding" /\ Ascending(writer, id) /\ stage' = stage
          /\ writer' = ForeignAdded(writer, id, b) /\ given' = With(given, id, b)
      BY <2>3 DEF ForeignAdd, With
    <3>2. id \in Nat /\ Told(Stored(From))
      BY IdsAssumption, ToldStored
    <3>3. InputOK(Stored(From))
      BY <2>3 DEF CommandInv
    <3>4. /\ OrderOK(writer') /\ StoreOK(writer', Stored(From)) /\ Maximal(writer')
          /\ Holds(writer', given')
      BY <3>1, <3>2, <3>3, ForeignAddedOK DEF InputOK
    <3>5. DOMAIN given' \subseteq TileIds
      BY <3>1, <3>3 DEF With, InputOK
    <3> QED
      BY <3>1, <3>3, <3>4, <3>5 DEF InputOK, OrderOK, StoreOK, Maximal, Holds
  <2> QED
    BY <2>1, <2>2, <2>3, <1>2 DEF BakeElsewhere
<1>4. OrderOK(writer')
  BY <1>3 DEF InputOK, ArchiveInv, OrderOK
<1>5. Len(writer'.entries) \in Nat
  BY <1>4, OrderlyRises DEF OrderOK
<1> QED
  BY <1>2, <1>3, <1>5 DEF CommandInv, Written

\* Opening the input keeps it: an empty copy of no entries. (recompress.rs)
LEMMA BeginKeeps == CommandInv /\ Begin => CommandInv'
<1> SUFFICES ASSUME CommandInv, Begin PROVE CommandInv'
  OBVIOUS
<1>1. step = "waiting" /\ stage = "done" /\ step' = "copying" /\ at = 1 /\ copier = EmptyWriter
  BY DEF Begin, CommandInv
<1>2. CopierOK
  BY <1>1, BeforeTheFirst, NothingHeld DEF CopierOK
<1> QED
  BY <1>1, <1>2 DEF Begin, CommandInv, Written, InputOK, ArchiveInv, CopierOK, NoneEmpty, IdsBefore, Copied, input

\* the entry being copied: its blob, and where the copy stands before it
LEMMA NextEntry ==
  ASSUME CommandInv, step = "copying", ~AfterTheLastRun
  PROVE  LET e == tile_entries(input)[at]
             b == entry_blob(input, e) IN
         /\ at \in 1 .. Len(writer.entries) /\ e = writer.entries[at]
         /\ e \in Cell /\ e.run >= 1 /\ Ascending(copier, e.id)
         /\ b \in Stored(From) /\ (NoneEmpty => b # <<>>)
         /\ \A id \in Ids(e) : id \in DOMAIN given /\ given[id] = b
<1> DEFINE e == tile_entries(input)[at]
           b == entry_blob(input, e)
           dir == writer.entries
<1>1. /\ OrderOK(writer) /\ StoreOK(writer, Stored(From)) /\ Holds(writer, given)
      /\ input \in Assembled(writer) /\ Stored(From) \subseteq Seq(Nat)
  BY InputFacts DEF CommandInv, Told
<1>2. /\ dir \in Seq(Cell) /\ Len(dir) \in Nat /\ DOMAIN dir = 1 .. Len(dir)
      /\ \A i \in 1 .. Len(dir) : dir[i].id \in Nat /\ dir[i].run \in Nat /\ dir[i].run >= 1
  <2>1. dir \in Seq(Cell) /\ Len(dir) \in Nat /\ DOMAIN dir = 1 .. Len(dir)
    BY <1>1, OrderlyRises DEF OrderOK
  <2>2. \A i \in 1 .. Len(dir) : dir[i] \in Cell
    BY <2>1
  <2> QED
    BY <1>1, <2>1, <2>2 DEF OrderOK, Orderly, Cell
<1>3. tile_entries(input) = dir
  BY <1>1, Reading DEF OrderOK
<1>4. at \in 1 .. Len(dir) /\ e = dir[at] /\ e \in Cell
  BY <1>2, <1>3 DEF AfterTheLastRun, CommandInv
<1> HIDE DEF e
<1>5. \A id \in Ids(e) : id \in DOMAIN given /\ b = given[id]
  <2>1. \A i \in DOMAIN dir : \A id \in Ids(dir[i]) :
          id \in DOMAIN given /\ entry_blob(input, dir[i]) = given[id]
    <3>1. \A i \in DOMAIN tile_entries(input) : \A id \in Ids(tile_entries(input)[i]) :
            id \in DOMAIN given /\ entry_blob(input, tile_entries(input)[i]) = given[id]
      BY <1>1, Answers
    <3> QED
      BY <3>1, <1>3, Zenon
  <2> QED
    BY <2>1, <1>2, <1>4
<1>6. e.id \in Ids(e)
  BY <1>2, <1>4 DEF Ids
<1>7. b \in Stored(From) /\ (NoneEmpty => b # <<>>)
  BY <1>1, <1>5, <1>6, HeldIn DEF NoneEmpty
<1>8. Ascending(copier, e.id)
  <2> SUFFICES ASSUME copier.addressed # 0 PROVE e.id > copier.last
    BY DEF Ascending
  <2> DEFINE out == copier.entries  l == Last(out)
  <2>1. OrderOK(copier) /\ AllIds(out) = IdsBefore(at)
    BY DEF CommandInv, CopierOK
  <2>2. /\ out # <<>> /\ Len(out) \in DOMAIN out /\ l = out[Len(out)] /\ l \in Cell
        /\ l.run >= 1 /\ l.id + l.run = copier.last + 1 /\ copier.last \in Nat
    BY <2>1, LastEntry DEF OrderOK, Orderly
  <2>3. copier.last \in Ids(l)
    <3>1. l.id \in Nat /\ l.run \in Nat
      BY <2>2 DEF Cell
    <3> HIDE DEF l
    <3>2. copier.last \in l.id .. l.id + l.run - 1
      <4> DEFINE x == l.id  y == l.run  z == copier.last
      <4>1. x \in Nat /\ y \in Nat /\ z \in Nat /\ y >= 1 /\ x + y = z + 1
        BY <3>1, <2>2, Zenon
      <4> HIDE DEF x, y, z
      <4>2. z \in x .. x + y - 1
        BY <4>1
      <4> QED
        BY <4>2, Zenon DEF x, y, z
    <3> QED
      BY <3>2, Zenon DEF Ids
  <2>4. copier.last \in AllIds(out)
    BY <2>2, <2>3, AllIdsAre
  <2>5. PICK i \in 1 .. at - 1 : copier.last \in Ids(dir[i])
    BY <2>1, <2>4, Zenon DEF IdsBefore
  <2>6. i \in 1 .. Len(dir) /\ at \in 1 .. Len(dir) /\ i < at
    BY <2>5, <1>2, <1>4
  <2>7. dir[i].id + dir[i].run <= dir[at].id
    BY <2>6, <1>1, <1>2 DEF OrderOK, Orderly
  <2>8. copier.last < dir[i].id + dir[i].run
    BY SMTT(30), <2>5, <2>6, <1>2 DEF Ids
  <2>9. dir[i].id \in Nat /\ dir[i].run \in Nat /\ dir[at].id \in Nat
    BY <2>6, <1>2
  <2> HIDE DEF dir, out, l
  <2> QED
    BY <2>2, <2>7, <2>8, <2>9, <1>4
<1> QED
  BY <1>2, <1>4, <1>5, <1>7, <1>8 DEF e

\* Copying one run keeps it. (recompress.rs: recompress_pmtiles)
LEMMA CopyKeeps == CommandInv /\ Copy => CommandInv'
<1> SUFFICES ASSUME CommandInv, Copy PROVE CommandInv'
  OBVIOUS
<1> DEFINE e == tile_entries(input)[at]
           b == entry_blob(input, e)
           r == Recoded(b)
<1>1. /\ step = "copying" /\ ~AfterTheLastRun
      /\ copier' = AddedRun(copier, e, r) /\ at' = at + 1
      /\ UNCHANGED <<stage, writer, archive, given, foreign, step, output>>
  BY DEF Copy
<1>2. /\ at \in 1 .. Len(writer.entries) /\ e = writer.entries[at]
      /\ e \in Cell /\ e.run >= 1 /\ Ascending(copier, e.id)
      /\ b \in Stored(From) /\ (NoneEmpty => b # <<>>)
      /\ \A id \in Ids(e) : id \in DOMAIN given /\ given[id] = b
  BY <1>1, NextEntry
<1>3. Len(writer.entries) \in Nat /\ stage = "done" /\ CopierOK
  BY <1>1, InputFacts, OrderlyRises DEF CommandInv, OrderOK
<1> HIDE DEF e, b
<1>4. r \in Stored(To) /\ (NoneEmpty => r \in Encoded(To))
  BY <1>2, Recodes
<1>5. Told(Stored(To)) /\ Told(Encoded(To)) /\ <<>> \notin Encoded(To)
  BY ToldStored
<1> HIDE DEF r
<1> DEFINE n == AddedRun(copier, e, r)
<1>6. OrderOK(n) /\ StoreOK(n, Stored(To)) /\ AllIds(n.entries) = AllIds(copier.entries) \cup Ids(e)
  <2>1. OrderOK(copier) /\ StoreOK(copier, Stored(To))
    BY <1>3 DEF CopierOK
  <2> QED
    BY <2>1, <1>2, <1>4, <1>5, RunOK
<1>7. IdsBefore(at + 1) = IdsBefore(at) \cup Ids(e)
  BY <1>2, OneMore
<1>8. ASSUME NoneEmpty
      PROVE  StoreOK(n, Encoded(To)) /\ Apart(n) /\ Holds(n, Copied(at + 1))
  <2>1. StoreOK(copier, Encoded(To)) /\ Apart(copier) /\ Holds(copier, Copied(at)) /\ OrderOK(copier)
    BY <1>3, <1>8 DEF CopierOK
  <2>2. StoreOK(n, Encoded(To)) /\ Apart(n) /\ Holds(n, Overlaid(Copied(at), Ids(e), r))
    BY <2>1, <1>2, <1>4, <1>5, <1>8, RunOK
  <2>3. Overlaid(Copied(at), Ids(e), r) = Copied(at + 1)
    BY <1>2, <1>7 DEF Overlaid, Copied, r
  <2> QED
    BY <2>2, <2>3
<1>9. CopierOK'
  <2>1. NoneEmpty' = NoneEmpty /\ IdsBefore(at)' = IdsBefore(at + 1) /\ Copied(at)' = Copied(at + 1)
    BY <1>1 DEF NoneEmpty, IdsBefore, Copied
  <2>2. copier' = n
    BY <1>1
  <2> HIDE DEF n
  <2>3. OrderOK(copier') /\ StoreOK(copier', Stored(To)) /\ AllIds(copier'.entries) = IdsBefore(at + 1)
    BY <2>2, <1>3, <1>6, <1>7 DEF CopierOK
  <2>4. NoneEmpty => /\ StoreOK(copier', Encoded(To)) /\ Apart(copier')
                     /\ Holds(copier', Copied(at + 1))
    BY <2>2, <1>8
  <2> QED
    BY <2>1, <2>3, <2>4 DEF CopierOK, OrderOK, StoreOK, Apart, Holds, Encoded, Stored
<1>10. at' \in 1 .. Len(writer'.entries) + 1
  BY <1>1, <1>2, <1>3
<1>11. (IF foreign THEN InputOK(Stored(From)) ELSE ArchiveInv)'
  BY <1>1 DEF CommandInv, InputOK, ArchiveInv
<1> QED
  BY <1>1, <1>3, <1>9, <1>10, <1>11 DEF CommandInv, Written

\* A failure keeps it: nothing is written.
LEMMA FailKeeps == CommandInv /\ Fail => CommandInv'
<1> SUFFICES ASSUME CommandInv, Fail PROVE CommandInv'
  OBVIOUS
<1>1. /\ step = "copying" /\ step' = "failed" 
      /\ UNCHANGED <<stage, writer, archive, given, foreign, at, copier, output>>
  BY DEF Fail
<1>2. CopierOK'
  BY <1>1 DEF CommandInv, CopierOK, NoneEmpty, IdsBefore, Copied
<1>3. (IF foreign THEN InputOK(Stored(From)) ELSE ArchiveInv)'
  BY <1>1 DEF CommandInv, InputOK, ArchiveInv
<1> QED
  BY <1>1, <1>2, <1>3 DEF CommandInv, Written

\* Finishing the copy keeps it: the copy has every entry. (recompress.rs)
LEMMA FinishKeeps == CommandInv /\ FinishCopy => CommandInv'
<1> SUFFICES ASSUME CommandInv, FinishCopy PROVE CommandInv'
  OBVIOUS
<1>1. /\ step = "copying" /\ step' = "copied" /\ AfterTheLastRun /\ output' \in Assembled(copier)
      /\ UNCHANGED <<stage, writer, archive, given, foreign, at, copier>>
  BY DEF FinishCopy
<1>2. CopierOK'
  BY <1>1 DEF CommandInv, CopierOK, NoneEmpty, IdsBefore, Copied
<1>3. (IF foreign THEN InputOK(Stored(From)) ELSE ArchiveInv)'
  BY <1>1 DEF CommandInv, InputOK, ArchiveInv
<1>4. tile_entries(input) = writer.entries /\ Len(writer.entries) \in Nat
  BY <1>1, InputFacts, Reading, OrderlyRises DEF CommandInv, OrderOK
<1>5. at = Len(writer.entries) + 1
  BY <1>1, <1>4 DEF CommandInv, AfterTheLastRun
<1> QED
  BY <1>1, <1>2, <1>3, <1>5 DEF CommandInv, Written

\* Verifying keeps it: it only looks. (recompress.rs: verify_same_tiles)
LEMMA VerifyKeeps == CommandInv /\ Verify => CommandInv'
<1> SUFFICES ASSUME CommandInv, Verify PROVE CommandInv'
  OBVIOUS
<1>1. /\ step = "copied" /\ step' = IF SameTiles(input, output) THEN "verified" ELSE "differs"
      /\ UNCHANGED <<stage, writer, archive, given, foreign, at, copier, output>>
  BY DEF Verify
<1>2. CopierOK'
  BY <1>1 DEF CommandInv, Written, CopierOK, NoneEmpty, IdsBefore, Copied
<1>3. (IF foreign THEN InputOK(Stored(From)) ELSE ArchiveInv)'
  BY <1>1 DEF CommandInv, InputOK, ArchiveInv
<1>4. SameTiles(input, output)' = SameTiles(input, output)
  BY <1>1 DEF input
<1> QED
  BY <1>1, <1>2, <1>3, <1>4 DEF CommandInv, Written

\* A step of nobody keeps it.
LEMMA StutterKeeps == CommandInv /\ UNCHANGED allVars => CommandInv'
  BY DEF allVars, commandVars, CommandInv, InputOK, ArchiveInv, CopierOK, NoneEmpty, IdsBefore, Copied, input

(***************************************************************************)
(* The inductive invariant of the command, from the first tile of the input *)
(* to the verdict. (recompress.rs: recompress_pmtiles, verify_same_tiles)  *)
(***************************************************************************)
THEOREM CommandSound == CommandSpec => []CommandInv
<1>1. CommandInit => CommandInv
  BY CommandStart
<1>2. CommandInv /\ [CommandNext]_allVars => CommandInv'
  BY BakeKeeps, BeginKeeps, CopyKeeps, FailKeeps, FinishKeeps, VerifyKeeps, StutterKeeps DEF CommandNext
<1> QED
  BY <1>1, <1>2, PTL DEF CommandSpec

\* Comparing run by run what two sound archives store is comparing what a reader gets
\* from them under every id, however the runs of each are cut.
\* (recompress.rs: verify_same_tiles)
LEMMA VerifyComparesAnswers ==
  ASSUME OrderOK(writer), StoreOK(writer, Stored(From)), Holds(writer, given), archive \in Assembled(writer),
         DOMAIN given \subseteq TileIds,
         NEW h, OrderOK(copier), StoreOK(copier, Stored(To)), Holds(copier, h), output \in Assembled(copier),
         DOMAIN h \subseteq TileIds
  PROVE  /\ SameTiles(input, output) <=> SameAnswers
         /\ SameAnswers <=> /\ DOMAIN h = DOMAIN given
                            /\ \A id \in DOMAIN given : decoded(From, given[id]) = decoded(To, h[id])
<1>1. Told(Stored(From)) /\ Told(Stored(To)) /\ TileIds \subseteq Nat
  BY ToldStored, IdsAssumption
<1>2. /\ all_tile_ids(input) = DOMAIN given
      /\ \A id \in Nat : raw_tile_by_id(input, id) = IF id \in DOMAIN given THEN given[id] ELSE NoTile
      /\ \A i \in DOMAIN tile_entries(input) : \A id \in Ids(tile_entries(input)[i]) :
           id \in DOMAIN given /\ entry_blob(input, tile_entries(input)[i]) = given[id]
  BY <1>1, Answers DEF input, Told
<1>3. /\ all_tile_ids(output) = DOMAIN h
      /\ \A id \in Nat : raw_tile_by_id(output, id) = IF id \in DOMAIN h THEN h[id] ELSE NoTile
  BY <1>1, Answers DEF Told
<1>4. \A id \in DOMAIN given : id \in Nat /\ given[id] \in Stored(From) /\ decoded(From, given[id]) \in Seq(Nat)
  BY <1>1, HeldIn, Decodes DEF Told
<1>5. \A id \in DOMAIN h : id \in Nat /\ h[id] \in Stored(To) /\ decoded(To, h[id]) \in Seq(Nat)
  BY <1>1, HeldIn, Decodes DEF Told
<1>6. NoTile \notin Seq(Nat) /\ Stored(From) \subseteq Seq(Nat) /\ Stored(To) \subseteq Seq(Nat)
  BY <1>1, MissAssumption DEF Told
<1>7. ASSUME NEW id \in TileIds
      PROVE  Decoded(input, From, id) = IF id \in DOMAIN given THEN decoded(From, given[id]) ELSE NoTile
  BY <1>1, <1>2, <1>4, <1>6 DEF Decoded
<1>8. ASSUME NEW id \in TileIds
      PROVE  Decoded(output, To, id) = IF id \in DOMAIN h THEN decoded(To, h[id]) ELSE NoTile
  BY <1>1, <1>3, <1>5, <1>6 DEF Decoded
<1> DEFINE Alike == /\ DOMAIN h = DOMAIN given
                    /\ \A id \in DOMAIN given : decoded(From, given[id]) = decoded(To, h[id])
<1>9. SameAnswers => Alike
  <2> SUFFICES ASSUME SameAnswers PROVE Alike
    OBVIOUS
  <2>1. \A id \in TileIds : (IF id \in DOMAIN given THEN decoded(From, given[id]) ELSE NoTile)
                              = (IF id \in DOMAIN h THEN decoded(To, h[id]) ELSE NoTile)
    BY <1>7, <1>8 DEF SameAnswers
  <2>2. \A id \in TileIds : id \in DOMAIN given <=> id \in DOMAIN h
    BY <2>1, <1>4, <1>5, <1>6
  <2>3. DOMAIN h = DOMAIN given
    BY <2>2
  <2>4. \A id \in DOMAIN given : decoded(From, given[id]) = decoded(To, h[id])
    BY <2>1, <2>3
  <2> QED
    BY <2>3, <2>4
<1>10. Alike => SameAnswers
  BY <1>7, <1>8 DEF SameAnswers
<1>11. \A id : id \in all_tile_ids(input) <=>
                 \E i \in DOMAIN tile_entries(input) : id \in Ids(tile_entries(input)[i])
  BY Zenon DEF all_tile_ids
<1>12. SameTiles(input, output) => Alike
  <2> SUFFICES ASSUME SameTiles(input, output) PROVE Alike
    OBVIOUS
  <2>1. DOMAIN h = DOMAIN given
    BY <1>2, <1>3 DEF SameTiles
  <2>2. ASSUME NEW id \in DOMAIN given PROVE decoded(From, given[id]) = decoded(To, h[id])
    <3>1. PICK i \in DOMAIN tile_entries(input) : id \in Ids(tile_entries(input)[i])
      BY <1>2, <1>11
    <3>2. entry_blob(input, tile_entries(input)[i]) = given[id]
      BY <3>1, <1>2
    <3>3. raw_tile_by_id(output, id) = h[id]
      BY <2>1, <1>3, <1>4
    <3>4. DecodeAlike(entry_blob(input, tile_entries(input)[i]), raw_tile_by_id(output, id))
      BY <3>1, Zenon DEF SameTiles
    <3> QED
      BY <3>2, <3>3, <3>4 DEF DecodeAlike
  <2> QED
    BY <2>1, <2>2
<1>13. Alike => SameTiles(input, output)
  <2> SUFFICES ASSUME Alike PROVE SameTiles(input, output)
    OBVIOUS
  <2>1. all_tile_ids(input) = all_tile_ids(output)
    BY <1>2, <1>3
  <2>2. ASSUME NEW i \in DOMAIN tile_entries(input), NEW id \in Ids(tile_entries(input)[i])
        PROVE  DecodeAlike(entry_blob(input, tile_entries(input)[i]), raw_tile_by_id(output, id))
    <3>1. id \in DOMAIN given /\ entry_blob(input, tile_entries(input)[i]) = given[id]
      BY <1>2
    <3>2. raw_tile_by_id(output, id) = h[id]
      BY <3>1, <1>3, <1>4
    <3> QED
      BY <3>1, <3>2 DEF DecodeAlike
  <2> QED
    BY <2>1, <2>2, Zenon DEF SameTiles
<1> QED
  BY <1>9, <1>10, <1>12, <1>13

\* What the invariant says of a copy that is written.
LEMMA CopyFacts ==
  ASSUME CommandInv, step \in Written
  PROVE  /\ OrderOK(writer) /\ StoreOK(writer, Stored(From)) /\ Holds(writer, given)
         /\ archive \in Assembled(writer) /\ DOMAIN given \subseteq TileIds
         /\ OrderOK(copier) /\ StoreOK(copier, Stored(To)) /\ output \in Assembled(copier)
         /\ AllIds(copier.entries) = DOMAIN given
         /\ NoneEmpty => Holds(copier, Copied(Len(writer.entries) + 1))
<1>1. stage = "done" /\ CopierOK /\ at = Len(writer.entries) + 1 /\ output \in Assembled(copier)
  BY DEF CommandInv, Written
<1>2. /\ OrderOK(writer) /\ StoreOK(writer, Stored(From)) /\ Holds(writer, given)
      /\ archive \in Assembled(writer) /\ DOMAIN given \subseteq TileIds
  BY <1>1, InputFacts DEF input
<1>3. IdsBefore(at) = DOMAIN given
  BY <1>1, <1>2, BeforeTheEnd
<1> QED
  BY <1>1, <1>2, <1>3 DEF CopierOK

\* Hence the verdict is right.
LEMMA VerifyIsTrue == CommandInv => VerifyTellsTheTruth
<1> SUFFICES ASSUME CommandInv, step \in {"verified", "differs"}
             PROVE  SameTiles(input, output) <=> SameAnswers
  BY DEF CommandInv, VerifyTellsTheTruth
<1>1. /\ OrderOK(writer) /\ StoreOK(writer, Stored(From)) /\ Holds(writer, given)
      /\ archive \in Assembled(writer) /\ DOMAIN given \subseteq TileIds
      /\ OrderOK(copier) /\ StoreOK(copier, Stored(To)) /\ output \in Assembled(copier)
      /\ AllIds(copier.entries) = DOMAIN given
  BY CopyFacts DEF Written
<1>2. Holds(copier, Content(copier)) /\ DOMAIN Content(copier) \subseteq TileIds
  BY <1>1, HoldsItsContent, IdsAssumption DEF Content
<1> QED
  BY <1>1, <1>2, VerifyComparesAnswers

\* And without empty blobs the verdict is that they are the same.
LEMMA CopyIsTheSame == CommandInv => KeepsTheTiles
<1> SUFFICES ASSUME CommandInv, step \in Written, NoneEmpty PROVE SameAnswers
  BY DEF KeepsTheTiles, Written, NoneEmpty
<1>1. /\ OrderOK(writer) /\ StoreOK(writer, Stored(From)) /\ Holds(writer, given)
      /\ archive \in Assembled(writer) /\ DOMAIN given \subseteq TileIds
      /\ OrderOK(copier) /\ StoreOK(copier, Stored(To)) /\ output \in Assembled(copier)
      /\ Holds(copier, Copied(Len(writer.entries) + 1))
  BY CopyFacts
<1> DEFINE h == Copied(Len(writer.entries) + 1)
<1>2. DOMAIN h = DOMAIN given /\ \A id \in DOMAIN given : h[id] = Recoded(given[id])
  BY <1>1, BeforeTheEnd DEF Copied
<1> HIDE DEF h
<1>3. \A id \in DOMAIN given : decoded(From, given[id]) = decoded(To, h[id])
  <2>1. Stored(From) \subseteq Seq(Nat)
    BY ToldStored DEF Told
  <2>2. \A id \in DOMAIN given : given[id] \in Stored(From)
    BY <1>1, <2>1, HeldIn
  <2> QED
    BY <2>2, <1>2, Recodes
<1>4. Holds(copier, h) /\ DOMAIN h \subseteq TileIds
  BY <1>1, <1>2 DEF h
<1> QED
  BY <1>1, <1>2, <1>3, <1>4, VerifyComparesAnswers

(***************************************************************************)
(* The command reports success exactly when a reader gets the same tile    *)
(* from both archives under every id, for archives of any writer, with     *)
(* empty blobs and in runs of any length. (recompress.rs:                  *)
(* verify_same_tiles)                                                      *)
(***************************************************************************)
THEOREM VerifyTruthful == CommandSpec => []VerifyTellsTheTruth
<1>1. CommandInv => VerifyTellsTheTruth
  BY VerifyIsTrue
<1> QED
  BY <1>1, CommandSound, PTL

(***************************************************************************)
(* Without empty blobs in the input the archive written answers every id   *)
(* with the tile of the input. (recompress.rs: recompress_pmtiles)         *)
(***************************************************************************)
THEOREM CopyKeepsTheTiles == CommandSpec => []KeepsTheTiles
<1>1. CommandInv => KeepsTheTiles
  BY CopyIsTheSame
<1> QED
  BY <1>1, CommandSound, PTL

(***************************************************************************)
(* The same of the archive the command reads, whether this program wrote it *)
(* or another, with empty blobs in it.  (read.rs; recompress.rs)           *)
(***************************************************************************)
THEOREM InputHolds == CommandSpec => [](HoldsWhatWasGiven /\ IsCompact)
<1>1. CommandInv => HoldsWhatWasGiven /\ IsCompact
  <2> SUFFICES ASSUME CommandInv PROVE HoldsWhatWasGiven /\ IsCompact
    OBVIOUS
  <2> QED
    BY InputFacts, ArchiveHeld, HeldCompactly
<1> QED
  BY <1>1, CommandSound, PTL

(***************************************************************************)
(* 8. Compactions at the same time (CompactionScratch).                    *)
(* Archives with different file stems never meet, for any number of them,  *)
(* of any length.                                                          *)
(***************************************************************************)

\* What the names must be, and what the model's constants are.
StemsApart ==
  /\ Chunks \in Nat /\ Nothing \notin Jobs
  /\ \A i, j \in Jobs : Stem[i] = Stem[j] => i = j

ScratchStates == {"start", "stream", "copy", "rename", "remove", "drop", "ended"}

ScratchShape ==
  /\ pc \in [Jobs -> ScratchStates] /\ pos \in [Jobs -> 0 .. Chunks]
  /\ DOMAIN fd = Jobs /\ DOMAIN inode = Jobs /\ DOMAIN tmp = Jobs /\ DOMAIN published = Jobs
  /\ DOMAIN scratch = Paths

\* A compaction's path names its own file or none, and what it holds is what it has written.
OnItsOwn(j) ==
  /\ scratch[Scratch(j)] \in {Nothing, j}
  /\ pc[j] = "start" => pos[j] = 0 /\ scratch[Scratch(j)] = Nothing
  /\ pc[j] \in {"stream", "copy"} => fd[j] = j
  /\ pc[j] = "stream" => inode[j] = Part(j, pos[j])
  /\ pc[j] = "copy" => inode[j] = Data(j) /\ tmp[j] = Part(j, pos[j])
  /\ pc[j] = "rename" => tmp[j] = Data(j)
  /\ pc[j] = "ended" => scratch[Scratch(j)] # j
  /\ published[j] \in {Nothing, Data(j)}

ScratchInv == ScratchShape /\ \A j \in Jobs : OnItsOwn(j)

\* The first n chunks are a sequence of n chunks, and the next one extends it.
LEMMA PartIsASequence ==
  ASSUME NEW j, NEW n \in Nat
  PROVE  /\ Part(j, n) \in Seq({j} \X Nat) /\ Len(Part(j, n)) = n
         /\ \A i \in 1 .. n : Part(j, n)[i] = <<j, i>>
         /\ Append(Part(j, n), <<j, n + 1>>) = Part(j, n + 1)
         /\ WrittenAt(Part(j, n), n + 1, <<j, n + 1>>) = Part(j, n + 1)
<1> DEFINE S == {j} \X Nat
<1>1. \A m \in Nat : Part(j, m) \in Seq(S) /\ DOMAIN Part(j, m) = 1 .. m
  <2> SUFFICES ASSUME NEW m \in Nat
               PROVE  Part(j, m) \in Seq(S) /\ DOMAIN Part(j, m) = 1 .. m
    OBVIOUS
  <2>1. Part(j, m) \in [1 .. m -> S]
    BY DEF Part
  <2> QED
    BY <2>1, IsASeq DEF Part
<1>2. \A m \in Nat : Len(Part(j, m)) = m
  BY <1>1, LenProperties
<1>3. Append(Part(j, n), <<j, n + 1>>) = Part(j, n + 1)
  <2> DEFINE a == Append(Part(j, n), <<j, n + 1>>)
  <2>0. <<j, n + 1>> \in S /\ Part(j, n) \in Seq(S) /\ Len(Part(j, n)) = n
    <3>1. <<j, n + 1>> \in S
      OBVIOUS
    <3> QED
      BY <1>1, <1>2, <3>1
  <2>1. /\ a \in Seq(S) /\ Len(a) = n + 1 /\ a[n + 1] = <<j, n + 1>>
        /\ \A i \in 1 .. n : a[i] = Part(j, n)[i]
    BY <2>0, AppendProperties
  <2>2. \A i \in 1 .. n + 1 : a[i] = <<j, i>>
    BY <2>1 DEF Part
  <2>3. \A i \in 1 .. n + 1 : Part(j, n + 1)[i] = <<j, i>>
    BY DEF Part
  <2> QED
    <3>1. Part(j, n + 1) \in Seq(S) /\ Len(Part(j, n + 1)) = n + 1
      BY <1>1, <1>2
    <3> QED
      BY <2>1, <2>2, <2>3, <3>1, SeqEqual
<1>4. WrittenAt(Part(j, n), n + 1, <<j, n + 1>>) = Part(j, n + 1)
  BY <1>1, <1>2 DEF Part, WrittenAt
<1> QED
  BY <1>1, <1>2, <1>3, <1>4 DEF Part

\* Nothing of a compaction changes in a step of another.
LEMMA OthersUntouched ==
  ASSUME NEW j \in Jobs, NEW k \in Jobs, OnItsOwn(k),
         pc'[k] = pc[k], pos'[k] = pos[k], fd'[k] = fd[k], inode'[k] = inode[k],
         scratch'[Scratch(k)] = scratch[Scratch(k)], tmp'[k] = tmp[k], published'[k] = published[k]
  PROVE  OnItsOwn(k)'
BY DEF OnItsOwn, Scratch, Data, Part

\* Every step keeps the invariant.
LEMMA ScratchKeeps ==
  ASSUME StemsApart, ScratchInv, [ScratchNext]_scratchVars
  PROVE  ScratchInv'
<1>1. CASE UNCHANGED scratchVars
  BY <1>1 DEF ScratchInv, ScratchShape, OnItsOwn, scratchVars, Scratch, Paths, Data, Part
<1>2. ASSUME NEW j \in Jobs, Create(j) \/ Stream(j) \/ Reopen(j) \/ CopyOut(j)
                             \/ Rename(j) \/ RemoveScratch(j) \/ Drop(j) \/ GiveUp(j)
      PROVE  ScratchInv'
  <2> USE DEF StemsApart
  <2>0. /\ OnItsOwn(j) /\ ScratchShape /\ Scratch(j) \in Paths /\ pos[j] \in Nat /\ Chunks \in Nat
        /\ \A k \in Jobs : OnItsOwn(k) /\ Scratch(k) \in Paths
        /\ \A k \in Jobs \ {j} : Scratch(k) # Scratch(j)
    BY DEF ScratchInv, ScratchShape, Paths, Scratch
  <2>a. \A n \in Nat : Part(j, n) \in Seq({j} \X Nat) /\ Len(Part(j, n)) = n
    BY PartIsASequence
  <2> SUFFICES /\ ScratchShape' /\ OnItsOwn(j)'
               /\ \A k \in Jobs \ {j} :
                    /\ pc'[k] = pc[k] /\ pos'[k] = pos[k] /\ fd'[k] = fd[k]
                    /\ inode'[k] = inode[k] /\ scratch'[Scratch(k)] = scratch[Scratch(k)]
                    /\ tmp'[k] = tmp[k] /\ published'[k] = published[k]
    BY <2>0, OthersUntouched DEF ScratchInv
  <2>1. CASE Create(j)
    <3>1. (IF scratch[Scratch(j)] = Nothing THEN j ELSE scratch[Scratch(j)]) = j
      BY <2>0 DEF OnItsOwn
    <3>2. /\ fd' = [fd EXCEPT ![j] = j] /\ inode' = [inode EXCEPT ![j] = <<>>]
          /\ scratch' = [scratch EXCEPT ![Scratch(j)] = j]
      BY <2>1, <3>1 DEF Create
    <3>3. Part(j, 0) = <<>>
      BY <2>a, EmptySeq
    <3>4. pos[j] = 0
      BY <2>0, <2>1 DEF OnItsOwn, Create
    <3> QED
      BY <2>0, <2>1, <3>2, <3>3, <3>4 DEF Create, Goto, ScratchShape, ScratchStates, OnItsOwn
  <2>2. CASE Stream(j)
    <3>1. fd[j] = j /\ inode[j] = Part(j, pos[j]) /\ pos[j] < Chunks
      BY <2>0, <2>2 DEF Stream, OnItsOwn
    <3>2. WrittenAt(Part(j, pos[j]), pos[j] + 1, <<j, pos[j] + 1>>) = Part(j, pos[j] + 1)
      BY <2>0, PartIsASequence
    <3>3. inode' = [inode EXCEPT ![j] = Part(j, pos[j] + 1)]
      BY <2>0, <2>2, <3>1, <3>2 DEF Stream, ScratchShape
    <3> QED
      BY <2>0, <2>2, <3>1, <3>3 DEF Stream, ScratchShape, OnItsOwn
  <2>3. CASE Reopen(j)
    <3>1. Part(j, 0) = <<>>
      BY <2>a, EmptySeq
    <3> QED
      BY <2>0, <2>3, <3>1 DEF Reopen, Goto, ScratchShape, ScratchStates, OnItsOwn, Data
  <2>4. CASE CopyOut(j)
    <3>1. fd[j] = j /\ inode[j] = Data(j) /\ tmp[j] = Part(j, pos[j]) /\ Len(inode[j]) = Chunks
      BY <2>0, <2>4, <2>a DEF CopyOut, OnItsOwn, Data
    <3>2. CASE pos[j] < Len(inode[fd[j]])
      <4>1. inode[fd[j]][pos[j] + 1] = <<j, pos[j] + 1>>
        BY <2>0, <3>1, <3>2 DEF Data, Part
      <4>2. Append(tmp[j], inode[fd[j]][pos[j] + 1]) = Part(j, pos[j] + 1)
        <5>1. Append(Part(j, pos[j]), <<j, pos[j] + 1>>) = Part(j, pos[j] + 1)
          BY <2>0, PartIsASequence
        <5> QED
          BY <3>1, <4>1, <5>1
      <4>3. /\ tmp' = [tmp EXCEPT ![j] = Part(j, pos[j] + 1)]
            /\ pos' = [pos EXCEPT ![j] = pos[j] + 1] /\ UNCHANGED pc
        <5>1. ~(pos[j] >= Len(inode[fd[j]]))
          BY <2>0, <3>1, <3>2
        <5>2. /\ tmp' = [tmp EXCEPT ![j] = Append(tmp[j], inode[fd[j]][pos[j] + 1])]
              /\ pos' = [pos EXCEPT ![j] = pos[j] + 1] /\ pc' = pc
          BY <2>0, <2>4, <5>1 DEF CopyOut, ScratchShape
        <5> QED
          BY <5>2, <4>2
      <4> QED
        BY <2>0, <2>4, <3>1, <3>2, <4>3 DEF CopyOut, ScratchShape, OnItsOwn
    <3>3. CASE pos[j] >= Len(inode[fd[j]])
      <4>1. pos[j] = Chunks
        BY <2>0, <3>1, <3>3 DEF ScratchShape
      <4> QED
        BY <2>0, <2>4, <3>1, <3>3, <4>1 DEF CopyOut, Goto, ScratchShape, ScratchStates, OnItsOwn, Data
    <3> QED
      BY <2>0, <3>1, <3>2, <3>3
  <2>5. CASE Rename(j)
    BY <2>0, <2>5 DEF Rename, Goto, ScratchShape, ScratchStates, OnItsOwn, Data, Part
  <2>6. CASE RemoveScratch(j)
    BY <2>0, <2>6 DEF RemoveScratch, Removed, Goto, ScratchShape, ScratchStates, OnItsOwn, Data, Part
  <2>7. CASE Drop(j)
    BY <2>0, <2>7 DEF Drop, Removed, Goto, ScratchShape, ScratchStates, OnItsOwn, Data, Part
  <2>8. CASE GiveUp(j)
    BY <2>0, <2>8 DEF GiveUp, Goto, ScratchShape, ScratchStates, OnItsOwn, Data, Part
  <2> QED
    BY <1>2, <2>1, <2>2, <2>3, <2>4, <2>5, <2>6, <2>7, <2>8
<1> QED
  BY <1>1, <1>2 DEF ScratchNext

LEMMA ScratchStarts ==
  ASSUME StemsApart, ScratchInit
  PROVE  ScratchInv
<1>1. ScratchShape
  BY DEF StemsApart, ScratchInit, ScratchShape, ScratchStates
<1>2. ASSUME NEW j \in Jobs PROVE OnItsOwn(j)
  <2>1. scratch[Scratch(j)] = Nothing /\ pc[j] = "start" /\ pos[j] = 0 /\ published[j] = Nothing
    BY DEF ScratchInit, Paths
  <2> QED
    BY <2>1 DEF StemsApart, OnItsOwn
<1> QED
  BY <1>1, <1>2 DEF ScratchInv

(***************************************************************************)
(* Compactions of archives whose file stems differ leave every archive     *)
(* either old or whole, at every step of every interleaving and failure.   *)
(* (write.rs: new, add, finish; overlay.rs: compact_overlay_layer)         *)
(***************************************************************************)
THEOREM WholeWhenApart == StemsApart => (ScratchSpec => []ArchivesAreWhole)
<1> SUFFICES ASSUME StemsApart PROVE ScratchSpec => []ArchivesAreWhole
  OBVIOUS
<1>1. ScratchInit => ScratchInv
  BY ScratchStarts
<1>2. ScratchInv /\ [ScratchNext]_scratchVars => ScratchInv'
  BY ScratchKeeps
<1>3. ScratchInv => ArchivesAreWhole
  BY DEF ScratchInv, OnItsOwn, ArchivesAreWhole
<1> QED
  BY <1>1, <1>2, <1>3, PTL DEF ScratchSpec

(***************************************************************************)
(* And each of them, however it ends, leaves no scratch file of its own.   *)
(* (write.rs: finish, Drop)                                                *)
(***************************************************************************)
THEOREM NoneLeftWhenApart == StemsApart => (ScratchSpec => []NoScratchIsLeft)
<1> SUFFICES ASSUME StemsApart PROVE ScratchSpec => []NoScratchIsLeft
  OBVIOUS
<1>1. ScratchInit => ScratchInv
  BY ScratchStarts
<1>2. ScratchInv /\ [ScratchNext]_scratchVars => ScratchInv'
  BY ScratchKeeps
<1>3. ScratchInv => NoScratchIsLeft
  BY DEF ScratchInv, OnItsOwn, NoScratchIsLeft
<1> QED
  BY <1>1, <1>2, <1>3, PTL DEF ScratchSpec
==============================================================================
