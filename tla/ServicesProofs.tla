--------------------------- MODULE ServicesProofs ---------------------------
(***************************************************************************)
(* The server from its start to its answers, for any operator's arguments, *)
(* any axes PROJ knows, and any sequence of requests, evictions and failed *)
(* reads.                                                                  *)
(*                                                                         *)
(*   1. sequences, powers and division;                                    *)
(*   2. what a start publishes;                                            *)
(*   3. addresses: a view of the documents and the grid behind it;         *)
(*   4. tiles: their ground, and the limits;                               *)
(*   5. the byte cache;                                                    *)
(*   6. maps: the window;                                                  *)
(*   7. clicks and documents;                                              *)
(*   8. the invariants of the server.                                      *)
(***************************************************************************)
EXTENDS Services, FiniteSetTheorems, SequenceTheorems, WellFoundedInduction, TLAPS

(***************************************************************************)
(* 1. Sequences, powers and division.                                      *)
(***************************************************************************)

\* A set of naturals that is not empty has a least element.
LEMMA LeastElement ==
  ASSUME NEW T \in SUBSET Nat, T # {}
  PROVE  \E m \in T : \A k \in T : m <= k
<1> DEFINE R == {p \in Nat \X Nat : p[1] < p[2]}
<1>1. IsWellFoundedOn(R, Nat)
  BY NatLessThanWellFounded, Zenon DEF OpToRel
<1>3. \A k, m \in Nat : k < m => <<k, m>> \in R
  OBVIOUS
<1> HIDE DEF R
<1>2. PICK m \in T : \A k \in T : ~(<<k, m>> \in R)
  BY <1>1, WFMin
<1>4. ASSUME NEW k \in T PROVE m <= k
  <2>1. k \in Nat /\ m \in Nat /\ ~(k < m)
    BY <1>2, <1>3, Zenon
  <2> QED
    BY <2>1
<1> QED
  BY <1>4

\* Induction over the natural numbers, for a set.
LEMMA Induction ==
  ASSUME NEW T, 0 \in T, \A n \in Nat : n \in T => n + 1 \in T
  PROVE  Nat \subseteq T
<1> SUFFICES ASSUME Nat \ T # {} PROVE FALSE
  OBVIOUS
<1>1. PICK m \in Nat \ T : \A k \in Nat \ T : m <= k
  BY LeastElement
<1>2. m - 1 \in Nat /\ m - 1 \in T
  BY <1>1
<1> QED
  BY <1>1, <1>2

\* The first of some positions, if there is one.
LEMMA FirstOfIsFirst ==
  ASSUME NEW s, NEW P \in SUBSET Nat
  PROVE  /\ FirstOf(s, P) = <<>> <=> P = {}
         /\ P # {} => \E m \in P : FirstOf(s, P) = <<s[m]>> /\ \A k \in P : m <= k
<1>1. P # {} => Min(P) \in P /\ \A k \in P : Min(P) <= k
  BY LeastElement DEF Min
<1> QED
  BY <1>1 DEF FirstOf

\* The greater of two integers.
LEMMA MaxOfTwo ==
  ASSUME NEW a \in Int, NEW b \in Int
  PROVE  Max({a, b}) \in Int /\ Max({a, b}) = IF a >= b THEN a ELSE b
  BY DEF Max

\* The lesser of two integers.
LEMMA MinOfTwo ==
  ASSUME NEW a \in Int, NEW b \in Int
  PROVE  Min({a, b}) \in Int /\ Min({a, b}) = IF a <= b THEN a ELSE b
  BY DEF Min

\* A power of two is a positive number: it counts the subsets of a set.
LEMMA Powers ==
  ASSUME NEW n \in Nat
  PROVE  2^n \in Positive
<1>1. IsFiniteSet(1..n) /\ Cardinality(1..n) = n
  BY FS_Interval
<1>2. IsFiniteSet(SUBSET (1..n)) /\ Cardinality(SUBSET (1..n)) = 2^n
  BY <1>1, FS_SUBSET
<1>3. SUBSET (1..n) # {}
  OBVIOUS
<1> QED
  BY <1>2, <1>3, FS_CardinalityType, FS_EmptySet DEF Positive

\* How Picked runs through a sequence.
PickStep(f, s, P, n) == IF n = 0 THEN <<>> ELSE IF n \in P THEN Append(f[n - 1], s[n]) ELSE f[n - 1]

\* Picked is what a function that goes through the places one by one picks.
LEMMA PickedRuns ==
  ASSUME NEW s, NEW P, Len(s) \in Nat
  PROVE  \E f : Picked(s, P) = f[Len(s)] /\ \A n \in 0..Len(s) : f[n] = PickStep(f, s, P, n)
<1> DEFINE L == Len(s)
           Eq(f, n) == f = [k \in 0..n |-> IF k = 0 THEN <<>> ELSE IF k \in P THEN Append(f[k - 1], s[k]) ELSE f[k - 1]]
           T == {n \in Nat : \E f : Eq(f, n)}
           kept == CHOOSE f : Eq(f, L)
<1>1. 0 \in T
  <2>1. Eq([k \in 0..0 |-> <<>>], 0)
    <3>1. \A k \in 0..0 : k = 0
      OBVIOUS
    <3> QED
      BY <3>1, Zenon
  <2> QED
    BY <2>1, Zenon
<1>2. ASSUME NEW n \in T PROVE n + 1 \in T
  <2>1. PICK f : Eq(f, n)
    OBVIOUS
  <2>2. n \in Nat
    OBVIOUS
  <2> HIDE DEF T
  <2> DEFINE h == [k \in 0..n + 1 |-> IF k = n + 1 THEN PickStep(f, s, P, n + 1) ELSE f[k]]
  <2>3. \A k \in 0..n : f[k] = PickStep(f, s, P, k)
    BY <2>1, Zenon DEF PickStep
  <2>4. ASSUME NEW k \in 0..n + 1 PROVE h[k] = PickStep(h, s, P, k)
    <3>1. h[k] = IF k = n + 1 THEN PickStep(f, s, P, n + 1) ELSE f[k]
      BY Zenon
    <3>2. k # 0 => h[k - 1] = f[k - 1]
      <4>1. k # 0 => k - 1 \in 0..n + 1 /\ k - 1 # n + 1
        BY <2>2
      <4> QED
        BY <4>1
    <3>3. k # n + 1 => k \in 0..n
      BY <2>2
    <3> HIDE DEF h
    <3>4. PickStep(h, s, P, k) = PickStep(f, s, P, k)
      BY <3>2, Zenon DEF PickStep
    <3> QED
      BY <3>1, <3>3, <3>4, <2>3, Zenon
  <2>5. h = [k \in 0..n + 1 |-> PickStep(h, s, P, k)]
    BY <2>4, Zenon
  <2> HIDE DEF h
  <2>6. Eq(h, n + 1)
    BY <2>5, Zenon DEF PickStep
  <2>7. \E g : Eq(g, n + 1)
    BY <2>6, Zenon
  <2>8. n + 1 \in Nat
    BY <2>2
  <2> QED
    BY <2>7, <2>8, Zenon DEF T
<1>3. L \in T
  <2> HIDE DEF T, L
  <2>1. Nat \subseteq T
    BY <1>1, <1>2, Induction
  <2> QED
    BY <2>1 DEF L
<1>4. Eq(kept, L)
  BY <1>3, Zenon
<1>5. Picked(s, P) = kept[L]
  BY DEF Picked
<1> HIDE DEF kept
<1>6. \A n \in 0..L : kept[n] = PickStep(kept, s, P, n)
  BY <1>4, Zenon DEF PickStep
<1> QED
  BY <1>5, <1>6

\* What is picked comes from the sequence, and is all of it when every position is wanted.
LEMMA PickedIs ==
  ASSUME NEW S, NEW s \in Seq(S), NEW P
  PROVE  Picked(s, P) \in Seq(S) /\ (DOMAIN s \subseteq P => Picked(s, P) = s)
<1>0. Len(s) \in Nat /\ DOMAIN s = 1..Len(s) /\ \A n \in 1..Len(s) : s[n] \in S
  OBVIOUS
<1>1. PICK f : Picked(s, P) = f[Len(s)] /\ \A n \in 0..Len(s) : f[n] = PickStep(f, s, P, n)
  BY <1>0, PickedRuns
<1> DEFINE T == {n \in Nat : n <= Len(s) => f[n] \in Seq(S) /\ (DOMAIN s \subseteq P => f[n] = SubSeq(s, 1, n))}
<1>2. 0 \in T
  <2>1. f[0] = <<>>
    BY <1>0, <1>1 DEF PickStep
  <2>2. <<>> \in Seq(S) /\ SubSeq(s, 1, 0) = <<>>
    BY <1>0
  <2> QED
    BY <2>1, <2>2
<1>3. ASSUME NEW n \in Nat, n \in T PROVE n + 1 \in T
  <2> SUFFICES ASSUME n + 1 <= Len(s)
               PROVE  f[n + 1] \in Seq(S) /\ (DOMAIN s \subseteq P => f[n + 1] = SubSeq(s, 1, n + 1))
    OBVIOUS
  <2>1. f[n] \in Seq(S) /\ (DOMAIN s \subseteq P => f[n] = SubSeq(s, 1, n))
    BY <1>0, <1>3
  <2>2. f[n + 1] = PickStep(f, s, P, n + 1) /\ n + 1 \in 1..Len(s) /\ (n + 1) - 1 = n /\ n + 1 # 0
    BY <1>0, <1>1
  <2>3. f[n + 1] = IF n + 1 \in P THEN Append(f[n], s[n + 1]) ELSE f[n]
    BY <2>2 DEF PickStep
  <2>4. s[n + 1] \in S
    BY <1>0, <2>2
  <2>5. Append(SubSeq(s, 1, n), s[n + 1]) = SubSeq(s, 1, n + 1)
    BY <1>0, <2>2
  <2>6. CASE n + 1 \in P
    BY <2>1, <2>3, <2>4, <2>5, <2>6
  <2>7. CASE n + 1 \notin P
    BY <2>1, <2>2, <2>3, <2>7, <1>0
  <2> QED
    BY <2>6, <2>7
<1>4. Len(s) \in T
  <2> HIDE DEF T
  <2>1. Nat \subseteq T
    BY <1>2, <1>3, Induction
  <2> QED
    BY <2>1, <1>0
<1>5. SubSeq(s, 1, Len(s)) = s
  BY <1>0
<1> QED
  BY <1>0, <1>1, <1>4, <1>5

(***************************************************************************)
(* 2. What a start publishes.                                              *)
(***************************************************************************)

\* A grid that tiles can be addressed on.
GridOk(g) ==
  /\ {"id", "crs", "origin", "tile_w", "tile_h", "levels"} \subseteq DOMAIN g
  /\ GridId(g.id) /\ g.origin \in Point /\ g.tile_w \in Positive /\ g.tile_h \in Positive
  /\ \E n \in Positive : DOMAIN g.levels = 1..n
  /\ \A k \in DOMAIN g.levels : /\ g.levels[k].resolution \in Positive
                                /\ g.levels[k].matrix_w \in Positive /\ g.levels[k].matrix_h \in Positive

\* A multiple of a positive number is that number at least once.
LEMMA WholeCells ==
  ASSUME NEW w \in Positive, NEW m \in Positive, w % m = 0
  PROVE  w \div m \in Positive
  BY DEF Positive

\* Positive numbers multiply to positive ones.
LEMMA ProductPositive ==
  ASSUME NEW a \in Positive, NEW b \in Positive
  PROVE  a * b \in Positive
  BY DEF Positive

\* The presets are grids. (tms.rs: build_quad)
LEMMA QuadOk ==
  ASSUME NEW base, NEW crs, NEW x \in Int, NEW y \in Int, NEW px \in PresetSizes, px \in Positive, NEW wide \in BOOLEAN
  PROVE  GridOk(build_quad(base, crs, x, y, px, wide))
<1> DEFINE g == build_quad(base, crs, x, y, px, wide)
<1>1. /\ g.id = suffix_id(base, px) /\ g.origin = <<x, y>> /\ g.tile_w = px /\ g.tile_h = px
      /\ g.levels = [k \in 1..Zooms |-> Level(World \div (px * 2^(k - 1)),
                                              IF wide THEN 2^k ELSE 2^(k - 1), 2^(k - 1))]
  BY DEF build_quad
<1> HIDE DEF g
<1>2. Zooms \in Positive /\ World \in Positive
  BY UnitAssumption
<1>3. ASSUME NEW k \in DOMAIN g.levels
      PROVE  /\ g.levels[k].resolution \in Positive
             /\ g.levels[k].matrix_w \in Positive /\ g.levels[k].matrix_h \in Positive
  <2>1. k \in 1..Zooms /\ k \in Nat /\ k - 1 \in Nat
    BY SMTT(30), <1>1, <1>2 DEF Positive
  <2>2. 2^k \in Positive /\ 2^(k - 1) \in Positive
    BY <2>1, Powers
  <2>3. px * 2^(k - 1) \in Positive
    BY <2>2, ProductPositive
  <2>4. World % (px * 2^(k - 1)) = 0
    BY <2>1, UnitAssumption
  <2> DEFINE m == px * 2^(k - 1)
  <2>5. m \in Positive /\ World % m = 0
    BY <2>3, <2>4
  <2> HIDE DEF m
  <2>6. World \div m \in Positive
    BY <1>2, <2>5, WholeCells
  <2>7. g.levels[k] = Level(World \div m, IF wide THEN 2^k ELSE 2^(k - 1), 2^(k - 1))
    BY <1>1, <2>1, Zenon DEF m
  <2> DEFINE p == 2^k   q == 2^(k - 1)   r == World \div m
  <2>8. p \in Positive /\ q \in Positive /\ r \in Positive /\ g.levels[k] = Level(r, IF wide THEN p ELSE q, q)
    BY <2>2, <2>6, <2>7, Zenon
  <2> HIDE DEF p, q, r
  <2> QED
    BY <2>8 DEF Level
<1>4. GridId(g.id)
  BY <1>1 DEF suffix_id, GridId, Positive
<1>5. DOMAIN g.levels = 1..Zooms
  BY <1>1
<1>7. {"id", "crs", "origin", "tile_w", "tile_h", "levels"} \subseteq DOMAIN g
  BY DEF g, build_quad
<1>6. g.origin \in Point /\ g.tile_w \in Positive /\ g.tile_h \in Positive
  BY <1>1 DEF Point
<1> QED
  BY <1>2, <1>3, <1>4, <1>5, <1>6, <1>7, Zenon DEF GridOk, g

\* A preset under any of its names.
LEMMA PresetOk ==
  ASSUME NEW id, GridId(id), id[1] \in PresetNames, NEW px \in PresetSizes, px \in Positive,
         id[2] > 0 => id[2] \in PresetSizes
  PROVE  GridOk(preset(id, px))
<1> DEFINE size == IF id[2] > 0 THEN id[2] ELSE px
<1>1. size \in PresetSizes /\ size \in Positive
  BY DEF GridId, Positive
<1>2. /\ World \div 2 \in Int /\ World \div 4 \in Int /\ -(World \div 2) \in Int /\ -(World \div 4) \in Int
      /\ -World \in Int
  BY UnitAssumption DEF Positive
<1>3. /\ GridOk(build_quad("WebMercatorQuad", "EPSG:3857", -(World \div 2), World \div 2, size, FALSE))
      /\ GridOk(build_quad("WorldCRS84Quad", "EPSG:4326", -World, World \div 2, size, TRUE))
      /\ GridOk(build_quad("UPSArcticWGS84Quad", "EPSG:5041", -(World \div 4), World \div 2, size, FALSE))
      /\ GridOk(build_quad("UPSAntarcticWGS84Quad", "EPSG:5042", -(World \div 4), World \div 2, size, FALSE))
  <2> HIDE DEF size
  <2> QED
    BY <1>1, <1>2, QuadOk
<1>4. /\ id[1] = "WebMercatorQuad" => preset(id, px) =
            build_quad("WebMercatorQuad", "EPSG:3857", -(World \div 2), World \div 2, size, FALSE)
      /\ id[1] = "WorldCRS84Quad" => preset(id, px) =
            build_quad("WorldCRS84Quad", "EPSG:4326", -World, World \div 2, size, TRUE)
      /\ id[1] = "UPSArcticWGS84Quad" => preset(id, px) =
            build_quad("UPSArcticWGS84Quad", "EPSG:5041", -(World \div 4), World \div 2, size, FALSE)
      /\ id[1] = "UPSAntarcticWGS84Quad" => preset(id, px) =
            build_quad("UPSAntarcticWGS84Quad", "EPSG:5042", -(World \div 4), World \div 2, size, FALSE)
  BY DEF preset
<1> QED
  BY <1>3, <1>4 DEF PresetNames

\* The grid of the pyramid of a COG is one: level for level, the cell doubles. (tms.rs: from_cog)
LEMMA CogGridOk ==
  ASSUME NEW cog, CogOk(cog), NEW crs, NEW px \in Positive
  PROVE  GridOk(from_cog(cog, crs, px))
<1> DEFINE g == from_cog(cog, crs, px)
           n == Max({cog.overviews, 1})
           count(extent) == Max({Ceiling(extent, px * (cog.cell * 2^(n - 1))), 1})
<1>0. cog.overviews \in Nat /\ cog.width \in Nat /\ cog.height \in Nat /\ cog.cell \in Positive /\ cog.cell_h \in Positive
      /\ cog.origin \in Point
  BY DEF CogOk
<1>1. n \in Positive
  BY <1>0, MaxOfTwo DEF Positive
<1>2. /\ g.id = <<"from_cog", 0>> /\ g.origin = cog.origin /\ g.tile_w = px /\ g.tile_h = px
      /\ g.levels = [k \in 1..n |-> Level(cog.cell * 2^(n - k), count(cog.width * cog.cell) * 2^(k - 1),
                                          count(cog.height * cog.cell_h) * 2^(k - 1))]
  BY DEF from_cog
<1>3. \A c \in Nat : count(c) \in Positive
  <2> SUFFICES ASSUME NEW c \in Nat PROVE count(c) \in Positive
    OBVIOUS
  <2>1. 2^(n - 1) \in Positive
    BY <1>1, Powers DEF Positive
  <2>2. cog.cell * 2^(n - 1) \in Positive
    BY <1>0, <2>1, ProductPositive
  <2>3. px * (cog.cell * 2^(n - 1)) \in Positive
    BY <2>2, ProductPositive
  <2> DEFINE b == px * (cog.cell * 2^(n - 1))
  <2>4. b \in Positive
    BY <2>3
  <2> HIDE DEF b
  <2>5. Ceiling(c, b) \in Int
    BY <2>4 DEF Ceiling, Positive
  <2>6. Max({Ceiling(c, b), 1}) \in Positive
    BY <2>5, MaxOfTwo DEF Positive
  <2> QED
    BY <2>6, Zenon DEF b
<1> HIDE DEF g, n, count
<1>4. ASSUME NEW k \in DOMAIN g.levels
      PROVE  /\ g.levels[k].resolution \in Positive
             /\ g.levels[k].matrix_w \in Positive /\ g.levels[k].matrix_h \in Positive
  <2>1. k \in 1..n /\ n - k \in Nat /\ k - 1 \in Nat
    BY <1>1, <1>2 DEF Positive
  <2> DEFINE w == count(cog.width * cog.cell)   h == count(cog.height * cog.cell_h)   p == 2^(k - 1)   q == 2^(n - k)
  <2>0. cog.width * cog.cell \in Nat /\ cog.height * cog.cell_h \in Nat
    BY <1>0 DEF Positive
  <2>2. p \in Positive /\ q \in Positive /\ w \in Positive /\ h \in Positive
    BY <1>3, <2>0, <2>1, Powers
  <2>3. g.levels[k] = Level(cog.cell * q, w * p, h * p)
    BY <1>2, <2>1, Zenon
  <2> HIDE DEF w, h, p, q
  <2>4. cog.cell * q \in Positive /\ w * p \in Positive /\ h * p \in Positive
    BY <1>0, <2>2, ProductPositive
  <2> QED
    BY <2>3, <2>4 DEF Level
<1>5. GridId(g.id)
  BY <1>2 DEF GridId
<1>6. DOMAIN g.levels = 1..n
  BY <1>2
<1>7. {"id", "crs", "origin", "tile_w", "tile_h", "levels"} \subseteq DOMAIN g
  BY DEF g, from_cog
<1> QED
  BY <1>0, <1>1, <1>2, <1>4, <1>5, <1>6, <1>7, Zenon DEF GridOk, g

\* A document that is read makes a grid. (tms.rs: from_ogc_json)
LEMMA DocGridOk ==
  ASSUME NEW d, DocumentOk(d), from_ogc_json(d) # NoGrid
  PROVE  GridOk(from_ogc_json(d))
<1> DEFINE g == from_ogc_json(d)
           M == d.matrices
           crs == normalize_crs(d.crs)
           raw == d.matrices[1].corner
<1>1. M # <<>> /\ \A k \in DOMAIN M : M[k].cell # 0
  BY DEF from_ogc_json, ToSet
<1>2. /\ g.id = d.id
      /\ g.origin = IF origin_is_northing_first(d.axes, crs) THEN <<raw[2], raw[1]>> ELSE raw
      /\ g.tile_w = M[1].tile_w /\ g.tile_h = M[1].tile_h
      /\ g.levels = [k \in DOMAIN M |-> Level(M[k].cell, Max({M[k].w, 1}), Max({M[k].h, 1}))]
  BY <1>1 DEF from_ogc_json, ToSet
<1>3. /\ GridId(d.id) /\ M \in Seq(ToSet(M))
      /\ \A k \in DOMAIN M : /\ M[k].corner \in Point /\ M[k].cell \in Nat /\ M[k].tile_w \in Positive
                             /\ M[k].tile_h \in Positive /\ M[k].w \in Nat /\ M[k].h \in Nat
  BY DEF DocumentOk
<1> HIDE DEF g, M
<1>4. Len(M) \in Positive /\ DOMAIN M = 1..Len(M) /\ 1 \in DOMAIN M
  BY <1>1, <1>3 DEF Positive
<1>5. g.origin \in Point /\ g.tile_w \in Positive /\ g.tile_h \in Positive
  BY <1>2, <1>3, <1>4 DEF Point, M
<1>6. ASSUME NEW k \in DOMAIN g.levels
      PROVE  /\ g.levels[k].resolution \in Positive
             /\ g.levels[k].matrix_w \in Positive /\ g.levels[k].matrix_h \in Positive
  <2> DEFINE w == Max({M[k].w, 1})   h == Max({M[k].h, 1})
  <2>1. k \in DOMAIN M
    BY <1>2
  <2>2. w \in Positive /\ h \in Positive
    <3>1. \A n \in Nat : Max({n, 1}) \in Positive
      BY MaxOfTwo DEF Positive
    <3>2. M[k].w \in Nat /\ M[k].h \in Nat
      BY <1>3, <2>1
    <3> QED
      BY <3>1, <3>2
  <2>3. g.levels[k] = Level(M[k].cell, w, h)
    BY <1>2, <2>1, Zenon
  <2>4. M[k].cell \in Positive
    BY <1>1, <1>3, <2>1 DEF M, Positive
  <2> HIDE DEF w, h
  <2> QED
    BY <2>2, <2>3, <2>4 DEF Level
<1>7. DOMAIN g.levels = 1..Len(M)
  BY <1>2, <1>4
<1>8. {"id", "crs", "origin", "tile_w", "tile_h", "levels"} \subseteq DOMAIN g
  BY <1>1 DEF g, from_ogc_json, M, ToSet
<1> QED
  BY <1>2, <1>3, <1>4, <1>5, <1>6, <1>7, <1>8, Zenon DEF GridOk, g

\* So does a [grids.<id>] of the configuration that is accepted. (config.rs: to_tms)
LEMMA CustomGridOk ==
  ASSUME NEW id, GridId(id), NEW gc, CustomOk(gc)
  PROVE  GridOk(to_tms(id, gc))
<1> DEFINE g == to_tms(id, gc)
           R == gc.resolutions
           size(side, r) == Max({Ceiling(side, gc.px * r), 1})
           width == gc.extent[3] - gc.extent[1]
           height == gc.extent[4] - gc.extent[2]
<1>1. /\ gc.origin \in Point /\ gc.px \in Positive /\ width \in Int /\ height \in Int
      /\ R \in Seq(Positive) /\ R # <<>>
  BY DEF CustomOk, Box
<1>2. /\ g.id = id /\ g.origin = gc.origin /\ g.tile_w = gc.px /\ g.tile_h = gc.px
      /\ g.levels = [k \in DOMAIN R |-> Level(R[k], size(width, R[k]), size(height, R[k]))]
  BY DEF to_tms
<1>3. Len(R) \in Positive /\ DOMAIN R = 1..Len(R) /\ \A k \in DOMAIN R : R[k] \in Positive
  BY <1>1 DEF Positive
<1>4. \A side \in Int, r \in Positive : size(side, r) \in Positive
  <2> SUFFICES ASSUME NEW side \in Int, NEW r \in Positive PROVE size(side, r) \in Positive
    OBVIOUS
  <2> DEFINE b == gc.px * r
  <2>1. b \in Positive
    BY <1>1, ProductPositive
  <2> HIDE DEF b
  <2>2. Ceiling(side, b) \in Int
    BY <2>1 DEF Ceiling, Positive
  <2>3. Max({Ceiling(side, b), 1}) \in Positive
    BY <2>2, MaxOfTwo DEF Positive
  <2> QED
    BY <2>3, Zenon DEF b
<1> HIDE DEF g, size, width, height, R
<1>5. ASSUME NEW k \in DOMAIN g.levels
      PROVE  /\ g.levels[k].resolution \in Positive
             /\ g.levels[k].matrix_w \in Positive /\ g.levels[k].matrix_h \in Positive
  BY <1>1, <1>2, <1>3, <1>4 DEF Level
<1>6. DOMAIN g.levels = 1..Len(R)
  BY <1>2, <1>3
<1>7. {"id", "crs", "origin", "tile_w", "tile_h", "levels"} \subseteq DOMAIN g
  BY DEF g, to_tms
<1> QED
  BY <1>1, <1>2, <1>3, <1>5, <1>6, <1>7, Zenon DEF GridOk, g

\* A reference as an entry may hold it.
RefOk(r) == /\ IF r.doc = <<>> THEN GridId(r.id) ELSE DocumentOk(r.doc[1])
            /\ r.doc = <<>> /\ r.id[1] \in PresetNames /\ r.id[2] > 0 => r.id[2] \in PresetSizes

\* Every reference that resolves does so to a grid. (config.rs: resolve_one)
LEMMA ResolvedOk ==
  ASSUME NEW r, RefOk(r), NEW px \in PresetSizes, px \in Positive, NEW cog, Given(cog) => CogOk(cog), NEW crs,
         NEW custom, \A id \in DOMAIN custom : CustomOk(custom[id]),
         resolve_one(r, px, cog, crs, custom) # NoGrid
  PROVE  GridOk(resolve_one(r, px, cog, crs, custom))
<1>1. CASE r.doc # <<>>
  BY <1>1, DocGridOk DEF resolve_one, RefOk
<1>2. CASE r.doc = <<>>
  <2> DEFINE g == GridById(r.id, px, cog, crs, custom)
  <2>1. resolve_one(r, px, cog, crs, custom) = IfIndexable(g)
    BY <1>2 DEF resolve_one
  <2> HIDE DEF g
  <2>2. g # NoGrid /\ resolve_one(r, px, cog, crs, custom) = g
    BY <2>1 DEF IfIndexable
  <2>3. GridId(r.id)
    BY <1>2 DEF RefOk
  <2>4. CASE r.id = FromCog
    <3>1. g = IF Given(cog) THEN from_cog(cog, crs, px) ELSE NoGrid
      BY <2>4 DEF g, GridById
    <3>2. Given(cog) /\ g = from_cog(cog, crs, px)
      BY <2>2, <3>1
    <3> QED
      BY <2>2, <3>2, CogGridOk
  <2>5. CASE r.id # FromCog /\ r.id[1] \in PresetNames
    <3>1. g = preset(r.id, px)
      BY <2>5 DEF g, GridById
    <3>2. r.id[2] > 0 => r.id[2] \in PresetSizes
      BY <1>2, <2>5 DEF RefOk
    <3> QED
      BY <2>2, <2>3, <2>5, <3>1, <3>2, PresetOk
  <2>6. CASE r.id # FromCog /\ r.id[1] \notin PresetNames
    <3>1. g = IF r.id \in DOMAIN custom THEN to_tms(r.id, custom[r.id]) ELSE NoGrid
      BY <2>6 DEF g, GridById
    <3>2. r.id \in DOMAIN custom /\ g = to_tms(r.id, custom[r.id])
      BY <2>2, <3>1
    <3> QED
      BY <2>2, <2>3, <3>2, CustomGridOk
  <2> QED
    BY <2>4, <2>5, <2>6
<1> QED
  BY <1>1, <1>2

\* The references of an entry are as an entry may hold them, and its tile size is one of the presets'.
LEMMA EntryRefs ==
  ASSUME NEW lc \in Entries
  PROVE  /\ lc.px \in PresetSizes /\ lc.px \in Positive
         /\ lc.grids \in Seq(ToSet(lc.grids)) /\ \A r \in ToSet(lc.grids) : RefOk(r)
<1>1. EntryOk(lc)
  BY StartsAssumption
<1>2. lc.px \in PresetSizes /\ lc.px \in Positive /\ lc.grids \in Seq(ToSet(lc.grids))
  BY <1>1 DEF PresetSizes, EntryOk, Positive
<1>3. ASSUME NEW r \in ToSet(lc.grids) PROVE RefOk(r)
  <2>1. r \in References
    BY DEF References
  <2>2. IF r.doc = <<>> THEN GridId(r.id) ELSE DocumentOk(r.doc[1])
    BY <1>1 DEF EntryOk
  <2>3. r.doc = <<>> /\ r.id[1] \in PresetNames /\ r.id[2] > 0 => r.id[2] \in PresetSizes
    BY <2>1, <2>2 DEF PresetSizes, GridId
  <2> QED
    BY <2>2, <2>3 DEF RefOk
<1> QED
  BY <1>2, <1>3

\* What resolves is grids one can address tiles on, each under an id of its own.
RefsOf(lc, refs) == refs \in Seq(ToSet(lc.grids))
CustomsOk(custom) == \A id \in DOMAIN custom : CustomOk(custom[id])
GridsOk(grids) ==
  /\ \E n \in Nat : DOMAIN grids = 1..n
  /\ \A k \in DOMAIN grids : GridOk(grids[k])
  /\ \A j, k \in DOMAIN grids : grids[j].id = grids[k].id => j = k

\* The grids of a layer are well made, and no two have one id. (config.rs: resolve_grids)
LEMMA ResolvedGrids ==
  ASSUME NEW lc, lc \in Entries, NEW refs, RefsOf(lc, refs), NEW cog, Given(cog) => CogOk(cog), NEW crs,
         NEW custom, CustomsOk(custom), NEW found,
         found = resolve_grids(refs, lc.px, cog, crs, custom), found.ok = TRUE
  PROVE  GridsOk(found.grids)
<1> DEFINE G == [i \in DOMAIN refs |-> resolve_one(refs[i], lc.px, cog, crs, custom)]
<1>1. found = Accepted(G)
  BY DEF resolve_grids
<1>2. DOMAIN G = 1..Len(refs) /\ Len(refs) \in Nat /\ \A i \in DOMAIN G : refs[i] \in ToSet(lc.grids)
  BY DEF ToSet, RefsOf
<1>5. ASSUME NEW i \in DOMAIN G, G[i] # NoGrid PROVE GridOk(G[i])
  <2>1. refs[i] \in ToSet(lc.grids) /\ G[i] = resolve_one(refs[i], lc.px, cog, crs, custom)
    BY <1>2
  <2> HIDE DEF G
  <2> QED
    BY <1>5, <2>1, EntryRefs, ResolvedOk DEF CustomsOk
<1> HIDE DEF G
<1>3. NoGrid \notin ToSet(G) /\ unique_grid_ids(G) /\ found.grids = G
  BY <1>1 DEF Accepted
<1>4. \A i \in DOMAIN G : G[i] # NoGrid
  BY <1>3 DEF ToSet
<1> QED
  BY <1>2, <1>3, <1>4, <1>5 DEF unique_grid_ids, GridsOk

\* Positions and boxes of one CRS are positions and boxes of another.
LEMMA PointMoves ==
  ASSUME NEW from, NEW to, CanTransform(from, to), NEW p \in Point
  PROVE  to_source(from, to, p) \in Point
<1>1. CASE from = to
  BY <1>1 DEF to_source
<1>2. CASE from # to
  <2>1. Shift[from] \in Point /\ Shift[to] \in Point
    BY <1>2, PlaneAssumption DEF CanTransform
  <2> QED
    BY <1>2, <2>1 DEF to_source, Point
<1> QED
  BY <1>1, <1>2

\* A box moved to another CRS is a box. (reproj.rs: crs_bounds)
LEMMA BoxMoves ==
  ASSUME NEW from, NEW to, CanTransform(from, to), NEW b \in Box
  PROVE  crs_bounds(from, to, b) \in Box
<1> DEFINE p == to_source(from, to, <<b[1], b[2]>>)
           q == to_source(from, to, <<b[3], b[4]>>)
<1>1. p \in Point /\ q \in Point
  <2>1. <<b[1], b[2]>> \in Point /\ <<b[3], b[4]>> \in Point
    BY DEF Box, Point
  <2> QED
    BY <2>1, PointMoves
<1>2. crs_bounds(from, to, b) = <<p[1], p[2], q[1], q[2]>>
  BY DEF crs_bounds
<1> HIDE DEF p, q
<1> QED
  BY <1>1, <1>2 DEF Box, Point

\* A box in degrees is a box.
LEMMA WorldBox ==
  ASSUME NEW crs, NEW b \in Box
  PROVE  Wgs84Of(crs, b) \in Box
<1>1. WholeWorld \in Box
  BY UnitAssumption DEF WholeWorld, Box, Positive
<1> QED
  BY <1>1, BoxMoves DEF Wgs84Of

\* The extent of a COG in the CRS of a grid is a box. (tms.rs: bounds_in_grid_crs)
LEMMA CogBox ==
  ASSUME NEW cog, CogOk(cog), NEW src, NEW crs, CanTransform(src, crs)
  PROVE  bounds_in_grid_crs(cog, src, crs) \in Box
<1> DEFINE b == <<cog.origin[1], cog.origin[2] - cog.height * cog.cell_h,
                  cog.origin[1] + cog.width * cog.cell, cog.origin[2]>>
<1>1. b \in Box
  BY DEF CogOk, Point, Box, Positive
<1> QED
  BY <1>1, BoxMoves DEF bounds_in_grid_crs

\* A stage that does not complain has met each of its checks.
LEMMA Uncomplaining ==
  ASSUME NEW checks, Complaints(checks) = {}, NEW c \in checks
  PROVE  ~c[1]
  BY DEF Complaints

\* A layer as it is published: its grids, the data in each, and the archives behind some of them.
LayerOk(l) ==
  /\ l.kind \in {"cog", "vector"} /\ (l.kind = "cog" => l.styled) /\ l.bounds \in Box
  /\ \E n \in Nat : DOMAIN l.grids = 1..n
  /\ \A k \in DOMAIN l.grids : /\ GridOk(l.grids[k].tms)
                               /\ l.grids[k].bounds = <<>> \/ (l.kind = "cog" /\ l.grids[k].bounds \in Box)
  /\ \A j, k \in DOMAIN l.grids : l.grids[j].tms = l.grids[k].tms => l.grids[j].bounds = l.grids[k].bounds
  /\ l.kind = "vector" =>
        \A id \in DOMAIN l.rasters : \E k \in DOMAIN l.grids :
            l.grids[k].tms.id = id /\ l.rasters[id].px \in {0, l.grids[k].tms.tile_w}

\* A grid under another id is a grid.
LEMMA RenamedOk ==
  ASSUME NEW g, GridOk(g), NEW id, GridId(id)
  PROVE  GridOk([g EXCEPT !.id = id]) /\ [g EXCEPT !.id = id].crs = g.crs
  BY DEF GridOk

\* A raster layer that loads is well made. (layer/mod.rs: build_layer)
LEMMA RasterLayerOk ==
  ASSUME NEW lc \in Entries, Given(lc.cog), NEW custom, CustomsOk(custom),
         build_layer(lc, custom).kind # "refused"
  PROVE  LayerOk(build_layer(lc, custom)) /\ build_layer(lc, custom).name = lc.name
<1> DEFINE crs == RasterCrs(lc)
           found == resolve_grids(lc.grids, lc.px, lc.cog, crs, custom)
           l == build_layer(lc, custom)
           G == found.grids
           Published == [i \in DOMAIN G |-> PublishedCogGrid(lc, crs, G[i])]
<1>1. l = IF RasterWrong(lc, crs, found) # {} THEN [kind |-> "refused", why |-> RasterWrong(lc, crs, found)]
          ELSE RasterLayer(lc, crs, G)
  BY DEF build_layer, BuiltRaster, Unless
<1>2. RasterWrong(lc, crs, found) = {} /\ l = RasterLayer(lc, crs, G)
  BY <1>1
<1> HIDE DEF l
<1>3. found.ok = TRUE
  <2>1. <<~found.ok, "grids">> \in
          {<<~lc.cog.readable, "source">>, <<~ExpressionWorks(lc), "expression">>, <<~found.ok, "grids">>,
           <<\E g \in ToSet(found.grids) : ~CanTransform(g.crs, crs), "grid crs">>}
    OBVIOUS
  <2> HIDE DEF found, crs
  <2>2. ~(<<~found.ok, "grids">>[1])
    BY <1>2, <2>1, Uncomplaining, Zenon DEF RasterWrong
  <2>3. found.ok \in BOOLEAN
    BY DEF found, resolve_grids, Accepted
  <2> QED
    BY <2>2, <2>3
<1>4. CogOk(lc.cog)
  BY StartsAssumption DEF EntryOk
<1>5. GridsOk(found.grids)
  <2>1. RefsOf(lc, lc.grids) /\ CustomsOk(custom)
    BY EntryRefs DEF RefsOf
  <2>2. found = resolve_grids(lc.grids, lc.px, lc.cog, crs, custom)
    OBVIOUS
  <2> HIDE DEF found, crs
  <2> QED
    BY <1>3, <1>4, <2>1, <2>2, ResolvedGrids
<1>6. /\ l.kind = "cog" /\ l.styled /\ l.name = lc.name /\ l.grids = Published
      /\ l.bounds = Wgs84Of(crs, bounds_in_grid_crs(lc.cog, crs, crs))
  BY <1>2 DEF RasterLayer
<1>7. l.bounds \in Box
  <2>1. bounds_in_grid_crs(lc.cog, crs, crs) \in Box
    BY <1>4, CogBox DEF CanTransform
  <2> QED
    BY <1>6, <2>1, WorldBox
<1>12. found.grids = G
  OBVIOUS
<1> HIDE DEF found, crs, G
<1>8. ASSUME NEW k \in DOMAIN G
      PROVE  /\ GridOk(Published[k].tms) /\ (Published[k].bounds = <<>> \/ Published[k].bounds \in Box)
             /\ Published[k].bounds = IF CanTransform(crs, Published[k].tms.crs)
                                      THEN bounds_in_grid_crs(lc.cog, crs, Published[k].tms.crs) ELSE <<>>
  <2> DEFINE g == G[k]
  <2>1. GridOk(g)
    BY <1>5, <1>12 DEF GridsOk
  <2>2. GridId(NativeId(lc.name))
    BY DEF NativeId, GridId
  <2>3. GridOk([g EXCEPT !.id = NativeId(lc.name)]) /\ [g EXCEPT !.id = NativeId(lc.name)].crs = g.crs
    BY <2>1, <2>2, RenamedOk
  <2>4. /\ Published[k].tms = IF g.id = FromCog THEN [g EXCEPT !.id = NativeId(lc.name)] ELSE g
        /\ Published[k].bounds = IF CanTransform(crs, g.crs) THEN bounds_in_grid_crs(lc.cog, crs, g.crs) ELSE <<>>
    BY DEF PublishedCogGrid
  <2> HIDE DEF Published, g
  <2>5. GridOk(Published[k].tms) /\ Published[k].tms.crs = g.crs
    BY <2>1, <2>3, <2>4
  <2>6. CanTransform(crs, g.crs) => bounds_in_grid_crs(lc.cog, crs, g.crs) \in Box
    BY <1>4, CogBox
  <2> QED
    BY <2>4, <2>5, <2>6
<1>9. DOMAIN Published = DOMAIN G
  OBVIOUS
<1> HIDE DEF Published
<1>10. \A j, k \in DOMAIN Published : Published[j].tms = Published[k].tms => Published[j].bounds = Published[k].bounds
  BY <1>8, <1>9
<1>11. LayerOk(l)
  <2>1. \E n \in Nat : DOMAIN l.grids = 1..n
    BY <1>5, <1>6, <1>9, <1>12 DEF GridsOk
  <2>2. ASSUME NEW k \in DOMAIN l.grids
        PROVE  /\ GridOk(l.grids[k].tms)
               /\ l.grids[k].bounds = <<>> \/ (l.kind = "cog" /\ l.grids[k].bounds \in Box)
    <3>1. k \in DOMAIN G /\ l.grids[k] = Published[k] /\ l.kind = "cog"
      BY <1>6, <1>9
    <3>2. GridOk(Published[k].tms) /\ (Published[k].bounds = <<>> \/ Published[k].bounds \in Box)
      BY <1>8, <3>1
    <3> QED
      BY <3>1, <3>2
  <2>3. l.kind # "vector"
    BY <1>6
  <2> QED
    BY <1>6, <1>7, <1>10, <2>1, <2>2, <2>3, Zenon DEF LayerOk
<1> QED
  BY <1>6, <1>11 DEF l


\* The grid an archive is filed under is one of those published, and of its tile size.
LEMMA RastersOk ==
  ASSUME NEW paths, NEW grids, GridsOk(grids), RasterArchivesWrong(paths, grids) = {},
         NEW id \in DOMAIN RastersByGrid(paths, grids)
  PROVE  \E k \in DOMAIN grids : /\ grids[k].id = id
                                 /\ RastersByGrid(paths, grids)[id].px \in {0, grids[k].tile_w}
<1> DEFINE homeless == {a \in ToSet(paths) : GridOfArchive(grids, a) = <<>>}
           home(a) == GridOfArchive(grids, a)[1]
           checks == {<<\E a \in ToSet(paths) : a.type # "png", "archive type">>,
                      <<homeless # {}, "unpublished grid">>,
                      <<\E a \in ToSet(paths) \ homeless : ~RasterPxFits(home(a), a), "tile size">>,
                      <<homeless = {} /\ ~OneArchivePerGrid([i \in DOMAIN paths |-> home(paths[i]).id]),
                        "two archives">>}
<1>1. Complaints(checks) = {}
  BY DEF RasterArchivesWrong
<1>2. homeless = {}
  <2>1. <<homeless # {}, "unpublished grid">> \in checks
    OBVIOUS
  <2> HIDE DEF checks, homeless
  <2>2. ~(<<homeless # {}, "unpublished grid">>[1])
    BY <1>1, <2>1, Uncomplaining, Zenon
  <2> QED
    BY <2>2
<1>3. \A a \in ToSet(paths) : RasterPxFits(home(a), a)
  <2> DEFINE misfit == \E a \in ToSet(paths) \ homeless : ~RasterPxFits(home(a), a)
  <2>1. <<misfit, "tile size">> \in checks
    OBVIOUS
  <2> HIDE DEF checks, misfit
  <2>2. ~(<<misfit, "tile size">>[1])
    BY <1>1, <2>1, Uncomplaining, Zenon
  <2>3. ~misfit
    BY <2>2
  <2> QED
    BY <1>2, <2>3 DEF misfit
<1> HIDE DEF checks
<1> DEFINE a == CHOOSE b \in ToSet(paths) : GridOfArchive(grids, b)[1].id = id
<1>4. a \in ToSet(paths) /\ home(a).id = id /\ RastersByGrid(paths, grids)[id] = a
  BY DEF RastersByGrid
<1> HIDE DEF a
<1>5. GridOfArchive(grids, a) # <<>>
  BY <1>2, <1>4
<1>6. \E k \in DOMAIN grids : GridOfArchive(grids, a) = <<grids[k]>>
  <2> DEFINE P == {i \in DOMAIN grids : a.grid \in {grids[i].id, strip_size_suffix(grids[i].id)}}
  <2>1. P \in SUBSET Nat
    BY DEF GridsOk
  <2>2. GridOfArchive(grids, a) = FirstOf(grids, P)
    BY DEF GridOfArchive
  <2>3. \A k \in P : k \in DOMAIN grids
    OBVIOUS
  <2> HIDE DEF P
  <2> QED
    BY <1>5, <2>1, <2>2, <2>3, FirstOfIsFirst
<1>7. PICK k \in DOMAIN grids : home(a) = grids[k]
  BY <1>6
<1>8. a.px \in {0, grids[k].tile_w}
  BY <1>3, <1>4, <1>7 DEF RasterPxFits
<1> QED
  BY <1>4, <1>7, <1>8

\* And so is what every vector layer starts from. (layer/mod.rs: build_vector_layer_base)
LEMMA VectorBaseOk ==
  ASSUME NEW lc \in Entries, Given(lc.vector), NEW custom, CustomsOk(custom),
         build_vector_layer_base(lc, custom).kind # "refused"
  PROVE  /\ LayerOk(build_vector_layer_base(lc, custom)) /\ build_vector_layer_base(lc, custom).name = lc.name
         /\ build_vector_layer_base(lc, custom) = VectorLayer(lc, CrsOf(lc), VectorGrids(lc, custom).grids)
         /\ GridsOk(VectorGrids(lc, custom).grids)
<1> DEFINE found == VectorGrids(lc, custom)
           l == build_vector_layer_base(lc, custom)
           G == found.grids
<1>1. l = IF VectorWrong(lc, found) # {} THEN [kind |-> "refused", why |-> VectorWrong(lc, found)]
          ELSE VectorLayer(lc, CrsOf(lc), G)
  BY DEF build_vector_layer_base, BuiltVector, Unless
<1>2. VectorWrong(lc, found) = {} /\ l = VectorLayer(lc, CrsOf(lc), G)
  BY <1>1
<1> HIDE DEF l
<1>3. Complaints({<<~found.ok, "grids">>}) = {} /\ RasterArchivesWrong(lc.raster_pmtiles, G) = {}
  <2> HIDE DEF found
  <2> QED
    BY <1>2 DEF VectorWrong
<1>4. found.ok = TRUE
  <2> HIDE DEF found
  <2>1. <<~found.ok, "grids">> \in {<<~found.ok, "grids">>}
    OBVIOUS
  <2>2. ~(<<~found.ok, "grids">>[1])
    BY <1>3, <2>1, Uncomplaining, Zenon
  <2>3. found.ok \in BOOLEAN
    BY DEF found, VectorGrids, resolve_grids, Accepted
  <2> QED
    BY <2>2, <2>3
<1>5. GridsOk(G)
  <2>1. CustomsOk(custom) /\ lc.grids \in Seq(ToSet(lc.grids))
    BY EntryRefs
  <2>2. RefsOf(lc, WithoutFromCog(lc.grids))
    BY <2>1, PickedIs DEF RefsOf, WithoutFromCog
  <2>3. found = resolve_grids(WithoutFromCog(lc.grids), lc.px, Absent, "", custom)
    BY DEF VectorGrids
  <2>4. Given(Absent) => CogOk(Absent)
    BY DEF Given
  <2> HIDE DEF found
  <2>5. GridsOk(found.grids)
    BY <1>4, <2>1, <2>2, <2>3, <2>4, ResolvedGrids
  <2> QED
    BY <2>5
<1> HIDE DEF found
<1>6. /\ l.kind = "vector" /\ l.name = lc.name /\ l.grids = [i \in DOMAIN G |-> [tms |-> G[i], bounds |-> <<>>]]
      /\ l.bounds = IF CrsOf(lc) = "CRS:84" THEN ExtentOf(lc) ELSE Wgs84Of(CrsOf(lc), ExtentOf(lc))
      /\ l.rasters = RastersKept(lc, G)
  BY <1>2 DEF VectorLayer
<1>7. l.bounds \in Box
  <2>1. ExtentOf(lc) \in Box
    BY StartsAssumption DEF EntryOk
  <2> QED
    BY <1>6, <2>1, WorldBox
<1> HIDE DEF G
<1>8. \E n \in Nat : DOMAIN l.grids = 1..n
  BY <1>5, <1>6 DEF GridsOk
<1>9. ASSUME NEW k \in DOMAIN l.grids
      PROVE  GridOk(l.grids[k].tms) /\ l.grids[k].bounds = <<>>
  BY <1>5, <1>6 DEF GridsOk
<1>10. ASSUME NEW id \in DOMAIN l.rasters
       PROVE  \E k \in DOMAIN l.grids : l.grids[k].tms.id = id /\ l.rasters[id].px \in {0, l.grids[k].tms.tile_w}
  <2>1. RastersKept(lc, G) # <<>>
    BY <1>6
  <2>2. l.rasters = RastersByGrid(lc.raster_pmtiles, G)
    BY <1>6, <2>1 DEF RastersKept
  <2>3. \E k \in DOMAIN G : G[k].id = id /\ l.rasters[id].px \in {0, G[k].tile_w}
    BY <1>3, <1>5, <2>2, RastersOk
  <2> QED
    BY <1>6, <2>3
<1>11. LayerOk(l)
  BY <1>6, <1>7, <1>8, <1>9, <1>10 DEF LayerOk
<1> QED
  BY <1>2, <1>5, <1>6, <1>11 DEF l, G, found

\* A layer with zoom bands is the layer without them, but for what is read.
LEMMA VectorLayerOk ==
  ASSUME NEW lc \in Entries, Given(lc.vector), NEW custom, CustomsOk(custom),
         build_vector_layer(lc, custom).kind # "refused"
  PROVE  LayerOk(build_vector_layer(lc, custom)) /\ build_vector_layer(lc, custom).name = lc.name
<1> DEFINE base == build_vector_layer_base(lc, custom)
           l == build_vector_layer(lc, custom)
           built == [i \in DOMAIN lc.zoom_sources |-> build_vector_layer_base(BandSpec(lc, lc.zoom_sources[i]), custom)]
           b == [i \in DOMAIN built |->
                    [min_zoom |-> lc.zoom_sources[i].min_zoom, max_zoom |-> lc.zoom_sources[i].max_zoom,
                     features |-> built[i].features]]
<1>1. l = IF base.kind = "refused" THEN base ELSE Unless(BandsWrong(lc, built), [base EXCEPT !.bands = b])
  BY DEF build_vector_layer, WithBands
<1> HIDE DEF l, b, built
<1>2. base.kind # "refused" /\ l = [base EXCEPT !.bands = b]
  <2> HIDE DEF base
  <2> QED
    BY <1>1 DEF Unless, l
<1>3. LayerOk(base) /\ base.name = lc.name /\ base = VectorLayer(lc, CrsOf(lc), VectorGrids(lc, custom).grids)
  BY <1>2, VectorBaseOk
<1> HIDE DEF base
<1>4. /\ l.kind = base.kind /\ l.styled = base.styled /\ l.bounds = base.bounds /\ l.grids = base.grids
      /\ l.rasters = base.rasters /\ l.name = base.name
  BY SMTT(30), <1>2, <1>3 DEF VectorLayer
<1>5. LayerOk(l)
  BY SMTT(30), <1>3, <1>4 DEF LayerOk
<1> QED
  BY <1>3, <1>4, <1>5 DEF l

\* A layer that is refused says why.
LEMMA RefusedSaysWhy ==
  ASSUME NEW lc, NEW custom, build(lc, custom).kind = "refused"
  PROVE  build(lc, custom).why # {}
<1>1. \A wrong, layer : layer.kind # "refused" /\ Unless(wrong, layer).kind = "refused" => Unless(wrong, layer).why # {}
  BY DEF Unless
<1>2. CASE ~Given(lc.vector)
  <2>1. \A crs, grids : RasterLayer(lc, crs, grids).kind # "refused"
    BY DEF RasterLayer
  <2> QED
    BY <1>1, <1>2, <2>1 DEF build, build_layer, BuiltRaster
<1>3. build_vector_layer_base(lc, custom).kind = "refused" => build_vector_layer_base(lc, custom).why # {}
  <2>1. \A crs, grids : VectorLayer(lc, crs, grids).kind # "refused"
    BY DEF VectorLayer
  <2> QED
    BY <1>1, <2>1 DEF build_vector_layer_base, BuiltVector
<1>4. CASE Given(lc.vector)
  <2> DEFINE base == build_vector_layer_base(lc, custom)
  <2>1. CASE base.kind = "refused"
    BY <1>3, <1>4, <2>1 DEF build, build_vector_layer, WithBands
  <2>2. CASE base.kind # "refused"
    <3>1. \A bands : [base EXCEPT !.bands = bands].kind # "refused"
      <4>1. base = VectorLayer(lc, CrsOf(lc), VectorGrids(lc, custom).grids)
        BY <2>2 DEF build_vector_layer_base, BuiltVector, Unless
      <4> HIDE DEF base
      <4> QED
        BY <4>1 DEF VectorLayer
    <3> HIDE DEF base
    <3>2. build(lc, custom).kind = "refused" /\ build(lc, custom) = build_vector_layer(lc, custom)
      BY <1>4 DEF build
    <3> QED
      BY <1>1, <2>2, <3>1, <3>2 DEF build_vector_layer, WithBands, base
  <2> QED
    BY <2>1, <2>2
<1> QED
  BY <1>2, <1>4

\* What a server publishes: layers as they are built, under names that clients may write, with one grid
\* to an id.
OneGridPerId(L) ==
  \A i, j \in DOMAIN L : \A k \in DOMAIN L[i].grids, m \in DOMAIN L[j].grids :
      L[i].grids[k].tms.id = L[j].grids[m].tms.id => L[i].grids[k].tms = L[j].grids[m].tms
NamesGiven(L) == \A i \in DOMAIN L : L[i].name \notin {""} \cup Decoys
WellMade(L) ==
  /\ \E n \in Nat : DOMAIN L = 1..n
  /\ \A i \in DOMAIN L : LayerOk(L[i])
  /\ NamesGiven(L) /\ OneGridPerId(L)

\* Whatever the arguments, a server that starts publishes well-made layers.
\* (cmd/serve.rs: run_serve; layer/mod.rs: build_layer)
LEMMA LoadedIsWellMade ==
  ASSUME NEW a \in Starts, run_serve(a).kind = "serving"
  PROVE  WellMade(run_serve(a).layers)
<1> DEFINE L == [i \in DOMAIN a.layers |-> build(a.layers[i], a.custom)]
<1>0. a.layers \in Seq(Entries) /\ CustomsOk(a.custom)
  BY StartsAssumption DEF CustomsOk
<1>1. /\ a.mode # "config" => \A i \in DOMAIN a.layers : Given(a.layers[i].cog) \/ Given(a.layers[i].vector)
      /\ \A i \in DOMAIN a.layers : a.layers[i].name \notin {""} \cup Decoys
  BY StartsAssumption
<1>2. /\ ArgsWrong(a) = {} /\ LayersWrong(L) = {} /\ GridsWrong(L) = {} /\ run_serve(a).layers = L
  <2>1. run_serve(a) = Opened(a, L)
    BY DEF run_serve
  <2> HIDE DEF L
  <2> QED
    BY <2>1 DEF Opened, Unless
<1>3. \A i \in DOMAIN a.layers : a.layers[i] \in Entries
  BY <1>0
<1>4. \A i \in DOMAIN a.layers : Given(a.layers[i].cog) \/ Given(a.layers[i].vector)
  <2> SUFFICES ASSUME a.mode = "config"
               PROVE  \A i \in DOMAIN a.layers : Given(a.layers[i].cog) \/ Given(a.layers[i].vector)
    BY <1>1
  <2> DEFINE bad == a.mode = "config" /\ \E lc \in ToSet(a.layers) : ~validate(lc)
             checks == {<<a.layers = <<>>, "no layers">>, <<bad, "layer">>}
  <2>1. Complaints(checks) = {}
    BY <1>2 DEF ArgsWrong
  <2>2. <<bad, "layer">> \in checks
    OBVIOUS
  <2> HIDE DEF bad, checks
  <2>3. ~(<<bad, "layer">>[1])
    BY <2>1, <2>2, Uncomplaining, Zenon
  <2>4. ~bad
    BY <2>3
  <2>5. \A i \in DOMAIN a.layers : a.layers[i] \in ToSet(a.layers)
    BY DEF ToSet
  <2> QED
    BY <2>4, <2>5 DEF bad, validate
<1>5. ASSUME NEW i \in DOMAIN a.layers PROVE LayerOk(L[i]) /\ L[i].name = a.layers[i].name
  <2>1. L[i] = build(a.layers[i], a.custom) /\ L[i] \in ToSet(L)
    BY DEF ToSet
  <2>2. L[i].kind # "refused"
    <3> SUFFICES ASSUME L[i].kind = "refused" PROVE FALSE
      OBVIOUS
    <3>1. L[i].why # {}
      BY <2>1, RefusedSaysWhy
    <3>2. L[i].why \subseteq LayersWrong(L)
      <4> HIDE DEF L
      <4> QED
        BY <2>1 DEF LayersWrong
    <3> QED
      BY <1>2, <3>1, <3>2
  <2> DEFINE lc == a.layers[i]
  <2>3. lc \in Entries /\ (Given(lc.cog) \/ Given(lc.vector))
    BY <1>3, <1>4
  <2>4. L[i] = IF Given(lc.vector) THEN build_vector_layer(lc, a.custom) ELSE build_layer(lc, a.custom)
    BY <2>1 DEF build
  <2> HIDE DEF lc, L
  <2>5. CASE Given(lc.vector)
    <3>1. build_vector_layer(lc, a.custom).kind # "refused"
      BY <2>2, <2>4, <2>5
    <3>2. LayerOk(build_vector_layer(lc, a.custom)) /\ build_vector_layer(lc, a.custom).name = lc.name
      BY <1>0, <2>3, <2>5, <3>1, VectorLayerOk
    <3> QED
      BY <2>4, <2>5, <3>2 DEF lc
  <2>6. CASE ~Given(lc.vector)
    <3>1. build_layer(lc, a.custom).kind # "refused" /\ Given(lc.cog)
      BY <2>2, <2>3, <2>4, <2>6
    <3>2. LayerOk(build_layer(lc, a.custom)) /\ build_layer(lc, a.custom).name = lc.name
      BY <1>0, <2>3, <3>1, RasterLayerOk
    <3> QED
      BY <2>4, <2>6, <3>2 DEF lc
  <2> QED
    BY <2>5, <2>6
<1>6. DOMAIN L = DOMAIN a.layers /\ DOMAIN a.layers = 1..Len(a.layers) /\ Len(a.layers) \in Nat
  BY <1>0
<1> HIDE DEF L
<1>7. NamesGiven(L)
  BY <1>1, <1>5, <1>6 DEF NamesGiven
<1>8. OneGridPerId(L)
  <2> DEFINE T == UNION {{pg.tms : pg \in ToSet(l.grids)} : l \in ToSet(L)}
             bad == conflicting_grid_ids(T)
             checks == {<<bad, "one id, two grids">>}
  <2>1. Complaints(checks) = {}
    BY <1>2 DEF GridsWrong
  <2>2. <<bad, "one id, two grids">> \in checks
    OBVIOUS
  <2> HIDE DEF bad, checks
  <2>3. ~(<<bad, "one id, two grids">>[1])
    BY <2>1, <2>2, Uncomplaining, Zenon
  <2>4. ~bad
    BY <2>3
  <2>5. \A g, h \in T : g.id = h.id => g = h
    BY <2>4 DEF bad, conflicting_grid_ids
  <2>6. \A i \in DOMAIN L : \A k \in DOMAIN L[i].grids : L[i].grids[k].tms \in T
    BY DEF ToSet
  <2> HIDE DEF T
  <2> QED
    BY <2>5, <2>6 DEF OneGridPerId
<1> QED
  BY <1>2, <1>5, <1>6, <1>7, <1>8 DEF WellMade

(***************************************************************************)
(* 3. Addresses: a view of the documents and the grid behind it.           *)
(***************************************************************************)

\* What the capabilities say of grid k of layer i, and a position of it.
ViewOf(v, i, k) ==
  /\ i \in DOMAIN layers /\ k \in DOMAIN layers[i].grids /\ v.layer = layers[i].name
  /\ LET pg == layers[i].grids[k]
         g == pg.tms
     IN  /\ v.set = [id |-> g.id, corner |-> top_left_corner(g), crs |-> g.crs,
                     tile_w |-> g.tile_w, tile_h |-> g.tile_h, levels |-> g.levels]
         /\ v.limits = tile_matrix_set_link(pg).limits
         /\ v.z \in Nat /\ v.z + 1 \in DOMAIN g.levels
  /\ v.first = (k = 1) /\ v.col \in Nat /\ v.row \in Nat

\* Every address of the documents is of a grid of a layer.
LEMMA ViewsAreGrids ==
  ASSUME WellMade(layers), NEW v \in TileViews
  PROVE  \E i, k : ViewOf(v, i, k)
<1> DEFINE doc == wmts_capabilities(layers)
           Layer(l) == [name |-> l.name, info |-> IF l.kind = "vector" THEN {} ELSE RasterFormats,
                        links |-> [k \in DOMAIN l.grids |-> tile_matrix_set_link(l.grids[k])]]
           Set(g) == [id |-> g.id, corner |-> top_left_corner(g), crs |-> g.crs,
                      tile_w |-> g.tile_w, tile_h |-> g.tile_h, levels |-> g.levels]
           shown == {l \in ToSet(layers) : l.grids # <<>>}
           grids == UNION {ToSet(l.grids) : l \in shown}
<1>1. doc.layers = {Layer(l) : l \in shown} /\ doc.sets = {Set(pg.tms) : pg \in grids}
  BY DEF wmts_capabilities
<1>2. PICK m \in doc.layers : \E k \in DOMAIN m.links : v \in LinkViews(doc, m, k)
  <2>1. PICK m \in doc.layers : v \in UNION {LinkViews(doc, m, k) : k \in DOMAIN m.links}
    <3> HIDE DEF doc
    <3>1. TileViews = UNION {UNION {LinkViews(doc, l, k) : k \in DOMAIN l.links} : l \in doc.layers}
      BY DEF TileViews, doc
    <3> QED
      BY <3>1
  <2> QED
    BY <2>1
<1>3. PICK k \in DOMAIN m.links : v \in LinkViews(doc, m, k)
  BY <1>2
<1>4. PICK i \in DOMAIN layers : m = Layer(layers[i]) /\ layers[i] \in shown
  <2>1. PICK l \in shown : m = Layer(l)
    BY <1>1
  <2>2. PICK i \in DOMAIN layers : l = layers[i]
    BY DEF ToSet
  <2> QED
    BY <2>1, <2>2
<1> DEFINE set == SetNamed(doc, m.links[k].tms)
<1>5. PICK p \in Places(set) :
          v = [layer |-> m.name, set |-> set, limits |-> m.links[k].limits, first |-> k = 1,
               z |-> p[1], col |-> p[2], row |-> p[3]]
  BY <1>3 DEF LinkViews
<1>6. PICK z \in {0, 1} \cap {j - 1 : j \in DOMAIN set.levels} :
          p \in {z} \X {0, set.levels[z + 1].matrix_w - 1, set.levels[z + 1].matrix_w}
                   \X {0, set.levels[z + 1].matrix_h - 1, set.levels[z + 1].matrix_h}
  <2> DEFINE Zs == {0, 1} \cap {j - 1 : j \in DOMAIN set.levels}
             Around(z) == {z} \X {0, set.levels[z + 1].matrix_w - 1, set.levels[z + 1].matrix_w}
                              \X {0, set.levels[z + 1].matrix_h - 1, set.levels[z + 1].matrix_h}
  <2>1. p \in UNION {Around(z) : z \in Zs}
    BY <1>5, Zenon DEF Places
  <2> HIDE DEF Zs, Around
  <2>2. PICK z \in Zs : p \in Around(z)
    BY <2>1, Zenon
  <2> QED
    BY <2>2, Zenon DEF Zs, Around
<1> DEFINE pg == layers[i].grids[k]
           g == pg.tms
<1>7. /\ k \in DOMAIN layers[i].grids /\ m.links[k] = tile_matrix_set_link(pg) /\ m.name = layers[i].name
      /\ m.links[k].tms = g.id
  BY <1>4 DEF tile_matrix_set_link
<1>8. set = Set(g)
  <2>1. pg \in grids
    BY <1>4, <1>7 DEF ToSet
  <2>2. Set(g) \in doc.sets /\ Set(g).id = m.links[k].tms
    BY <1>1, <1>7, <2>1
  <2> HIDE DEF doc, Set
  <2>3. set \in doc.sets /\ set.id = g.id
    BY <1>7, <2>2 DEF SetNamed
  <2>4. PICK other \in grids : set = Set(other.tms)
    BY <1>1, <2>3
  <2>5. PICK l \in shown : other \in ToSet(l.grids)
    BY <2>4
  <2>9. PICK j \in DOMAIN layers : l = layers[j]
    BY DEF ToSet
  <2>6. PICK n \in DOMAIN layers[j].grids : other = layers[j].grids[n]
    BY <2>5, <2>9 DEF ToSet
  <2>7. other.tms.id = g.id
    BY <2>3, <2>4 DEF Set
  <2>8. other.tms = g
    BY <1>7, <2>6, <2>7 DEF WellMade, OneGridPerId
  <2> QED
    BY <2>4, <2>8
<1>9. /\ v.layer = m.name /\ v.set = set /\ v.limits = m.links[k].limits /\ v.first = (k = 1) /\ v.z = z
      /\ v.col \in {0, set.levels[z + 1].matrix_w - 1, set.levels[z + 1].matrix_w}
      /\ v.row \in {0, set.levels[z + 1].matrix_h - 1, set.levels[z + 1].matrix_h}
  <2> HIDE DEF doc, set
  <2> QED
    BY <1>5, <1>6
<1>10. GridOk(g)
  BY <1>7 DEF WellMade, LayerOk
<1>11. z \in Nat /\ z + 1 \in DOMAIN g.levels
  <2>1. PICK j \in DOMAIN set.levels : z = j - 1
    BY <1>6
  <2> HIDE DEF set
  <2>2. j \in DOMAIN g.levels
    BY <1>8, <2>1
  <2>3. PICK n \in Positive : DOMAIN g.levels = 1..n
    BY SMTT(30), <1>10 DEF GridOk
  <2> HIDE DEF g
  <2> QED
    BY SMTT(30), <2>1, <2>2, <2>3 DEF Positive
<1>12. v.col \in Nat /\ v.row \in Nat
  <2>1. g.levels[z + 1].matrix_w \in Positive /\ g.levels[z + 1].matrix_h \in Positive
    BY <1>10, <1>11 DEF GridOk
  <2>2. set.levels = g.levels
    BY SMTT(30), <1>8
  <2> HIDE DEF set
  <2> QED
    BY SMTT(30), <1>9, <2>1, <2>2 DEF Positive
<1> HIDE DEF doc, set
<1>13. ViewOf(v, i, k)
  BY <1>7, <1>8, <1>9, <1>11, <1>12 DEF ViewOf
<1> QED
  BY <1>13

\* A name finds the one layer that has it, or nothing.
LEMMA NamedIs ==
  ASSUME NEW L, WellMade(L), NEW name
  PROVE  /\ LayerNamed(L, name) = <<>> => \A i \in DOMAIN L : L[i].name # name
         /\ LayerNamed(L, name) # <<>> => \E i \in DOMAIN L : LayerNamed(L, name) = <<L[i]>> /\ L[i].name = name
<1> DEFINE P == {i \in DOMAIN L : L[i].name = name}
<1>1. LayerNamed(L, name) = FirstOf(L, P)
  BY DEF LayerNamed
<1>2. P \in SUBSET Nat
  BY DEF WellMade
<1>3. \A i : i \in P <=> i \in DOMAIN L /\ L[i].name = name
  OBVIOUS
<1> HIDE DEF P
<1>4. /\ FirstOf(L, P) = <<>> <=> P = {}
      /\ P # {} => \E m \in P : FirstOf(L, P) = <<L[m]>>
  BY <1>2, FirstOfIsFirst
<1> QED
  BY <1>1, <1>3, <1>4

\* A name finds a layer that has it: the only one, if no other has.
LEMMA FoundByName ==
  ASSUME WellMade(layers), NEW i \in DOMAIN layers
  PROVE  \E j \in DOMAIN layers :
             /\ LayerNamed(layers, layers[i].name) = <<layers[j]>> /\ layers[j].name = layers[i].name
             /\ ~NamedTwice(layers[i].name) => j = i
<1>1. LayerNamed(layers, layers[i].name) # <<>>
  BY NamedIs
<1>2. PICK j \in DOMAIN layers : LayerNamed(layers, layers[i].name) = <<layers[j]>> /\ layers[j].name = layers[i].name
  BY <1>1, NamedIs
<1>3. ~NamedTwice(layers[i].name) => j = i
  BY <1>2 DEF NamedTwice
<1> QED
  BY <1>2, <1>3

LEMMA OwnName ==
  ASSUME WellMade(layers), NEW i \in DOMAIN layers, ~NamedTwice(layers[i].name)
  PROVE  LayerNamed(layers, layers[i].name) = <<layers[i]>>
  BY FoundByName

\* An id finds a grid of the layer that answers to it, or nothing.
LEMMA GridsForIs ==
  ASSUME NEW l, LayerOk(l), NEW id
  PROVE  /\ GridsFor(l, id) = <<>> => \A k \in DOMAIN l.grids : ~Answers(l.grids[k].tms, id)
         /\ GridsFor(l, id) # <<>> => \E k \in DOMAIN l.grids :
                GridsFor(l, id) = <<l.grids[k]>> /\ Answers(l.grids[k].tms, id)
<1> DEFINE P == {k \in DOMAIN l.grids : Answers(l.grids[k].tms, id)}
<1>1. GridsFor(l, id) = FirstOf(l.grids, P)
  BY DEF GridsFor
<1>2. P \in SUBSET Nat
  BY DEF LayerOk
<1>3. \A k : k \in P <=> k \in DOMAIN l.grids /\ Answers(l.grids[k].tms, id)
  OBVIOUS
<1> HIDE DEF P
<1>4. /\ FirstOf(l.grids, P) = <<>> <=> P = {}
      /\ P # {} => \E m \in P : FirstOf(l.grids, P) = <<l.grids[m]>>
  BY <1>2, FirstOfIsFirst
<1> QED
  BY <1>1, <1>3, <1>4

\* The layer and the grid behind a view.
GridOf(i, k) == layers[i].grids[k].tms

\* An address that is not shadowed finds its layer by name, and its grid by id.
LEMMA BehindView ==
  ASSUME WellMade(layers), NEW v, NEW i, NEW k, ViewOf(v, i, k)
  PROVE  /\ LayerOk(layers[i]) /\ GridOk(GridOf(i, k))
         /\ GridsFor(layers[i], v.set.id) # <<>>
         /\ ~Shadowed(v) => /\ LayerNamed(layers, v.layer) = <<layers[i]>> /\ LayerOf(v.layer) = layers[i]
                            /\ GridsFor(layers[i], v.set.id)[1].tms = GridOf(i, k)
                            /\ GridsFor(layers[i], v.set.id)[1].bounds = layers[i].grids[k].bounds
<1>1. /\ i \in DOMAIN layers /\ k \in DOMAIN layers[i].grids /\ v.layer = layers[i].name
      /\ v.set.id = GridOf(i, k).id
  BY DEF ViewOf, GridOf
<1>2. ~Shadowed(v) => LayerNamed(layers, v.layer) = <<layers[i]>> /\ LayerOf(v.layer) = layers[i]
  BY <1>1, OwnName DEF LayerOf, Shadowed
<1>3. LayerOk(layers[i])
  BY <1>1 DEF WellMade
<1>4. GridOk(GridOf(i, k))
  BY <1>1, <1>3 DEF LayerOk, GridOf
<1>5. Answers(GridOf(i, k), v.set.id)
  BY <1>1 DEF Answers
<1>6. GridsFor(layers[i], v.set.id) # <<>>
  BY <1>1, <1>3, <1>5, GridsForIs DEF GridOf
<1>7. PICK m \in DOMAIN layers[i].grids : GridsFor(layers[i], v.set.id) = <<layers[i].grids[m]>>
  BY <1>3, <1>6, GridsForIs
<1>8. ASSUME ~Shadowed(v)
      PROVE  /\ GridsFor(layers[i], v.set.id)[1].tms = GridOf(i, k)
             /\ GridsFor(layers[i], v.set.id)[1].bounds = layers[i].grids[k].bounds
  <2>1. GridOf(i, m).id = GridOf(i, k).id
    BY <1>1, <1>2, <1>7, <1>8 DEF Shadowed, GridOf
  <2>2. GridOf(i, m) = GridOf(i, k)
    BY <1>1, <1>7, <2>1 DEF WellMade, OneGridPerId, GridOf
  <2>3. layers[i].grids[m].bounds = layers[i].grids[k].bounds
    BY <1>1, <1>3, <1>7, <2>2 DEF LayerOk, GridOf
  <2> QED
    BY <1>7, <2>2, <2>3 DEF GridOf
<1> QED
  BY <1>2, <1>3, <1>4, <1>6, <1>8

\* The server and a client that knows how positions are written agree on every CRS.
LEMMA AxesAgree ==
  ASSUME NEW c
  PROVE  crs_is_northing_first(c) <=> c \in NorthingFirstCrs
<1>1. CASE c \notin DOMAIN Axes
  BY <1>1, AxesAssumption DEF crs_is_northing_first
<1>2. CASE c \in DOMAIN Axes
  <2> DEFINE a == Axes[c]
             northing == Meet(a.words, {"northing", "latitude"})
             easting == Meet(a.words, {"easting", "longitude"})
  <2>1. /\ ~(northing /\ easting)
        /\ northing => c \in NorthingFirstCrs
        /\ easting => c \notin NorthingFirstCrs
        /\ ~northing /\ ~easting =>
            /\ a.abbrev \in {"n", "y", "lat"} => c \in NorthingFirstCrs
            /\ a.abbrev \in {"e", "x", "lon", "long"} => c \notin NorthingFirstCrs
            /\ a.abbrev \notin {"n", "y", "lat", "e", "x", "lon", "long"} =>
                (c \in NorthingFirstCrs <=> a.direction \in {"north", "south"})
    BY <1>2, AxesAssumption
  <2> HIDE DEF a
  <2>2. crs_is_northing_first(c) <=> classify_first_axis(a) = "northing"
    BY <1>2 DEF crs_is_northing_first, a
  <2> HIDE DEF northing, easting
  <2>3. classify_first_axis(a) =
          IF northing THEN "northing"
          ELSE IF easting THEN "easting"
          ELSE IF a.abbrev \in {"n", "y", "lat"} THEN "northing"
          ELSE IF a.abbrev \in {"e", "x", "lon", "long"} THEN "easting"
          ELSE IF a.direction \in {"north", "south"} THEN "northing"
          ELSE IF a.direction \in {"east", "west"} THEN "easting"
          ELSE Unknown
    BY Zenon DEF classify_first_axis, northing, easting
  <2>4. northing \in BOOLEAN /\ easting \in BOOLEAN
    BY DEF northing, easting, Meet
  <2> QED
    BY <2>1, <2>2, <2>3, <2>4 DEF Unknown
<1> QED
  BY <1>1, <1>2

\* What a client reckons from the documents is what the server reckons from the grid.
LEMMA ClientReckons ==
  ASSUME WellMade(layers), NEW v, NEW i, NEW k, ViewOf(v, i, k)
  PROVE  /\ ClientBox(v) = tile_bounds(GridOf(i, k), v.z, v.col, v.row)
         /\ BoxFrom(GridOf(i, k).origin, v.set, v) = tile_bounds(GridOf(i, k), v.z, v.col, v.row)
<1> DEFINE g == GridOf(i, k)
           w == g.tile_w * g.levels[v.z + 1].resolution
           h == g.tile_h * g.levels[v.z + 1].resolution
<1>1. /\ v.set.corner = top_left_corner(g) /\ v.set.crs = g.crs /\ v.set.tile_w = g.tile_w
      /\ v.set.tile_h = g.tile_h /\ v.set.levels = g.levels
      /\ v.z + 1 \in DOMAIN g.levels /\ v.col \in Nat /\ v.row \in Nat
  BY DEF ViewOf, GridOf
<1>2. g.origin \in Point /\ GridOk(g)
  BY BehindView DEF GridOk
<1> HIDE DEF g
<1>3. Eastward(v.set.corner, v.set.crs) = g.origin
  BY <1>1, <1>2, AxesAgree DEF Eastward, top_left_corner, Point
<1>4. w \in Int /\ h \in Int
  BY <1>1, <1>2 DEF GridOk, Positive
<1>5. tile_bounds(g, v.z, v.col, v.row) =
        <<g.origin[1] + v.col * w, g.origin[2] - v.row * h - h, g.origin[1] + v.col * w + w, g.origin[2] - v.row * h>>
  BY DEF tile_bounds, SpanX, SpanY, level
<1>6. BoxFrom(g.origin, v.set, v) =
        <<g.origin[1] + v.col * w, g.origin[2] - (v.row + 1) * h, g.origin[1] + (v.col + 1) * w, g.origin[2] - v.row * h>>
  BY <1>1 DEF BoxFrom
<1> HIDE DEF w, h
<1>7. (v.row + 1) * h = v.row * h + h /\ (v.col + 1) * w = v.col * w + w
  BY <1>1, <1>4
<1>8. BoxFrom(g.origin, v.set, v) = tile_bounds(g, v.z, v.col, v.row)
  <2> DEFINE x == v.col * w   y == v.row * h
  <2>1. x \in Int /\ y \in Int /\ g.origin[1] \in Int /\ g.origin[2] \in Int
    BY <1>1, <1>2, <1>4 DEF Point
  <2>2. (v.row + 1) * h = y + h /\ (v.col + 1) * w = x + w
    BY <1>7
  <2>3. /\ tile_bounds(g, v.z, v.col, v.row) =
              <<g.origin[1] + x, g.origin[2] - y - h, g.origin[1] + x + w, g.origin[2] - y>>
        /\ BoxFrom(g.origin, v.set, v) = <<g.origin[1] + x, g.origin[2] - (y + h), g.origin[1] + (x + w), g.origin[2] - y>>
    BY <1>5, <1>6, <2>2
  <2> HIDE DEF x, y
  <2> QED
    BY <1>4, <2>1, <2>3
<1> QED
  BY <1>3, <1>8 DEF ClientBox, g

\* Division rounds down, and Ceiling up.
LEMMA Division ==
  ASSUME NEW a \in Int, NEW h \in Positive
  PROVE  a \div h \in Int /\ h * (a \div h) <= a /\ a < h * (a \div h) + h
  BY DEF Positive

\* Two facts of multiplication.
LEMMA Distribute ==
  ASSUME NEW a \in Int, NEW b \in Int, NEW h \in Positive, a <= b
  PROVE  h * a <= h * b /\ h * (b + 1) = h * b + h
<1>1. b - a \in Nat /\ h * (b - a) \in Nat
  BY DEF Positive
<1>2. h * (b - a) = h * b - h * a
  BY DEF Positive
<1> QED
  BY <1>1, <1>2 DEF Positive

\* What a floor is.
LEMMA FloorMeans ==
  ASSUME NEW a \in Int, NEW h \in Positive, NEW n \in Int
  PROVE  n <= a \div h <=> n * h <= a
<1> DEFINE q == a \div h
<1>1. q \in Int /\ h * q <= a /\ a < h * q + h
  BY Division
<1> HIDE DEF q
<1>2. CASE n <= q
  <2>1. h * n <= h * q
    BY <1>1, <1>2, Distribute
  <2> QED
    BY <1>1, <1>2, <2>1 DEF q, Positive
<1>3. CASE q + 1 <= n
  <2>1. h * (q + 1) <= h * n /\ h * (q + 1) = h * q + h
    BY <1>1, <1>3, Distribute
  <2> QED
    BY <1>1, <1>3, <2>1 DEF q, Positive
<1> QED
  BY <1>1, <1>2, <1>3

\* What a ceiling is.
LEMMA CeilingMeans ==
  ASSUME NEW a \in Int, NEW h \in Positive, NEW n \in Int
  PROVE  n < Ceiling(a, h) <=> n * h < a
<1>1. -n <= (-a) \div h <=> (-n) * h <= -a
  BY FloorMeans
<1>2. (-n) * h = -(n * h) /\ n * h \in Int /\ (-a) \div h \in Int
  BY DEF Positive
<1>3. Ceiling(a, h) = -((-a) \div h)
  BY DEF Ceiling
<1> DEFINE p == n * h   c == (-a) \div h   m == (-n) * h
<1> HIDE DEF p, c, m
<1>4. -n <= c <=> m <= -a
  BY <1>1 DEF c, m
<1>5. m = -p /\ p \in Int /\ c \in Int /\ Ceiling(a, h) = -c
  BY <1>2, <1>3 DEF p, m, c
<1>6. n < -c <=> p < a
  BY <1>4, <1>5
<1> QED
  BY <1>5, <1>6 DEF p

\* Division undoes multiplication.
LEMMA WholeQuotient ==
  ASSUME NEW a \in Int, NEW h \in Positive
  PROVE  (a * h) \div h = a
<1>1. a * h \in Int /\ (a + 1) * h = a * h + h
  BY DEF Positive
<1>2. /\ a <= (a * h) \div h <=> a * h <= a * h
      /\ a + 1 <= (a * h) \div h <=> (a + 1) * h <= a * h
  BY <1>1, FloorMeans
<1> DEFINE p == a * h   r == (a + 1) * h
<1> HIDE DEF p, r
<1>3. (a <= p \div h <=> p <= p) /\ (a + 1 <= p \div h <=> r <= p) /\ p \in Int /\ r = p + h
  BY <1>1, <1>2 DEF p, r
<1>4. p \div h \in Int
  BY <1>3 DEF Positive
<1>5. p \div h = a
  BY <1>3, <1>4 DEF Positive
<1> QED
  BY <1>5 DEF p

\* A client of TMS counts from the lower edge of the grid, and comes to the row that is meant.
LEMMA RowsFromBelow ==
  ASSUME WellMade(layers), NEW v, NEW i, NEW k, ViewOf(v, i, k), ~Shadowed(v), is_level_invariant(v.set)
  PROVE  TmsRow(v) = level(GridOf(i, k), v.z).matrix_h - 1 - v.row
<1> DEFINE g == GridOf(i, k)
           h == g.tile_h * g.levels[v.z + 1].resolution
           rows == g.levels[v.z + 1].matrix_h
<1>1. /\ v.set.tile_w = g.tile_w /\ v.set.tile_h = g.tile_h /\ v.set.levels = g.levels /\ v.set.id = g.id
      /\ v.z \in Nat /\ v.z + 1 \in DOMAIN g.levels /\ v.col \in Nat /\ v.row \in Nat
  BY DEF ViewOf, GridOf
<1>2. GridOk(g)
  BY BehindView
<1> DEFINE found == LayerNamed(layers, v.layer)
           grid == IF found = <<>> THEN <<>> ELSE pick_grid(found[1], v.set.id)
<1>3. found = <<layers[i]>>
  BY BehindView
<1>4. grid # <<>> /\ grid[1].tms = g
  <2>1. v.set.id # NoId
    BY <1>1, <1>2 DEF GridOk, GridId, NoId
  <2>2. GridsFor(layers[i], v.set.id) # <<>> /\ GridsFor(layers[i], v.set.id)[1].tms = g
    BY BehindView
  <2> HIDE DEF found, g
  <2> QED
    BY <1>3, <2>1, <2>2 DEF pick_grid
<1>5. tilemap_doc(layers, v.layer, v.set.id).origin = <<full_extent(g)[1], full_extent(g)[2]>>
  <2> HIDE DEF g
  <2> QED
    BY <1>4 DEF tilemap_doc
<1> HIDE DEF found, grid
<1>6. full_extent(g)[2] = g.origin[2] - Extent(g, 0)[2]
  BY DEF full_extent
<1>7. Extent(g, v.z)[2] = Extent(g, 0)[2]
  <2>1. Extent(v.set, (v.z + 1) - 1) = Extent(v.set, 0)
    BY <1>1 DEF is_level_invariant
  <2>2. (v.z + 1) - 1 = v.z
    BY <1>1
  <2>3. Extent(v.set, v.z) = Extent(g, v.z) /\ Extent(v.set, 0) = Extent(g, 0)
    <3> HIDE DEF g
    <3> QED
      BY <1>1 DEF Extent, SpanX, SpanY, level
  <2> QED
    BY <2>1, <2>2, <2>3
<1>8. Extent(g, v.z)[2] = rows * h
  BY DEF Extent, SpanY, level
<1>9. ClientBox(v)[2] = g.origin[2] - v.row * h - h
  <2>1. ClientBox(v) = tile_bounds(g, v.z, v.col, v.row)
    BY ClientReckons
  <2> HIDE DEF g
  <2> QED
    BY <2>1 DEF tile_bounds, SpanX, SpanY, level
<1>10. TmsRow(v) = (ClientBox(v)[2] - (g.origin[2] - rows * h)) \div h
  <2> HIDE DEF g
  <2> QED
    BY <1>1, <1>5, <1>6, <1>7, <1>8 DEF TmsRow
<1>11. h \in Positive /\ rows \in Int /\ g.origin[2] \in Int
  <2>1. /\ g.tile_h \in Positive /\ g.levels[v.z + 1].resolution \in Positive
        /\ g.levels[v.z + 1].matrix_h \in Positive /\ g.origin \in Point
    BY <1>1, <1>2 DEF GridOk
  <2> HIDE DEF g
  <2> QED
    BY <2>1, ProductPositive DEF Positive, Point
<1> HIDE DEF h, rows
<1>12. ClientBox(v)[2] - (g.origin[2] - rows * h) = (rows - 1 - v.row) * h
  <2> DEFINE o == g.origin[2]
  <2> DEFINE r == v.row
  <2>1. o \in Int /\ ClientBox(v)[2] = o - r * h - h /\ r \in Int /\ h \in Int /\ rows \in Int
    BY <1>1, <1>9, <1>11 DEF Positive
  <2> HIDE DEF o, r
  <2>2. (rows - 1 - r) * h = rows * h - h - r * h
    BY <2>1
  <2> DEFINE a == rows * h   b == r * h
  <2>3. a \in Int /\ b \in Int /\ ClientBox(v)[2] = o - b - h /\ (rows - 1 - r) * h = a - h - b
    BY <2>1, <2>2
  <2> HIDE DEF a, b
  <2>4. (o - b - h) - (o - a) = a - h - b
    BY <2>1, <2>3
  <2> QED
    BY <2>3, <2>4 DEF o, r, a
<1>13. ((rows - 1 - v.row) * h) \div h = rows - 1 - v.row
  <2>1. rows - 1 - v.row \in Int
    BY <1>1, <1>11
  <2> QED
    BY <1>11, <2>1, WholeQuotient
<1> QED
  BY <1>10, <1>12, <1>13 DEF rows, level

(***************************************************************************)
(* 4. Tiles: their ground, and the limits.                                 *)
(***************************************************************************)

Failed(a) == a.kind \in {"error", "exception"}

\* The tile a view stands for.
TileRight(v, i, k, a) ==
  LET pg == layers[i].grids[k] IN
  /\ a.kind \in {"tile", "mvt"} /\ a.layer = v.layer /\ a.px \in {v.set.tile_w, Unsaid}
  /\ a.box = tile_bounds(pg.tms, v.z, v.col, v.row)
  /\ InMatrix(pg.tms, v.z, v.col, v.row)
  /\ layers[i].kind = "cog" => (a.from = "blank" <=> pg.bounds # <<>> /\ Disjoint(a.box, pg.bounds))

\* What an answer comes to: the tile, or a failure where a read failed or there is no such tile.
Settles(v, i, k, a, io) ==
  /\ Failed(a) \/ TileRight(v, i, k, a)
  /\ io = "ok" /\ InAdvertisedMatrix(v) => ~Failed(a)

\* The levels and the matrix sizes of the documents are those of the grid. (wmts.rs: capabilities)
LEMMA MatrixAdvertised ==
  ASSUME WellMade(layers), NEW v, NEW i, NEW k, ViewOf(v, i, k)
  PROVE  /\ HasLevel(GridOf(i, k), v.z)
         /\ InMatrix(GridOf(i, k), v.z, v.col, v.row) <=> InAdvertisedMatrix(v)
<1> DEFINE g == GridOf(i, k)
<1>1. v.set.levels = g.levels /\ v.z + 1 \in DOMAIN g.levels /\ v.col \in Nat /\ v.row \in Nat
  BY DEF ViewOf, GridOf
<1>2. GridOk(g)
  BY BehindView
<1> HIDE DEF g
<1>3. g.levels[v.z + 1].matrix_w \in Positive /\ g.levels[v.z + 1].matrix_h \in Positive
  BY <1>1, <1>2 DEF GridOk
<1>4. /\ HasLevel(g, v.z)
      /\ InMatrix(g, v.z, v.col, v.row) <=> InAdvertisedMatrix(v)
  BY <1>1, <1>3 DEF HasLevel, InMatrix, InAdvertisedMatrix, level, Positive
<1> QED
  BY <1>4 DEF g

\* Whatever a layer is made of, its tile is drawn for the ground it lies on.
LEMMA RenderedRight ==
  ASSUME WellMade(layers), NEW v, NEW i, NEW k, ViewOf(v, i, k), NEW io,
         NEW pg, pg.tms = GridOf(i, k), pg.bounds = layers[i].grids[k].bounds,
         InMatrix(GridOf(i, k), v.z, v.col, v.row)
  PROVE  Settles(v, i, k, Rendered(layers[i], pg, v.z, v.col, v.row, io), io)
<1> DEFINE l == layers[i]
           g == GridOf(i, k)
           a == Rendered(l, pg, v.z, v.col, v.row, io)
           box == tile_bounds(g, v.z, v.col, v.row)
           drawn(from, px) == [kind |-> "tile", layer |-> l.name, box |-> box, px |-> px, from |-> from]
<1> SUFFICES Settles(v, i, k, a, io)
  OBVIOUS
<1>1. /\ LayerOk(l) /\ GridOk(g) /\ i \in DOMAIN layers /\ k \in DOMAIN l.grids /\ v.layer = l.name
      /\ v.set.tile_w = g.tile_w
  <2>1. LayerOk(l) /\ GridOk(g)
    BY BehindView
  <2>2. i \in DOMAIN layers /\ k \in DOMAIN l.grids /\ v.layer = l.name /\ v.set.tile_w = g.tile_w
    BY DEF ViewOf, GridOf
  <2> QED
    BY <2>1, <2>2
<1>2. ASSUME NEW from, NEW px \in {g.tile_w, 0}, a = drawn(from, px),
             l.kind = "cog" => (from = "blank" <=> pg.bounds # <<>> /\ Disjoint(box, pg.bounds))
      PROVE  Settles(v, i, k, a, io)
  <2>1. a.kind = "tile" /\ a.layer = v.layer /\ a.px = px /\ a.box = box /\ a.from = from
    BY <1>1, <1>2
  <2> HIDE DEF a, box, g
  <2>2. TileRight(v, i, k, a)
    BY <1>1, <1>2, <2>1 DEF TileRight, Unsaid, GridOf, g, box
  <2> QED
    BY <2>1, <2>2 DEF Settles, Failed
<1>3. CASE l.kind = "vector"
  <2>1. CASE Archived(l, g, v.z, v.col, v.row)
    <3>1. a = drawn("archive", l.rasters[g.id].px)
      BY <1>3, <2>1 DEF Rendered
    <3>2. l.rasters[g.id].px \in {g.tile_w, 0}
      <4>1. g.id \in DOMAIN l.rasters
        BY <2>1 DEF Archived
      <4>2. PICK m \in DOMAIN l.grids : l.grids[m].tms.id = g.id /\ l.rasters[g.id].px \in {0, l.grids[m].tms.tile_w}
        <5>1. \A id \in DOMAIN l.rasters : \E n \in DOMAIN l.grids :
                  l.grids[n].tms.id = id /\ l.rasters[id].px \in {0, l.grids[n].tms.tile_w}
          BY <1>1, <1>3, Zenon DEF LayerOk
        <5> HIDE DEF g, l
        <5> QED
          BY <4>1, <5>1, Zenon
      <4>3. l.grids[m].tms = g
        BY <1>1, <4>2 DEF WellMade, OneGridPerId, GridOf
      <4> QED
        BY <4>2, <4>3
    <3>3. l.kind # "cog"
      BY <1>3
    <3> HIDE DEF l, g, a, drawn
    <3> QED
      BY <3>1, <3>2, <3>3, <1>2
  <2>2. CASE ~Archived(l, g, v.z, v.col, v.row) /\ io = "fails"
    BY <1>3, <2>2 DEF Rendered, Settles, Failed, Fails
  <2>3. CASE ~Archived(l, g, v.z, v.col, v.row) /\ io # "fails"
    <3>1. a = drawn("render", g.tile_w)
      BY <1>3, <2>3 DEF Rendered
    <3>2. l.kind # "cog"
      BY <1>3
    <3> HIDE DEF l, g, a, drawn
    <3> QED
      BY <3>1, <3>2, <1>2
  <2> QED
    BY <2>1, <2>2, <2>3
<1>4. CASE l.kind = "cog"
  <2>0. l.styled
    BY <1>1, <1>4 DEF LayerOk
  <2>1. CASE pg.bounds # <<>> /\ Disjoint(box, pg.bounds)
    <3>1. a = drawn("blank", g.tile_w)
      BY <1>4, <2>0, <2>1 DEF Rendered
    <3> HIDE DEF l, g, a, drawn, box
    <3> QED
      BY <3>1, <2>1, <1>2
  <2>2. CASE ~(pg.bounds # <<>> /\ Disjoint(box, pg.bounds)) /\ io = "fails"
    BY <1>4, <2>0, <2>2 DEF Rendered, Settles, Failed, Fails
  <2>3. CASE ~(pg.bounds # <<>> /\ Disjoint(box, pg.bounds)) /\ io # "fails"
    <3>1. a = drawn("render", g.tile_w)
      BY <1>4, <2>0, <2>3 DEF Rendered
    <3> HIDE DEF l, g, a, drawn, box
    <3> QED
      BY <3>1, <2>3, <1>2
  <2> QED
    BY <2>1, <2>2, <2>3
<1> QED
  BY <1>1, <1>3, <1>4 DEF LayerOk

\* WMTS, in either binding.
LEMMA WmtsRight ==
  ASSUME WellMade(layers), NEW v, NEW i, NEW k, ViewOf(v, i, k), ~Shadowed(v), NEW io, NEW t,
         t.layer = v.layer, t.style = "default", t.tms = v.set.id, t.z = v.z, t.row = v.row, t.col = v.col
  PROVE  Settles(v, i, k, wmts_get_tile(layers, t, io), io)
<1> DEFINE g == GridOf(i, k)
           grid == GridsFor(layers[i], v.set.id)
           a == wmts_get_tile(layers, t, io)
<1>1. /\ LayerNamed(layers, v.layer) = <<layers[i]>> /\ grid # <<>>
      /\ grid[1].tms = g /\ grid[1].bounds = layers[i].grids[k].bounds
  BY BehindView
<1>2. HasLevel(g, v.z) /\ (InMatrix(g, v.z, v.col, v.row) <=> InAdvertisedMatrix(v))
  BY MatrixAdvertised
<1> HIDE DEF g, grid
<1>3. a = IF ~InMatrix(g, v.z, v.col, v.row) THEN Fails(400, "TileOutOfRange")
          ELSE Rendered(layers[i], grid[1], v.z, v.col, v.row, io)
  BY <1>1, <1>2 DEF wmts_get_tile, grid
<1> HIDE DEF a
<1>4. CASE ~InMatrix(g, v.z, v.col, v.row)
  <2>1. a.kind = "error"
    BY <1>3, <1>4 DEF Fails
  <2> QED
    BY <1>2, <1>4, <2>1 DEF Settles, Failed, a
<1>5. CASE InMatrix(g, v.z, v.col, v.row)
  BY <1>1, <1>3, <1>5, RenderedRight DEF g, a
<1> QED
  BY <1>4, <1>5

\* TMS, by the id of the grid or, for the first grid, without one.
LEMMA TmsRight ==
  ASSUME WellMade(layers), NEW v, NEW i, NEW k, ViewOf(v, i, k), ~Shadowed(v), NEW io, NEW id,
         id = v.set.id \/ (v.first /\ id = NoId), is_level_invariant(v.set)
  PROVE  Settles(v, i, k, render_tms_tile(layers, v.layer, id, v.z, v.col, TmsRow(v), io), io)
<1> DEFINE g == GridOf(i, k)
           l == layers[i]
           grid == pick_grid(l, id)
           y == TmsRow(v)
           h == level(g, v.z).matrix_h
           a == render_tms_tile(layers, v.layer, id, v.z, v.col, TmsRow(v), io)
<1>1. /\ LayerNamed(layers, v.layer) = <<l>> /\ LayerOk(l) /\ GridOk(g)
      /\ GridsFor(l, v.set.id) # <<>> /\ GridsFor(l, v.set.id)[1].tms = g
      /\ GridsFor(l, v.set.id)[1].bounds = l.grids[k].bounds
  BY BehindView
<1>2. /\ v.set.id = g.id /\ k \in DOMAIN l.grids /\ v.first = (k = 1) /\ v.row \in Nat /\ v.z + 1 \in DOMAIN g.levels
      /\ l.grids[k].tms = g
  BY DEF ViewOf, GridOf
<1>3. HasLevel(g, v.z) /\ (InMatrix(g, v.z, v.col, v.row) <=> InAdvertisedMatrix(v))
  BY MatrixAdvertised
<1>4. grid # <<>> /\ grid[1].tms = g /\ grid[1].bounds = l.grids[k].bounds
  <2>1. v.set.id # NoId
    BY <1>1, <1>2 DEF GridOk, GridId, NoId
  <2>2. CASE id = v.set.id
    BY <1>1, <2>1, <2>2 DEF pick_grid
  <2>3. CASE v.first /\ id = NoId
    <3>1. k = 1 /\ grid = FirstOf(l.grids, DOMAIN l.grids)
      BY <1>2, <2>3 DEF pick_grid
    <3>2. FirstOf(l.grids, DOMAIN l.grids) = <<l.grids[1]>>
      <4>1. 1 \in DOMAIN l.grids /\ DOMAIN l.grids \in SUBSET Nat
        BY <1>1, <1>2, <3>1 DEF LayerOk
      <4>2. PICK m \in DOMAIN l.grids : FirstOf(l.grids, DOMAIN l.grids) = <<l.grids[m]>> /\ m <= 1
        BY <4>1, FirstOfIsFirst
      <4>3. m = 1
        BY <1>1, <4>2 DEF LayerOk
      <4> QED
        BY <4>2, <4>3
    <3> QED
      BY <1>2, <3>1, <3>2
  <2> QED
    BY <2>2, <2>3
<1>5. y = h - 1 - v.row
  BY RowsFromBelow
<1>6. h \in Positive
  BY <1>1, <1>2 DEF GridOk, level
<1> HIDE DEF g, l, grid, y
<1>7. InMatrix(g, v.z, v.col, y) <=> InMatrix(g, v.z, v.col, v.row)
  <2> HIDE DEF h
  <2>1. y \in 0..(h - 1) <=> v.row \in 0..(h - 1)
    BY <1>2, <1>5, <1>6 DEF Positive
  <2> QED
    BY <2>1 DEF InMatrix, h
<1>8. tms_y_to_core_row(g, v.z, y) = v.row
  <2> HIDE DEF h
  <2>1. h - 1 - y = v.row
    BY <1>2, <1>5, <1>6 DEF Positive
  <2> QED
    BY <2>1 DEF tms_y_to_core_row, h
<1>9. a = IF ~InMatrix(g, v.z, v.col, v.row) THEN Fails(404, NoCode)
          ELSE Rendered(l, grid[1], v.z, v.col, v.row, io)
  BY <1>1, <1>3, <1>4, <1>7, <1>8 DEF render_tms_tile, grid, y
<1> HIDE DEF a
<1>10. CASE ~InMatrix(g, v.z, v.col, v.row)
  <2>1. a.kind = "error"
    BY <1>9, <1>10 DEF Fails
  <2> QED
    BY <1>3, <1>10, <2>1 DEF Settles, Failed, a
<1>11. CASE InMatrix(g, v.z, v.col, v.row)
  BY <1>4, <1>9, <1>11, RenderedRight DEF g, l, a
<1> QED
  BY <1>10, <1>11

\* Vector tiles, at their own address: of a vector layer there is one, of another none.
LEMMA MvtRight ==
  ASSUME WellMade(layers), NEW v, NEW i, NEW k, ViewOf(v, i, k), ~Shadowed(v), NEW io
  PROVE  LET a == mvt_tile(layers, v.layer, v.set.id, v.z, v.col, v.row, io) IN
         /\ Failed(a) \/ (TileRight(v, i, k, a) /\ layers[i].kind = "vector")
         /\ io = "ok" /\ InAdvertisedMatrix(v) /\ layers[i].kind = "vector" => ~Failed(a)
<1> DEFINE a == mvt_tile(layers, v.layer, v.set.id, v.z, v.col, v.row, io)
           g == GridOf(i, k)
           l == layers[i]
           archive == for_grid(l.archives, v.set.id, g)
           stored == archive # NoId /\ <<v.z, v.col, v.row>> \in l.archives[archive]
<1>1. /\ LayerNamed(layers, v.layer) = <<l>> /\ LayerOk(l) /\ GridOk(g)
      /\ GridsFor(l, v.set.id) # <<>> /\ GridsFor(l, v.set.id)[1].tms = g
  BY BehindView
<1>2. InMatrix(g, v.z, v.col, v.row) <=> InAdvertisedMatrix(v)
  BY MatrixAdvertised
<1>3. v.layer = l.name /\ v.set.tile_w = g.tile_w /\ l.grids[k].tms = g
  BY DEF ViewOf, GridOf
<1>4. g # NoGrid
  <2>1. "crs" \in DOMAIN g
    BY <1>1 DEF GridOk
  <2>2. "crs" \notin DOMAIN NoGrid
    BY DEF NoGrid
  <2> QED
    BY <2>1, <2>2
<1> HIDE DEF g, l, archive
<1>5. resolve_vector(layers, v.layer) = IF l.kind # "vector" THEN Fails(400, NoCode) ELSE l
  BY <1>1 DEF resolve_vector
<1>6. CASE l.kind # "vector"
  <2>1. resolve_vector(layers, v.layer).kind = "error"
    BY <1>5, <1>6 DEF Fails
  <2>2. a = resolve_vector(layers, v.layer)
    BY <2>1 DEF mvt_tile
  <2> HIDE DEF a
  <2>3. Failed(a)
    BY <2>1, <2>2 DEF Failed
  <2> QED
    BY <1>6, <2>3 DEF a, l
<1>7. CASE l.kind = "vector"
  <2>1. resolve_vector(layers, v.layer) = l
    BY <1>5, <1>7
  <2>2. resolve_grid(l, v.set.id) = g
    BY <1>1 DEF resolve_grid
  <2>3. a = IF ~InMatrix(g, v.z, v.col, v.row) THEN Fails(404, NoCode)
            ELSE IF io = "fails" /\ ~stored THEN Fails(500, NoCode)
            ELSE [kind |-> "mvt", layer |-> v.layer, box |-> tile_bounds(g, v.z, v.col, v.row), px |-> g.tile_w,
                  from |-> IF stored THEN "archive" ELSE "encode", fields |-> l.fields]
    BY <1>4, <1>7, <2>1, <2>2 DEF mvt_tile, archive
  <2> HIDE DEF a, stored
  <2>4. Failed(a) \/ TileRight(v, i, k, a)
    BY <1>3, <1>7, <2>3 DEF TileRight, Failed, Fails, l
  <2>5. io = "ok" /\ InAdvertisedMatrix(v) => ~Failed(a)
    BY <1>2, <2>3 DEF Failed
  <2> QED
    BY <1>7, <2>4, <2>5 DEF a, l
<1> QED
  BY <1>6, <1>7

\* A vector tile of the key-value binding is the one of the address. (wmts.rs: get_tile_mvt)
LEMMA MvtKvpRight ==
  ASSUME WellMade(layers), NEW v, NEW i, NEW k, ViewOf(v, i, k), ~Shadowed(v), NEW io, NEW t,
         t.layer = v.layer, t.style = "default", t.tms = v.set.id, t.z = v.z, t.row = v.row, t.col = v.col
  PROVE  LET a == get_tile_mvt(layers, t, io) IN
         /\ Failed(a) \/ (TileRight(v, i, k, a) /\ layers[i].kind = "vector")
         /\ io = "ok" /\ InAdvertisedMatrix(v) /\ layers[i].kind = "vector" => ~Failed(a)
<1> DEFINE a == get_tile_mvt(layers, t, io)
           b == mvt_tile(layers, v.layer, v.set.id, v.z, v.col, v.row, io)
           g == GridOf(i, k)
           l == layers[i]
<1>1. /\ LayerNamed(layers, v.layer) = <<l>> /\ GridOk(g)
      /\ GridsFor(l, v.set.id) # <<>> /\ GridsFor(l, v.set.id)[1].tms = g
  BY BehindView
<1>2. HasLevel(g, v.z) /\ (InMatrix(g, v.z, v.col, v.row) <=> InAdvertisedMatrix(v))
  BY MatrixAdvertised
<1>3. g # NoGrid
  <2>1. "crs" \in DOMAIN g
    BY <1>1 DEF GridOk
  <2>2. "crs" \notin DOMAIN NoGrid
    BY DEF NoGrid
  <2> QED
    BY <2>1, <2>2
<1>4. /\ Failed(b) \/ (TileRight(v, i, k, b) /\ l.kind = "vector")
      /\ io = "ok" /\ InAdvertisedMatrix(v) /\ l.kind = "vector" => ~Failed(b)
  BY MvtRight
<1> HIDE DEF g, l
<1>5. resolve_grid(l, v.set.id) = g
  BY <1>1 DEF resolve_grid
<1>6. a = IF l.kind # "vector" THEN Fails(400, "OperationNotSupported")
          ELSE IF ~InMatrix(g, v.z, v.col, v.row) THEN Fails(400, "TileOutOfRange")
          ELSE IF b.kind = "error" THEN Fails(b.http, "NoApplicableCode") ELSE b
  <2> HIDE DEF b
  <2> QED
    BY <1>1, <1>2, <1>3, <1>5 DEF get_tile_mvt, b
<1> HIDE DEF a, b
<1>7. b.kind = "exception" => FALSE
  <2>1. b.kind \in {"error", "mvt"}
    BY DEF b, mvt_tile, Fails
  <2> QED
    BY <2>1
<1>8. Failed(a) \/ (TileRight(v, i, k, a) /\ l.kind = "vector")
  BY <1>4, <1>6 DEF Failed, Fails
<1>9. io = "ok" /\ InAdvertisedMatrix(v) /\ l.kind = "vector" => ~Failed(a)
  BY <1>2, <1>4, <1>6 DEF Failed
<1> QED
  BY <1>8, <1>9 DEF a, l

\* On one axis: the tile at n lies in the limits exactly when its span reaches over both edges.
LEMMA SpanInLimits ==
  ASSUME NEW lo \in Int, NEW hi \in Int, NEW s \in Positive, NEW m \in Positive, NEW n \in Nat, n < m
  PROVE  n \in Max({lo \div s, 0})..(Min({Ceiling(hi, s), m}) - 1) <=> lo < n * s + s /\ n * s < hi
<1>1. n + 1 <= lo \div s <=> (n + 1) * s <= lo
  BY FloorMeans
<1>2. n < Ceiling(hi, s) <=> n * s < hi
  BY CeilingMeans
<1>3. lo \div s \in Int /\ Ceiling(hi, s) \in Int
  BY DEF Ceiling, Positive
<1>4. (n + 1) * s = n * s + s /\ n * s \in Int
  BY DEF Positive
<1> DEFINE a == lo \div s   b == Ceiling(hi, s)
<1>5. a \in Int /\ b \in Int /\ (n + 1 <= a <=> (n + 1) * s <= lo) /\ (n < b <=> n * s < hi)
  BY <1>1, <1>2, <1>3
<1> HIDE DEF a, b
<1>6. Max({a, 0}) = (IF a >= 0 THEN a ELSE 0) /\ Min({b, m}) = (IF b <= m THEN b ELSE m)
  BY <1>5, MaxOfTwo, MinOfTwo DEF Positive
<1>7. n \in Max({a, 0})..(Min({b, m}) - 1) <=> ~(n + 1 <= a) /\ n < b
  BY <1>5, <1>6 DEF Positive
<1> DEFINE p == n * s   q == (n + 1) * s
<1>8. (n + 1 <= a <=> q <= lo) /\ (n < b <=> p < hi) /\ q = p + s /\ p \in Int
  BY <1>4, <1>5
<1> HIDE DEF p, q
<1>9. n \in Max({a, 0})..(Min({b, m}) - 1) <=> lo < p + s /\ p < hi
  BY <1>7, <1>8 DEF Positive
<1> QED
  BY <1>9 DEF a, b, p

\* Two pairs in one sequence.
LEMMA PairsJoined ==
  ASSUME NEW a, NEW b, NEW c, NEW d
  PROVE  <<a, b>> \o <<c, d>> = <<a, b, c, d>>
<1> DEFINE S == {a, b, c, d}   s == <<a, b>>   t == <<c, d>>   u == <<a, b, c, d>>
<1>1. s \in Seq(S) /\ t \in Seq(S) /\ u \in Seq(S) /\ Len(s) = 2 /\ Len(t) = 2 /\ Len(u) = 4
  OBVIOUS
<1>2. /\ s \o t \in Seq(S) /\ Len(s \o t) = 4
      /\ \A i \in 1..4 : (s \o t)[i] = IF i <= 2 THEN s[i] ELSE t[i - 2]
  BY <1>1, ConcatProperties
<1>3. \A i \in 1..4 : u[i] = IF i <= 2 THEN s[i] ELSE t[i - 2]
  OBVIOUS
<1> HIDE DEF s, t, u
<1>4. s \o t = u
  <2>1. Len(s \o t) = Len(u) /\ \A i \in 1..Len(u) : (s \o t)[i] = u[i]
    BY <1>1, <1>2, <1>3
  <2> HIDE DEF S
  <2>2. s \o t \in Seq(S) /\ u \in Seq(S)
    BY <1>1, <1>2
  <2> DEFINE w == s \o t
  <2> HIDE DEF w
  <2>3. w \in Seq(S) /\ u \in Seq(S) /\ Len(w) = Len(u) /\ \A i \in 1..Len(w) : w[i] = u[i]
    BY <2>1, <2>2 DEF w
  <2>4. w = u
    BY <2>3, SeqEqual
  <2> QED
    BY <2>4 DEF w
<1> QED
  BY <1>4 DEF s, t, u

\* The advertised limits are the tiles that the short cut for blank ones does not take.
LEMMA LimitsAreEdges ==
  ASSUME WellMade(layers), NEW v, NEW i, NEW k, ViewOf(v, i, k), v.limits # <<>>,
         InMatrix(GridOf(i, k), v.z, v.col, v.row)
  PROVE  /\ layers[i].kind = "cog" /\ layers[i].grids[k].bounds # <<>>
         /\ InLimits(v) <=> ~Disjoint(tile_bounds(GridOf(i, k), v.z, v.col, v.row), layers[i].grids[k].bounds)
<1> DEFINE g == GridOf(i, k)
           pg == layers[i].grids[k]
           b == pg.bounds
           sx == g.tile_w * g.levels[v.z + 1].resolution
           sy == g.tile_h * g.levels[v.z + 1].resolution
           mw == g.levels[v.z + 1].matrix_w
           mh == g.levels[v.z + 1].matrix_h
           ox == g.origin[1]
           oy == g.origin[2]
           L == v.limits[v.z + 1]
<1>1. /\ i \in DOMAIN layers /\ k \in DOMAIN layers[i].grids /\ pg.tms = g
      /\ v.limits = IF b = <<>> THEN <<>> ELSE [n \in DOMAIN g.levels |-> tile_limits(g, b, n - 1)]
      /\ v.z \in Nat /\ v.z + 1 \in DOMAIN g.levels /\ v.col \in Nat /\ v.row \in Nat
  BY DEF ViewOf, GridOf, tile_matrix_set_link
<1>2. LayerOk(layers[i]) /\ GridOk(g)
  BY BehindView
<1>3. b # <<>> /\ layers[i].kind = "cog" /\ b \in Box
  BY <1>1, <1>2 DEF LayerOk
<1>4. v.limits[v.z + 1] = tile_limits(g, b, v.z)
  <2>1. (v.z + 1) - 1 = v.z
    BY <1>1
  <2> HIDE DEF g, b
  <2> QED
    BY <1>1, <1>3, <2>1
<1>5. /\ sx \in Positive /\ sy \in Positive /\ mw \in Positive /\ mh \in Positive /\ ox \in Int /\ oy \in Int
  <2>1. /\ g.tile_w \in Positive /\ g.tile_h \in Positive /\ g.levels[v.z + 1].resolution \in Positive
        /\ mw \in Positive /\ mh \in Positive /\ g.origin \in Point
    BY <1>1, <1>2 DEF GridOk
  <2> HIDE DEF g
  <2> QED
    BY <2>1, ProductPositive DEF Point
<1>6. v.col < mw /\ v.row < mh
  <2>1. v.col \in 0..(mw - 1) /\ v.row \in 0..(mh - 1)
    BY DEF InMatrix, level
  <2> HIDE DEF mw, mh
  <2> QED
    BY SMTT(30), <1>1, <1>5, <2>1 DEF Positive
<1> DEFINE c1 == Max({(b[1] - ox) \div sx, 0})   c2 == Min({Ceiling(b[3] - ox, sx), mw}) - 1
           r1 == Max({(oy - b[4]) \div sy, 0})   r2 == Min({Ceiling(oy - b[2], sy), mh}) - 1
<1>7. tile_limits(g, b, v.z) = IF c2 < c1 \/ r2 < r1 THEN <<>> ELSE <<c1, c2, r1, r2>>
  <2>1. tile_limits(g, b, v.z) = IF <<c1, c2>>[2] < <<c1, c2>>[1] \/ <<r1, r2>>[2] < <<r1, r2>>[1] THEN <<>>
                                 ELSE <<c1, c2>> \o <<r1, r2>>
    BY Zenon DEF tile_limits, SpanX, SpanY, level
  <2>2. <<c1, c2>> \o <<r1, r2>> = <<c1, c2, r1, r2>>
    BY PairsJoined
  <2> HIDE DEF c1, c2, r1, r2
  <2>3. <<c1, c2>>[1] = c1 /\ <<c1, c2>>[2] = c2 /\ <<r1, r2>>[1] = r1 /\ <<r1, r2>>[2] = r2
    OBVIOUS
  <2> QED
    BY <2>1, <2>2, <2>3, Zenon
<1>8. /\ b[1] \in Int /\ b[2] \in Int /\ b[3] \in Int /\ b[4] \in Int
  BY <1>3 DEF Box
<1>9. tile_bounds(g, v.z, v.col, v.row) = <<ox + v.col * sx, oy - v.row * sy - sy, ox + v.col * sx + sx, oy - v.row * sy>>
  BY DEF tile_bounds, SpanX, SpanY, level
<1> HIDE DEF b, sx, sy, mw, mh, ox, oy, g
<1> DEFINE w == b[1] - ox   e == b[3] - ox   n == oy - b[4]   d == oy - b[2]
<1>10. w \in Int /\ e \in Int /\ n \in Int /\ d \in Int
  BY SMTT(30), <1>5, <1>8
<1> HIDE DEF w, e, n, d
<1>11. /\ v.col \in Max({w \div sx, 0})..(Min({Ceiling(e, sx), mw}) - 1) <=> w < v.col * sx + sx /\ v.col * sx < e
       /\ v.row \in Max({n \div sy, 0})..(Min({Ceiling(d, sy), mh}) - 1) <=> n < v.row * sy + sy /\ v.row * sy < d
  BY <1>1, <1>5, <1>6, <1>10, SpanInLimits
<1>12. c1 \in Int /\ c2 \in Int /\ r1 \in Int /\ r2 \in Int
  <2>1. \A a \in Int, h \in Positive : a \div h \in Int /\ Ceiling(a, h) \in Int
    BY DEF Ceiling, Positive
  <2>2. w \div sx \in Int /\ Ceiling(e, sx) \in Int /\ n \div sy \in Int /\ Ceiling(d, sy) \in Int
    BY <1>5, <1>10, <2>1
  <2>3. /\ Max({w \div sx, 0}) \in Int /\ Min({Ceiling(e, sx), mw}) \in Int
        /\ Max({n \div sy, 0}) \in Int /\ Min({Ceiling(d, sy), mh}) \in Int
    BY <2>2, <1>5, MaxOfTwo, MinOfTwo DEF Positive
  <2> QED
    BY <2>3 DEF w, e, n, d
<1>18. /\ v.col \in c1..c2 <=> w < v.col * sx + sx /\ v.col * sx < e
       /\ v.row \in r1..r2 <=> n < v.row * sy + sy /\ v.row * sy < d
  BY <1>11 DEF w, e, n, d
<1> HIDE DEF c1, c2, r1, r2
<1>13. InLimits(v) <=> v.col \in c1..c2 /\ v.row \in r1..r2
  <2>1. InLimits(v) <=> L # <<>> /\ v.col \in L[1]..L[2] /\ v.row \in L[3]..L[4]
    BY DEF InLimits
  <2>2. L = IF c2 < c1 \/ r2 < r1 THEN <<>> ELSE <<c1, c2, r1, r2>>
    BY <1>4, <1>7
  <2> HIDE DEF L
  <2>3. CASE c2 < c1 \/ r2 < r1
    BY <1>1, <1>12, <2>1, <2>2, <2>3
  <2>4. CASE ~(c2 < c1 \/ r2 < r1)
    <3>1. L = <<c1, c2, r1, r2>>
      BY <2>2, <2>4
    <3>2. L # <<>> /\ L[1] = c1 /\ L[2] = c2 /\ L[3] = r1 /\ L[4] = r2
      BY <3>1
    <3> QED
      BY <2>1, <3>2
  <2> QED
    BY <2>3, <2>4
<1> DEFINE x == v.col * sx   y == v.row * sy
<1>14. x \in Int /\ y \in Int
  BY <1>1, <1>5 DEF Positive
<1>15. Disjoint(tile_bounds(g, v.z, v.col, v.row), b) <=>
          ox + x >= b[3] \/ ox + x + sx <= b[1] \/ oy - y - sy >= b[4] \/ oy - y <= b[2]
  <2>1. tile_bounds(g, v.z, v.col, v.row) = <<ox + x, oy - y - sy, ox + x + sx, oy - y>>
    BY <1>9
  <2> HIDE DEF x, y
  <2> QED
    BY <2>1 DEF Disjoint
<1>16. /\ v.col \in c1..c2 <=> w < x + sx /\ x < e
       /\ v.row \in r1..r2 <=> n < y + sy /\ y < d
  BY <1>18
<1> HIDE DEF x, y
<1>19. sx \in Int /\ sy \in Int
  BY <1>5 DEF Positive
<1>20. /\ ox + x >= b[3] <=> ~(x < e)
       /\ ox + x + sx <= b[1] <=> ~(w < x + sx)
       /\ oy - y - sy >= b[4] <=> ~(n < y + sy)
       /\ oy - y <= b[2] <=> ~(y < d)
  <2> DEFINE b1 == b[1]   b2 == b[2]   b3 == b[3]   b4 == b[4]
  <2>1. /\ b1 \in Int /\ b2 \in Int /\ b3 \in Int /\ b4 \in Int
        /\ w = b1 - ox /\ e = b3 - ox /\ n = oy - b4 /\ d = oy - b2
    BY <1>8 DEF w, e, n, d
  <2> HIDE DEF b1, b2, b3, b4
  <2>2. /\ ox + x >= b3 <=> ~(x < e)
        /\ ox + x + sx <= b1 <=> ~(w < x + sx)
        /\ oy - y - sy >= b4 <=> ~(n < y + sy)
        /\ oy - y <= b2 <=> ~(y < d)
    BY <1>5, <1>14, <1>19, <2>1
  <2> QED
    BY <2>2 DEF b1, b2, b3, b4
<1>17. InLimits(v) <=> ~Disjoint(tile_bounds(g, v.z, v.col, v.row), b)
  BY <1>13, <1>15, <1>16, <1>20
<1> QED
  BY <1>3, <1>17 DEF g, b

\* The key-value binding: of a repeated key the last counts.
LEMMA MaxIs ==
  ASSUME NEW S \in SUBSET Int, NEW j \in S, \A i \in S : i <= j
  PROVE  Max(S) = j
<1>1. \A i \in S : j >= i
  OBVIOUS
<1>2. Max(S) \in S /\ \A i \in S : Max(S) >= i
  BY <1>1 DEF Max
<1>3. Max(S) <= j /\ Max(S) >= j /\ Max(S) \in Int /\ j \in Int
  BY <1>2
<1> QED
  BY <1>3

LastFor(pairs, n, k, j) ==
  /\ DOMAIN pairs = 1..n /\ j \in 1..n /\ pairs[j][1] = k
  /\ \A i \in 1..n : pairs[i][1] = k => i <= j

\* A parameter has the value it was given last. (wmts.rs: parse_kvp)
LEMMA LastCounts ==
  ASSUME NEW n \in Nat, NEW pairs, NEW k, NEW j, LastFor(pairs, n, k, j)
  PROVE  k \in DOMAIN wmts_kvp(pairs) /\ wmts_kvp(pairs)[k] = pairs[j][2]
<1>0. DOMAIN pairs = 1..n /\ j \in 1..n /\ pairs[j][1] = k /\ \A i \in 1..n : pairs[i][1] = k => i <= j
  BY DEF LastFor
<1> DEFINE keys == {p[1] : p \in ToSet(pairs)}
<1>1. wmts_kvp(pairs) = [c \in keys |-> pairs[Max({i \in DOMAIN pairs : pairs[i][1] = c})][2]]
  BY DEF wmts_kvp
<1>2. k \in keys
  BY <1>0 DEF ToSet
<1>3. Max({i \in DOMAIN pairs : pairs[i][1] = k}) = j
  <2> DEFINE S == {i \in DOMAIN pairs : pairs[i][1] = k}
  <2>1. S \in SUBSET Int /\ j \in S /\ \A i \in S : i <= j
    BY <1>0
  <2> HIDE DEF S
  <2>2. Max(S) = j
    BY <2>1, MaxIs
  <2> QED
    BY <2>2 DEF S
<1> HIDE DEF keys
<1> QED
  BY <1>1, <1>2, <1>3

\* And one that was not given is missing.
LEMMA NeverGiven ==
  ASSUME NEW n \in Nat, NEW pairs, DOMAIN pairs = 1..n, NEW k, \A i \in 1..n : pairs[i][1] # k
  PROVE  k \notin DOMAIN wmts_kvp(pairs)
<1>1. DOMAIN wmts_kvp(pairs) = {p[1] : p \in ToSet(pairs)}
  BY DEF wmts_kvp
<1>2. ASSUME NEW p \in ToSet(pairs) PROVE p[1] # k
  <2>1. PICK i \in 1..n : p = pairs[i]
    BY DEF ToSet
  <2> QED
    BY <2>1
<1> QED
  BY <1>1, <1>2

\* A query that asks for a tile of this layer.
AsksFor(q, v, name, format) ==
  /\ {"layer", "service", "request", "tilematrixset", "tilematrix", "tilerow", "tilecol", "format"} \subseteq DOMAIN q
  /\ "style" \notin DOMAIN q
  /\ q["service"] = "wmts" /\ q["request"] = "gettile" /\ q["layer"] = name /\ q["tilematrixset"] = v.set.id
  /\ q["tilematrix"] = v.z /\ q["tilerow"] = v.row /\ q["tilecol"] = v.col /\ q["format"] = format

\* The pairs of a tile request parse to the address they were made from.
LEMMA PairsAsk ==
  ASSUME NEW v, NEW format
  PROVE  AsksFor(wmts_kvp(TilePairs(v, format)), v, v.layer, format)
<1> DEFINE pairs == TilePairs(v, format)
<1>1. DOMAIN pairs = 1..9
  BY DEF TilePairs
<1>2. /\ pairs[1] = <<"layer", "ignored">> /\ pairs[2] = <<"service", "wmts">> /\ pairs[3] = <<"request", "gettile">>
      /\ pairs[4] = <<"layer", v.layer>> /\ pairs[5] = <<"tilematrixset", v.set.id>>
      /\ pairs[6] = <<"tilematrix", v.z>> /\ pairs[7] = <<"tilerow", v.row>> /\ pairs[8] = <<"tilecol", v.col>>
      /\ pairs[9] = <<"format", format>>
  BY DEF TilePairs
<1> HIDE DEF pairs
<1> DEFINE q == wmts_kvp(pairs)
<1>3. \A i \in 1..9 : i = 1 \/ i = 2 \/ i = 3 \/ i = 4 \/ i = 5 \/ i = 6 \/ i = 7 \/ i = 8 \/ i = 9
  OBVIOUS
<1>4. "layer" \in DOMAIN q /\ q["layer"] = pairs[4][2]
  <2>1. LastFor(pairs, 9, "layer", 4)
    BY <1>1, <1>2, <1>3 DEF LastFor
  <2> QED
    BY <2>1, LastCounts
<1>5. "service" \in DOMAIN q /\ q["service"] = pairs[2][2]
  <2>1. LastFor(pairs, 9, "service", 2)
    BY <1>1, <1>2, <1>3 DEF LastFor
  <2> QED
    BY <2>1, LastCounts
<1>6. "request" \in DOMAIN q /\ q["request"] = pairs[3][2]
  <2>1. LastFor(pairs, 9, "request", 3)
    BY <1>1, <1>2, <1>3 DEF LastFor
  <2> QED
    BY <2>1, LastCounts
<1>7. "tilematrixset" \in DOMAIN q /\ q["tilematrixset"] = pairs[5][2]
  <2>1. LastFor(pairs, 9, "tilematrixset", 5)
    BY <1>1, <1>2, <1>3 DEF LastFor
  <2> QED
    BY <2>1, LastCounts
<1>8. "tilematrix" \in DOMAIN q /\ q["tilematrix"] = pairs[6][2]
  <2>1. LastFor(pairs, 9, "tilematrix", 6)
    BY <1>1, <1>2, <1>3 DEF LastFor
  <2> QED
    BY <2>1, LastCounts
<1>9. "tilerow" \in DOMAIN q /\ q["tilerow"] = pairs[7][2]
  <2>1. LastFor(pairs, 9, "tilerow", 7)
    BY <1>1, <1>2, <1>3 DEF LastFor
  <2> QED
    BY <2>1, LastCounts
<1>10. "tilecol" \in DOMAIN q /\ q["tilecol"] = pairs[8][2]
  <2>1. LastFor(pairs, 9, "tilecol", 8)
    BY <1>1, <1>2, <1>3 DEF LastFor
  <2> QED
    BY <2>1, LastCounts
<1>11. "format" \in DOMAIN q /\ q["format"] = pairs[9][2]
  <2>1. LastFor(pairs, 9, "format", 9)
    BY <1>1, <1>2, <1>3 DEF LastFor
  <2> QED
    BY <2>1, LastCounts
<1>12. "style" \notin DOMAIN q
  <2>1. \A i \in 1..9 : pairs[i][1] # "style"
    BY <1>2, <1>3
  <2> QED
    BY <1>1, <2>1, NeverGiven
<1> HIDE DEF q
<1> QED
  BY <1>2, <1>4, <1>5, <1>6, <1>7, <1>8, <1>9, <1>10, <1>11, <1>12 DEF AsksFor, pairs, q

\* Such a query is understood.
LEMMA AskedIsParsed ==
  ASSUME NEW q, NEW v, NEW name, NEW format \in {"image/png", MvtFormat}, AsksFor(q, v, name, format),
         v.z \in Nat, v.row \in Nat, v.col \in Nat
  PROVE  wmts_parse_kvp(q) = [kind |-> "GetTile", layer |-> name, style |-> "default", tms |-> v.set.id,
                              z |-> v.z, row |-> v.row, col |-> v.col, format |-> format]
<1>1. ToSet(TileKeys) = {"layer", "tilematrixset", "tilematrix", "tilerow", "tilecol"}
  <2>1. DOMAIN TileKeys = 1..5
    BY DEF TileKeys
  <2>2. \A i \in 1..5 : i = 1 \/ i = 2 \/ i = 3 \/ i = 4 \/ i = 5
    OBVIOUS
  <2>3. /\ TileKeys[1] = "layer" /\ TileKeys[2] = "tilematrixset" /\ TileKeys[3] = "tilematrix"
        /\ TileKeys[4] = "tilerow" /\ TileKeys[5] = "tilecol"
    BY DEF TileKeys
  <2> QED
    BY <2>1, <2>2, <2>3 DEF ToSet
<1>3. AllNumbers(q, {"tilematrix", "tilerow", "tilecol"})
  BY DEF AsksFor, AllNumbers
<1>4. Missing(q, TileKeys) = <<>>
  <2>1. \A i \in DOMAIN TileKeys : has(q, TileKeys[i])
    BY <1>1 DEF AsksFor, has, ToSet
  <2>2. {i \in DOMAIN TileKeys : ~has(q, TileKeys[i])} = {}
    BY <2>1
  <2> QED
    BY <2>2 DEF Missing, FirstOf
<1>5. value(q, "request", "") = "gettile" /\ value(q, "service", "wmts") = "wmts" /\ value(q, "format", "image/png") = format
      /\ value(q, "style", "") = ""
  BY DEF AsksFor, value, has
<1>6. wmts_parse_kvp(q) = ParsedTile(q)
  BY <1>3, <1>4, <1>5 DEF wmts_parse_kvp
<1> QED
  BY <1>5, <1>6 DEF ParsedTile, AsksFor

\* What is left when one of the pairs is lost.
LEMMA LostPair ==
  ASSUME NEW v, NEW format, NEW p \in {4, 6}
  PROVE  LET pairs == TilePairs(v, format)
             left == RemoveAt(pairs, p)
         IN  /\ DOMAIN left = 1..8
             /\ \A i \in 1..8 : left[i] = IF i < p THEN pairs[i] ELSE pairs[i + 1]
<1> DEFINE pairs == TilePairs(v, format)
           S == {pairs[i] : i \in 1..9}
           a == SubSeq(pairs, 1, p - 1)
           b == SubSeq(pairs, p + 1, Len(pairs))
<1>1. DOMAIN pairs = 1..9 /\ Len(pairs) = 9
  BY DEF TilePairs
<1>2. pairs \in Seq(S)
  <2>1. pairs = [i \in 1..9 |-> pairs[i]]
    BY DEF TilePairs
  <2> HIDE DEF pairs
  <2>2. \A i \in 1..9 : pairs[i] \in S
    OBVIOUS
  <2> HIDE DEF S
  <2>3. pairs \in [1..9 -> S]
    BY <2>1, <2>2, Zenon
  <2> QED
    BY <2>3, <1>1, SeqDef
<1>10. \A i \in 1..9 : pairs[i] \in S
  OBVIOUS
<1> HIDE DEF pairs, S
<1>11. p = 4 \/ p = 6
  OBVIOUS
<1>3. a \in Seq(S) /\ Len(a) = p - 1 /\ \A i \in 1..p - 1 : a[i] = pairs[i]
  <2>1. 1 \in Int /\ p - 1 \in Int /\ \A i \in 1..p - 1 : pairs[i] \in S
    BY <1>10, <1>11
  <2>2. /\ a \in Seq(S) /\ Len(a) = IF 1 <= p - 1 THEN p - 1 - 1 + 1 ELSE 0
        /\ \A i \in 1..p - 1 - 1 + 1 : a[i] = pairs[1 + i - 1]
    BY <2>1, SubSeqProperties
  <2>3. p - 1 - 1 + 1 = p - 1 /\ 1 <= p - 1 /\ \A i \in 1..p - 1 : 1 + i - 1 = i
    OBVIOUS
  <2> HIDE DEF a
  <2> QED
    BY <2>2, <2>3
<1>4. b \in Seq(S) /\ Len(b) = 9 - p /\ \A i \in 1..9 - p : b[i] = pairs[p + i]
  <2>1. p + 1 \in Int /\ 9 \in Int /\ \A i \in p + 1..9 : pairs[i] \in S
    BY <1>10, <1>11
  <2>2. /\ b \in Seq(S) /\ Len(b) = IF p + 1 <= 9 THEN 9 - (p + 1) + 1 ELSE 0
        /\ \A i \in 1..9 - (p + 1) + 1 : b[i] = pairs[p + 1 + i - 1]
    BY <1>1, <2>1, SubSeqProperties
  <2>3. 9 - (p + 1) + 1 = 9 - p /\ p + 1 <= 9 /\ \A i \in 1..9 - p : p + 1 + i - 1 = p + i
    OBVIOUS
  <2> HIDE DEF b
  <2> QED
    BY <2>2, <2>3
<1>5. RemoveAt(pairs, p) = a \o b
  BY DEF RemoveAt
<1> HIDE DEF a, b
<1>6. /\ a \o b \in Seq(S) /\ Len(a \o b) = Len(a) + Len(b)
      /\ \A i \in 1..(Len(a) + Len(b)) : (a \o b)[i] = IF i <= Len(a) THEN a[i] ELSE b[i - Len(a)]
  BY <1>3, <1>4, ConcatProperties
<1>7. Len(a \o b) = 8
  BY <1>3, <1>4, <1>6
<1>8. DOMAIN (a \o b) = 1..8
  BY SMTT(30), <1>6, <1>7
<1>9. ASSUME NEW i \in 1..8 PROVE (a \o b)[i] = IF i < p THEN pairs[i] ELSE pairs[i + 1]
  <2>1. CASE i < p
    BY SMTT(30), <1>3, <1>4, <1>6, <2>1
  <2>2. CASE ~(i < p)
    <3>1. (a \o b)[i] = b[i - (p - 1)]
      BY SMTT(30), <1>3, <1>4, <1>6, <2>2
    <3>2. i - (p - 1) \in 1..9 - p /\ p + (i - (p - 1)) = i + 1
      BY <2>2
    <3> QED
      BY <1>4, <2>2, <3>1, <3>2
  <2> QED
    BY <2>1, <2>2
<1> QED
  BY <1>5, <1>8, <1>9 DEF pairs

\* A query without a tile matrix is refused; one that names no layer is understood, and fails.
LEMMA SpoiltFails ==
  ASSUME WellMade(layers), NEW v, v.z \in Nat, v.row \in Nat, v.col \in Nat, NEW p \in {4, 6}, NEW io
  PROVE  LET t == wmts_parse_kvp(wmts_kvp(RemoveAt(TilePairs(v, "image/png"), p)))
         IN  t.kind = "error" \/ (t.kind # "error" /\ t.format = "image/png" /\ wmts_get_tile(layers, t, io).kind = "error")
<1> DEFINE whole == TilePairs(v, "image/png")
           pairs == RemoveAt(whole, p)
           q == wmts_kvp(pairs)
           t == wmts_parse_kvp(q)
<1>1. DOMAIN pairs = 1..8 /\ \A i \in 1..8 : pairs[i] = IF i < p THEN whole[i] ELSE whole[i + 1]
  BY LostPair
<1>2. /\ whole[1] = <<"layer", "ignored">> /\ whole[2] = <<"service", "wmts">> /\ whole[3] = <<"request", "gettile">>
      /\ whole[4] = <<"layer", v.layer>> /\ whole[5] = <<"tilematrixset", v.set.id>>
      /\ whole[6] = <<"tilematrix", v.z>> /\ whole[7] = <<"tilerow", v.row>> /\ whole[8] = <<"tilecol", v.col>>
      /\ whole[9] = <<"format", "image/png">>
  BY DEF TilePairs
<1>3. \A i \in 1..8 : i = 1 \/ i = 2 \/ i = 3 \/ i = 4 \/ i = 5 \/ i = 6 \/ i = 7 \/ i = 8
  OBVIOUS
<1>4. p = 4 \/ p = 6
  OBVIOUS
<1> HIDE DEF whole
<1>5. /\ pairs[1] = <<"layer", "ignored">> /\ pairs[2] = <<"service", "wmts">> /\ pairs[3] = <<"request", "gettile">>
      /\ pairs[4] = (IF p = 4 THEN <<"tilematrixset", v.set.id>> ELSE <<"layer", v.layer>>)
      /\ pairs[5] = (IF p = 4 THEN <<"tilematrix", v.z>> ELSE <<"tilematrixset", v.set.id>>)
      /\ pairs[6] = <<"tilerow", v.row>> /\ pairs[7] = <<"tilecol", v.col>> /\ pairs[8] = <<"format", "image/png">>
  <2> HIDE DEF pairs
  <2>1. /\ pairs[1] = whole[1] /\ pairs[2] = whole[2] /\ pairs[3] = whole[3]
        /\ pairs[6] = whole[7] /\ pairs[7] = whole[8] /\ pairs[8] = whole[9]
    BY <1>1, <1>4
  <2>2. p = 4 => pairs[4] = whole[5] /\ pairs[5] = whole[6]
    BY <1>1
  <2>3. p = 6 => pairs[4] = whole[4] /\ pairs[5] = whole[5]
    BY <1>1
  <2> QED
    BY <1>2, <1>4, <2>1, <2>2, <2>3
<1> HIDE DEF pairs
<1>6. CASE p = 4
  <2>1. "layer" \in DOMAIN q /\ q["layer"] = pairs[1][2]
    <3>1. LastFor(pairs, 8, "layer", 1)
      BY <1>1, <1>3, <1>5, <1>6 DEF LastFor
    <3> QED
      BY <3>1, LastCounts
  <2>2. "service" \in DOMAIN q /\ q["service"] = pairs[2][2]
    <3>1. LastFor(pairs, 8, "service", 2)
      BY <1>1, <1>3, <1>5, <1>6 DEF LastFor
    <3> QED
      BY <3>1, LastCounts
  <2>3. "request" \in DOMAIN q /\ q["request"] = pairs[3][2]
    <3>1. LastFor(pairs, 8, "request", 3)
      BY <1>1, <1>3, <1>5, <1>6 DEF LastFor
    <3> QED
      BY <3>1, LastCounts
  <2>4. "tilematrixset" \in DOMAIN q /\ q["tilematrixset"] = pairs[4][2]
    <3>1. LastFor(pairs, 8, "tilematrixset", 4)
      BY <1>1, <1>3, <1>5, <1>6 DEF LastFor
    <3> QED
      BY <3>1, LastCounts
  <2>5. "tilematrix" \in DOMAIN q /\ q["tilematrix"] = pairs[5][2]
    <3>1. LastFor(pairs, 8, "tilematrix", 5)
      BY <1>1, <1>3, <1>5, <1>6 DEF LastFor
    <3> QED
      BY <3>1, LastCounts
  <2>6. "tilerow" \in DOMAIN q /\ q["tilerow"] = pairs[6][2]
    <3>1. LastFor(pairs, 8, "tilerow", 6)
      BY <1>1, <1>3, <1>5, <1>6 DEF LastFor
    <3> QED
      BY <3>1, LastCounts
  <2>7. "tilecol" \in DOMAIN q /\ q["tilecol"] = pairs[7][2]
    <3>1. LastFor(pairs, 8, "tilecol", 7)
      BY <1>1, <1>3, <1>5, <1>6 DEF LastFor
    <3> QED
      BY <3>1, LastCounts
  <2>8. "format" \in DOMAIN q /\ q["format"] = pairs[8][2]
    <3>1. LastFor(pairs, 8, "format", 8)
      BY <1>1, <1>3, <1>5, <1>6 DEF LastFor
    <3> QED
      BY <3>1, LastCounts
  <2>9. "style" \notin DOMAIN q
    <3>1. \A i \in 1..8 : pairs[i][1] # "style"
      BY <1>3, <1>5, <1>6
    <3> QED
      BY <1>1, <3>1, NeverGiven
  <2> HIDE DEF q, t
  <2>10. AsksFor(q, v, "ignored", "image/png")
    BY <1>5, <1>6, <2>1, <2>2, <2>3, <2>4, <2>5, <2>6, <2>7, <2>8, <2>9 DEF AsksFor
  <2>11. t = [kind |-> "GetTile", layer |-> "ignored", style |-> "default", tms |-> v.set.id,
              z |-> v.z, row |-> v.row, col |-> v.col, format |-> "image/png"]
    BY <2>10, AskedIsParsed DEF t
  <2>12. LayerNamed(layers, "ignored") = <<>>
    BY NamedIs DEF WellMade, NamesGiven, Decoys
  <2>13. wmts_get_tile(layers, t, io).kind = "error"
    BY <2>11, <2>12 DEF wmts_get_tile, Fails
  <2> QED
    BY <2>11, <2>13 DEF t, q, pairs, whole
<1>7. CASE p = 6
  <2>1. "tilematrix" \notin DOMAIN q
    <3>1. \A i \in 1..8 : pairs[i][1] # "tilematrix"
      BY <1>3, <1>5, <1>7
    <3> QED
      BY <1>1, <3>1, NeverGiven
  <2>2. "request" \in DOMAIN q /\ q["request"] = "gettile"
    <3>1. LastFor(pairs, 8, "request", 3)
      BY <1>1, <1>3, <1>5, <1>7 DEF LastFor
    <3> QED
      BY <1>5, <3>1, LastCounts
  <2> HIDE DEF q, t
  <2>3. value(q, "request", "") = "gettile"
    BY <2>2 DEF value, has
  <2>4. Missing(q, TileKeys) # <<>>
    <3> DEFINE P == {i \in DOMAIN TileKeys : ~has(q, TileKeys[i])}
    <3>1. 3 \in P
      BY <2>1 DEF TileKeys, has
    <3> HIDE DEF P
    <3>2. FirstOf(TileKeys, P) # <<>>
      BY <3>1 DEF FirstOf
    <3> QED
      BY <3>2 DEF Missing, P
  <2>5. t.kind = "error"
    BY <2>3, <2>4 DEF t, wmts_parse_kvp, OwsError
  <2> QED
    BY <2>5 DEF t, q, pairs, whole
<1> QED
  BY <1>4, <1>6, <1>7

(***************************************************************************)
(* 5. The byte cache.                                                      *)
(***************************************************************************)

\* A key tells the front end and every part of the address.
LEMMA TmsKey ==
  ASSUME NEW a, NEW b, NEW c, NEW d, NEW e
  PROVE  raster_tile_key("tms", <<a, b, c, d, e>>) = <<"tms", a, b, c, d, e>>
<1> DEFINE S == {"tms", a, b, c, d, e}   s == <<"tms">>   t == <<a, b, c, d, e>>   u == <<"tms", a, b, c, d, e>>
<1>1. s \in Seq(S) /\ t \in Seq(S) /\ u \in Seq(S) /\ Len(s) = 1 /\ Len(t) = 5 /\ Len(u) = 6
  OBVIOUS
<1>2. /\ s \o t \in Seq(S) /\ Len(s \o t) = 6
      /\ \A i \in 1..6 : (s \o t)[i] = IF i <= 1 THEN s[i] ELSE t[i - 1]
  BY <1>1, ConcatProperties
<1>3. \A i \in 1..6 : u[i] = IF i <= 1 THEN s[i] ELSE t[i - 1]
  OBVIOUS
<1> HIDE DEF S, s, t, u
<1>5. \A i \in 1..Len(u) : (s \o t)[i] = u[i]
  BY <1>1, <1>2, <1>3
<1>4. s \o t = u
  <2>1. Len(s \o t) = Len(u)
    BY <1>1, <1>2
  <2> QED
    BY <1>1, <1>2, <1>5, <2>1, SeqEqual
<1> QED
  BY <1>4 DEF s, t, u, raster_tile_key

\* A key of the WMTS, part by part. (server.rs: raster_tile_key)
LEMMA WmtsKey ==
  ASSUME NEW a, NEW b, NEW c, NEW d, NEW e, NEW f
  PROVE  raster_tile_key("wmts", <<a, b, c, d, e, f>>) = <<"wmts", a, b, c, d, e, f>>
<1> DEFINE S == {"wmts", a, b, c, d, e, f}
           s == <<"wmts">>   t == <<a, b, c, d, e, f>>   u == <<"wmts", a, b, c, d, e, f>>
<1>1. s \in Seq(S) /\ t \in Seq(S) /\ u \in Seq(S) /\ Len(s) = 1 /\ Len(t) = 6 /\ Len(u) = 7
  OBVIOUS
<1>2. /\ s \o t \in Seq(S) /\ Len(s \o t) = 7
      /\ \A i \in 1..7 : (s \o t)[i] = IF i <= 1 THEN s[i] ELSE t[i - 1]
  BY <1>1, ConcatProperties
<1>3. \A i \in 1..7 : u[i] = IF i <= 1 THEN s[i] ELSE t[i - 1]
  OBVIOUS
<1> HIDE DEF S, s, t, u
<1>5. \A i \in 1..Len(u) : (s \o t)[i] = u[i]
  BY <1>1, <1>2, <1>3
<1>4. s \o t = u
  <2>1. Len(s \o t) = Len(u)
    BY <1>1, <1>2
  <2> QED
    BY <1>1, <1>2, <1>5, <2>1, SeqEqual
<1> QED
  BY <1>4 DEF s, t, u, raster_tile_key

\* What is kept under a key is what its front end once answered to that very address.
TmsEntry(e) ==
  \E name, id, z, x, y, io :
      e.key = <<"tms", name, id, z, x, y>> /\ e.bytes = render_tms_tile(layers, name, id, z, x, y, io)
WmtsEntry(e) ==
  \E t, io : /\ e.key = <<"wmts", t.layer, t.style, t.tms, t.z, t.row, t.col>>
             /\ e.bytes = wmts_get_tile(layers, t, io)
WmsEntry(e) ==
  \E q, io : e.key = <<"wms", q>> /\ e.bytes = handle_layers(layers, q, io)
EntrySound(e) == e.bytes.kind \in {"tile", "map"} /\ (TmsEntry(e) \/ WmtsEntry(e) \/ WmsEntry(e))
CacheSound == \A e \in png : EntrySound(e)

\* Each front end reads back its own answers, and only those that are no errors.
LEMMA TmsFromCache ==
  ASSUME CacheSound, NEW name, NEW id, NEW z, NEW x, NEW y, NEW io
  PROVE  LET key == raster_tile_key("tms", <<name, id, z, x, y>>)
             a == cached_or_render_png(key, render_tms_tile(layers, name, id, z, x, y, io))
         IN  \/ a = render_tms_tile(layers, name, id, z, x, y, io)
             \/ ~Failed(a) /\ \E fate : a = render_tms_tile(layers, name, id, z, x, y, fate)
<1> DEFINE key == raster_tile_key("tms", <<name, id, z, x, y>>)
           a == cached_or_render_png(key, render_tms_tile(layers, name, id, z, x, y, io))
<1>1. key = <<"tms", name, id, z, x, y>>
  BY TmsKey
<1> HIDE DEF key
<1>2. CASE Held(key) = {}
  BY <1>2 DEF cached_or_render_png, key
<1>3. CASE Held(key) # {}
  <2>1. PICK e \in Held(key) : a = e.bytes
    BY <1>3 DEF cached_or_render_png
  <2>2. e.key = key /\ EntrySound(e)
    BY DEF Held, CacheSound
  <2> HIDE DEF a
  <2>3. ~WmtsEntry(e) /\ ~WmsEntry(e)
    BY <1>1, <2>2 DEF WmtsEntry, WmsEntry
  <2>4. PICK n2, i2, z2, x2, y2, fate :
            e.key = <<"tms", n2, i2, z2, x2, y2>> /\ e.bytes = render_tms_tile(layers, n2, i2, z2, x2, y2, fate)
    BY <2>2, <2>3 DEF EntrySound, TmsEntry
  <2>5. n2 = name /\ i2 = id /\ z2 = z /\ x2 = x /\ y2 = y
    BY <1>1, <2>2, <2>4
  <2>6. ~Failed(a)
    BY <2>1, <2>2 DEF EntrySound, Failed
  <2> QED
    BY <2>1, <2>4, <2>5, <2>6 DEF a, key
<1> QED
  BY <1>2, <1>3

\* What the WMTS answers, from the cache or not, is what it would render, perhaps at an earlier
\* time. (wmts.rs: get_tile; server.rs: cached_or_render_png)
LEMMA WmtsFromCache ==
  ASSUME CacheSound, NEW t, NEW io
  PROVE  LET a == cached_or_render_png(KvpKey(t), wmts_get_tile(layers, t, io))
         IN  \/ a = wmts_get_tile(layers, t, io)
             \/ ~Failed(a) /\ \E fate : a = wmts_get_tile(layers, t, fate)
<1> DEFINE a == cached_or_render_png(KvpKey(t), wmts_get_tile(layers, t, io))
<1>1. KvpKey(t) = <<"wmts", t.layer, t.style, t.tms, t.z, t.row, t.col>>
  BY WmtsKey DEF KvpKey
<1>2. CASE Held(KvpKey(t)) = {}
  BY <1>2 DEF cached_or_render_png
<1>3. CASE Held(KvpKey(t)) # {}
  <2>1. PICK e \in Held(KvpKey(t)) : a = e.bytes
    BY <1>3 DEF cached_or_render_png
  <2>2. e.key = KvpKey(t) /\ EntrySound(e)
    BY DEF Held, CacheSound
  <2> HIDE DEF a
  <2>3. ~TmsEntry(e) /\ ~WmsEntry(e)
    BY <1>1, <2>2 DEF TmsEntry, WmsEntry
  <2>4. PICK u, fate : /\ e.key = <<"wmts", u.layer, u.style, u.tms, u.z, u.row, u.col>>
                       /\ e.bytes = wmts_get_tile(layers, u, fate)
    BY <2>2, <2>3 DEF EntrySound, WmtsEntry
  <2>5. u.layer = t.layer /\ u.style = t.style /\ u.tms = t.tms /\ u.z = t.z /\ u.row = t.row /\ u.col = t.col
    BY <1>1, <2>2, <2>4
  <2>6. wmts_get_tile(layers, u, fate) = wmts_get_tile(layers, t, fate)
    BY <2>5 DEF wmts_get_tile
  <2>7. ~Failed(a)
    BY <2>1, <2>2 DEF EntrySound, Failed
  <2> QED
    BY <2>1, <2>4, <2>6, <2>7 DEF a
<1> QED
  BY <1>2, <1>3

\* And so for a map. (wms.rs: handle_layers)
LEMMA WmsFromCache ==
  ASSUME CacheSound, NEW q, NEW io
  PROVE  LET a == cached_or_render_png(<<"wms", q>>, handle_layers(layers, q, io))
         IN  \/ a = handle_layers(layers, q, io)
             \/ ~Failed(a) /\ \E fate : a = handle_layers(layers, q, fate)
<1> DEFINE key == <<"wms", q>>
           a == cached_or_render_png(key, handle_layers(layers, q, io))
<1>2. CASE Held(key) = {}
  BY <1>2 DEF cached_or_render_png
<1>3. CASE Held(key) # {}
  <2>1. PICK e \in Held(key) : a = e.bytes
    BY <1>3 DEF cached_or_render_png
  <2>2. e.key = key /\ EntrySound(e)
    BY DEF Held, CacheSound
  <2> HIDE DEF a
  <2>3. ~WmtsEntry(e) /\ ~TmsEntry(e)
    BY <2>2 DEF WmtsEntry, TmsEntry
  <2>4. PICK p, fate : e.key = <<"wms", p>> /\ e.bytes = handle_layers(layers, p, fate)
    BY <2>2, <2>3 DEF EntrySound, WmsEntry
  <2>5. p = q
    BY <2>2, <2>4
  <2>6. ~Failed(a)
    BY <2>1, <2>2 DEF EntrySound, Failed
  <2> QED
    BY <2>1, <2>4, <2>5, <2>6 DEF a
<1> QED
  BY <1>2, <1>3

\* What is put into the cache keeps it sound.
LEMMA Remembering ==
  ASSUME CacheSound, NEW key, NEW answer, Remember(key, answer), layers' = layers,
         Held(key) = {} /\ answer.kind \in {"tile", "map"} => EntrySound([key |-> key, bytes |-> answer])
  PROVE  CacheSound'
<1>1. \A e : EntrySound(e)' <=> EntrySound(e)
  BY DEF EntrySound, TmsEntry, WmtsEntry, WmsEntry
<1>2. \A e \in png' : EntrySound(e)
  <2>1. CASE Held(key) # {} \/ answer.kind \notin {"tile", "map"}
    BY <2>1 DEF Remember, CacheSound
  <2>2. CASE ~(Held(key) # {} \/ answer.kind \notin {"tile", "map"})
    <3>1. png' = png \/ png' = {[key |-> key, bytes |-> answer]}
      BY <2>2 DEF Remember
    <3> QED
      BY <2>2, <3>1 DEF CacheSound
  <2> QED
    BY <2>1, <2>2
<1> QED
  BY <1>1, <1>2 DEF CacheSound

\* What a tile that was asked for comes to.  A spoilt query fails, and so does one for a vector tile of
\* a layer that has none; any other is answered when the address is in the matrix and the read is well.
VectorOnly(via) == via \in {"mvt", "mvt kvp"}
Sound(v, via, io, a) ==
  \A i, k : ViewOf(v, i, k) /\ ~Shadowed(v) =>
      /\ Failed(a) \/ (TileRight(v, i, k, a) /\ via # "spoilt" /\ (VectorOnly(via) => layers[i].kind = "vector"))
      /\ io = "ok" /\ InAdvertisedMatrix(v) /\ via # "spoilt" /\ (VectorOnly(via) => layers[i].kind = "vector") => ~Failed(a)

\* An answer that is right of every grid behind the address is sound.
LEMMA SettledIsSound ==
  ASSUME NEW v, NEW via \in {"tms", "rest", "kvp"}, NEW io, NEW a,
         \A i, k : ViewOf(v, i, k) /\ ~Shadowed(v) => Settles(v, i, k, a, io)
  PROVE  Sound(v, via, io, a)
  BY DEF Sound, Settles, VectorOnly

\* A tile that was right stays right whatever the reads do now.
LEMMA AgainSettles ==
  ASSUME NEW v, NEW i, NEW k, NEW io, NEW fate, NEW a, Settles(v, i, k, a, fate), ~Failed(a)
  PROVE  Settles(v, i, k, a, io)
  BY DEF Settles

\* The TMS answers soundly and keeps the cache sound. (server.rs: tms_tile_handler)
LEMMA TmsHandled ==
  ASSUME WellMade(layers), CacheSound, NEW v, NEW io, NEW id, id = v.set.id \/ (v.first /\ id = NoId),
         is_level_invariant(v.set), tms_tile_handler(v, id, io), layers' = layers
  PROVE  Sound(v, "tms", io, asked'.answer) /\ CacheSound'
<1> DEFINE y == TmsRow(v)
           rendered == render_tms_tile(layers, v.layer, id, v.z, v.col, y, io)
           key == raster_tile_key("tms", <<v.layer, id, v.z, v.col, y>>)
           a == cached_or_render_png(key, rendered)
<1>1. asked'.answer = a /\ Remember(key, a)
  BY DEF tms_tile_handler
<1>2. a = rendered \/ (~Failed(a) /\ \E fate : a = render_tms_tile(layers, v.layer, id, v.z, v.col, y, fate))
  BY TmsFromCache
<1>3. ASSUME NEW i, NEW k, ViewOf(v, i, k), ~Shadowed(v) PROVE Settles(v, i, k, a, io)
  <2>1. \A fate : Settles(v, i, k, render_tms_tile(layers, v.layer, id, v.z, v.col, y, fate), fate)
    BY <1>3, TmsRight
  <2> HIDE DEF a
  <2> QED
    BY <1>2, <2>1, AgainSettles
<1>4. Sound(v, "tms", io, a)
  <2> HIDE DEF a
  <2> QED
    BY <1>3, SettledIsSound
<1>5. Held(key) = {} => EntrySound([key |-> key, bytes |-> a]) \/ a.kind \notin {"tile", "map"}
  <2> SUFFICES ASSUME Held(key) = {}, a.kind \in {"tile", "map"}
               PROVE  EntrySound([key |-> key, bytes |-> a])
    OBVIOUS
  <2>1. a = rendered /\ key = <<"tms", v.layer, id, v.z, v.col, y>>
    BY TmsKey DEF cached_or_render_png
  <2> HIDE DEF key, a, y
  <2>2. TmsEntry([key |-> key, bytes |-> a])
    BY <2>1 DEF TmsEntry
  <2> QED
    BY <2>2 DEF EntrySound
<1> HIDE DEF key, a
<1>6. CacheSound'
  BY <1>1, <1>5, Remembering
<1> QED
  BY <1>1, <1>4, <1>6

\* So does a WMTS tile through the cache. (wmts.rs: get_tile)
LEMMA WmtsHandled ==
  ASSUME WellMade(layers), CacheSound, NEW v, NEW io, NEW t,
         t.layer = v.layer, t.style = "default", t.tms = v.set.id, t.z = v.z, t.row = v.row, t.col = v.col,
         NEW via \in {"rest", "kvp"},
         Remember(KvpKey(t), cached_or_render_png(KvpKey(t), wmts_get_tile(layers, t, io))), layers' = layers
  PROVE  Sound(v, via, io, cached_or_render_png(KvpKey(t), wmts_get_tile(layers, t, io))) /\ CacheSound'
<1> DEFINE rendered == wmts_get_tile(layers, t, io)
           key == KvpKey(t)
           a == cached_or_render_png(key, rendered)
<1>2. a = rendered \/ (~Failed(a) /\ \E fate : a = wmts_get_tile(layers, t, fate))
  BY WmtsFromCache
<1>3. ASSUME NEW i, NEW k, ViewOf(v, i, k), ~Shadowed(v) PROVE Settles(v, i, k, a, io)
  <2>1. \A fate : Settles(v, i, k, wmts_get_tile(layers, t, fate), fate)
    BY <1>3, WmtsRight
  <2> HIDE DEF a
  <2> QED
    BY <1>2, <2>1, AgainSettles
<1>4. Sound(v, via, io, a)
  <2> HIDE DEF a
  <2> QED
    BY <1>3, SettledIsSound
<1>5. Held(key) = {} => EntrySound([key |-> key, bytes |-> a]) \/ a.kind \notin {"tile", "map"}
  <2> SUFFICES ASSUME Held(key) = {}, a.kind \in {"tile", "map"}
               PROVE  EntrySound([key |-> key, bytes |-> a])
    OBVIOUS
  <2>1. a = rendered /\ key = <<"wmts", t.layer, t.style, t.tms, t.z, t.row, t.col>>
    BY WmtsKey DEF cached_or_render_png, KvpKey
  <2> HIDE DEF key, a
  <2>2. WmtsEntry([key |-> key, bytes |-> a])
    BY <2>1 DEF WmtsEntry
  <2> QED
    BY <2>2 DEF EntrySound
<1>7. Remember(key, a)
  OBVIOUS
<1> HIDE DEF key, a
<1>6. CacheSound'
  BY <1>7, <1>5, Remembering
<1> QED
  BY <1>4, <1>6 DEF a, key

\* The RESTful binding does. (server.rs: wmts_rest_tile_handler)
LEMMA RestHandled ==
  ASSUME WellMade(layers), CacheSound, NEW v, NEW io, wmts_rest_tile_handler(v, io), layers' = layers
  PROVE  Sound(v, "rest", io, asked'.answer) /\ CacheSound'
<1> DEFINE t == Addressed(v, "default")
           a == cached_or_render_png(KvpKey(t), wmts_get_tile(layers, t, io))
<1>1. /\ t.layer = v.layer /\ t.style = "default" /\ t.tms = v.set.id /\ t.z = v.z /\ t.row = v.row /\ t.col = v.col
      /\ KvpKey(t) = raster_tile_key("wmts", Parts(v))
  BY DEF Addressed, KvpKey, Parts
<1>2. asked'.answer = a /\ Remember(KvpKey(t), a)
  <2> DEFINE key == raster_tile_key("wmts", Parts(v))
             b == cached_or_render_png(key, wmts_get_tile(layers, t, io))
  <2>1. asked'.answer = b /\ Remember(key, b)
    BY DEF wmts_rest_tile_handler
  <2> QED
    BY <1>1, <2>1
<1> HIDE DEF t
<1> QED
  BY <1>1, <1>2, WmtsHandled

\* The vector route does, which leaves the raster cache alone. (server.rs: mvt_tile_handler)
LEMMA MvtHandled ==
  ASSUME WellMade(layers), CacheSound, NEW v, NEW io, mvt_tile_handler(v, io), layers' = layers
  PROVE  Sound(v, "mvt", io, asked'.answer) /\ CacheSound'
<1> DEFINE a == mvt_tile(layers, v.layer, v.set.id, v.z, v.col, v.row, io)
<1>1. asked'.answer = a /\ png' = png
  BY DEF mvt_tile_handler
<1>2. ASSUME NEW i, NEW k, ViewOf(v, i, k), ~Shadowed(v)
      PROVE  /\ Failed(a) \/ (TileRight(v, i, k, a) /\ layers[i].kind = "vector")
             /\ io = "ok" /\ InAdvertisedMatrix(v) /\ layers[i].kind = "vector" => ~Failed(a)
  BY <1>2, MvtRight
<1> HIDE DEF a
<1>3. Sound(v, "mvt", io, a)
  BY <1>2 DEF Sound, VectorOnly
<1>4. CacheSound'
  BY <1>1 DEF CacheSound, EntrySound, TmsEntry, WmtsEntry, WmsEntry
<1> QED
  BY <1>1, <1>3, <1>4

\* The key-value binding does, with parameters lost, repeated or out of range. (server.rs: wmts_handler)
LEMMA KvpHandled ==
  ASSUME WellMade(layers), CacheSound, NEW v, v.z \in Nat, v.row \in Nat, v.col \in Nat, NEW io,
         NEW r \in KvpRequests(v), wmts_kvp_handler(v, r.via, r.pairs, io), layers' = layers
  PROVE  Sound(v, r.via, io, asked'.answer) /\ CacheSound'
<1> DEFINE t == wmts_parse_kvp(wmts_kvp(r.pairs))
           Tile(format) == [kind |-> "GetTile", layer |-> v.layer, style |-> "default", tms |-> v.set.id,
                            z |-> v.z, row |-> v.row, col |-> v.col, format |-> format]
<1>1. /\ asked'.answer = KvpAnswer(t, io)
      /\ IF t.kind = "error" THEN UNCHANGED png ELSE Remember(KvpKey(t), KvpAnswer(t, io))
  BY DEF wmts_kvp_handler
<1>2. "image/png" # MvtFormat
  BY DEF MvtFormat
<1>3. CASE r.via = "kvp" /\ r.pairs = TilePairs(v, "image/png")
  <2>1. t = Tile("image/png")
    BY <1>3, PairsAsk, AskedIsParsed
  <2> HIDE DEF t
  <2>2. /\ t.kind # "error" /\ t.format # MvtFormat
        /\ t.layer = v.layer /\ t.style = "default" /\ t.tms = v.set.id /\ t.z = v.z /\ t.row = v.row /\ t.col = v.col
    BY <1>2, <2>1
  <2>3. /\ asked'.answer = cached_or_render_png(KvpKey(t), wmts_get_tile(layers, t, io))
        /\ Remember(KvpKey(t), cached_or_render_png(KvpKey(t), wmts_get_tile(layers, t, io)))
    BY <1>1, <2>2 DEF KvpAnswer
  <2> QED
    BY <1>3, <2>2, <2>3, WmtsHandled
<1>4. CASE r.via = "mvt kvp" /\ r.pairs = TilePairs(v, MvtFormat)
  <2>1. t = Tile(MvtFormat)
    BY <1>4, PairsAsk, AskedIsParsed
  <2> HIDE DEF t
  <2>2. /\ t.kind # "error" /\ t.format = MvtFormat
        /\ t.layer = v.layer /\ t.style = "default" /\ t.tms = v.set.id /\ t.z = v.z /\ t.row = v.row /\ t.col = v.col
    BY <2>1
  <2> DEFINE a == get_tile_mvt(layers, t, io)
  <2>3. asked'.answer = a /\ Remember(KvpKey(t), a)
    BY <1>1, <2>2 DEF KvpAnswer
  <2>4. a.kind \in {"error", "mvt"}
    <3>1. mvt_tile(layers, t.layer, t.tms, t.z, t.col, t.row, io).kind \in {"error", "mvt"}
      BY DEF mvt_tile, Fails
    <3> QED
      BY <3>1 DEF get_tile_mvt, Fails
  <2>5. ASSUME NEW i, NEW k, ViewOf(v, i, k), ~Shadowed(v)
        PROVE  /\ Failed(a) \/ (TileRight(v, i, k, a) /\ layers[i].kind = "vector")
               /\ io = "ok" /\ InAdvertisedMatrix(v) /\ layers[i].kind = "vector" => ~Failed(a)
    BY <2>2, <2>5, MvtKvpRight
  <2> HIDE DEF a
  <2>6. Sound(v, "mvt kvp", io, a)
    BY <2>5 DEF Sound, VectorOnly
  <2>7. CacheSound'
    BY <2>3, <2>4, Remembering
  <2> QED
    BY <1>4, <2>3, <2>6, <2>7
<1>5. ASSUME NEW p \in {4, 6}, r.via = "spoilt", r.pairs = RemoveAt(TilePairs(v, "image/png"), p)
      PROVE  Sound(v, r.via, io, asked'.answer) /\ CacheSound'
  <2> DEFINE a == KvpAnswer(t, io)
             b == wmts_get_tile(layers, t, io)
             Spent(fate) == wmts_get_tile(layers, t, fate).kind = "error"
  <2>1. \A fate : t.kind = "error" \/ (t.kind # "error" /\ t.format = "image/png" /\ Spent(fate))
    BY <1>5, SpoiltFails
  <2> HIDE DEF t
  <2>2. CASE t.kind = "error"
    <3>1. a = t /\ png' = png
      BY <1>1, <2>2 DEF KvpAnswer
    <3>2. CacheSound'
      BY <3>1 DEF CacheSound, EntrySound, TmsEntry, WmtsEntry, WmsEntry
    <3>3. Failed(asked'.answer)
      BY <1>1, <2>2, <3>1 DEF Failed
    <3> QED
      BY <1>5, <3>2, <3>3 DEF Sound
  <2>3. CASE t.kind # "error"
    <3> DEFINE c == cached_or_render_png(KvpKey(t), b)
    <3>1. a = c /\ Remember(KvpKey(t), c)
      BY <1>1, <1>2, <2>1, <2>3 DEF KvpAnswer
    <3>2. c = b \/ (~Failed(c) /\ \E fate : c = wmts_get_tile(layers, t, fate))
      BY WmtsFromCache
    <3> HIDE DEF c
    <3>3. c.kind = "error"
      BY <2>1, <2>3, <3>2
    <3>4. CacheSound'
      BY <3>1, <3>3, Remembering
    <3>5. Failed(asked'.answer)
      BY <1>1, <3>1, <3>3 DEF Failed
    <3> QED
      BY <1>5, <3>4, <3>5 DEF Sound
  <2> QED
    BY <2>2, <2>3
<1>6. \/ r.via = "kvp" /\ r.pairs = TilePairs(v, "image/png")
      \/ r.via = "mvt kvp" /\ r.pairs = TilePairs(v, MvtFormat)
      \/ \E p \in {4, 6} : r.via = "spoilt" /\ r.pairs = RemoveAt(TilePairs(v, "image/png"), p)
  <2> DEFINE a == [via |-> "kvp", pairs |-> TilePairs(v, "image/png")]
             b == [via |-> "mvt kvp", pairs |-> TilePairs(v, MvtFormat)]
             c(p) == [via |-> "spoilt", pairs |-> RemoveAt(TilePairs(v, "image/png"), p)]
  <2>1. r \in {a, b} \cup {c(p) : p \in {4, 6}}
    BY DEF KvpRequests
  <2>2. /\ a.via = "kvp" /\ a.pairs = TilePairs(v, "image/png")
        /\ b.via = "mvt kvp" /\ b.pairs = TilePairs(v, MvtFormat)
        /\ \A p : c(p).via = "spoilt" /\ c(p).pairs = RemoveAt(TilePairs(v, "image/png"), p)
    OBVIOUS
  <2> HIDE DEF a, b, c
  <2>3. r = a \/ r = b \/ \E p \in {4, 6} : r = c(p)
    BY <2>1
  <2> QED
    BY <2>2, <2>3
<1> HIDE DEF t
<1> QED
  BY <1>3, <1>4, <1>5, <1>6

\* The tile that is being looked at.
TileSound ==
  asked.what = "tile" => /\ asked.view \in TileViews /\ "io" \in DOMAIN asked
                         /\ Sound(asked.view, asked.via, asked.io, asked.answer)

\* While the layers stay as they are, so does what is said of an answer.
LEMMA SoundStays ==
  ASSUME layers' = layers
  PROVE  /\ TileViews' = TileViews
         /\ \A v, via, io, a : Sound(v, via, io, a)' <=> Sound(v, via, io, a)
<1>1. TileViews' = TileViews
  BY DEF TileViews
<1>2. \A v, i, k, a : /\ ViewOf(v, i, k)' <=> ViewOf(v, i, k)
                      /\ TileRight(v, i, k, a)' <=> TileRight(v, i, k, a)
  BY DEF ViewOf, TileRight
<1>3. \A v : Shadowed(v)' <=> Shadowed(v)
  BY DEF Shadowed, LayerOf, NamedTwice
<1> QED
  BY <1>1, <1>2, <1>3 DEF Sound

\* Every tile request does.
LEMMA TilesAsked ==
  ASSUME WellMade(layers), CacheSound, AskTile
  PROVE  asked'.what = "tile" /\ TileSound' /\ CacheSound'
<1>1. layers' = layers
  BY DEF AskTile
<1>2. PICK v \in TileViews : \E fate \in {"ok", "fails"} :
          \/ /\ is_level_invariant(v.set) /\ TmsTells(v) /\ TmsRow(v) >= 0
             /\ \E id \in {v.set.id} \cup (IF v.first THEN {NoId} ELSE {}) : tms_tile_handler(v, id, fate)
          \/ wmts_rest_tile_handler(v, fate)
          \/ mvt_tile_handler(v, fate)
          \/ \E r \in KvpRequests(v) : wmts_kvp_handler(v, r.via, r.pairs, fate)
  BY DEF AskTile
<1>3. PICK io \in {"ok", "fails"} :
          \/ /\ is_level_invariant(v.set) /\ TmsTells(v) /\ TmsRow(v) >= 0
             /\ \E id \in {v.set.id} \cup (IF v.first THEN {NoId} ELSE {}) : tms_tile_handler(v, id, io)
          \/ wmts_rest_tile_handler(v, io)
          \/ mvt_tile_handler(v, io)
          \/ \E r \in KvpRequests(v) : wmts_kvp_handler(v, r.via, r.pairs, io)
  BY <1>2
<1> DEFINE Right(via) == /\ asked'.what = "tile" /\ asked'.view = v /\ asked'.via = via /\ asked'.io = io
                         /\ "io" \in DOMAIN asked' /\ Sound(v, via, io, asked'.answer) /\ CacheSound'
<1> HIDE DEF Right
<1> SUFFICES \E via : Right(via)
  <2>1. PICK via : Right(via)
    OBVIOUS
  <2>2. (TileViews' = TileViews) /\ (\A u, w, f, b : Sound(u, w, f, b)' <=> Sound(u, w, f, b))
    BY <1>1, SoundStays
  <2>3. /\ asked'.what = "tile" /\ asked'.view = v /\ asked'.via = via /\ asked'.io = io
        /\ "io" \in DOMAIN asked' /\ Sound(v, via, io, asked'.answer) /\ CacheSound'
    BY <2>1 DEF Right
  <2>4. Sound(asked.view, asked.via, asked.io, asked.answer)'
    BY <2>2, <2>3
  <2>5. TileSound'
    BY <2>2, <2>3, <2>4 DEF TileSound
  <2> QED
    BY <2>3, <2>5
<1>4. CASE /\ is_level_invariant(v.set)
           /\ \E id \in {v.set.id} \cup (IF v.first THEN {NoId} ELSE {}) : tms_tile_handler(v, id, io)
  <2>1. PICK id \in {v.set.id} \cup (IF v.first THEN {NoId} ELSE {}) : tms_tile_handler(v, id, io)
    BY <1>4
  <2>2. id = v.set.id \/ (v.first /\ id = NoId)
    OBVIOUS
  <2>3. Sound(v, "tms", io, asked'.answer) /\ CacheSound'
    BY <1>1, <1>4, <2>1, <2>2, TmsHandled
  <2>4. asked'.what = "tile" /\ asked'.view = v /\ asked'.via = "tms" /\ asked'.io = io
        /\ "io" \in DOMAIN asked'
    BY <2>1 DEF tms_tile_handler
  <2>5. Right("tms")
    BY <2>3, <2>4 DEF Right
  <2> QED
    BY <2>5, Zenon
<1>5. CASE wmts_rest_tile_handler(v, io)
  <2>1. Sound(v, "rest", io, asked'.answer) /\ CacheSound'
    BY <1>1, <1>5, RestHandled
  <2>2. asked'.what = "tile" /\ asked'.view = v /\ asked'.via = "rest" /\ asked'.io = io
        /\ "io" \in DOMAIN asked'
    BY <1>5 DEF wmts_rest_tile_handler
  <2>5. Right("rest")
    BY <2>1, <2>2 DEF Right
  <2> QED
    BY <2>5, Zenon
<1>6. CASE mvt_tile_handler(v, io)
  <2>1. Sound(v, "mvt", io, asked'.answer) /\ CacheSound'
    BY <1>1, <1>6, MvtHandled
  <2>2. asked'.what = "tile" /\ asked'.view = v /\ asked'.via = "mvt" /\ asked'.io = io
        /\ "io" \in DOMAIN asked'
    BY <1>6 DEF mvt_tile_handler
  <2>5. Right("mvt")
    BY <2>1, <2>2 DEF Right
  <2> QED
    BY <2>5, Zenon
<1>7. CASE \E r \in KvpRequests(v) : wmts_kvp_handler(v, r.via, r.pairs, io)
  <2>1. PICK r \in KvpRequests(v) : wmts_kvp_handler(v, r.via, r.pairs, io)
    BY <1>7
  <2>2. v.z \in Nat /\ v.row \in Nat /\ v.col \in Nat
    BY ViewsAreGrids DEF ViewOf
  <2>3. Sound(v, r.via, io, asked'.answer) /\ CacheSound'
    BY <1>1, <2>1, <2>2, KvpHandled
  <2>4. asked'.what = "tile" /\ asked'.view = v /\ asked'.via = r.via /\ asked'.io = io
        /\ "io" \in DOMAIN asked'
    BY <2>1 DEF wmts_kvp_handler
  <2>5. Right(r.via)
    BY <2>3, <2>4 DEF Right
  <2> QED
    BY <2>5, Zenon
<1> QED
  BY <1>3, <1>4, <1>5, <1>6, <1>7, Zenon

(***************************************************************************)
(* 6. Maps: the window.                                                    *)
(***************************************************************************)

\* What the capabilities say of layer i, and a place in one of its CRSs.
MapOf(version, v, i) ==
  /\ i \in DOMAIN layers /\ v.layer = layers[i].name /\ v.bounds = layers[i].bounds
  /\ v.crs \in crs_lines(version, layers[i].crs) /\ v.crs \in DOMAIN Shift /\ v.at \in Point

\* Every map a client may ask for is of a layer, in a CRS that is offered for it.
LEMMA MapViewsAreLayers ==
  ASSUME WellMade(layers), NEW version, NEW v \in MapViews(version)
  PROVE  \E i : MapOf(version, v, i)
<1> DEFINE doc == capabilities_multi(layers, version).layers
<1>1. DOMAIN doc = DOMAIN layers
  BY DEF capabilities_multi
<1>2. \A i \in DOMAIN layers : doc[i].name = layers[i].name /\ doc[i].bounds = layers[i].bounds
                                /\ doc[i].crs = crs_lines(version, layers[i].crs)
  BY DEF capabilities_multi
<1>3. MapViews(version) =
        UNION {{[layer |-> doc[i].name, bounds |-> doc[i].bounds, crs |-> c, at |-> o] :
                    c \in doc[i].crs \cap DOMAIN Shift, o \in Offsets} : i \in DOMAIN doc}
  BY DEF MapViews
<1> HIDE DEF doc
<1>4. PICK i \in DOMAIN doc :
          v \in {[layer |-> doc[i].name, bounds |-> doc[i].bounds, crs |-> c, at |-> o] :
                     c \in doc[i].crs \cap DOMAIN Shift, o \in Offsets}
  BY <1>3
<1>5. PICK c \in doc[i].crs \cap DOMAIN Shift :
          \E o \in Offsets : v = [layer |-> doc[i].name, bounds |-> doc[i].bounds, crs |-> c, at |-> o]
  BY <1>4
<1>6. PICK o \in Offsets : v = [layer |-> doc[i].name, bounds |-> doc[i].bounds, crs |-> c, at |-> o]
  BY <1>5
<1>7. o \in Point
  BY PlaneAssumption
<1>8. MapOf(version, v, i)
  BY <1>1, <1>2, <1>5, <1>6, <1>7 DEF MapOf
<1> QED
  BY <1>8

\* The window is 8 units wide and high.
LEMMA WindowIs ==
  ASSUME WellMade(layers), NEW version, NEW v, NEW i, MapOf(version, v, i)
  PROVE  \E x, y \in Int : Window(v) = <<x - 4, y - 4, x + 4, y + 4>>
<1> DEFINE mid == <<(v.bounds[1] + v.bounds[3]) \div 2, (v.bounds[2] + v.bounds[4]) \div 2>>
           c == to_source("EPSG:4326", v.crs, mid)
<1>1. v.bounds \in Box
  BY DEF MapOf, WellMade, LayerOk
<1>2. mid \in Point
  <2>1. /\ v.bounds[1] \in Int /\ v.bounds[2] \in Int /\ v.bounds[3] \in Int /\ v.bounds[4] \in Int
    BY <1>1 DEF Box
  <2>2. \A a, b \in Int : (a + b) \div 2 \in Int
    OBVIOUS
  <2> QED
    BY <2>1, <2>2 DEF Point
<1>3. CanTransform("EPSG:4326", v.crs)
  BY PlaneAssumption DEF MapOf, CanTransform
<1> HIDE DEF mid
<1>4. c \in Point /\ v.at \in Point
  BY <1>2, <1>3, PointMoves DEF MapOf
<1>5. Window(v) = <<c[1] + v.at[1] - 4, c[2] + v.at[2] - 4, c[1] + v.at[1] + 4, c[2] + v.at[2] + 4>>
  BY DEF Window, mid
<1> HIDE DEF c
<1>6. c[1] \in Int /\ c[2] \in Int /\ v.at[1] \in Int /\ v.at[2] \in Int
  BY <1>4 DEF Point
<1> QED
  BY <1>5, <1>6

\* What a client must give for the window, and what it may spoil of it.
Framing(version, v, q) ==
  /\ {"bbox", "width", "height"} \subseteq DOMAIN q /\ q["width"] = 4 /\ q["height"] = 4
  /\ IF version = V13 THEN "crs" \in DOMAIN q /\ q["crs"] = v.crs
     ELSE "crs" \notin DOMAIN q /\ "srs" \in DOMAIN q /\ q["srs"] = v.crs
  /\ q["bbox"] = Written(version, v.crs, Window(v))

Unaliased(crs) == IF crs = "CRS:84" THEN "EPSG:4326" ELSE crs

\* The server and the client agree which CRSs are northing first. (reproj.rs: crs_is_northing_first)
LEMMA NorthingAgrees ==
  ASSUME NEW version, NEW crs
  PROVE  NorthingFirst(version, crs) <=> version = V13 /\ crs \in NorthingFirstCrs
  BY AxesAgree, AxesAssumption DEF NorthingFirst

\* The server finds the window that the client wrote down.
LEMMA FramedFor ==
  ASSUME WellMade(layers), NEW version, NEW v, NEW i, MapOf(version, v, i), NEW q, Framing(version, v, q),
         NEW native, is_supported_crs(v.crs) \/ v.crs = native
  PROVE  parse_map_frame(version, q, native) =
             [kind |-> "frame", bbox |-> Window(v), width |-> 4, height |-> 4, crs |-> Unaliased(v.crs)]
<1>1. PICK x, y \in Int : Window(v) = <<x - 4, y - 4, x + 4, y + 4>>
  BY WindowIs
<1> DEFINE w == Window(v)
           b == q["bbox"]
<1>2. value(q, "crs", value(q, "srs", "")) = v.crs /\ (has(q, "crs") \/ has(q, "srs"))
  BY DEF Framing, value, has
<1>3. is_supported_crs(v.crs) \/ v.crs = native
  OBVIOUS
<1>4. w \in Box /\ w[1] < w[3] /\ w[2] < w[4]
  BY <1>1 DEF Box
<1> HIDE DEF w
<1>5. b = (IF version = V13 /\ v.crs \in NorthingFirstCrs THEN Swapped(w) ELSE w)
  BY DEF Framing, Written, w
<1>6. b \in Box
  BY <1>4, <1>5 DEF Box, Swapped
<1>7. (IF NorthingFirst(version, v.crs) THEN Swapped(b) ELSE b) = w
  <2>1. Swapped(Swapped(w)) = w
    BY <1>4 DEF Swapped, Box
  <2> QED
    BY <1>5, <2>1, NorthingAgrees
<1>8. Len(b) = 4 /\ ~Meet(ToSet(b), {NotANumber, Infinite})
  <2>1. b = <<b[1], b[2], b[3], b[4]>> /\ \A k \in 1..4 : b[k] \in Int
    <3>1. b = <<b[1], b[2], b[3], b[4]>> /\ b[1] \in Int /\ b[2] \in Int /\ b[3] \in Int /\ b[4] \in Int
      BY <1>6 DEF Box
    <3>2. \A k \in 1..4 : k = 1 \/ k = 2 \/ k = 3 \/ k = 4
      OBVIOUS
    <3> QED
      BY <3>1, <3>2
  <2> HIDE DEF b
  <2>2. Len(b) = 4 /\ DOMAIN b = 1..4
    BY <2>1
  <2>3. ToSet(b) \subseteq Int
    BY <2>1, <2>2 DEF ToSet
  <2> QED
    BY <2>2, <2>3, NumbersAssumption DEF Meet
<1>9. {"bbox", "width", "height"} \subseteq DOMAIN q /\ {q["width"], q["height"]} \subseteq 1..MaxDim
      /\ q["width"] = 4 /\ q["height"] = 4
  BY DEF Framing, MaxDim
<1> HIDE DEF b
<1>10. q["bbox"] = b
  BY DEF b
<1>11. parse_map_frame(version, q, native) =
        IF w[1] < w[3] /\ w[2] < w[4]
        THEN [kind |-> "frame", bbox |-> w, width |-> q["width"], height |-> q["height"],
              crs |-> IF v.crs = "CRS:84" THEN "EPSG:4326" ELSE v.crs]
        ELSE Exception(version, NoCode)
  <2> DEFINE crs == value(q, "crs", value(q, "srs", ""))
             box == IF NorthingFirst(version, crs) THEN Swapped(q["bbox"]) ELSE q["bbox"]
  <2>1. box = w
    BY <1>2, <1>7, <1>10
  <2>2. /\ has(q, "crs") \/ has(q, "srs")
        /\ is_supported_crs(crs) \/ crs = native
        /\ Len(q["bbox"]) = 4 /\ ~Meet(ToSet(q["bbox"]), {NotANumber, Infinite})
    BY <1>2, <1>3, <1>8, <1>10
  <2>3. parse_map_frame(version, q, native) =
          IF box[1] < box[3] /\ box[2] < box[4]
          THEN [kind |-> "frame", bbox |-> box, width |-> q["width"], height |-> q["height"],
                crs |-> IF crs = "CRS:84" THEN "EPSG:4326" ELSE crs]
          ELSE Exception(version, NoCode)
    BY <1>9, <2>2 DEF parse_map_frame
  <2> HIDE DEF box, crs
  <2>4. crs = v.crs
    BY <1>2 DEF crs
  <2> QED
    BY <2>1, <2>3, <2>4
<1> QED
  BY <1>4, <1>9, <1>11 DEF w, Unaliased

\* And so for the layer the map is of.
LEMMA Framed ==
  ASSUME WellMade(layers), NEW version, NEW v, NEW i, MapOf(version, v, i), NEW q, Framing(version, v, q)
  PROVE  parse_map_frame(version, q, layers[i].crs) =
             [kind |-> "frame", bbox |-> Window(v), width |-> 4, height |-> 4, crs |-> Unaliased(v.crs)]
<1>1. is_supported_crs(v.crs) \/ v.crs = layers[i].crs
  BY DEF MapOf, crs_lines, StandardCrs, is_supported_crs
<1> QED
  BY <1>1, FramedFor

\* Another layer reads the same window, or does not know the CRS.
LEMMA FramedOrNot ==
  ASSUME WellMade(layers), NEW version, NEW v, NEW i, MapOf(version, v, i), NEW q, Framing(version, v, q), NEW native
  PROVE  \/ parse_map_frame(version, q, native) =
                [kind |-> "frame", bbox |-> Window(v), width |-> 4, height |-> 4, crs |-> Unaliased(v.crs)]
         \/ parse_map_frame(version, q, native).kind = "exception"
<1>1. CASE is_supported_crs(v.crs) \/ v.crs = native
  BY <1>1, FramedFor
<1>2. CASE ~(is_supported_crs(v.crs) \/ v.crs = native)
  <2>1. value(q, "crs", value(q, "srs", "")) = v.crs
    BY DEF Framing, value, has
  <2> QED
    BY <1>2, <2>1 DEF parse_map_frame, Exception
<1> QED
  BY <1>1, <1>2

\* The only member of a sequence of one.
LEMMA OnlyOne ==
  ASSUME NEW x
  PROVE  ToSet(<<x>>) = {x}
<1>1. DOMAIN <<x>> = {1} /\ <<x>>[1] = x
  OBVIOUS
<1> DEFINE s == <<x>>
<1>2. DOMAIN s = {1} /\ s[1] = x
  BY <1>1
<1> HIDE DEF s
<1>3. ToSet(s) = {x}
  BY <1>2 DEF ToSet
<1> QED
  BY <1>3 DEF s

\* A layer that is named is the one that is asked, or another of that name.
LEMMA PickedOfName ==
  ASSUME WellMade(layers), NEW i \in DOMAIN layers
  PROVE  \E j \in DOMAIN layers :
             /\ pick_layer(layers, layers[i].name) = layers[j] /\ layers[j].name = layers[i].name
             /\ ~NamedTwice(layers[i].name) => j = i
<1>1. layers # <<>>
  OBVIOUS
<1>2. layers[i].name \in LayerNames(layers)
  BY DEF LayerNames, ToSet
<1>3. layers[i].name # ""
  BY DEF WellMade, NamesGiven
<1>4. PICK j \in DOMAIN layers :
          /\ LayerNamed(layers, layers[i].name) = <<layers[j]>> /\ layers[j].name = layers[i].name
          /\ ~NamedTwice(layers[i].name) => j = i
  BY FoundByName
<1>5. pick_layer(layers, layers[i].name) = LayerNamed(layers, layers[i].name)[1]
  BY <1>1, <1>2, <1>3 DEF pick_layer
<1>6. LayerNamed(layers, layers[i].name)[1] = layers[j]
  BY <1>4
<1> QED
  BY <1>4, <1>5, <1>6

\* What is known of a layer that is named.
LEMMA PickedByName ==
  ASSUME WellMade(layers), NEW i \in DOMAIN layers
  PROVE  /\ layers # <<>> /\ layers[i].name \in LayerNames(layers) /\ layers[i].name # ""
         /\ layers[i].kind \in {"cog", "vector"} /\ (layers[i].kind = "cog" => layers[i].styled)
         /\ ~NamedTwice(layers[i].name) => pick_layer(layers, layers[i].name) = layers[i]
<1>1. layers # <<>>
  OBVIOUS
<1>2. layers[i].name \in LayerNames(layers)
  BY DEF LayerNames, ToSet
<1>3. layers[i].name # ""
  BY DEF WellMade, NamesGiven
<1>4. layers[i].kind \in {"cog", "vector"} /\ (layers[i].kind = "cog" => layers[i].styled)
  BY DEF WellMade, LayerOk
<1>5. ~NamedTwice(layers[i].name) => pick_layer(layers, layers[i].name) = layers[i]
  BY PickedOfName
<1> QED
  BY <1>1, <1>2, <1>3, <1>4, <1>5

\* A map of one name is of a layer of that name. (wms.rs: get_map)
LEMMA MapOfNamed ==
  ASSUME WellMade(layers), NEW version, NEW i \in DOMAIN layers, NEW io, NEW q, VersionGiven(q), has(q, "layers"),
         q["layers"][1] = layers[i].name
  PROVE  \E j \in DOMAIN layers :
             /\ layers[j].name = layers[i].name /\ (~NamedTwice(layers[i].name) => j = i)
             /\ handle_get_map(layers, version, q, io) =
                    IF AnyUndefined(layers, q["layers"]) THEN Exception(version, "LayerNotDefined")
                    ELSE get_map(layers[j], version, q, io)
<1>1. list(q, "layers") = q["layers"]
  BY DEF list
<1>2. PICK j \in DOMAIN layers : /\ pick_layer(layers, layers[i].name) = layers[j]
                                 /\ layers[j].name = layers[i].name /\ (~NamedTwice(layers[i].name) => j = i)
  BY PickedOfName
<1>3. pick_layer(layers, list(q, "layers")[1]) = layers[j]
  BY <1>1, <1>2, Zenon
<1>4. layers[j].kind \in {"cog", "vector"} /\ (layers[j].kind = "cog" => layers[j].styled)
  BY PickedByName
<1>5. get_map_layer(layers[j], version, q, io) = get_map(layers[j], version, q, io)
  BY <1>4 DEF get_map_layer
<1>6. handle_get_map(layers, version, q, io) =
          IF AnyUndefined(layers, q["layers"]) THEN Exception(version, "LayerNotDefined")
          ELSE get_map(layers[j], version, q, io)
  BY <1>1, <1>3, <1>4, <1>5 DEF handle_get_map
<1> QED
  BY <1>2, <1>6

\* The query as the client writes it.
CrsKey(version) == IF version = V13 THEN "crs" ELSE "srs"
Triple(version) == IF version = V13 THEN <<1, 3, 0>> ELSE <<1, 1, 1>>

\* The parameters of a map request.
LEMMA QueryIs ==
  ASSUME NEW version \in {V11, V13}, NEW v
  PROVE  LET q == MapQuery(version, v) IN
         /\ DOMAIN q = {"request", "version", "layers", "styles", "bbox", "width", "height", "format", CrsKey(version)}
         /\ q["request"] = "getmap" /\ q["version"] = Triple(version) /\ q["layers"] = <<v.layer>>
         /\ q["styles"] = <<"">> /\ q["format"] = "image/png" /\ q[CrsKey(version)] = v.crs
         /\ q["bbox"] = Written(version, v.crs, Window(v)) /\ q["width"] = 4 /\ q["height"] = 4
<1> DEFINE a == [request |-> "getmap", version |-> Triple(version), layers |-> <<v.layer>>, styles |-> <<"">>,
                 bbox |-> Written(version, v.crs, Window(v)), width |-> 4, height |-> 4, format |-> "image/png"]
           b == [k \in {CrsKey(version)} |-> v.crs]
           q == MapQuery(version, v)
<1>1. q = With(a, b)
  BY DEF MapQuery, Triple, CrsKey
<1>2. /\ DOMAIN a = {"request", "version", "layers", "styles", "bbox", "width", "height", "format"}
      /\ DOMAIN b = {CrsKey(version)} /\ b[CrsKey(version)] = v.crs
      /\ a["request"] = "getmap" /\ a["version"] = Triple(version) /\ a["layers"] = <<v.layer>>
      /\ a["styles"] = <<"">> /\ a["format"] = "image/png"
      /\ a["bbox"] = Written(version, v.crs, Window(v)) /\ a["width"] = 4 /\ a["height"] = 4
  OBVIOUS
<1> HIDE DEF a, b, q
<1>3. DOMAIN q = DOMAIN a \cup DOMAIN b
  BY <1>1 DEF With
<1>4. \A k \in DOMAIN q : q[k] = IF k \in DOMAIN b THEN b[k] ELSE a[k]
  BY <1>1 DEF With
<1>5. CrsKey(version) \notin DOMAIN a
  BY <1>2 DEF CrsKey
<1> QED
  BY <1>2, <1>3, <1>4, <1>5 DEF q

\* A version that is offered is the one that is agreed on. (wms.rs: negotiate_version)
LEMMA VersionIs ==
  ASSUME NEW version \in {V11, V13}
  PROVE  negotiate_version(Triple(version)) = version
  BY DEF Triple, negotiate_version, NotBelow, V11, V13

\* A map request is answered by the map, or says what was wrong with it.
LEMMA HandledAsMap ==
  ASSUME NEW version \in {V11, V13}, NEW q, NEW io, "version" \in DOMAIN q, q["version"] = Triple(version),
         "request" \in DOMAIN q, q["request"] = "getmap"
  PROVE  handle_layers(layers, q, io) = handle_get_map(layers, version, q, io)
<1>1. negotiate_version(requested_version(q)) = version
  BY VersionIs DEF requested_version, value, has
<1>2. normalize_request(value(q, "request", "")) = "getmap"
  BY DEF normalize_request, value, has
<1> QED
  BY <1>1, <1>2 DEF handle_layers

\* What a map that was asked for comes to.
Shows(v, a) ==
  a.kind = "map" /\ a.layer = v.layer /\ a.frame.bbox = Window(v) /\ a.frame.crs = Unaliased(v.crs)
MapRight(v, s, io, a) ==
  /\ Failed(a) \/ (s = "none" /\ Shows(v, a))
  /\ s = "none" /\ io = "ok" /\ ~NamedTwice(v.layer) => ~Failed(a)

\* A map that is well asked for shows the window it was asked for, or is an exception.
LEMMA PlainMap ==
  ASSUME WellMade(layers), NEW version \in {V11, V13}, NEW v, NEW i, MapOf(version, v, i), NEW io
  PROVE  MapRight(v, "none", io, handle_layers(layers, MapQuery(version, v), io))
<1> DEFINE q == MapQuery(version, v)
           f(j) == parse_map_frame(version, q, layers[j].crs)
           a == handle_layers(layers, q, io)
<1>1. /\ DOMAIN q = {"request", "version", "layers", "styles", "bbox", "width", "height", "format", CrsKey(version)}
      /\ q["request"] = "getmap" /\ q["version"] = Triple(version) /\ q["layers"] = <<v.layer>>
      /\ q["styles"] = <<"">> /\ q["format"] = "image/png" /\ q[CrsKey(version)] = v.crs
      /\ q["bbox"] = Written(version, v.crs, Window(v)) /\ q["width"] = 4 /\ q["height"] = 4
  BY QueryIs
<1>2. i \in DOMAIN layers /\ v.layer = layers[i].name
  BY DEF MapOf
<1> HIDE DEF q
<1>3. Framing(version, v, q)
  BY <1>1 DEF Framing, CrsKey
<1>4. /\ f(i) = [kind |-> "frame", bbox |-> Window(v), width |-> 4, height |-> 4, crs |-> Unaliased(v.crs)]
      /\ \A j \in DOMAIN layers : f(j) = f(i) \/ f(j).kind = "exception"
  BY <1>3, Framed, FramedOrNot
<1>5. a = handle_get_map(layers, version, q, io)
  BY <1>1, HandledAsMap
<1>6. ~AnyUndefined(layers, q["layers"])
  <2>1. \A t \in ToSet(q["layers"]) : t = v.layer
    BY <1>1, OnlyOne
  <2> QED
    BY <1>2, <2>1, PickedByName DEF AnyUndefined
<1>7. PICK j \in DOMAIN layers : /\ layers[j].name = layers[i].name /\ (~NamedTwice(layers[i].name) => j = i)
                                 /\ a = get_map(layers[j], version, q, io)
  <2>1. VersionGiven(q) /\ has(q, "layers")
    BY <1>1 DEF VersionGiven, has
  <2>2. q["layers"][1] = layers[i].name
    <3>1. <<v.layer>>[1] = v.layer /\ q["layers"] = <<v.layer>>
      BY <1>1
    <3> QED
      BY <1>2, <3>1, Zenon
  <2>3. \E j \in DOMAIN layers :
            /\ layers[j].name = layers[i].name /\ (~NamedTwice(layers[i].name) => j = i)
            /\ handle_get_map(layers, version, q, io) =
                   IF AnyUndefined(layers, q["layers"]) THEN Exception(version, "LayerNotDefined")
                   ELSE get_map(layers[j], version, q, io)
    BY <1>2, <2>1, <2>2, MapOfNamed
  <2> QED
    BY <1>5, <1>6, <2>3
<1>8. validate_getmap_format(q) /\ validate_styles(q)
  <2>1. ToSet(q["styles"]) \subseteq {""}
    BY <1>1, OnlyOne
  <2> QED
    BY <1>1, <2>1 DEF validate_getmap_format, validate_styles, value, has, list
<1> HIDE DEF f, a
<1>9. a = IF f(j).kind = "exception" THEN f(j)
          ELSE IF io = "fails" THEN Exception(version, NoCode)
          ELSE [kind |-> "map", layer |-> layers[j].name, frame |-> f(j), background |-> Background(q)]
  BY <1>7, <1>8 DEF get_map, f
<1>10. MapRight(v, "none", io, a)
  <2>1. CASE f(j) = f(i)
    <3>1. f(j).kind # "exception"
      BY <1>4, <2>1
    <3> QED
      BY <1>2, <1>4, <1>7, <1>9, <2>1, <3>1 DEF MapRight, Shows, Failed, Exception
  <2>2. CASE f(j) # f(i)
    <3>1. f(j).kind = "exception" /\ NamedTwice(v.layer)
      BY <1>2, <1>4, <1>7, <2>2
    <3> QED
      BY <1>9, <3>1 DEF MapRight, Failed
  <2> QED
    BY <2>1, <2>2
<1> QED
  BY <1>10 DEF a, q

\* A careless query is refused, whatever was careless in it.
LEMMA BadFrame ==
  ASSUME NEW layer, NEW version, NEW q, NEW io, parse_map_frame(version, q, layer.crs).kind = "exception"
  PROVE  get_map(layer, version, q, io).kind = "exception"
  BY DEF get_map, Exception

\* A request with one parameter spoilt is an exception. (wms.rs: parse_map_frame)
LEMMA SpoiltMap ==
  ASSUME WellMade(layers), NEW version \in {V11, V13}, NEW v, NEW i, MapOf(version, v, i), NEW io,
         NEW s \in Spoils, s # "none"
  PROVE  handle_layers(layers, Spoilt(MapQuery(version, v), s), io).kind = "exception"
<1> DEFINE q == MapQuery(version, v)
           p == Spoilt(q, s)
           w == Window(v)
           a == handle_layers(layers, p, io)
<1>1. /\ DOMAIN q = {"request", "version", "layers", "styles", "bbox", "width", "height", "format", CrsKey(version)}
      /\ q["request"] = "getmap" /\ q["version"] = Triple(version) /\ q["layers"] = <<v.layer>>
      /\ q["styles"] = <<"">> /\ q["format"] = "image/png" /\ q[CrsKey(version)] = v.crs
      /\ q["bbox"] = Written(version, v.crs, w) /\ q["width"] = 4 /\ q["height"] = 4
  BY QueryIs
<1>2. i \in DOMAIN layers /\ v.layer = layers[i].name
  BY DEF MapOf
<1>3. /\ v.layer # "" /\ v.layer \in LayerNames(layers) /\ "nobody" \notin LayerNames(layers)
  <2>1. "nobody" \notin LayerNames(layers)
    <3>1. \A j \in DOMAIN layers : layers[j].name # "nobody"
      BY DEF WellMade, NamesGiven, Decoys
    <3>2. \A l \in ToSet(layers) : l.name # "nobody"
      BY <3>1 DEF ToSet
    <3> QED
      BY <3>2 DEF LayerNames
  <2> QED
    BY <1>2, <2>1, PickedByName
<1>4. <<v.layer>>[1] = v.layer
  OBVIOUS
<1> HIDE DEF q, w, p, a
<1>5. CASE s = "request"
  <2>1. p = [q EXCEPT !.request = "getcoffee"]
    BY <1>5 DEF p, Spoilt
  <2>2. value(p, "request", "") = "getcoffee"
    BY <1>1, <2>1 DEF value, has
  <2>3. normalize_request("getcoffee") = "getcoffee"
    BY DEF normalize_request
  <2> QED
    BY <2>2, <2>3 DEF a, handle_layers, Exception, p, q
<1>6. CASE s = "version"
  <2>1. p = [k \in DOMAIN q \ {"version"} |-> q[k]]
    BY <1>6 DEF p, Spoilt
  <2>2. ~VersionGiven(p) /\ value(p, "request", "") = "getmap"
    BY <1>1, <2>1 DEF VersionGiven, value, has, CrsKey
  <2>3. normalize_request("getmap") = "getmap"
    BY DEF normalize_request
  <2>4. a = handle_get_map(layers, negotiate_version(requested_version(p)), p, io)
    BY <2>2, <2>3 DEF a, handle_layers
  <2> QED
    <3>1. handle_get_map(layers, negotiate_version(requested_version(p)), p, io).kind = "exception"
      BY <2>2 DEF handle_get_map, Exception
    <3> QED
      BY <2>4, <3>1 DEF a, p, q
<1>7. CASE s = "layer"
  <2>1. p = [q EXCEPT !.layers = <<q.layers[1], "nobody">>]
    BY <1>7 DEF p, Spoilt
  <2>2. /\ "version" \in DOMAIN p /\ p["version"] = Triple(version) /\ "request" \in DOMAIN p /\ p["request"] = "getmap"
        /\ "layers" \in DOMAIN p /\ p["layers"] = <<v.layer, "nobody">>
    BY <1>1, <1>4, <2>1
  <2>3. a = handle_get_map(layers, version, p, io)
    BY <2>2, HandledAsMap DEF a
  <2>4. "nobody" \in ToSet(<<v.layer, "nobody">>)
    <3>1. 2 \in DOMAIN <<v.layer, "nobody">> /\ <<v.layer, "nobody">>[2] = "nobody"
      OBVIOUS
    <3> QED
      BY <3>1, Zenon DEF ToSet
  <2>5. AnyUndefined(layers, p["layers"])
    BY <1>3, <2>2, <2>4 DEF AnyUndefined
  <2>6. <<v.layer, "nobody">>[1] = v.layer
    OBVIOUS
  <2>7. VersionGiven(p) /\ has(p, "layers") /\ p["layers"][1] = layers[i].name
    <3>1. p["layers"][1] = layers[i].name
      BY <1>2, <2>2, <2>6, Zenon
    <3> QED
      BY <2>2, <3>1 DEF VersionGiven, has
  <2>8. a = Exception(version, "LayerNotDefined")
    BY <1>2, <2>3, <2>5, <2>7, MapOfNamed
  <2> QED
    BY <2>8 DEF Exception, a, p, q
<1>8. CASE s \notin {"request", "version", "layer"}
  <2>1. /\ p = IF s = "crs" THEN [k \in DOMAIN q \ {"crs", "srs"} |-> q[k]]
               ELSE IF s = "width" THEN [q EXCEPT !.width = MaxDim + 1]
               ELSE IF s = "box" THEN [q EXCEPT !.bbox = <<q.bbox[3], q.bbox[2], q.bbox[1], q.bbox[4]>>]
               ELSE IF s = "number" THEN [q EXCEPT !.bbox = <<q.bbox[1], NotANumber, q.bbox[3], Infinite>>]
               ELSE IF s = "style" THEN [q EXCEPT !.styles = <<"pretty">>]
               ELSE [q EXCEPT !.format = "image/gif"]
        /\ s \in {"crs", "width", "box", "number", "style", "format"}
    BY <1>8 DEF p, Spoilt, Spoils
  <2>2. /\ "version" \in DOMAIN p /\ p["version"] = Triple(version) /\ "request" \in DOMAIN p /\ p["request"] = "getmap"
        /\ "layers" \in DOMAIN p /\ p["layers"] = <<v.layer>>
    <3>1. CrsKey(version) \in {"crs", "srs"}
      BY DEF CrsKey
    <3> QED
      BY <1>1, <2>1, <3>1
  <2>3. a = handle_get_map(layers, version, p, io)
    BY <2>2, HandledAsMap DEF a
  <2>4. p["layers"][1] = layers[i].name
    BY <1>2, <1>4, <2>2, Zenon
  <2>5. PICK j \in DOMAIN layers :
            a = IF AnyUndefined(layers, p["layers"]) THEN Exception(version, "LayerNotDefined")
                ELSE get_map(layers[j], version, p, io)
    BY <1>2, <2>2, <2>3, <2>4, MapOfNamed DEF VersionGiven, has
  <2> SUFFICES get_map(layers[j], version, p, io).kind = "exception"
    BY <2>5 DEF a, p, q, Exception
  <2>6. CASE s = "format"
    <3>1. p = [q EXCEPT !.format = "image/gif"]
      BY <2>1, <2>6
    <3>2. ~validate_getmap_format(p)
      BY <1>1, <3>1 DEF validate_getmap_format, value, has
    <3> QED
      BY <3>2 DEF get_map, Exception
  <2>7. CASE s = "style"
    <3>1. p = [q EXCEPT !.styles = <<"pretty">>]
      BY <2>1, <2>7
    <3>2. list(p, "styles") = <<"pretty">>
      BY <1>1, <3>1 DEF list, has
    <3>3. ~validate_styles(p)
      BY <3>2, OnlyOne DEF validate_styles
    <3> QED
      BY <3>3 DEF get_map, Exception
  <2>8. CASE s = "crs"
    <3>1. p = [k \in DOMAIN q \ {"crs", "srs"} |-> q[k]]
      BY <2>1, <2>8
    <3>2. ~has(p, "crs") /\ ~has(p, "srs")
      BY <3>1 DEF has
    <3>3. parse_map_frame(version, p, layers[j].crs).kind = "exception"
      BY <3>2 DEF parse_map_frame, Exception
    <3> QED
      BY <3>3, BadFrame
  <2>9. CASE s = "width"
    <3>1. p = [q EXCEPT !.width = MaxDim + 1]
      BY <2>1, <2>9
    <3>2. p["width"] = MaxDim + 1
      BY <1>1, <3>1
    <3>3. ~({p["width"], p["height"]} \subseteq 1..MaxDim)
      BY <3>2 DEF MaxDim
    <3>4. parse_map_frame(version, p, layers[j].crs).kind = "exception"
      BY <3>3 DEF parse_map_frame, Exception
    <3> QED
      BY <3>4, BadFrame
  <2>10. CASE s = "number"
    <3>1. p = [q EXCEPT !.bbox = <<q.bbox[1], NotANumber, q.bbox[3], Infinite>>]
      BY <2>1, <2>10
    <3> DEFINE b == <<q.bbox[1], NotANumber, q.bbox[3], Infinite>>
    <3>2. p["bbox"] = b
      BY <1>1, <3>1
    <3>3. 2 \in DOMAIN b /\ b[2] = NotANumber
      OBVIOUS
    <3> HIDE DEF b
    <3>4. NotANumber \in ToSet(b)
      BY <3>3, Zenon DEF ToSet
    <3>5. Meet(ToSet(p["bbox"]), {NotANumber, Infinite})
      BY <3>2, <3>4 DEF Meet
    <3>6. parse_map_frame(version, p, layers[j].crs).kind = "exception"
      BY <3>5 DEF parse_map_frame, Exception
    <3> QED
      BY <3>6, BadFrame
  <2>11. CASE s = "box"
    <3>1. p = [q EXCEPT !.bbox = <<q.bbox[3], q.bbox[2], q.bbox[1], q.bbox[4]>>]
      BY <2>1, <2>11
    <3>2. PICK x, y \in Int : w = <<x - 4, y - 4, x + 4, y + 4>>
      BY WindowIs DEF w
    <3> DEFINE northing == version = V13 /\ v.crs \in NorthingFirstCrs
               b == p["bbox"]
               crs == value(p, "crs", value(p, "srs", ""))
               box == IF NorthingFirst(version, crs) THEN Swapped(b) ELSE b
    <3>3. crs = v.crs
      BY <1>1, <3>1 DEF value, has, CrsKey
    <3>4. b = <<q.bbox[3], q.bbox[2], q.bbox[1], q.bbox[4]>>
      BY <1>1, <3>1
    <3>5. q.bbox = (IF northing THEN <<y - 4, x - 4, y + 4, x + 4>> ELSE <<x - 4, y - 4, x + 4, y + 4>>)
      BY <1>1, <3>2 DEF Written, Swapped
    <3>6. b = (IF northing THEN <<y + 4, x - 4, y - 4, x + 4>> ELSE <<x + 4, y - 4, x - 4, y + 4>>)
      BY <3>4, <3>5
    <3>7. NorthingFirst(version, crs) <=> northing
      BY <3>3, NorthingAgrees
    <3> HIDE DEF b, northing, crs
    <3>8. box = (IF northing THEN <<x - 4, y + 4, x + 4, y - 4>> ELSE <<x + 4, y - 4, x - 4, y + 4>>)
      BY <3>6, <3>7 DEF Swapped
    <3> HIDE DEF box
    <3>9. ~(box[1] < box[3] /\ box[2] < box[4])
      BY <3>8
    <3>10. parse_map_frame(version, p, layers[j].crs).kind = "exception"
      BY <3>9 DEF parse_map_frame, Exception, box, b, crs
    <3> QED
      BY <3>10, BadFrame
  <2> QED
    BY <2>1, <2>6, <2>7, <2>8, <2>9, <2>10, <2>11
<1> QED
  BY <1>5, <1>6, <1>7, <1>8

\* The map that is being looked at.
MapSound ==
  asked.what = "map" => "io" \in DOMAIN asked /\ MapRight(asked.view, asked.spoil, asked.io, asked.answer)

\* Every map request answers rightly, from the cache or not, and keeps the cache sound.
LEMMA MapsAsked ==
  ASSUME WellMade(layers), CacheSound, AskMap
  PROVE  asked'.what = "map" /\ MapSound' /\ CacheSound'
<1>1. layers' = layers
  BY DEF AskMap
<1>2. PICK version \in {V11, V13}, s \in Spoils, io \in {"ok", "fails"} : \E v \in MapViews(version) :
          LET q == Spoilt(MapQuery(version, v), s) IN
          /\ asked' = [what |-> "map", spoil |-> s, view |-> v, io |-> io, answer |-> wms_handler(q, io)]
          /\ Remember(<<"wms", q>>, asked'.answer)
  BY DEF AskMap
<1>3. PICK v \in MapViews(version) :
          LET q == Spoilt(MapQuery(version, v), s) IN
          /\ asked' = [what |-> "map", spoil |-> s, view |-> v, io |-> io, answer |-> wms_handler(q, io)]
          /\ Remember(<<"wms", q>>, asked'.answer)
  BY <1>2
<1>4. PICK i : MapOf(version, v, i)
  BY MapViewsAreLayers
<1> DEFINE q == Spoilt(MapQuery(version, v), s)
           a == wms_handler(q, io)
           key == <<"wms", q>>
           Answer(fate) == handle_layers(layers, q, fate)
<1>5. /\ asked'.what = "map" /\ asked'.spoil = s /\ asked'.view = v /\ asked'.io = io /\ asked'.answer = a
      /\ "io" \in DOMAIN asked' /\ Remember(key, a)
  BY <1>3
<1>6. \A fate : MapRight(v, s, fate, Answer(fate)) /\ (s # "none" => Answer(fate).kind = "exception")
  <2>1. CASE s = "none"
    <3>1. q = MapQuery(version, v)
      BY <2>1 DEF Spoilt
    <3>2. \A fate : MapRight(v, "none", fate, handle_layers(layers, MapQuery(version, v), fate))
      BY <1>4, PlainMap
    <3> HIDE DEF q
    <3> QED
      BY <2>1, <3>1, <3>2
  <2>2. CASE s # "none"
    <3>1. \A fate : Answer(fate).kind = "exception"
      BY <1>4, <2>2, SpoiltMap
    <3> HIDE DEF Answer
    <3> QED
      BY <2>2, <3>1 DEF MapRight, Failed
  <2> QED
    BY <2>1, <2>2
<1> HIDE DEF q
<1>7. a = Answer(io) \/ (~Failed(a) /\ \E fate : a = Answer(fate))
  <2>1. CASE q.request = "getmap"
    BY <2>1, WmsFromCache DEF wms_handler
  <2>2. CASE q.request # "getmap"
    BY <2>2 DEF wms_handler
  <2> QED
    BY <2>1, <2>2
<1>8. Held(key) = {} => a = Answer(io)
  BY DEF wms_handler, cached_or_render_png
<1> HIDE DEF a
<1>9. MapRight(v, s, io, a)
  <2> HIDE DEF Answer
  <2> QED
    BY <1>6, <1>7 DEF MapRight
<1>10. Held(key) = {} => EntrySound([key |-> key, bytes |-> a]) \/ a.kind \notin {"tile", "map"}
  <2> SUFFICES ASSUME Held(key) = {}, a.kind \in {"tile", "map"}
               PROVE  EntrySound([key |-> key, bytes |-> a])
    OBVIOUS
  <2>1. a = handle_layers(layers, q, io)
    BY <1>8
  <2>2. WmsEntry([key |-> key, bytes |-> a])
    BY <2>1 DEF WmsEntry
  <2> QED
    BY <2>2 DEF EntrySound
<1> HIDE DEF key
<1>11. CacheSound'
  BY <1>1, <1>5, <1>10, Remembering
<1>12. MapSound'
  BY <1>1, <1>5, <1>9 DEF MapSound, MapRight, Shows, Window, Failed, NamedTwice
<1> QED
  BY <1>5, <1>11, <1>12

(***************************************************************************)
(* 7. Clicks and documents.                                                *)
(***************************************************************************)

\* The document of a grid, where it is that very grid's, gives its origin, whoever reads it.
LEMMA DocumentAgrees ==
  ASSUME WellMade(layers), NEW v, NEW i, NEW k, ViewOf(v, i, k),
         tile_matrix_set_doc(layers, v.set.id).id = v.set.id
  PROVE  /\ tile_matrix_set_doc(layers, v.set.id).matrices[v.z + 1].corner = GridOf(i, k).origin
         /\ from_ogc_json(tile_matrix_set_doc(layers, v.set.id)).origin = GridOf(i, k).origin
<1> DEFINE id == v.set.id
           P == {j \in DOMAIN layers : GridsFor(layers[j], id) # <<>>}
           owner == FirstOf(layers, P)
           doc == tile_matrix_set_doc(layers, id)
           g == GridOf(i, k)
<1>1. i \in DOMAIN layers /\ k \in DOMAIN layers[i].grids /\ id = g.id /\ v.z + 1 \in DOMAIN g.levels
  BY DEF ViewOf, GridOf
<1>2. GridOk(g) /\ i \in P
  BY <1>1, BehindView
<1>3. P \in SUBSET Nat /\ \A j \in P : j \in DOMAIN layers /\ GridsFor(layers[j], id) # <<>>
  BY DEF WellMade
<1> HIDE DEF P, id
<1>4. PICK m \in P : owner = <<layers[m]>>
  BY <1>2, <1>3, FirstOfIsFirst
<1>5. m \in DOMAIN layers /\ GridsFor(layers[m], id) # <<>> /\ LayerOk(layers[m])
  BY <1>3 DEF WellMade
<1>6. PICK n \in DOMAIN layers[m].grids : GridsFor(layers[m], id) = <<layers[m].grids[n]>>
  BY <1>5, GridsForIs
<1> DEFINE h == layers[m].grids[n].tms
<1>7. GridOk(h)
  BY <1>5, <1>6 DEF LayerOk
<1>8. h # NoGrid
  <2> HIDE DEF h
  <2>1. "crs" \in DOMAIN h
    BY <1>7 DEF GridOk
  <2>2. "crs" \notin DOMAIN NoGrid
    BY DEF NoGrid
  <2> QED
    BY <2>1, <2>2
<1>9. owner # <<>> /\ owner[1] = layers[m] /\ GridsFor(owner[1], id)[1].tms = h
  <2>1. owner # <<>> /\ owner[1] = layers[m]
    <3> HIDE DEF owner, h
    <3> QED
      BY <1>4
  <2> HIDE DEF owner
  <2>2. GridsFor(owner[1], id)[1] = layers[m].grids[n]
    BY <1>6, <2>1
  <2> QED
    BY <2>1, <2>2
<1>10. doc = to_ogc_value(h)
  <2> DEFINE f == IF owner # <<>> THEN GridsFor(owner[1], id)[1].tms ELSE preset(id, 256)
  <2>1. doc = IF f = NoGrid THEN Fails(404, NoCode) ELSE to_ogc_value(f)
    BY Zenon DEF tile_matrix_set_doc, P
  <2> HIDE DEF h, owner, doc
  <2>2. f = h
    BY <1>9
  <2> HIDE DEF f
  <2> QED
    BY <1>8, <2>1, <2>2
<1>11. h.id = g.id
  <2> HIDE DEF h
  <2>1. doc.id = h.id
    BY <1>10 DEF to_ogc_value
  <2> QED
    BY <1>1, <2>1 DEF id
<1>12. h = g
  BY <1>1, <1>5, <1>6, <1>11 DEF WellMade, OneGridPerId, GridOf
<1> HIDE DEF h, g, doc
<1>13. doc = to_ogc_value(g)
  BY <1>10, <1>12
<1>14. PICK top \in Positive : DOMAIN g.levels = 1..top
  BY <1>2 DEF GridOk
<1>15. /\ DOMAIN doc.matrices = DOMAIN g.levels /\ doc.axes = <<"x", "y">>
       /\ \A j \in DOMAIN g.levels : doc.matrices[j].corner = g.origin /\ doc.matrices[j].cell = g.levels[j].resolution
  BY <1>13 DEF to_ogc_value
<1>16. from_ogc_json(doc).origin = g.origin
  <2>1. doc.matrices # <<>> /\ 1 \in DOMAIN doc.matrices
    BY <1>14, <1>15 DEF Positive
  <2>2. \A j \in DOMAIN g.levels : doc.matrices[j].cell # 0
    BY <1>2, <1>15 DEF GridOk, Positive
  <2>3. ~ \E mat \in ToSet(doc.matrices) : mat.cell = 0
    BY <1>15, <2>2 DEF ToSet
  <2>4. ~origin_is_northing_first(doc.axes, normalize_crs(doc.crs))
    BY <1>15 DEF origin_is_northing_first
  <2>5. doc.matrices[1].corner = g.origin
    BY <1>15, <2>1
  <2> QED
    BY <2>1, <2>3, <2>4, <2>5 DEF from_ogc_json
<1>17. doc.matrices[v.z + 1].corner = g.origin
  BY <1>1, <1>15
<1> QED
  BY <1>16, <1>17 DEF doc, g, id

\* What a layer of the documents answers to. (wms.rs: handle_legend; tms_http.rs; mvt_http.rs)
LEMMA InfoFormatsAre ==
  ASSUME WellMade(layers), NEW i \in DOMAIN layers, layers[i].grids # <<>>, ~NamedTwice(layers[i].name)
  PROVE  InfoFormats(layers[i].name) # {} <=> layers[i].kind = "cog"
<1> DEFINE Entry(l) == [name |-> l.name, info |-> IF l.kind = "vector" THEN {} ELSE RasterFormats,
                        links |-> [k \in DOMAIN l.grids |-> tile_matrix_set_link(l.grids[k])]]
           doc == wmts_capabilities(layers).layers
           chosen == CHOOSE e \in doc : e.name = layers[i].name
<1>1. doc = {Entry(l) : l \in {m \in ToSet(layers) : m.grids # <<>>}}
  BY DEF wmts_capabilities
<1>2. \A l : Entry(l).name = l.name /\ Entry(l).info = IF l.kind = "vector" THEN {} ELSE RasterFormats
  OBVIOUS
<1> HIDE DEF Entry
<1>3. Entry(layers[i]) \in doc
  BY <1>1 DEF ToSet
<1>4. chosen \in doc /\ chosen.name = layers[i].name
  BY <1>2, <1>3
<1>5. PICK j \in DOMAIN layers : chosen = Entry(layers[j])
  BY <1>1, <1>4 DEF ToSet
<1>6. j = i
  BY <1>2, <1>4, <1>5 DEF NamedTwice
<1>7. chosen.info = IF layers[i].kind = "vector" THEN {} ELSE RasterFormats
  BY <1>2, <1>5, <1>6
<1>8. InfoFormats(layers[i].name) = chosen.info
  BY DEF InfoFormats
<1>9. layers[i].kind \in {"cog", "vector"} /\ RasterFormats # {}
  BY PickedByName DEF RasterFormats
<1> HIDE DEF chosen
<1> QED
  BY <1>7, <1>8, <1>9

\* A pixel of a tile is told where the documents offer it, and nowhere else. (wmts.rs: get_feature_info)
LEMMA InfoAnswered ==
  ASSUME WellMade(layers), NEW v \in TileViews, ~Shadowed(v), NEW format, NEW io
  PROVE  LET a == wmts_get_feature_info(layers, With(Addressed(v, "default"),
                                 [i |-> v.set.tile_w - 1, j |-> 0, format |-> format]), io)
             offered == InAdvertisedMatrix(v) /\ InfoFormats(v.layer) # {}
         IN  /\ ~Failed(a) => offered
             /\ offered /\ io = "ok" => ~Failed(a)
<1> DEFINE more == [i |-> v.set.tile_w - 1, j |-> 0, format |-> format]
           t == With(Addressed(v, "default"), more)
           a == wmts_get_feature_info(layers, t, io)
           offered == InAdvertisedMatrix(v) /\ InfoFormats(v.layer) # {}
<1>1. PICK n, k : ViewOf(v, n, k)
  BY ViewsAreGrids
<1> DEFINE g == GridOf(n, k)
           l == layers[n]
           grid == GridsFor(l, v.set.id)
<1>2. /\ LayerNamed(layers, v.layer) = <<l>> /\ LayerOk(l) /\ GridOk(g) /\ grid # <<>> /\ grid[1].tms = g
  BY <1>1, BehindView
<1>3. InMatrix(g, v.z, v.col, v.row) <=> InAdvertisedMatrix(v)
  BY <1>1, MatrixAdvertised
<1>4. n \in DOMAIN layers /\ v.layer = l.name /\ l.grids # <<>> /\ v.set.tile_w = g.tile_w
  BY <1>1 DEF ViewOf, GridOf
<1>5. InfoFormats(v.layer) # {} <=> l.kind = "cog"
  BY <1>4, InfoFormatsAre DEF Shadowed
<1>6. /\ t.layer = v.layer /\ t.style = "default" /\ t.tms = v.set.id /\ t.z = v.z /\ t.row = v.row /\ t.col = v.col
      /\ t.i = v.set.tile_w - 1 /\ t.j = 0 /\ t.format = format
  BY DEF With, Addressed
<1> HIDE DEF t, g, l, grid
<1>7. g.tile_w \in Positive /\ g.tile_h \in Positive
  BY <1>2 DEF GridOk
<1>8. ~(t.i >= g.tile_w \/ t.j >= g.tile_h)
  BY <1>4, <1>6, <1>7 DEF Positive
<1>9. a = IF ~InMatrix(g, v.z, v.col, v.row) THEN Fails(404, NoCode)
          ELSE IF l.kind # "cog" THEN Fails(400, NoCode)
          ELSE IF io = "fails" THEN Fails(500, NoCode) ELSE format_feature_info(format, "value")
  <2> DEFINE found == LayerNamed(layers, t.layer)
             set == IF found = <<>> THEN <<>> ELSE GridsFor(found[1], t.tms)
  <2>1. found # <<>> /\ found[1] = l
    BY <1>2, <1>6
  <2>2. set # <<>> /\ set[1].tms = g
    BY <1>2, <1>6, <2>1 DEF grid
  <2>3. a = IF found = <<>> \/ t.style # "default" \/ set = <<>> THEN Fails(404, NoCode)
            ELSE IF ~InMatrix(set[1].tms, t.z, t.col, t.row) THEN Fails(404, NoCode)
            ELSE IF t.i >= set[1].tms.tile_w \/ t.j >= set[1].tms.tile_h THEN Fails(400, NoCode)
            ELSE IF found[1].kind # "cog" THEN Fails(400, NoCode)
            ELSE IF io = "fails" THEN Fails(500, NoCode)
            ELSE format_feature_info(t.format, "value")
    BY Zenon DEF wmts_get_feature_info
  <2> HIDE DEF found, set, a
  <2> QED
    BY <1>6, <1>8, <2>1, <2>2, <2>3
<1>10. /\ \A http, code : Failed(Fails(http, code))
       /\ ~Failed(format_feature_info(format, "value"))
  BY DEF Fails, Failed, format_feature_info
<1> HIDE DEF a
<1>11. (~Failed(a) => offered) /\ (offered /\ io = "ok" => ~Failed(a))
  BY <1>3, <1>5, <1>9, <1>10
<1> QED
  BY <1>11 DEF a, t

\* A layer of the TMS root and one of its grids.
Lists(t, i) ==
  /\ i \in DOMAIN layers /\ t.layer = layers[i].name
  /\ \E k \in DOMAIN layers[i].grids : t.grid = GridOf(i, k).id

\* The TMS root lists the grids of the layers. (tms_http.rs: tilemapservice_xml)
LEMMA RootLists ==
  ASSUME NEW t \in tilemapservice(layers)
  PROVE  \E i : Lists(t, i)
<1> DEFINE Row(l, pg) == [layer |-> l.name, grid |-> pg.tms.id, crs |-> pg.tms.crs, profile |-> tms_profile(pg.tms)]
<1>1. PICK l \in ToSet(layers) : t \in {Row(l, pg) : pg \in ToSet(l.grids)}
  BY DEF tilemapservice
<1>2. PICK pg \in ToSet(l.grids) : t = Row(l, pg)
  BY <1>1
<1>3. PICK i \in DOMAIN layers : l = layers[i]
  BY DEF ToSet
<1>4. PICK k \in DOMAIN l.grids : pg = l.grids[k]
  BY DEF ToSet
<1>5. t.layer = l.name /\ t.grid = pg.tms.id
  BY <1>2
<1>6. Lists(t, i)
  BY <1>3, <1>4, <1>5 DEF Lists, GridOf
<1> QED
  BY <1>6

\* An id that is listed finds a grid, in its layer and on the route of the documents.
LEMMA ListedIsFound ==
  ASSUME WellMade(layers), NEW t, NEW i, Lists(t, i), ~NamedTwice(t.layer)
  PROVE  /\ LayerNamed(layers, t.layer) = <<layers[i]>> /\ LayerOf(t.layer) = layers[i] /\ t.grid # NoId
         /\ GridsFor(layers[i], t.grid) # <<>> /\ GridsFor(layers[i], t.grid)[1].tms # NoGrid
         /\ tile_matrix_set_doc(layers, t.grid).kind = "grid"
<1>1. LayerNamed(layers, t.layer) = <<layers[i]>> /\ LayerOf(t.layer) = layers[i]
  BY OwnName DEF Lists, LayerOf
<1>2. \A j \in DOMAIN layers : LayerOk(layers[j])
  BY DEF WellMade
<1>3. \A j \in DOMAIN layers : GridsFor(layers[j], t.grid) # <<>> => GridsFor(layers[j], t.grid)[1].tms # NoGrid
  <2> SUFFICES ASSUME NEW j \in DOMAIN layers, GridsFor(layers[j], t.grid) # <<>>
               PROVE  GridsFor(layers[j], t.grid)[1].tms # NoGrid
    OBVIOUS
  <2>1. PICK k \in DOMAIN layers[j].grids : GridsFor(layers[j], t.grid) = <<layers[j].grids[k]>>
    BY <1>2, GridsForIs
  <2>2. "crs" \in DOMAIN layers[j].grids[k].tms
    BY <1>2 DEF LayerOk, GridOk
  <2>3. "crs" \notin DOMAIN NoGrid
    BY DEF NoGrid
  <2>4. GridsFor(layers[j], t.grid)[1] = layers[j].grids[k]
    BY <2>1
  <2> QED
    BY <2>2, <2>3, <2>4
<1>4. PICK k \in DOMAIN layers[i].grids : t.grid = GridOf(i, k).id
  BY DEF Lists
<1>5. i \in DOMAIN layers /\ GridOk(GridOf(i, k))
  BY <1>2 DEF Lists, LayerOk, GridOf
<1>6. t.grid # NoId
  BY <1>4, <1>5 DEF GridOk, GridId, NoId
<1>7. GridsFor(layers[i], t.grid) # <<>>
  <2>1. Answers(layers[i].grids[k].tms, t.grid)
    BY <1>4 DEF Answers, GridOf
  <2> QED
    BY <1>2, <1>5, <2>1, GridsForIs
<1>8. tile_matrix_set_doc(layers, t.grid).kind = "grid"
  <2> DEFINE P == {j \in DOMAIN layers : GridsFor(layers[j], t.grid) # <<>>}
             owner == FirstOf(layers, P)
  <2>1. P \in SUBSET Nat /\ i \in P
    BY <1>5, <1>7 DEF WellMade
  <2>2. PICK m \in P : owner = <<layers[m]>>
    BY <2>1, FirstOfIsFirst
  <2> DEFINE h == GridsFor(layers[m], t.grid)[1].tms
  <2>3. owner # <<>> /\ GridsFor(owner[1], t.grid)[1].tms = h /\ h # NoGrid
    BY <1>3, <2>2
  <2>4. tile_matrix_set_doc(layers, t.grid) = to_ogc_value(h)
    <3> DEFINE g == IF owner # <<>> THEN GridsFor(owner[1], t.grid)[1].tms ELSE preset(t.grid, 256)
    <3>1. tile_matrix_set_doc(layers, t.grid) = IF g = NoGrid THEN Fails(404, NoCode) ELSE to_ogc_value(g)
      BY Zenon DEF tile_matrix_set_doc
    <3>2. g = h
      BY <2>3
    <3> HIDE DEF g, h
    <3> QED
      BY <2>3, <3>1, <3>2
  <2> HIDE DEF P, owner, h
  <2>5. to_ogc_value(h).kind = "grid"
    BY DEF to_ogc_value
  <2> QED
    BY <2>4, <2>5
<1> QED
  BY <1>1, <1>3, <1>5, <1>6, <1>7, <1>8

\* TileJSON and style are of vector layers, the other documents of every layer.
\* (mvt_http.rs: tilejson_doc, style_json; tms_http.rs: tilemap_doc; wms.rs: handle_layers)
LEMMA DocumentsAnswered ==
  ASSUME WellMade(layers), NEW t, NEW i, Lists(t, i), ~NamedTwice(t.layer), NEW style
  PROVE  /\ ~Failed(tilejson_doc(layers, t.layer, t.grid)) <=> layers[i].kind = "vector"
         /\ ~Failed(style_json(layers, t.layer, t.grid, style)) <=> layers[i].kind = "vector"
         /\ ~Failed(tile_matrix_set_doc(layers, t.grid)) /\ ~Failed(tilemap_doc(layers, t.layer, t.grid))
         /\ ~Failed(handle_legend(layers, V13, [layer |-> <<t.layer>>]))
<1> DEFINE l == layers[i]
           grid == GridsFor(l, t.grid)
           found == LayerNamed(layers, t.layer)
<1>1. /\ found = <<l>> /\ t.grid # NoId /\ grid # <<>> /\ grid[1].tms # NoGrid
      /\ tile_matrix_set_doc(layers, t.grid).kind = "grid"
  BY ListedIsFound
<1>2. i \in DOMAIN layers /\ t.layer = l.name
  BY DEF Lists
<1>3. l.kind \in {"cog", "vector"} /\ (l.kind = "cog" => l.styled) /\ pick_layer(layers, t.layer) = l
  BY <1>2, PickedByName
<1>4. found # <<>> /\ found[1] = l
  BY <1>1
<1> HIDE DEF l, grid, found
<1>5. resolve_vector(layers, t.layer) = IF l.kind # "vector" THEN Fails(400, NoCode) ELSE l
  BY <1>4 DEF resolve_vector, found
<1>6. resolve_grid(l, t.grid) = grid[1].tms
  BY <1>1 DEF resolve_grid, grid
<1>7. Fails(400, NoCode).kind = "error"
  BY DEF Fails
<1>8. ~Failed(tilejson_doc(layers, t.layer, t.grid)) <=> l.kind = "vector"
  <2>1. CASE l.kind = "vector"
    <3>1. resolve_vector(layers, t.layer) = l
      BY <1>5, <2>1
    <3>2. tilejson_doc(layers, t.layer, t.grid).kind = "tilejson"
      BY <1>1, <1>6, <2>1, <3>1 DEF tilejson_doc
    <3> QED
      BY <2>1, <3>2 DEF Failed
  <2>2. CASE l.kind # "vector"
    <3>1. tilejson_doc(layers, t.layer, t.grid).kind = "error"
      BY <1>5, <1>7, <2>2 DEF tilejson_doc
    <3> QED
      BY <2>2, <3>1 DEF Failed
  <2> QED
    BY <2>1, <2>2
<1>9. ~Failed(style_json(layers, t.layer, t.grid, style)) <=> l.kind = "vector"
  <2>1. CASE l.kind = "vector"
    <3>1. resolve_vector(layers, t.layer) = l
      BY <1>5, <2>1
    <3>2. style_json(layers, t.layer, t.grid, style).kind = "style"
      BY <2>1, <3>1 DEF style_json
    <3> QED
      BY <2>1, <3>2 DEF Failed
  <2>2. CASE l.kind # "vector"
    <3>1. style_json(layers, t.layer, t.grid, style).kind = "error"
      BY <1>5, <1>7, <2>2 DEF style_json
    <3> QED
      BY <2>2, <3>1 DEF Failed
  <2> QED
    BY <2>1, <2>2
<1>10. ~Failed(tilemap_doc(layers, t.layer, t.grid))
  <2>1. pick_grid(l, t.grid) = grid
    BY <1>1 DEF pick_grid, grid
  <2>2. tilemap_doc(layers, t.layer, t.grid).kind = "tilemap"
    BY <1>1, <1>4, <2>1 DEF tilemap_doc, found
  <2> QED
    BY <2>2 DEF Failed
<1>11. ~Failed(handle_legend(layers, V13, [layer |-> <<t.layer>>]))
  <2> DEFINE q == [layer |-> <<t.layer>>]
  <2>1. list(q, "layer")[1] = t.layer
    BY DEF list, has
  <2> HIDE DEF q
  <2>2. handle_legend(layers, V13, q).kind = "legend"
    BY <1>3, <2>1 DEF handle_legend
  <2> QED
    BY <2>2 DEF Failed, q
<1>12. ~Failed(tile_matrix_set_doc(layers, t.grid))
  BY <1>1 DEF Failed
<1> QED
  BY <1>8, <1>9, <1>10, <1>11, <1>12 DEF l

\* A click of a client, as its query has it.
Clicking(version, v, names, px, format, q) ==
  /\ Framing(version, v, q) /\ "version" \in DOMAIN q /\ q["version"] = Triple(version)
  /\ "request" \in DOMAIN q /\ q["request"] = "getfeatureinfo"
  /\ "query_layers" \in DOMAIN q /\ q["query_layers"] = names
  /\ "info_format" \in DOMAIN q /\ q["info_format"] = format
  /\ ToSet(PixelOf(version)) \subseteq DOMAIN q
  /\ q[PixelOf(version)[1]] = px[1] /\ q[PixelOf(version)[2]] = px[2]

\* The two members of a pair.
LEMMA OnlyTwo ==
  ASSUME NEW x, NEW y
  PROVE  ToSet(<<x, y>>) = {x, y}
<1> DEFINE s == <<x, y>>
<1>1. DOMAIN s = 1..2 /\ s[1] = x /\ s[2] = y
  OBVIOUS
<1> HIDE DEF s
<1>2. ToSet(s) = {x, y}
  BY <1>1 DEF ToSet
<1> QED
  BY <1>2 DEF s

\* The parameters of a click.
LEMMA ClickIs ==
  ASSUME NEW version \in {V11, V13}, NEW v, NEW names, NEW px, NEW format
  PROVE  Clicking(version, v, names, px, format, ClickQuery(version, v, names, px, format))
<1> DEFINE a == MapQuery(version, v)
           b == [request |-> "getfeatureinfo", query_layers |-> names, info_format |-> format, feature_count |-> 5]
           K == PixelOf(version)
           c == [k \in ToSet(K) |-> IF k = K[1] THEN px[1] ELSE px[2]]
           q == ClickQuery(version, v, names, px, format)
<1>1. q = With(With(a, b), c)
  BY DEF ClickQuery
<1>2. /\ DOMAIN a = {"request", "version", "layers", "styles", "bbox", "width", "height", "format", CrsKey(version)}
      /\ a["version"] = Triple(version) /\ a[CrsKey(version)] = v.crs
      /\ a["bbox"] = Written(version, v.crs, Window(v)) /\ a["width"] = 4 /\ a["height"] = 4
  BY QueryIs
<1>3. /\ DOMAIN b = {"request", "query_layers", "info_format", "feature_count"}
      /\ b["request"] = "getfeatureinfo" /\ b["query_layers"] = names /\ b["info_format"] = format
  OBVIOUS
<1>4. /\ K[1] # K[2] /\ ToSet(K) = {K[1], K[2]} /\ {K[1], K[2]} \subseteq {"i", "j", "x", "y"}
  BY OnlyTwo DEF PixelOf
<1>5. DOMAIN c = {K[1], K[2]} /\ c[K[1]] = px[1] /\ c[K[2]] = px[2]
  BY <1>4
<1> HIDE DEF a, b, c, q, K
<1>6. /\ DOMAIN q = (DOMAIN a \cup DOMAIN b) \cup DOMAIN c
      /\ \A k \in DOMAIN q : q[k] = IF k \in DOMAIN c THEN c[k] ELSE IF k \in DOMAIN b THEN b[k] ELSE a[k]
  BY <1>1 DEF With
<1>7. /\ CrsKey(version) = "crs" \/ CrsKey(version) = "srs"
      /\ version = V13 <=> CrsKey(version) = "crs"
  BY DEF CrsKey, V11, V13
<1>8. /\ q["bbox"] = Written(version, v.crs, Window(v)) /\ q["width"] = 4 /\ q["height"] = 4
      /\ q["version"] = Triple(version) /\ q[CrsKey(version)] = v.crs
      /\ {"bbox", "width", "height", "version", CrsKey(version)} \subseteq DOMAIN q
  BY <1>2, <1>3, <1>4, <1>5, <1>6, <1>7
<1>9. /\ q["request"] = "getfeatureinfo" /\ q["query_layers"] = names /\ q["info_format"] = format
      /\ {"request", "query_layers", "info_format"} \subseteq DOMAIN q
  BY <1>3, <1>4, <1>5, <1>6
<1>10. q[K[1]] = px[1] /\ q[K[2]] = px[2] /\ ToSet(K) \subseteq DOMAIN q
  BY <1>4, <1>5, <1>6
<1>11. version # V13 => "crs" \notin DOMAIN q
  BY <1>2, <1>3, <1>4, <1>5, <1>6, <1>7
<1>12. Framing(version, v, q)
  BY <1>7, <1>8, <1>11 DEF Framing
<1> QED
  BY <1>8, <1>9, <1>10, <1>12 DEF Clicking, q, K

\* One layer answers a click where its capabilities list the CRS. (wms.rs: get_feature_info)
LayerAnswer(j, version, q, io) == InfoOf(layers[j], version, q, io)
LEMMA LayerClicked ==
  ASSUME WellMade(layers), NEW version \in {V11, V13}, NEW v, NEW i, MapOf(version, v, i), Placed(layers[i].crs),
         NEW names, NEW px, px[1] \in {0, 3, 4, 8}, px[2] \in {0, 4, 5}, NEW format \in RasterFormats,
         NEW q, Clicking(version, v, names, px, format, q), NEW io,
         NEW j \in DOMAIN layers, Placed(layers[j].crs),
         layers[j].kind = "cog" => px[1] % 2 # 1 /\ px[2] % 2 # 1
  PROVE  LET a == LayerAnswer(j, version, q, io)
             listed == px[1] < 8 /\ v.crs \in crs_lines(version, layers[j].crs)
         IN  /\ "kind" \in DOMAIN a /\ a.kind \in {"info", "exception"}
             /\ ~Failed(a) => listed
             /\ listed /\ io = "ok" => ~Failed(a)
<1> DEFINE l == layers[j]
           a == LayerAnswer(j, version, q, io)
           f == parse_map_frame(version, q, l.crs)
           fine == [kind |-> "frame", bbox |-> Window(v), width |-> 4, height |-> 4, crs |-> Unaliased(v.crs)]
           known == v.crs \in crs_lines(version, l.crs)
           K == PixelOf(version)
<1>1. l.kind \in {"cog", "vector"}
  BY PickedByName
<1>2. v.crs \in crs_lines(version, layers[i].crs) /\ v.crs \in DOMAIN Shift
  BY DEF MapOf
<1>3. known <=> is_supported_crs(v.crs) \/ v.crs = l.crs
  BY <1>2 DEF Placed, crs_lines, StandardCrs, is_supported_crs, V11, V13
<1>4. known => f = fine
  BY <1>3, FramedFor DEF Clicking
<1>5. ~known => f.kind = "exception" /\ "kind" \in DOMAIN f
  <2>1. value(q, "crs", value(q, "srs", "")) = v.crs /\ (has(q, "crs") \/ has(q, "srs"))
    BY DEF Clicking, Framing, value, has
  <2>2. ~known => f = Exception(version, IF version = V13 THEN "InvalidCRS" ELSE "InvalidSRS")
    BY <1>3, <2>1 DEF parse_map_frame
  <2> QED
    BY <2>2 DEF Exception
<1>6. /\ q[K[1]] = px[1] /\ q[K[2]] = px[2] /\ ToSet(K) \subseteq DOMAIN q
      /\ info_format(q) = format
  BY DEF Clicking, info_format, value, has
<1>7. CanTransform(l.crs, Unaliased(v.crs))
  BY <1>2, PlaneAssumption DEF Placed, CanTransform, Unaliased
<1>8. fine.kind = "frame" /\ fine.width = 4 /\ fine.height = 4 /\ fine.crs = Unaliased(v.crs)
  OBVIOUS
<1>9. format \in VectorFormats
  BY DEF VectorFormats
<1> HIDE DEF f, fine, known, K, l
<1>10. ASSUME NEW whole \in BOOLEAN, whole => l.kind = "cog"
       PROVE  InvalidPoint(version, q, fine, whole) <=> px[1] = 8
  BY <1>6, <1>8, <1>10 DEF InvalidPoint, K, l
<1>11. /\ \A code : Exception(version, code).kind = "exception" /\ "kind" \in DOMAIN Exception(version, code)
       /\ format_feature_info(format, "value").kind = "info" /\ "kind" \in DOMAIN format_feature_info(format, "value")
  BY DEF Exception, format_feature_info
<1>12. ASSUME NEW formats, format \in formats, NEW whole \in BOOLEAN, whole => l.kind = "cog"
       PROVE  LET c == ClickError(l, version, q, formats, whole) IN
              /\ known /\ px[1] < 8 => c = fine
              /\ ~(known /\ px[1] < 8) => c.kind = "exception" /\ "kind" \in DOMAIN c
  <2> DEFINE c == ClickError(l, version, q, formats, whole)
  <2>1. c = IF f.kind = "exception" THEN f
            ELSE IF InvalidPoint(version, q, f, whole) THEN Exception(version, "InvalidPoint")
            ELSE IF format \notin formats THEN Exception(version, "InvalidFormat")
            ELSE f
    BY <1>6 DEF ClickError, f
  <2>2. px[1] < 8 <=> px[1] # 8
    OBVIOUS
  <2>3. known => (InvalidPoint(version, q, f, whole) <=> px[1] = 8)
    BY <1>4, <1>10, <1>12
  <2> HIDE DEF c
  <2>4. CASE known
    BY <1>4, <1>8, <1>11, <1>12, <2>1, <2>2, <2>3, <2>4 DEF c
  <2>5. CASE ~known
    BY <1>5, <2>1, <2>5 DEF c
  <2> QED
    BY <2>4, <2>5
<1> DEFINE listed == px[1] < 8 /\ known
           good == "kind" \in DOMAIN a /\ a.kind \in {"info", "exception"}
                   /\ (~Failed(a) => listed) /\ (listed /\ io = "ok" => ~Failed(a))
<1>13. ASSUME l.kind = "cog" PROVE good
  <2> DEFINE c == ClickError(l, version, q, RasterFormats, TRUE)
  <2>1. /\ known /\ px[1] < 8 => c = fine
        /\ ~(known /\ px[1] < 8) => c.kind = "exception" /\ "kind" \in DOMAIN c
    BY <1>12, <1>13
  <2>2. a = IF c.kind = "exception" THEN c ELSE IF io = "fails" THEN Exception(version, NoCode)
            ELSE format_feature_info(format, "value")
    BY <1>6, <1>13 DEF LayerAnswer, InfoOf, get_feature_info, l
  <2> HIDE DEF a, c
  <2> QED
    BY <1>8, <1>11, <2>1, <2>2 DEF Failed
<1>14. ASSUME l.kind = "vector" PROVE good
  <2> DEFINE c == ClickError(l, version, q, VectorFormats, FALSE)
             hits == Shown(l, info_format(q),
                           collect_gfi_hits(l.features, c, Clicked(version, q), l.crs, value(q, "feature_count", 1)))
             info == [kind |-> "info", type |-> info_format(q), hits |-> hits]
  <2>1. /\ known /\ px[1] < 8 => c = fine
        /\ ~(known /\ px[1] < 8) => c.kind = "exception" /\ "kind" \in DOMAIN c
    BY <1>9, <1>12
  <2>2. a = IF c.kind = "exception" THEN c
            ELSE IF ~CanTransform(l.crs, c.crs) \/ io = "fails" THEN Exception(version, NoCode) ELSE info
    BY <1>14, Zenon DEF LayerAnswer, InfoOf, get_feature_info_vector, l
  <2>3. info.kind = "info" /\ "kind" \in DOMAIN info
    OBVIOUS
  <2> HIDE DEF a, c, info
  <2> QED
    BY <1>7, <1>8, <1>11, <2>1, <2>2, <2>3 DEF Failed
<1>15. good
  BY <1>1, <1>13, <1>14 DEF l
<1> QED
  BY <1>15 DEF a, known, l

\* The layers of a click, by name.
Naming(names, m) ==
  /\ m \in Positive /\ names \in Seq(ToSet(names)) /\ DOMAIN names = 1..m
  /\ \A n \in ToSet(names) : \E j \in DOMAIN layers : n = layers[j].name

\* A click is answered when every layer asked answers. (wms.rs: handle_layers)
LEMMA ClickJoins ==
  ASSUME WellMade(layers), NEW version \in {V11, V13}, NEW v, NEW names, NEW m, Naming(names, m),
         \A n \in ToSet(names) : ~NamedTwice(n), NEW px, NEW format, NEW q, Clicking(version, v, names, px, format, q), NEW io,
         NEW J, J = {j \in DOMAIN layers : layers[j].name \in ToSet(names)},
         \A j \in J : LET a == LayerAnswer(j, version, q, io) IN "kind" \in DOMAIN a /\ a.kind \in {"info", "exception"}
  PROVE  ~Failed(handle_layers(layers, q, io)) <=> \A j \in J : ~Failed(LayerAnswer(j, version, q, io))
<1> DEFINE At(k) == InfoOf(pick_layer(layers, names[k]), version, q, io)
           whole == handle_get_feature_info(layers, version, q, io)
<1>1. handle_layers(layers, q, io) = whole
  <2>1. negotiate_version(requested_version(q)) = version
    BY VersionIs DEF Clicking, requested_version, value, has
  <2>2. normalize_request(value(q, "request", "")) = "getfeatureinfo"
    BY DEF Clicking, normalize_request, value, has
  <2> QED
    BY <2>1, <2>2 DEF handle_layers
<1>2. \A k \in 1..m : \E j \in J : names[k] = layers[j].name /\ At(k) = LayerAnswer(j, version, q, io)
  <2> SUFFICES ASSUME NEW k \in 1..m
               PROVE  \E j \in J : names[k] = layers[j].name /\ At(k) = LayerAnswer(j, version, q, io)
    OBVIOUS
  <2>1. names[k] \in ToSet(names)
    BY DEF ToSet, Naming
  <2>2. PICK j \in DOMAIN layers : names[k] = layers[j].name
    BY <2>1 DEF Naming
  <2>3. pick_layer(layers, names[k]) = layers[j]
    BY <2>1, <2>2, PickedByName
  <2> QED
    BY <2>1, <2>2, <2>3 DEF LayerAnswer
<1>3. \A j \in J : \E k \in 1..m : names[k] = layers[j].name /\ At(k) = LayerAnswer(j, version, q, io)
  <2> SUFFICES ASSUME NEW j \in J
               PROVE  \E k \in 1..m : names[k] = layers[j].name /\ At(k) = LayerAnswer(j, version, q, io)
    OBVIOUS
  <2>1. PICK k \in 1..m : names[k] = layers[j].name
    BY DEF ToSet, Naming
  <2>2. pick_layer(layers, names[k]) = layers[j]
    <3>1. ~NamedTwice(layers[j].name)
      OBVIOUS
    <3> QED
      BY <2>1, <3>1, PickedByName
  <2> QED
    BY <2>1, <2>2 DEF LayerAnswer
<1> HIDE DEF At, whole
<1>4. \A k \in 1..m : "kind" \in DOMAIN At(k) /\ At(k).kind \in {"info", "exception"}
  BY <1>2
<1>5. (\A j \in J : ~Failed(LayerAnswer(j, version, q, io))) <=> \A k \in 1..m : ~Failed(At(k))
  BY <1>2, <1>3
<1>6. query_layer_tokens(q) = names /\ Named(names) = names /\ Len(names) = m
  <2>1. list(q, "query_layers") = names
    BY DEF Clicking, list, has
  <2>2. \A k \in 1..m : names[k] # ""
    <3> SUFFICES ASSUME NEW k \in 1..m
                 PROVE  names[k] # ""
      OBVIOUS
    <3>1. PICK j \in J : names[k] = layers[j].name
      BY <1>2
    <3> QED
      BY <3>1, PickedByName
  <2>3. Named(names) = names
    <3>1. DOMAIN names \subseteq {k \in DOMAIN names : names[k] # ""}
      BY <2>2 DEF Naming
    <3> QED
      BY <3>1, PickedIs DEF Named, Naming
  <2>4. Len(names) = m /\ names # <<>>
    BY DEF Naming, Positive
  <2> QED
    BY <2>1, <2>3, <2>4 DEF query_layer_tokens
<1>7. VersionGiven(q) /\ ~AnyUndefined(layers, names)
  <2>1. \A n \in ToSet(names) : n \in LayerNames(layers)
    BY PickedByName DEF Naming
  <2> QED
    BY <2>1 DEF Clicking, VersionGiven, has, AnyUndefined
<1> DEFINE answers == [k \in 1..m |-> At(k)]
           P == {k \in 1..m : answers[k].kind = "exception"}
           failed == FirstOf(answers, P)
           joined == [answers[1] EXCEPT !.hits = FlattenSeq([k \in DOMAIN answers |-> answers[k].hits])]
<1>8. whole = IF m < 2 THEN At(1) ELSE IF failed # <<>> THEN failed[1] ELSE joined
  <2> DEFINE tokens == query_layer_tokens(q)
             named == Named(tokens)
             all == [k \in DOMAIN named |-> InfoOf(pick_layer(layers, named[k]), version, q, io)]
             first == FirstOf(all, {k \in DOMAIN all : all[k].kind = "exception"})
  <2>1. whole = IF ~VersionGiven(q) THEN Exception(version, NoCode)
                ELSE IF layers # <<>> /\ AnyUndefined(layers, tokens) THEN Exception(version, "LayerNotDefined")
                ELSE IF Len(named) < 2 THEN InfoOf(pick_layer(layers, tokens[1]), version, q, io)
                ELSE IF first # <<>> THEN first[1]
                ELSE [all[1] EXCEPT !.hits = FlattenSeq([k \in DOMAIN all |-> all[k].hits])]
    BY Zenon DEF whole, handle_get_feature_info
  <2>2. tokens = names /\ named = names
    BY <1>6
  <2>3. all = answers
    BY <2>2 DEF At, Naming
  <2>4. DOMAIN answers = 1..m
    OBVIOUS
  <2>5. first = failed
    BY <2>3, <2>4
  <2>6. InfoOf(pick_layer(layers, tokens[1]), version, q, io) = At(1)
    BY <2>2 DEF At
  <2> HIDE DEF tokens, named, all, first, answers, failed
  <2> QED
    BY <1>6, <1>7, <2>1, <2>2, <2>3, <2>5, <2>6
<1>9. 1 \in 1..m /\ \A k \in 1..m : answers[k] = At(k)
  BY DEF Naming, Positive
<1> HIDE DEF answers
<1>10. CASE m < 2
  <2>1. 1..m = {1} /\ whole = At(1)
    BY <1>8, <1>9, <1>10 DEF Naming, Positive
  <2> QED
    BY <1>1, <1>5, <2>1
<1>11. CASE ~(m < 2) /\ P # {}
  <2>1. P \in SUBSET Nat
    OBVIOUS
  <2>2. PICK k \in P : failed = <<answers[k]>>
    BY <1>11, <2>1, FirstOfIsFirst
  <2>3. whole = At(k) /\ At(k).kind = "exception" /\ k \in 1..m
    BY <1>8, <1>9, <1>11, <2>2
  <2> QED
    BY <1>1, <1>5, <2>3 DEF Failed
<1>12. CASE ~(m < 2) /\ P = {}
  <2>1. failed = <<>>
    BY <1>12, FirstOfIsFirst
  <2>2. whole = joined
    BY <1>8, <1>12, <2>1
  <2>3. "kind" \in DOMAIN answers[1] /\ answers[1].kind = "info"
    BY <1>4, <1>9, <1>12
  <2>4. joined.kind = "info"
    BY <2>3
  <2>5. \A k \in 1..m : At(k).kind = "info"
    BY <1>4, <1>9, <1>12
  <2> QED
    BY <1>1, <1>5, <2>2, <2>4, <2>5 DEF Failed
<1> QED
  BY <1>10, <1>11, <1>12

\* A client clicks on the layer of its map or on all layers.
LEMMA ClickNames ==
  ASSUME WellMade(layers), NEW i \in DOMAIN layers,
         NEW names \in {<<layers[i].name>>, [k \in DOMAIN layers |-> layers[k].name]}
  PROVE  layers[i].name \in ToSet(names) /\ \E m : Naming(names, m)
<1>1. CASE names = <<layers[i].name>>
  <2> DEFINE x == layers[i].name
             s == <<x>>
  <2>1. ToSet(s) = {x}
    BY OnlyOne
  <2>2. DOMAIN s = 1..1 /\ s \in Seq({x})
    OBVIOUS
  <2> HIDE DEF s
  <2>3. \A n \in ToSet(s) : \E j \in DOMAIN layers : n = layers[j].name
    BY <2>1
  <2>4. Naming(s, 1)
    BY <2>1, <2>2, <2>3 DEF Naming, Positive
  <2> QED
    BY <1>1, <2>1, <2>4 DEF s
<1>2. CASE names = [k \in DOMAIN layers |-> layers[k].name]
  <2>1. PICK n \in Nat : DOMAIN layers = 1..n
    BY DEF WellMade
  <2>2. n \in Positive
    BY <2>1 DEF Positive
  <2>3. DOMAIN names = 1..n /\ \A k \in 1..n : names[k] = layers[k].name
    BY <1>2, <2>1
  <2>4. names \in [1..n -> ToSet(names)]
    BY <1>2, <2>1 DEF ToSet
  <2>5. names \in Seq(ToSet(names))
    BY <2>1, <2>4
  <2>6. /\ \A x \in ToSet(names) : \E j \in DOMAIN layers : x = layers[j].name
        /\ layers[i].name \in ToSet(names)
    BY <2>1, <2>3 DEF ToSet
  <2> QED
    BY <2>2, <2>3, <2>5, <2>6 DEF Naming
<1> QED
  BY <1>1, <1>2

\* Which clicks the capabilities offer: by the name, the CRS and the pixel.
ClickListed(version, v, names, px) ==
  /\ px[1] < 8
  /\ \A n \in ToSet(names) :
        \E l \in ToSet(capabilities_multi(layers, version).layers) : l.name = n /\ v.crs \in l.crs

\* The CRSs listed under a name are those of its layer. (wms.rs: capabilities_multi)
LEMMA ClickRows ==
  ASSUME WellMade(layers), NEW version, NEW v, NEW names, NEW m, Naming(names, m),
         \A n \in ToSet(names) : ~NamedTwice(n), NEW px, NEW J, J = {j \in DOMAIN layers : layers[j].name \in ToSet(names)}
  PROVE  ClickListed(version, v, names, px)
             <=> px[1] < 8 /\ \A j \in J : v.crs \in crs_lines(version, layers[j].crs)
<1> DEFINE doc == capabilities_multi(layers, version).layers
<1>1. DOMAIN doc = DOMAIN layers
  BY DEF capabilities_multi
<1>2. \A j \in DOMAIN layers : doc[j].name = layers[j].name /\ doc[j].crs = crs_lines(version, layers[j].crs)
  BY DEF capabilities_multi
<1>3. ClickListed(version, v, names, px)
        <=> px[1] < 8 /\ \A n \in ToSet(names) : \E l \in ToSet(doc) : l.name = n /\ v.crs \in l.crs
  BY DEF ClickListed
<1> HIDE DEF doc
<1>4. ASSUME NEW n \in ToSet(names)
      PROVE  (\E l \in ToSet(doc) : l.name = n /\ v.crs \in l.crs)
                 <=> \E j \in J : layers[j].name = n /\ v.crs \in crs_lines(version, layers[j].crs)
  BY <1>1, <1>2, <1>4 DEF ToSet
<1>5. \A i, j \in J : layers[i].name = layers[j].name => i = j
  BY DEF NamedTwice
<1>6. \A n \in ToSet(names) : \E j \in J : layers[j].name = n
  BY DEF Naming
<1>7. (\A n \in ToSet(names) : \E j \in J : layers[j].name = n /\ v.crs \in crs_lines(version, layers[j].crs))
        <=> \A j \in J : v.crs \in crs_lines(version, layers[j].crs)
  BY <1>5, <1>6
<1> QED
  BY <1>3, <1>4, <1>7

\* A click is answered where the capabilities list it for every layer asked. (wms.rs: handle_layers)
LEMMA ClickAnswered ==
  ASSUME WellMade(layers), NEW version \in {V11, V13}, NEW v, NEW i, MapOf(version, v, i),
         NEW names, NEW m, Naming(names, m), v.layer \in ToSet(names), \A n \in ToSet(names) : ~NamedTwice(n),
         \A j \in DOMAIN layers : layers[j].name \in ToSet(names) => Placed(layers[j].crs),
         NEW px, px[1] \in {0, 3, 4, 8}, px[2] \in {0, 4, 5}, NEW format \in RasterFormats, NEW io,
         \A j \in DOMAIN layers : layers[j].name \in ToSet(names) /\ layers[j].kind = "cog"
                                     => px[1] % 2 # 1 /\ px[2] % 2 # 1
  PROVE  LET a == wms_handler(ClickQuery(version, v, names, px, format), io)
         IN  /\ ~Failed(a) => ClickListed(version, v, names, px)
             /\ ClickListed(version, v, names, px) /\ io = "ok" => ~Failed(a)
<1> DEFINE q == ClickQuery(version, v, names, px, format)
           a == wms_handler(q, io)
           J == {j \in DOMAIN layers : layers[j].name \in ToSet(names)}
           A(j) == LayerAnswer(j, version, q, io)
           Good(j) == v.crs \in crs_lines(version, layers[j].crs)
<1>1. Clicking(version, v, names, px, format, q)
  BY ClickIs
<1> HIDE DEF q
<1>2. a = handle_layers(layers, q, io)
  <2>1. q.request = "getfeatureinfo"
    BY <1>1 DEF Clicking
  <2> QED
    BY <2>1 DEF wms_handler
<1>3. i \in DOMAIN layers /\ Placed(layers[i].crs)
  BY DEF MapOf
<1>4. ASSUME NEW j \in J
      PROVE  /\ "kind" \in DOMAIN A(j) /\ A(j).kind \in {"info", "exception"}
             /\ ~Failed(A(j)) => px[1] < 8 /\ Good(j)
             /\ px[1] < 8 /\ Good(j) /\ io = "ok" => ~Failed(A(j))
  <2>1. j \in DOMAIN layers /\ layers[j].name \in ToSet(names) /\ Placed(layers[j].crs)
    OBVIOUS
  <2>2. layers[j].kind = "cog" => px[1] % 2 # 1 /\ px[2] % 2 # 1
    BY <2>1
  <2> QED
    BY <1>1, <1>3, <2>1, <2>2, LayerClicked
<1>5. ~Failed(a) <=> \A j \in J : ~Failed(A(j))
  <2>1. ~Failed(handle_layers(layers, q, io)) <=> \A j \in J : ~Failed(LayerAnswer(j, version, q, io))
    BY <1>1, <1>4, ClickJoins
  <2> QED
    BY <1>2, <2>1
<1>6. ClickListed(version, v, names, px) <=> px[1] < 8 /\ \A j \in J : Good(j)
  BY ClickRows
<1>7. J # {}
  <2>1. 1 \in DOMAIN names
    BY DEF Naming, Positive
  <2>2. names[1] \in ToSet(names)
    BY <2>1 DEF ToSet
  <2> QED
    BY <2>2 DEF Naming
<1> HIDE DEF a, J, A, Good
<1>8. /\ ~Failed(a) => ClickListed(version, v, names, px)
      /\ ClickListed(version, v, names, px) /\ io = "ok" => ~Failed(a)
  BY <1>4, <1>5, <1>6, <1>7
<1> QED
  BY <1>8 DEF a, q

\* Every click is answered as the documents say.
LEMMA ClicksAsked ==
  ASSUME WellMade(layers), AskClick
  PROVE  AdvertisedIsServed'
<1>1. layers' = layers
  BY DEF AskClick
<1>2. PICK version \in {V11, V13}, io \in {"ok", "fails"}, format \in VectorFormats,
           x \in {0, 3, 4, 8}, y \in {0, 4, 5} : \E v \in MapViews(version) :
           \E names \in {<<v.layer>>, [k \in DOMAIN layers |-> layers[k].name]} :
         asked' = [what |-> "click", version |-> version, view |-> v, at |-> Under(v, <<x, y>>), px |-> <<x, y>>,
                   names |-> names, format |-> format, io |-> io,
                   answer |-> wms_handler(ClickQuery(version, v, names, <<x, y>>, format), io)]
  BY Zenon DEF AskClick
<1>3. PICK v \in MapViews(version) :
           \E names \in {<<v.layer>>, [k \in DOMAIN layers |-> layers[k].name]} :
         asked' = [what |-> "click", version |-> version, view |-> v, at |-> Under(v, <<x, y>>), px |-> <<x, y>>,
                   names |-> names, format |-> format, io |-> io,
                   answer |-> wms_handler(ClickQuery(version, v, names, <<x, y>>, format), io)]
  BY <1>2
<1>4. PICK names \in {<<v.layer>>, [k \in DOMAIN layers |-> layers[k].name]} :
         asked' = [what |-> "click", version |-> version, view |-> v, at |-> Under(v, <<x, y>>), px |-> <<x, y>>,
                   names |-> names, format |-> format, io |-> io,
                   answer |-> wms_handler(ClickQuery(version, v, names, <<x, y>>, format), io)]
  BY <1>3
<1> DEFINE px == <<x, y>>
           at == Under(v, px)
           a == wms_handler(ClickQuery(version, v, names, px, format), io)
<1>5. /\ asked'.what = "click" /\ asked'.version = version /\ asked'.view = v /\ asked'.px = px
      /\ asked'.names = names /\ asked'.format = format /\ asked'.io = io /\ asked'.answer = a
      /\ "io" \in DOMAIN asked'
  <2>1. asked' = [what |-> "click", version |-> version, view |-> v, at |-> at, px |-> px,
                  names |-> names, format |-> format, io |-> io, answer |-> a]
    BY <1>4
  <2> HIDE DEF px, a, at
  <2> QED
    BY <2>1
<1>6. PICK i : MapOf(version, v, i)
  BY MapViewsAreLayers
<1>7. v.layer \in ToSet(names) /\ \E m : Naming(names, m)
  BY <1>6, ClickNames DEF MapOf
<1>8. px[1] = x /\ px[2] = y
  OBVIOUS
<1> HIDE DEF a, px
<1>9. Served' <=> ~Failed(a)
  BY <1>5 DEF Served, Failed
<1>10. Offered' => ClickListed(version, v, names, px)
  BY <1>1, <1>5 DEF Offered, ClickListed
<1>11. ClickListed(version, v, names, px) /\ format \in RasterFormats => Offered'
  <2>1. format \in RasterFormats => format \in capabilities_preamble(version).info
    BY DEF capabilities_preamble, VectorFormats
  <2> QED
    BY <1>1, <1>5, <2>1 DEF Offered, ClickListed
<1>12. ~Excused' =>
         /\ format \in RasterFormats /\ \A n \in ToSet(names) : ~NamedTwice(n)
         /\ \A j \in DOMAIN layers : layers[j].name \in ToSet(names) =>
                Placed(layers[j].crs) /\ (layers[j].kind = "cog" => px[1] % 2 # 1 /\ px[2] % 2 # 1)
  <2>1. \A j \in DOMAIN layers : ~NamedTwice(layers[j].name) => LayerOf(layers[j].name) = layers[j]
    BY OwnName DEF LayerOf
  <2>2. \A n : LayerOf(n)' = LayerOf(n) /\ (NamedTwice(n)' <=> NamedTwice(n))
    BY <1>1 DEF LayerOf, NamedTwice
  <2>3. ~Excused' =>
          /\ format \in RasterFormats
          /\ \A n \in ToSet(names) : ~NamedTwice(n)' /\ Placed(LayerOf(n)'.crs)
          /\ (\E n \in ToSet(names) : LayerOf(n)'.kind = "cog") => ~(px[1] % 2 = 1 \/ px[2] % 2 = 1)
    BY <1>5 DEF Excused, Placed
  <2> QED
    BY <2>1, <2>2, <2>3
<1>13. ASSUME ~Excused'
       PROVE  /\ ~Failed(a) => ClickListed(version, v, names, px)
              /\ ClickListed(version, v, names, px) /\ io = "ok" => ~Failed(a)
  <2>1. PICK m : Naming(names, m)
    BY <1>7
  <2>2. /\ format \in RasterFormats /\ \A n \in ToSet(names) : ~NamedTwice(n)
        /\ \A j \in DOMAIN layers : layers[j].name \in ToSet(names) => Placed(layers[j].crs)
        /\ \A j \in DOMAIN layers : layers[j].name \in ToSet(names) /\ layers[j].kind = "cog"
                                        => px[1] % 2 # 1 /\ px[2] % 2 # 1
    BY <1>12, <1>13
  <2> QED
    BY <1>6, <1>7, <1>8, <2>1, <2>2, ClickAnswered DEF a
<1> QED
  BY <1>5, <1>9, <1>10, <1>11, <1>12, <1>13 DEF AdvertisedIsServed

\* A pixel of a tile is told as the documents say.
LEMMA TileInfoAsked ==
  ASSUME WellMade(layers), AskTileInfo
  PROVE  AdvertisedIsServed'
<1>1. layers' = layers
  BY DEF AskTileInfo
<1>2. PICK v \in TileViews, format \in RasterFormats, io \in {"ok", "fails"} :
        asked' = [what |-> "tile info", view |-> v, io |-> io,
                  answer |-> wmts_get_feature_info(layers, With(Addressed(v, "default"),
                                [i |-> v.set.tile_w - 1, j |-> 0, format |-> format]), io)]
  BY Zenon DEF AskTileInfo
<1> DEFINE a == wmts_get_feature_info(layers, With(Addressed(v, "default"),
                                [i |-> v.set.tile_w - 1, j |-> 0, format |-> format]), io)
           offered == InAdvertisedMatrix(v) /\ InfoFormats(v.layer) # {}
<1>3. ~Shadowed(v) => (~Failed(a) => offered) /\ (offered /\ io = "ok" => ~Failed(a))
  BY InfoAnswered
<1> HIDE DEF a
<1>4. asked' = [what |-> "tile info", view |-> v, io |-> io, answer |-> a]
  BY <1>2 DEF a
<1>5. asked'.what = "tile info" /\ asked'.view = v /\ asked'.io = io /\ asked'.answer = a /\ "io" \in DOMAIN asked'
  BY <1>4
<1>6. Served' <=> ~Failed(a)
  BY <1>5 DEF Served, Failed
<1>7. InfoFormats(v.layer)' = InfoFormats(v.layer) /\ (InAdvertisedMatrix(v)' <=> InAdvertisedMatrix(v))
      /\ (Shadowed(v)' <=> Shadowed(v))
  BY <1>1 DEF InfoFormats, InAdvertisedMatrix, Shadowed, LayerOf, NamedTwice
<1>8. Offered' <=> offered
  BY <1>1, <1>5, <1>7 DEF Offered, InfoFormats, InAdvertisedMatrix
<1>9. ~Excused' => ~Shadowed(v)
  BY <1>1, <1>5, <1>7 DEF Excused
<1> HIDE DEF offered
<1> QED
  BY <1>3, <1>5, <1>6, <1>8, <1>9 DEF AdvertisedIsServed, offered

\* The documents about one layer and grid.
Documents == {"tilejson", "style", "grid", "tilemap", "legend"}

\* Every document is answered as the TMS root says.
LEMMA DocumentsAsked ==
  ASSUME WellMade(layers), AskDocument
  PROVE  asked'.what \in Documents /\ AdvertisedIsServed'
<1>1. layers' = layers
  BY DEF AskDocument
<1> DEFINE Answer(t) ==
             {[what |-> "tilejson", answer |-> tilejson_doc(layers, t.layer, t.grid)],
              [what |-> "style", answer |-> style_json(layers, t.layer, t.grid, <<>>)],
              [what |-> "style", answer |-> style_json(layers, t.layer, t.grid, OperatorStyle)],
              [what |-> "grid", answer |-> tile_matrix_set_doc(layers, t.grid)],
              [what |-> "tilemap", answer |-> tilemap_doc(layers, t.layer, t.grid)],
              [what |-> "legend", answer |-> handle_legend(layers, V13, [layer |-> <<t.layer>>])]}
<1>2. PICK t \in tilemapservice(layers) : \E d \in Answer(t) :
         asked' = [what |-> d.what, answer |-> d.answer, view |-> [layer |-> t.layer, id |-> t.grid]]
  BY Zenon DEF AskDocument
<1>3. PICK d \in Answer(t) :
         asked' = [what |-> d.what, answer |-> d.answer, view |-> [layer |-> t.layer, id |-> t.grid]]
  BY <1>2
<1>4. PICK i : Lists(t, i)
  BY RootLists
<1>5. ~NamedTwice(t.layer) => LayerOf(t.layer) = layers[i]
  BY <1>4, ListedIsFound
<1>6. /\ d.what \in Documents
      /\ ~NamedTwice(t.layer) => /\ d.what \in {"tilejson", "style"} => (~Failed(d.answer) <=> layers[i].kind = "vector")
                                 /\ d.what \notin {"tilejson", "style"} => ~Failed(d.answer)
  <2> DEFINE yes == layers[i].kind = "vector"
             A1 == tilejson_doc(layers, t.layer, t.grid)
             A2 == style_json(layers, t.layer, t.grid, <<>>)
             A3 == style_json(layers, t.layer, t.grid, OperatorStyle)
             A4 == tile_matrix_set_doc(layers, t.grid)
             A5 == tilemap_doc(layers, t.layer, t.grid)
             A6 == handle_legend(layers, V13, [layer |-> <<t.layer>>])
  <2>1. ~NamedTwice(t.layer) => /\ ~Failed(A1) <=> yes
                                /\ ~Failed(A2) <=> yes
                                /\ ~Failed(A3) <=> yes
                                /\ ~Failed(A4) /\ ~Failed(A5) /\ ~Failed(A6)
    BY <1>4, DocumentsAnswered
  <2> HIDE DEF yes, A1, A2, A3, A4, A5, A6
  <2>2. d \in {[what |-> "tilejson", answer |-> A1], [what |-> "style", answer |-> A2], [what |-> "style", answer |-> A3],
               [what |-> "grid", answer |-> A4], [what |-> "tilemap", answer |-> A5], [what |-> "legend", answer |-> A6]}
    BY <1>3 DEF A1, A2, A3, A4, A5, A6
  <2>3. \/ d.what = "tilejson" /\ d.answer = A1
        \/ d.what = "style" /\ d.answer = A2
        \/ d.what = "style" /\ d.answer = A3
        \/ d.what = "grid" /\ d.answer = A4
        \/ d.what = "tilemap" /\ d.answer = A5
        \/ d.what = "legend" /\ d.answer = A6
    BY <2>2
  <2> QED
    BY <2>1, <2>3 DEF Documents, yes
<1> HIDE DEF Answer
<1>7. asked'.what = d.what /\ asked'.answer = d.answer /\ asked'.view.layer = t.layer
  BY <1>3
<1>8. Served' <=> ~Failed(d.answer)
  BY <1>7 DEF Served, Failed
<1>9. (LayerOf(t.layer)' = LayerOf(t.layer)) /\ (NamedTwice(t.layer)' <=> NamedTwice(t.layer))
  BY <1>1 DEF LayerOf, NamedTwice
<1>10. Offered' <=> (d.what \in {"tilejson", "style"} => LayerOf(t.layer).kind = "vector")
  BY <1>6, <1>7, <1>9 DEF Offered, Documents
<1>11. ~Excused' => ~NamedTwice(t.layer)
  BY <1>7, <1>9 DEF Excused
<1> QED
  BY <1>5, <1>6, <1>7, <1>8, <1>10, <1>11 DEF AdvertisedIsServed

(***************************************************************************)
(* 8. The invariants of the server.                                        *)
(***************************************************************************)

\* The server as it stands: what it publishes is what the start built, and nothing is kept or answered
\* before that.
Standing ==
  /\ args \in Starts /\ stage \in {"down", "refused", "up"}
  /\ stage = "up" => Outcome[args].kind = "serving" /\ layers = Outcome[args].layers
  /\ stage # "up" => layers = <<>> /\ png = {} /\ asked = Nothing

\* An answer that is neither a tile nor a map is one the documents offer.
OthersSound == asked.what \notin {"tile", "map"} => AdvertisedIsServed

\* The inductive invariant.
IInv == Standing /\ CacheSound /\ TileSound /\ MapSound /\ OthersSound

\* What a server that is up publishes is well made.
LEMMA UpIsWellMade ==
  ASSUME Standing, stage = "up"
  PROVE  WellMade(layers)
  BY LoadedIsWellMade DEF Standing, Outcome

\* A cache that is left alone or emptied stays sound.
LEMMA CacheStays ==
  ASSUME CacheSound, layers' = layers, png' = png \/ png' = {}
  PROVE  CacheSound'
<1>1. \A e : EntrySound(e)' <=> EntrySound(e)
  BY DEF EntrySound, TmsEntry, WmtsEntry, WmsEntry
<1> QED
  BY <1>1 DEF CacheSound

\* An answer that is left alone stays as offered as it was.
LEMMA OthersStay ==
  ASSUME OthersSound, layers' = layers, asked' = asked
  PROVE  OthersSound'
<1>1. /\ \A n : LayerOf(n)' = LayerOf(n) /\ InfoFormats(n)' = InfoFormats(n)
      /\ \A n : NamedTwice(n)' <=> NamedTwice(n)
      /\ \A v : (HasTileJson(v)' <=> HasTileJson(v)) /\ (Shadowed(v)' <=> Shadowed(v))
  BY DEF LayerOf, InfoFormats, HasTileJson, Shadowed, NamedTwice
<1>2. (Served' <=> Served) /\ (Excused' <=> Excused)
  BY <1>1 DEF Served, Excused, Placed
<1>3. Offered' <=> Offered
  BY <1>1 DEF Offered, InAdvertisedMatrix
<1>4. AdvertisedIsServed' <=> AdvertisedIsServed
  BY <1>2, <1>3 DEF AdvertisedIsServed
<1> QED
  BY <1>2, <1>4 DEF OthersSound

\* The invariant holds at first.
LEMMA InitIInv == Init => IInv
<1> SUFFICES ASSUME Init PROVE IInv
  OBVIOUS
<1>1. stage = "down" /\ args \in Starts /\ layers = <<>> /\ png = {} /\ asked = Nothing
  BY DEF Init
<1>2. Standing
  BY <1>1 DEF Standing
<1>3. CacheSound
  BY <1>1 DEF CacheSound
<1>4. TileSound /\ MapSound
  BY <1>1 DEF TileSound, MapSound, Nothing
<1>5. OthersSound
  BY <1>1 DEF OthersSound, AdvertisedIsServed
<1> QED
  BY <1>2, <1>3, <1>4, <1>5 DEF IInv

\* A step whose answer is neither a tile nor a map.
Otherwise == asked'.what \notin {"tile", "map"}

\* And every step keeps it.
LEMMA NextIInv == IInv /\ [Next]_vars => IInv'
<1> SUFFICES ASSUME IInv, [Next]_vars PROVE IInv'
  OBVIOUS
<1>1. Standing /\ CacheSound /\ TileSound /\ MapSound /\ OthersSound
  BY DEF IInv
<1>2. ASSUME Otherwise PROVE TileSound' /\ MapSound'
  BY <1>2 DEF Otherwise, TileSound, MapSound
<1>3. ASSUME Ready, UNCHANGED <<stage, args, layers>> PROVE Standing'
  BY <1>1, <1>3 DEF Standing, Ready
<1>4. CASE Start
  <2>1. /\ stage = "down" /\ UNCHANGED <<args, png, asked>>
        /\ \/ Outcome[args].kind = "refused" /\ stage' = "refused" /\ UNCHANGED layers
           \/ Outcome[args].kind = "serving" /\ stage' = "up" /\ layers' = Outcome[args].layers
    BY <1>4 DEF Start
  <2>2. png = {} /\ asked = Nothing
    BY <1>1, <2>1 DEF Standing
  <2>3. Standing'
    BY <1>1, <2>1 DEF Standing, Outcome
  <2>4. CacheSound'
    BY <2>1, <2>2 DEF CacheSound
  <2>5. Otherwise /\ OthersSound'
    BY <2>1, <2>2 DEF Otherwise, OthersSound, AdvertisedIsServed, Nothing
  <2> QED
    BY <1>2, <2>3, <2>4, <2>5 DEF IInv
<1>5. CASE AskTile
  <2>1. Ready /\ UNCHANGED <<stage, args, layers>>
    BY <1>5 DEF AskTile
  <2>2. asked'.what = "tile" /\ TileSound' /\ CacheSound'
    BY <1>1, <1>5, <2>1, UpIsWellMade, TilesAsked DEF Ready
  <2>3. MapSound' /\ OthersSound'
    BY <2>2 DEF MapSound, OthersSound
  <2> QED
    BY <1>3, <2>1, <2>2, <2>3 DEF IInv
<1>6. CASE AskTileInfo
  <2>1. Ready /\ UNCHANGED <<stage, args, layers, png>> /\ Otherwise
    <3>1. Ready /\ UNCHANGED <<stage, args, layers, png>>
      BY <1>6 DEF AskTileInfo
    <3>2. PICK v \in TileViews, format \in RasterFormats, io \in {"ok", "fails"} :
            asked' = [what |-> "tile info", view |-> v, io |-> io,
                      answer |-> wmts_get_feature_info(layers, With(Addressed(v, "default"),
                                    [i |-> v.set.tile_w - 1, j |-> 0, format |-> format]), io)]
      BY <1>6, Zenon DEF AskTileInfo
    <3> DEFINE a == wmts_get_feature_info(layers, With(Addressed(v, "default"),
                                    [i |-> v.set.tile_w - 1, j |-> 0, format |-> format]), io)
    <3>3. asked'.what = "tile info"
      <4>1. asked' = [what |-> "tile info", view |-> v, io |-> io, answer |-> a]
        BY <3>2
      <4> HIDE DEF a
      <4> QED
        BY <4>1
    <3> QED
      BY <3>1, <3>3 DEF Otherwise
  <2>2. OthersSound'
    BY <1>1, <1>6, <2>1, UpIsWellMade, TileInfoAsked DEF Ready, OthersSound
  <2> QED
    BY <1>1, <1>2, <1>3, <2>1, <2>2, CacheStays DEF IInv
<1>7. CASE AskMap
  <2>1. Ready /\ UNCHANGED <<stage, args, layers>>
    BY <1>7 DEF AskMap
  <2>2. asked'.what = "map" /\ MapSound' /\ CacheSound'
    BY <1>1, <1>7, <2>1, UpIsWellMade, MapsAsked DEF Ready
  <2>3. TileSound' /\ OthersSound'
    BY <2>2 DEF TileSound, OthersSound
  <2> QED
    BY <1>3, <2>1, <2>2, <2>3 DEF IInv
<1>8. CASE AskClick
  <2>1. Ready /\ UNCHANGED <<stage, args, layers, png>> /\ Otherwise /\ asked'.what = "click"
    BY <1>8 DEF AskClick, Otherwise
  <2>2. OthersSound'
    BY <1>1, <1>8, <2>1, UpIsWellMade, ClicksAsked DEF Ready, OthersSound
  <2> QED
    BY <1>1, <1>2, <1>3, <2>1, <2>2, CacheStays DEF IInv
<1>9. CASE AskDocument
  <2>1. Ready /\ UNCHANGED <<stage, args, layers, png>> /\ Otherwise
    BY <1>9 DEF AskDocument, Otherwise
  <2>2. OthersSound'
    BY <1>1, <1>9, <2>1, UpIsWellMade, DocumentsAsked DEF Ready, OthersSound
  <2> QED
    BY <1>1, <1>2, <1>3, <2>1, <2>2, CacheStays DEF IInv
<1>10. CASE Evict
  <2>1. stage = "up" /\ png' = {} /\ UNCHANGED <<stage, args, layers, asked>>
    BY <1>10 DEF Evict
  <2>2. Standing'
    BY <1>1, <2>1 DEF Standing
  <2>3. (TileViews' = TileViews) /\ (\A u, w, f, b : Sound(u, w, f, b)' <=> Sound(u, w, f, b))
    BY <2>1, SoundStays
  <2>4. TileSound'
    BY <1>1, <2>1, <2>3 DEF TileSound
  <2>5. MapSound'
    BY <1>1, <2>1 DEF MapSound, MapRight, Shows, Window, Failed, NamedTwice
  <2> QED
    BY <1>1, <2>1, <2>2, <2>4, <2>5, CacheStays, OthersStay DEF IInv
<1>11. CASE Done
  <2>1. asked # Nothing /\ asked' = Nothing /\ UNCHANGED <<stage, args, layers, png>>
    BY <1>11 DEF Done
  <2>2. Standing'
    BY <1>1, <2>1 DEF Standing
  <2>3. Otherwise /\ OthersSound'
    BY <2>1 DEF Otherwise, OthersSound, AdvertisedIsServed, Nothing
  <2> QED
    BY <1>1, <1>2, <2>1, <2>2, <2>3, CacheStays DEF IInv
<1>12. CASE UNCHANGED vars
  <2>1. UNCHANGED <<stage, args, layers, png, asked>>
    BY <1>12 DEF vars
  <2>2. Standing'
    BY <1>1, <2>1 DEF Standing
  <2>3. (TileViews' = TileViews) /\ (\A u, w, f, b : Sound(u, w, f, b)' <=> Sound(u, w, f, b))
    BY <2>1, SoundStays
  <2>4. TileSound'
    BY <1>1, <2>1, <2>3 DEF TileSound
  <2>5. MapSound'
    BY <1>1, <2>1 DEF MapSound, MapRight, Shows, Window, Failed, NamedTwice
  <2> QED
    BY <1>1, <2>1, <2>2, <2>4, <2>5, CacheStays, OthersStay DEF IInv
<1> QED
  BY <1>4, <1>5, <1>6, <1>7, <1>8, <1>9, <1>10, <1>11, <1>12 DEF Next

\* A tile that is answered, and the grid it lies in.
LEMMA ServedTile ==
  ASSUME IInv, asked.what = "tile", Served, ~Shadowed(asked.view)
  PROVE  \E i, k : ViewOf(asked.view, i, k) /\ WellMade(layers) /\ TileRight(asked.view, i, k, asked.answer)
<1>1. stage = "up"
  BY DEF IInv, Standing, Nothing
<1>2. WellMade(layers)
  BY <1>1, UpIsWellMade DEF IInv
<1>3. asked.view \in TileViews /\ Sound(asked.view, asked.via, asked.io, asked.answer)
  BY DEF IInv, TileSound
<1>4. PICK i, k : ViewOf(asked.view, i, k)
  BY <1>2, <1>3, ViewsAreGrids
<1>5. ~Failed(asked.answer)
  BY DEF Served, Failed
<1>6. TileRight(asked.view, i, k, asked.answer)
  BY <1>3, <1>4, <1>5 DEF Sound
<1> QED
  BY <1>2, <1>4, <1>6

\* Whatever the operator's layers and grids, and whatever PROJ says of their axes: the tile that is
\* answered covers the ground its address stands for in the documents, through every front end, key-value
\* binding, archive, and whatever the cache held (tms.rs:tile_bounds, tms_http.rs:tms_y_to_core_row,
\* wmts.rs:top_left_corner, server.rs:raster_tile_key).
THEOREM TileAddressed == Spec => []OneTileOneAddress
<1>1. IInv => OneTileOneAddress
  <2> SUFFICES ASSUME IInv, asked.what = "tile", Served, ~Shadowed(asked.view)
               PROVE  LET v == asked.view
                          ogc == tile_matrix_set_doc(layers, v.set.id)
                      IN  /\ asked.answer.layer = v.layer
                          /\ asked.answer.px \in {v.set.tile_w, Unsaid}
                          /\ asked.answer.box = ClientBox(v)
                          /\ ogc.id = v.set.id =>
                              /\ asked.answer.box = BoxFrom(ogc.matrices[v.z + 1].corner, v.set, v)
                              /\ asked.answer.box = BoxFrom(from_ogc_json(ogc).origin, v.set, v)
    BY DEF OneTileOneAddress
  <2> DEFINE v == asked.view
             a == asked.answer
             ogc == tile_matrix_set_doc(layers, v.set.id)
  <2>1. PICK i, k : ViewOf(v, i, k) /\ WellMade(layers) /\ TileRight(v, i, k, a)
    BY ServedTile
  <2> HIDE DEF v, a
  <2>2. a.layer = v.layer /\ a.px \in {v.set.tile_w, Unsaid} /\ a.box = tile_bounds(GridOf(i, k), v.z, v.col, v.row)
    BY <2>1 DEF TileRight, GridOf
  <2>3. ClientBox(v) = a.box /\ BoxFrom(GridOf(i, k).origin, v.set, v) = a.box
    BY <2>1, <2>2, ClientReckons
  <2>4. ogc.id = v.set.id => ogc.matrices[v.z + 1].corner = GridOf(i, k).origin /\ from_ogc_json(ogc).origin = GridOf(i, k).origin
    BY <2>1, DocumentAgrees
  <2> HIDE DEF ogc
  <2> QED
    BY <2>2, <2>3, <2>4 DEF v, a, ogc
<1> QED
  BY <1>1, InitIInv, NextIInv, PTL DEF Spec

\* Whatever the extent of the data and of the grid: a tile of a raster layer is blank exactly outside the
\* limits that are advertised for it (wmts.rs: TileMatrixSetLimits; render.rs: the blank short cut).
THEOREM LimitsHonest == Spec => []LimitsMatchContent
<1>1. IInv => LimitsMatchContent
  <2> SUFFICES ASSUME IInv, asked.what = "tile", Served, ~Shadowed(asked.view), asked.view.limits # <<>>
               PROVE  asked.answer.from = "blank" <=> ~InLimits(asked.view)
    BY DEF LimitsMatchContent
  <2> DEFINE v == asked.view
             a == asked.answer
  <2>1. PICK i, k : ViewOf(v, i, k) /\ WellMade(layers) /\ TileRight(v, i, k, a)
    BY ServedTile
  <2>2. v.limits # <<>>
    OBVIOUS
  <2> HIDE DEF v, a
  <2> DEFINE b == layers[i].grids[k].bounds
             box == tile_bounds(GridOf(i, k), v.z, v.col, v.row)
  <2>3. InMatrix(GridOf(i, k), v.z, v.col, v.row) /\ a.box = box
    BY <2>1 DEF TileRight, GridOf
  <2>4. layers[i].kind = "cog" /\ b # <<>> /\ (InLimits(v) <=> ~Disjoint(box, b))
    BY <2>1, <2>2, <2>3, LimitsAreEdges
  <2>5. a.from = "blank" <=> b # <<>> /\ Disjoint(a.box, b)
    BY <2>1, <2>4 DEF TileRight
  <2> HIDE DEF b, box
  <2> QED
    BY <2>3, <2>4, <2>5 DEF v, a
<1> QED
  BY <1>1, InitIInv, NextIInv, PTL DEF Spec

\* Whatever the layer's own CRS, the CRS, version and place of the query: a map that is answered, also
\* one from the cache, shows the window that was meant (wms.rs:parse_map_frame, reproj.rs).
THEOREM WindowShown == Spec => []MapShowsTheWindow
<1>1. IInv => MapShowsTheWindow
  BY DEF IInv, MapSound, MapRight, Shows, MapShowsTheWindow, Served, Failed, Unaliased
<1> QED
  BY <1>1, InitIInv, NextIInv, PTL DEF Spec

\* A TileJSON is of a vector layer. (mvt_http.rs: tilejson_doc)
LEMMA TileJsonIsVector ==
  ASSUME WellMade(layers), NEW v, NEW i, NEW k, ViewOf(v, i, k), ~NamedTwice(v.layer)
  PROVE  HasTileJson(v) <=> layers[i].kind = "vector"
<1> DEFINE t == [layer |-> v.layer, grid |-> v.set.id]
           doc == tilejson_doc(layers, v.layer, v.set.id)
<1>1. v.layer = layers[i].name /\ v.set.id = GridOf(i, k).id /\ i \in DOMAIN layers /\ k \in DOMAIN layers[i].grids
  BY DEF ViewOf, GridOf
<1>2. Lists(t, i)
  BY <1>1 DEF Lists
<1>3. t.layer = v.layer /\ t.grid = v.set.id
  OBVIOUS
<1>4. ~Failed(doc) <=> layers[i].kind = "vector"
  <2> HIDE DEF t
  <2> QED
    BY <1>2, <1>3, DocumentsAnswered
<1>5. doc.kind = "error" \/ doc.kind = "tilejson"
  BY DEF tilejson_doc, Fails
<1>6. HasTileJson(v) <=> doc.kind = "tilejson"
  BY DEF HasTileJson
<1> HIDE DEF doc
<1> QED
  BY <1>4, <1>5, <1>6 DEF Failed

\* What the invariant says of what is offered.
LEMMA Advertised ==
  ASSUME IInv
  PROVE  AdvertisedIsServed
<1>1. Served <=> ~Failed(asked.answer)
  BY DEF Served, Failed
<1>2. CASE asked.what = "tile"
  <2> DEFINE v == asked.view
             good == InAdvertisedMatrix(v) /\ asked.via # "spoilt"
                     /\ (asked.via \in {"mvt", "mvt kvp"} => HasTileJson(v))
  <2>1. WellMade(layers)
    BY <1>2, UpIsWellMade DEF IInv, Standing, Nothing
  <2>2. v \in TileViews /\ Sound(v, asked.via, asked.io, asked.answer)
    BY <1>2 DEF IInv, TileSound
  <2>3. PICK i, k : ViewOf(v, i, k)
    BY <2>1, <2>2, ViewsAreGrids
  <2>4. ~Shadowed(v) => (HasTileJson(v) <=> layers[i].kind = "vector")
    BY <2>1, <2>3, TileJsonIsVector DEF Shadowed
  <2>5. InMatrix(GridOf(i, k), v.z, v.col, v.row) <=> InAdvertisedMatrix(v)
    BY <2>1, <2>3, MatrixAdvertised
  <2>6. Offered <=> good
    BY <1>2 DEF Offered
  <2>7. ~Excused => ~Shadowed(v)
    BY <1>2 DEF Excused
  <2> HIDE DEF v
  <2>8. ~Shadowed(v) => /\ ~Failed(asked.answer) => good
                        /\ good /\ asked.io = "ok" => ~Failed(asked.answer)
    BY <2>2, <2>3, <2>4, <2>5 DEF Sound, TileRight, VectorOnly, GridOf
  <2>9. "io" \in DOMAIN asked
    BY <1>2 DEF IInv, TileSound
  <2> HIDE DEF good
  <2> QED
    BY <1>1, <2>6, <2>7, <2>8, <2>9 DEF AdvertisedIsServed
<1>3. CASE asked.what = "map"
  <2>1. "io" \in DOMAIN asked /\ MapRight(asked.view, asked.spoil, asked.io, asked.answer)
    BY <1>3 DEF IInv, MapSound
  <2>2. Offered <=> asked.spoil = "none"
    BY <1>3 DEF Offered
  <2>3. ~Excused => ~NamedTwice(asked.view.layer)
    BY DEF Excused
  <2> QED
    BY <1>1, <2>1, <2>2, <2>3 DEF MapRight, AdvertisedIsServed
<1>4. CASE asked.what \notin {"tile", "map"}
  BY <1>4 DEF IInv, OthersSound
<1> QED
  BY <1>2, <1>3, <1>4

\* Whatever the layers, their names and CRSs, the grids and the order of requests: a tile, a pixel, a map,
\* a document, and a click on one layer or on all of them, is answered exactly when the documents list it
\* and the reads behind it succeed, but for what Excused names (wmts.rs, tms_http.rs, mvt_http.rs, wms.rs:
\* capabilities_multi, crs_lines, get_feature_info).
THEOREM AdvertisedServed == Spec => []AdvertisedIsServed
<1>1. IInv => AdvertisedIsServed
  BY Advertised
<1> QED
  BY <1>1, InitIInv, NextIInv, PTL DEF Spec

\* Whatever order the tiles and maps were asked in and whatever was evicted between: each byte string the
\* raster cache keeps is what its own front end answered to that very address, so a hit never serves
\* another tile, style or window than the key names (server.rs: raster_tile_key, wms_handler).
THEOREM CacheKeepsAnswers == Spec => []CacheSound
  BY InitIInv, NextIInv, PTL DEF Spec, IInv
=============================================================================
