---------------------------- MODULE TileIdsProofs ----------------------------
(***************************************************************************)
(* Tile ids and the bake, for any number of zooms, any columns at zoom 0   *)
(* and any integer width that holds the ids: the curve is a Hilbert curve, *)
(* a bake that passes the grid check never breaks off, and a request       *)
(* inside the square is answered its own tile.                             *)
(*                                                                         *)
(*   1. induction, the greatest element of a set and powers of two;        *)
(*   2. what the recursive functions of TileIds compute;                   *)
(*   3. division, bits, and n - 1 - x in unsigned integers;                *)
(*   4. one turn of the curve;                                             *)
(*   5. the way along the curve: within a zoom no two tiles share an id;   *)
(*   6. no two tiles share an id at all, and every box touches a tile;     *)
(*   7. the bake and the requests;                                         *)
(*   8. the way back: tileid_to_zxy undoes zxy_to_tileid;                  *)
(*   9. neighbours: consecutive ids share an edge.                         *)
(***************************************************************************)
EXTENDS TileIds, FiniteSetTheorems, TLAPS

(***************************************************************************)
(* 1. Natural numbers.                                                     *)
(* Powers are defined by a recursion the provers do not unfold: 2^n is the *)
(* number of subsets of 1 .. n, and so doubles with n.                     *)
(***************************************************************************)

\* A set of naturals that is not empty has a least element.
LEMMA LeastElement ==
  ASSUME NEW T \in SUBSET Nat, T # {}
  PROVE  \E m \in T : \A k \in T : m <= k
<1> DEFINE R == {p \in Nat \X Nat : p[1] < p[2]}
<1>1. IsWellFoundedOn(R, Nat)
  BY NatLessThanWellFounded, Zenon DEF OpToRel
<1>3. \A k, m \in Nat : k < m => <<k, m>> \in R
  OBVIOUS
<1> HIDE DEF R
<1>2. PICK m \in T : \A k \in T : ~(<<k, m>> \in R)
  BY <1>1, WFMin
<1>4. ASSUME NEW k \in T PROVE m <= k
  <2>1. k \in Nat /\ m \in Nat /\ ~(k < m)
    BY <1>2, <1>3, Zenon
  <2> QED
    BY <2>1
<1> QED
  BY <1>4

\* Induction over the natural numbers, for a set.
LEMMA Induction ==
  ASSUME NEW T, 0 \in T, \A n \in Nat : n \in T => n + 1 \in T
  PROVE  Nat \subseteq T
<1> SUFFICES ASSUME Nat \ T # {} PROVE FALSE
  OBVIOUS
<1>1. PICK m \in Nat \ T : \A k \in Nat \ T : m <= k
  BY LeastElement
<1>2. m - 1 \in Nat /\ m - 1 \in T
  BY <1>1
<1> QED
  BY <1>1, <1>2

\* A set of naturals with a bound has a greatest element, and Max is it.
\* (write.rs: last_id)
LEMMA GreatestElement ==
  ASSUME NEW S \in SUBSET Nat, S # {}, NEW b \in Nat, \A k \in S : k < b
  PROVE  Max(S) \in S
<1> DEFINE T == {b - k : k \in S}
<1>1. T \in SUBSET Nat /\ T # {}
  <2>1. ASSUME NEW k \in S PROVE b - k \in Nat
    BY k \in Nat, k < b
  <2> QED
    BY <2>1
<1>2. PICK m \in T : \A k \in T : m <= k
  BY <1>1, LeastElement
<1>3. PICK g \in S : m = b - g
  OBVIOUS
<1>4. ASSUME NEW k \in S PROVE g >= k
  <2>1. m <= b - k
    BY <1>2
  <2> QED
    BY <2>1, <1>3, g \in Nat, k \in Nat
<1>5. \E x \in S : \A y \in S : x >= y
  BY <1>4
<1> QED
  BY <1>5, Zenon DEF Max

\* A power of two is a natural number, and twice the one before.
LEMMA Power ==
  ASSUME NEW n \in Nat
  PROVE  2^n \in Nat /\ 2^(n + 1) = 2 * 2^n
<1> DEFINE A == SUBSET (1 .. n)
           B == {X \cup {n + 1} : X \in A}
           f == [X \in A |-> X \cup {n + 1}]
<1>1. IsFiniteSet(1 .. n) /\ Cardinality(1 .. n) = n
  BY FS_Interval
<1>2. IsFiniteSet(1 .. n + 1) /\ Cardinality(1 .. n + 1) = n + 1
  BY FS_Interval
<1>3. IsFiniteSet(A) /\ Cardinality(A) = 2^n
  BY <1>1, FS_SUBSET
<1>4. Cardinality(SUBSET (1 .. n + 1)) = 2^(n + 1)
  BY <1>2, FS_SUBSET
<1>5. f \in Bijection(A, B)
  <2>1. \A X \in A : n + 1 \notin X
    OBVIOUS
  <2>2. \A X, Y \in A : f[X] = f[Y] => X = Y
    <3> SUFFICES ASSUME NEW X \in A, NEW Y \in A, f[X] = f[Y] PROVE X = Y
      OBVIOUS
    <3>1. X \cup {n + 1} = Y \cup {n + 1}
      OBVIOUS
    <3>2. n + 1 \notin X /\ n + 1 \notin Y
      BY <2>1
    <3> HIDE DEF f, A
    <3>3. X = (X \cup {n + 1}) \ {n + 1} /\ Y = (Y \cup {n + 1}) \ {n + 1}
      BY <3>2
    <3> QED
      BY <3>1, <3>3
  <2>3. f \in [A -> B] /\ \A Y \in B : \E X \in A : f[X] = Y
    OBVIOUS
  <2> HIDE DEF f, A, B
  <2>4. f \in Injection(A, B)
    BY <2>2, <2>3, Zenon DEF Injection, IsInjective
  <2>5. f \in Surjection(A, B)
    BY <2>3, Zenon DEF Surjection
  <2> QED
    BY <2>4, <2>5, Zenon DEF Bijection
<1>6. IsFiniteSet(B) /\ Cardinality(B) = Cardinality(A)
  BY <1>3, <1>5, FS_Bijection DEF ExistsBijection
<1>7. SUBSET (1 .. n + 1) = A \cup B
  <2>1. ASSUME NEW X \in SUBSET (1 .. n + 1) PROVE X \in A \cup B
    <3>1. CASE n + 1 \in X
      <4>1. X \ {n + 1} \in A
        OBVIOUS
      <4>2. X = (X \ {n + 1}) \cup {n + 1}
        BY <3>1
      <4> QED
        BY <4>1, <4>2
    <3>2. CASE n + 1 \notin X
      <4>1. \A k \in X : k \in 1 .. n
        BY <3>2
      <4> QED
        BY <4>1
    <3> QED
      BY <3>1, <3>2
  <2>2. \A k \in 1 .. n : k \in 1 .. n + 1
    OBVIOUS
  <2>3. n + 1 \in 1 .. n + 1
    OBVIOUS
  <2> QED
    BY <2>1, <2>2, <2>3
<1>8. A \cap B = {}
  OBVIOUS
<1>9. Cardinality(A \cup B) = Cardinality(A) + Cardinality(B) - Cardinality(A \cap B)
  BY <1>3, <1>6, FS_Union
<1>10. Cardinality(A \cap B) = 0
  BY <1>8, FS_EmptySet
<1>11. Cardinality(A) \in Nat
  BY <1>3, FS_CardinalityType
<1>12. Cardinality(A \cup B) = 2^(n + 1)
  BY <1>4, <1>7
<1>13. Cardinality(A) = 2^n /\ Cardinality(B) = Cardinality(A)
  BY <1>3, <1>6
<1> DEFINE a == Cardinality(A)  b == Cardinality(B)  u == Cardinality(A \cup B)  i == Cardinality(A \cap B)
<1>14. u = a + b - i /\ i = 0 /\ a \in Nat /\ b = a /\ u = 2^(n + 1) /\ a = 2^n
  BY <1>9, <1>10, <1>11, <1>12, <1>13
<1> HIDE DEF a, b, u, i
<1> QED
  BY <1>14

\* Powers of two, and of four.
LEMMA Powers ==
  /\ 2^0 = 1
  /\ \A n \in Nat : /\ 2^n \in Nat /\ 2^n >= 1 /\ 2^(n + 1) = 2 * 2^n
                    /\ 2^(2 * n) \in Nat /\ 2^(2 * n) = 2^n * 2^n
                    /\ 2^(2 * (n + 1)) = 4 * 2^(2 * n)
<1> DEFINE T == {n \in Nat : 2^n >= 1 /\ 2^(2 * n) = 2^n * 2^n}
<1>1. 2^0 = 1 /\ 2^(2 * 0) = 1
  OBVIOUS
<1>2. \A n \in Nat : 2^(2 * (n + 1)) = 4 * 2^(2 * n)
  <2> TAKE n \in Nat
  <2>1. 2^(2 * n) \in Nat /\ 2^((2 * n) + 1) = 2 * 2^(2 * n)
    BY Power, 2 * n \in Nat
  <2>2. 2^((2 * n + 1) + 1) = 2 * 2^((2 * n) + 1)
    BY Power, 2 * n + 1 \in Nat
  <2>3. 2 * (n + 1) = (2 * n + 1) + 1
    OBVIOUS
  <2> QED
    BY <2>1, <2>2, <2>3
<1>3. 0 \in T
  BY <1>1
<1>4. ASSUME NEW n \in Nat, n \in T PROVE n + 1 \in T
  <2>1. 2^n \in Nat /\ 2^(n + 1) = 2 * 2^n
    BY Power
  <2>2. 2^(2 * (n + 1)) = 4 * 2^(2 * n)
    BY <1>2
  <2> DEFINE p == 2^n
  <2>3. 2^(n + 1) * 2^(n + 1) = 4 * (p * p)
    <3>1. p \in Nat /\ 2^(n + 1) = 2 * p
      BY <2>1
    <3> HIDE DEF p
    <3> QED
      BY <3>1
  <2>4. 2^(2 * (n + 1)) = 2^(n + 1) * 2^(n + 1)
    BY <2>2, <2>3, <1>4
  <2>5. 2^(n + 1) >= 1
    BY <2>1, <1>4
  <2> QED
    BY <2>4, <2>5
<1> HIDE DEF T
<1>5. Nat \subseteq T
  BY <1>3, <1>4, Induction
<1>6. ASSUME NEW n \in Nat
      PROVE  /\ 2^n \in Nat /\ 2^n >= 1 /\ 2^(n + 1) = 2 * 2^n
             /\ 2^(2 * n) \in Nat /\ 2^(2 * n) = 2^n * 2^n
             /\ 2^(2 * (n + 1)) = 4 * 2^(2 * n)
  <2>1. 2^n \in Nat /\ 2^(n + 1) = 2 * 2^n
    BY Power
  <2>2. 2^(2 * n) \in Nat
    BY Power, 2 * n \in Nat
  <2>3. 2^n >= 1 /\ 2^(2 * n) = 2^n * 2^n
    BY <1>5 DEF T
  <2> QED
    BY <2>1, <2>2, <2>3, <1>2
<1> QED
  BY <1>1, <1>6

(***************************************************************************)
(* 2. Recursive functions.                                                 *)
(* A recursive function is defined by CHOOSE: that there is one, by        *)
(* induction, and then that it satisfies its equation.                     *)
(***************************************************************************)

\* the equation of zoom_base
BaseEq(f, z) == f = [k \in 0 .. z |-> IF k = 0 THEN 0 ELSE f[k - 1] + 2^(2 * (k - 1))]

\* There is a function that satisfies it.
LEMMA BaseExists ==
  ASSUME NEW z \in Nat
  PROVE  \E f : BaseEq(f, z)
<1> DEFINE T == {n \in Nat : \E f : BaseEq(f, n)}
<1>1. 0 \in T
  <2>1. BaseEq([k \in 0 .. 0 |-> 0], 0)
    <3>1. \A k \in 0 .. 0 : k = 0
      OBVIOUS
    <3> QED
      BY <3>1, Zenon DEF BaseEq
  <2> QED
    BY <2>1, Zenon
<1>2. ASSUME NEW n \in T PROVE n + 1 \in T
  <2>1. PICK f : BaseEq(f, n)
    OBVIOUS
  <2> DEFINE h == [k \in 0 .. n + 1 |-> IF k = n + 1 THEN f[n] + 2^(2 * n) ELSE f[k]]
             G == [k \in 0 .. n + 1 |-> IF k = 0 THEN 0 ELSE h[k - 1] + 2^(2 * (k - 1))]
  <2>2. n \in Nat
    OBVIOUS
  <2> HIDE DEF T
  <2>3. \A k \in 0 .. n : f[k] = IF k = 0 THEN 0 ELSE f[k - 1] + 2^(2 * (k - 1))
    BY <2>1, Zenon DEF BaseEq
  <2>4. ASSUME NEW k \in 0 .. n + 1 PROVE h[k] = G[k]
    <3>1. G[k] = IF k = 0 THEN 0 ELSE h[k - 1] + 2^(2 * (k - 1))
      BY Zenon
    <3>2. h[k] = IF k = n + 1 THEN f[n] + 2^(2 * n) ELSE f[k]
      BY Zenon
    <3>3. CASE k = n + 1
      <4>1. k # 0 /\ k - 1 = n /\ k - 1 \in 0 .. n + 1 /\ k - 1 # n + 1
        BY <3>3, <2>2
      <4>2. h[k - 1] = f[n]
        BY <4>1
      <4> HIDE DEF h, G
      <4> QED
        BY <3>1, <3>2, <3>3, <4>1, <4>2, Zenon
    <3>4. CASE k # n + 1
      <4>1. k \in 0 .. n /\ (k # 0 => k - 1 \in 0 .. n + 1 /\ k - 1 # n + 1)
        BY <3>4, <2>2
      <4>2. k # 0 => h[k - 1] = f[k - 1]
        BY <4>1
      <4> HIDE DEF h, G
      <4> QED
        BY <3>1, <3>2, <3>4, <4>1, <4>2, <2>3, Zenon
    <3> QED
      BY <3>3, <3>4
  <2>5. h = G
    BY <2>4, Zenon
  <2>6. BaseEq(h, n + 1)
    BY <2>5, Zenon DEF BaseEq
  <2> HIDE DEF h
  <2>7. \E x : BaseEq(x, n + 1)
    BY <2>6, Zenon
  <2> QED
    BY <2>2, <2>7 DEF T
<1> HIDE DEF T
<1>3. z \in T
  BY <1>1, <1>2, Induction
<1> QED
  BY <1>3 DEF T

\* Two of them agree where both are defined.
LEMMA BaseUnique ==
  ASSUME NEW a \in Nat, NEW b \in Nat, NEW f, BaseEq(f, a), NEW g, BaseEq(g, b), a <= b
  PROVE  f[a] = g[a]
<1>1. \A k \in 0 .. a : f[k] = IF k = 0 THEN 0 ELSE f[k - 1] + 2^(2 * (k - 1))
  BY Zenon DEF BaseEq
<1>2. \A k \in 0 .. b : g[k] = IF k = 0 THEN 0 ELSE g[k - 1] + 2^(2 * (k - 1))
  BY Zenon DEF BaseEq
<1> DEFINE T == {k \in Nat : k <= a => f[k] = g[k]}
<1>3. 0 \in T
  BY <1>1, <1>2
<1>4. ASSUME NEW k \in Nat, k \in T PROVE k + 1 \in T
  <2>1. CASE k + 1 <= a
    <3>1. k + 1 \in 0 .. a /\ k + 1 \in 0 .. b /\ k + 1 # 0 /\ (k + 1) - 1 = k /\ k <= a
      BY <2>1
    <3>2. f[k] = g[k]
      BY <1>4, <3>1
    <3>3. f[k + 1] = f[k] + 2^(2 * k)
      BY <1>1, <3>1
    <3>4. g[k + 1] = g[k] + 2^(2 * k)
      BY <1>2, <3>1
    <3> QED
      BY <3>2, <3>3, <3>4
  <2>2. CASE ~(k + 1 <= a)
    BY <2>2
  <2> QED
    BY <2>1, <2>2
<1> HIDE DEF T
<1>5. a \in T
  BY <1>3, <1>4, Induction
<1> QED
  BY <1>5 DEF T

\* The tiles before a zoom: none before zoom 0, and 4^z more for every zoom z.
\* (mod.rs: zoom_base)
LEMMA Base ==
  /\ zoom_base(0) = 0
  /\ \A z \in Nat : zoom_base(z) \in Nat /\ zoom_base(z + 1) = zoom_base(z) + 2^(2 * z)
<1> DEFINE F(z) == CHOOSE f : BaseEq(f, z)
<1>1. ASSUME NEW z \in Nat PROVE BaseEq(F(z), z) /\ zoom_base(z) = F(z)[z]
  <2>1. BaseEq(F(z), z)
    BY BaseExists, Zenon
  <2>2. zoom_base(z) = F(z)[z]
    BY Zenon DEF zoom_base, BaseEq
  <2> QED
    BY <2>1, <2>2
<1> HIDE DEF F
<1>2. zoom_base(0) = 0
  <2>1. BaseEq(F(0), 0) /\ zoom_base(0) = F(0)[0] /\ 0 \in 0 .. 0
    BY <1>1
  <2> QED
    BY <2>1, Zenon DEF BaseEq
<1>3. ASSUME NEW z \in Nat PROVE zoom_base(z + 1) = zoom_base(z) + 2^(2 * z)
  <2>1. BaseEq(F(z), z) /\ zoom_base(z) = F(z)[z]
    BY <1>1
  <2>2. BaseEq(F(z + 1), z + 1) /\ zoom_base(z + 1) = F(z + 1)[z + 1]
    BY <1>1
  <2>3. F(z)[z] = F(z + 1)[z]
    BY <2>1, <2>2, BaseUnique
  <2>4. \A k \in 0 .. z + 1 : F(z + 1)[k] = IF k = 0 THEN 0 ELSE F(z + 1)[k - 1] + 2^(2 * (k - 1))
    BY <2>2, Zenon DEF BaseEq
  <2>5. F(z + 1)[z + 1] = F(z + 1)[z] + 2^(2 * z)
    BY <2>4
  <2> QED
    BY <2>1, <2>2, <2>3, <2>5
<1> DEFINE T == {z \in Nat : zoom_base(z) \in Nat}
<1>4. 0 \in T
  BY <1>2
<1>5. ASSUME NEW z \in Nat, z \in T PROVE z + 1 \in T
  <2>1. zoom_base(z + 1) = zoom_base(z) + 2^(2 * z)
    BY <1>3
  <2>2. 2^(2 * z) \in Nat
    BY Powers
  <2>3. zoom_base(z) \in Nat
    BY <1>5
  <2> QED
    BY <2>1, <2>2, <2>3
<1> HIDE DEF T
<1>6. Nat \subseteq T
  BY <1>4, <1>5, Induction
<1>7. \A z \in Nat : zoom_base(z) \in Nat
  BY <1>6 DEF T
<1> QED
  BY <1>2, <1>3, <1>7

\* the turns of a tile, from the whole square down
IsWalk(w, z, x, y) ==
  \A k \in 0 .. z :
    w[k] = IF k = 0 THEN [x |-> x, y |-> y, d |-> 0] ELSE Turn(w[k - 1], 2^z, 2^(z - k))

\* zxy_to_tileid is the base of the zoom and the distance at the end of the turns.
\* (mod.rs: zxy_to_tileid)
LEMMA WalkExists ==
  ASSUME NEW z \in Nat, NEW x, NEW y
  PROVE  \E w : IsWalk(w, z, x, y) /\ zxy_to_tileid(z, x, y) = zoom_base(z) + w[z].d
<1> DEFINE start == [x |-> x, y |-> y, d |-> 0]
           Eq(f, n) == f = [k \in 0 .. n |-> IF k = 0 THEN start ELSE Turn(f[k - 1], 2^z, 2^(z - k))]
           T == {n \in Nat : \E f : Eq(f, n)}
           walk == CHOOSE f : Eq(f, z)
<1> HIDE DEF start
<1>1. 0 \in T
  <2>1. Eq([k \in 0 .. 0 |-> start], 0)
    <3>1. \A k \in 0 .. 0 : k = 0
      OBVIOUS
    <3> QED
      BY <3>1, Zenon
  <2>2. \E f : Eq(f, 0)
    BY <2>1, Zenon
  <2> QED
    BY <2>2
<1>2. ASSUME NEW n \in T PROVE n + 1 \in T
  <2>1. PICK f : Eq(f, n)
    OBVIOUS
  <2> DEFINE h == [k \in 0 .. n + 1 |-> IF k = n + 1 THEN Turn(f[n], 2^z, 2^(z - (n + 1))) ELSE f[k]]
             G == [k \in 0 .. n + 1 |-> IF k = 0 THEN start ELSE Turn(h[k - 1], 2^z, 2^(z - k))]
  <2>2. n \in Nat
    OBVIOUS
  <2> HIDE DEF T
  <2>3. \A k \in 0 .. n : f[k] = IF k = 0 THEN start ELSE Turn(f[k - 1], 2^z, 2^(z - k))
    BY <2>1, Zenon
  <2>4. ASSUME NEW k \in 0 .. n + 1 PROVE h[k] = G[k]
    <3>1. G[k] = IF k = 0 THEN start ELSE Turn(h[k - 1], 2^z, 2^(z - k))
      BY Zenon
    <3>2. h[k] = IF k = n + 1 THEN Turn(f[n], 2^z, 2^(z - (n + 1))) ELSE f[k]
      BY Zenon
    <3>3. CASE k = n + 1
      <4>1. k # 0 /\ k - 1 = n /\ k - 1 \in 0 .. n + 1 /\ k - 1 # n + 1
        BY <3>3, <2>2
      <4>2. h[k - 1] = f[n]
        BY <4>1
      <4> HIDE DEF h, G
      <4> QED
        BY <3>1, <3>2, <3>3, <4>1, <4>2, Zenon
    <3>4. CASE k # n + 1
      <4>1. k \in 0 .. n /\ (k # 0 => k - 1 \in 0 .. n + 1 /\ k - 1 # n + 1)
        BY <3>4, <2>2
      <4>2. k # 0 => h[k - 1] = f[k - 1]
        BY <4>1
      <4> HIDE DEF h, G
      <4> QED
        BY <3>1, <3>2, <3>4, <4>1, <4>2, <2>3, Zenon
    <3> QED
      BY <3>3, <3>4
  <2>5. h = G
    BY <2>4, Zenon
  <2>6. Eq(h, n + 1)
    BY <2>5, Zenon
  <2> HIDE DEF h
  <2>7. \E f_ : Eq(f_, n + 1)
    BY <2>6, Zenon
  <2> QED
    BY <2>2, <2>7 DEF T
<1>3. z \in T
  <2> HIDE DEF T
  <2>1. Nat \subseteq T
    BY <1>1, <1>2, Induction
  <2> QED
    BY <2>1
<1>4. Eq(walk, z)
  BY <1>3, Zenon
<1>5. zxy_to_tileid(z, x, y) = zoom_base(z) + walk[z].d
  BY Zenon DEF zxy_to_tileid, start
<1> HIDE DEF walk
<1>6. IsWalk(walk, z, x, y)
  BY <1>4, Zenon DEF IsWalk, start
<1> QED
  BY <1>5, <1>6

(***************************************************************************)
(* 3. Division and bits.                                                   *)
(***************************************************************************)

\* Division of naturals with a remainder.
LEMMA Division ==
  ASSUME NEW v \in Nat, NEW s \in Nat \ {0}
  PROVE  /\ v \div s \in Nat /\ v % s \in Nat /\ v % s < s
         /\ v = s * (v \div s) + (v % s)
OBVIOUS

\* Which division is the only one.
LEMMA Quotient ==
  ASSUME NEW s \in Nat \ {0}, NEW q \in Nat, NEW r \in Nat, r < s
  PROVE  /\ (s * q + r) \div s = q /\ (s * q + r) % s = r
<1> DEFINE v == s * q + r  a == v \div s  b == v % s
<1>0. v \in Nat
  OBVIOUS
<1>1. a \in Nat /\ b \in Nat /\ b < s /\ v = s * a + b
  BY <1>0, Division
<1>2. s * q + r = s * a + b
  BY <1>1
<1> HIDE DEF a, b, v
<1>3. a = q
  <2>1. CASE a > q
    <3>1. s * a >= s * (q + 1)
      BY <2>1, <1>1
    <3>2. s * (q + 1) = s * q + s
      OBVIOUS
    <3> QED
      BY <3>1, <3>2, <1>1, <1>2
  <2>2. CASE a < q
    <3>1. s * q >= s * (a + 1)
      BY <2>2, <1>1
    <3>2. s * (a + 1) = s * a + s
      BY <1>1
    <3> QED
      BY <3>1, <3>2, <1>1, <1>2
  <2> QED
    BY <2>1, <2>2, <1>1
<1>4. b = r
  BY <1>3, <1>2, <1>1
<1> QED
  BY <1>3, <1>4 DEF a, b, v

\* One more bit of a remainder.
LEMMA BitIs ==
  ASSUME NEW v \in Nat, NEW s \in Nat \ {0}
  PROVE  /\ Bit(v, s) \in {0, 1}
         /\ v % (2 * s) = (v % s) + s * Bit(v, s)
<1> DEFINE q == v \div s  r == v % s  h == q \div 2  b == q % 2
<1>1. q \in Nat /\ r \in Nat /\ r < s /\ v = s * q + r
  BY Division
<1>2. h \in Nat /\ b \in {0, 1} /\ q = 2 * h + b
  BY <1>1
<1>3. Bit(v, s) = b
  BY DEF Bit
<1> HIDE DEF q, r, h, b
<1>4. v = (2 * s) * h + (r + s * b)
  <2>1. s * (2 * h + b) = (2 * s) * h + s * b
    BY <1>2
  <2> QED
    BY <2>1, <1>1, <1>2
<1>5. r + s * b \in Nat /\ r + s * b < 2 * s
  BY <1>1, <1>2
<1>6. v % (2 * s) = r + s * b
  BY <1>4, <1>5, <1>2, Quotient, 2 * s \in Nat \ {0}
<1> QED
  BY <1>6, <1>3, <1>2 DEF r

\* An unsigned difference does not wrap when it is a difference.
LEMMA MinusIs ==
  ASSUME Word \in Nat, NEW a \in Nat, NEW b \in Nat, b <= a, a < Word
  PROVE  Minus(a, b) = a - b
<1>1. a - b \in Nat /\ a - b < Word /\ a + Word - b = Word * 1 + (a - b) /\ Word \in Nat \ {0}
  OBVIOUS
<1>2. (Word * 1 + (a - b)) % Word = a - b
  BY <1>1, Quotient
<1> QED
  BY <1>1, <1>2 DEF Minus

\* Flipping a coordinate of a square flips it in every quadrant whose side divides
\* that of the square.
LEMMA FlipIs ==
  ASSUME NEW s \in Nat \ {0}, NEW m \in Nat, NEW v \in Nat, v < s * m
  PROVE  (s * m - 1 - v) % s = s - 1 - (v % s)
<1> DEFINE q == v \div s  r == v % s
<1>1. q \in Nat /\ r \in Nat /\ r < s /\ v = s * q + r
  BY Division
<1> HIDE DEF q, r
<1>2. q < m
  <2>1. CASE q >= m
    <3>1. s * q >= s * m
      BY <2>1, <1>1
    <3> QED
      BY <3>1, <1>1
  <2> QED
    BY <2>1, <1>1
<1>3. s * m - 1 - v = s * (m - 1 - q) + (s - 1 - r)
  <2>1. s * (m - 1 - q) = s * m - s - s * q
    BY <1>1
  <2> QED
    BY <2>1, <1>1
<1>4. m - 1 - q \in Nat /\ s - 1 - r \in Nat /\ s - 1 - r < s
  BY <1>1, <1>2
<1>5. (s * (m - 1 - q) + (s - 1 - r)) % s = s - 1 - r
  BY <1>4, Quotient
<1> QED
  BY <1>3, <1>5 DEF r

\* Of the multiples of S, one only lies in the S numbers up to D.
LEMMA SameMultiple ==
  ASSUME NEW S \in Nat, NEW a \in Nat, NEW b \in Nat, NEW D \in Nat,
         a * S <= D, D < a * S + S, b * S <= D, D < b * S + S
  PROVE  a * S = b * S
<1>1. CASE a < b
  <2>1. b * S >= (a + 1) * S
    BY <1>1
  <2>2. (a + 1) * S = a * S + S
    OBVIOUS
  <2> QED
    BY <2>1, <2>2
<1>2. CASE b < a
  <2>1. a * S >= (b + 1) * S
    BY <1>2
  <2>2. (b + 1) * S = b * S + S
    OBVIOUS
  <2> QED
    BY <2>1, <2>2
<1> QED
  BY <1>1, <1>2

(***************************************************************************)
(* 4. One turn of the curve.                                               *)
(***************************************************************************)

\* the digit a turn adds: (3 * rx) ^ ry
Quarter(rx, ry) == IF rx = 1 THEN 3 - ry ELSE ry
\* inside a square of side n
InSquare(p, n) == p.x \in Nat /\ p.y \in Nat /\ p.x < n /\ p.y < n
\* a turn adds a number of quadrants to the distance
GoesOn(p, q, s) == \E c \in 0 .. 3 : q.d = p.d + s * s * c
\* the same place in quadrants of side s
SameModulo(p, r, s) == p.x % s = r.x % s /\ p.y % s = r.y % s

\* What a turn does, with the unsigned arithmetic out of the way.
\* (mod.rs: zxy_to_tileid)
LEMMA TurnIs ==
  ASSUME Word \in Nat, NEW n \in Nat, n <= Word, NEW s \in Nat \ {0},
         NEW p, InSquare(p, n)
  PROVE  LET rx == Bit(p.x, s)  ry == Bit(p.y, s)  q == Turn(p, n, s) IN
         /\ rx \in {0, 1} /\ ry \in {0, 1}
         /\ q.x = IF ry = 1 THEN p.x ELSE IF rx = 1 THEN n - 1 - p.y ELSE p.y
         /\ q.y = IF ry = 1 THEN p.y ELSE IF rx = 1 THEN n - 1 - p.x ELSE p.x
         /\ q.d = p.d + s * s * Quarter(rx, ry)
<1> DEFINE rx == Bit(p.x, s)  ry == Bit(p.y, s)
<1>1. rx \in {0, 1} /\ ry \in {0, 1}
  BY BitIs DEF InSquare
<1>2. Minus(n - 1, p.x) = n - 1 - p.x /\ Minus(n - 1, p.y) = n - 1 - p.y
  <2>1. n - 1 \in Nat /\ n - 1 < Word /\ p.x \in Nat /\ p.y \in Nat /\ p.x <= n - 1 /\ p.y <= n - 1
    BY DEF InSquare
  <2> QED
    BY <2>1, MinusIs
<1> DEFINE fx == IF ry = 0 /\ rx = 1 THEN Minus(n - 1, p.x) ELSE p.x
           fy == IF ry = 0 /\ rx = 1 THEN Minus(n - 1, p.y) ELSE p.y
<1>3. Turn(p, n, s) = [x |-> IF ry = 0 THEN fy ELSE fx, y |-> IF ry = 0 THEN fx ELSE fy,
                       d |-> p.d + s * s * (IF rx = 1 THEN 3 - ry ELSE ry)]
  BY Zenon DEF Turn
<1> HIDE DEF rx, ry
<1> QED
  BY <1>1, <1>2, <1>3 DEF Quarter, rx, ry

\* A turn stays in the square.
LEMMA TurnStays ==
  ASSUME Word \in Nat, NEW n \in Nat, n <= Word, NEW s \in Nat \ {0},
         NEW p, InSquare(p, n), p.d \in Nat
  PROVE  /\ InSquare(Turn(p, n, s), n)
         /\ GoesOn(p, Turn(p, n, s), s)
<1> DEFINE rx == Bit(p.x, s)  ry == Bit(p.y, s)  q == Turn(p, n, s)
<1>1. /\ rx \in {0, 1} /\ ry \in {0, 1}
      /\ q.x = IF ry = 1 THEN p.x ELSE IF rx = 1 THEN n - 1 - p.y ELSE p.y
      /\ q.y = IF ry = 1 THEN p.y ELSE IF rx = 1 THEN n - 1 - p.x ELSE p.x
      /\ q.d = p.d + s * s * Quarter(rx, ry)
  BY TurnIs
<1> HIDE DEF rx, ry, q
<1>2. Quarter(rx, ry) \in 0 .. 3
  BY <1>1 DEF Quarter
<1>3. InSquare(q, n)
  BY <1>1 DEF InSquare
<1> QED
  BY <1>1, <1>2, <1>3 DEF q, GoesOn

\* Two tiles that a turn takes to one distance, and to one place of their quadrant,
\* were at one place of the quadrant twice as large.
LEMMA TurnTold ==
  ASSUME Word \in Nat, NEW n \in Nat, n <= Word, NEW s \in Nat \ {0}, NEW m \in Nat, n = s * m,
         NEW p, InSquare(p, n), NEW r, InSquare(r, n), p.d \in Nat, p.d = r.d,
         Turn(p, n, s).d = Turn(r, n, s).d,
         SameModulo(Turn(p, n, s), Turn(r, n, s), s), NEW t, t = 2 * s
  PROVE  SameModulo(p, r, t)
<1> DEFINE rx == Bit(p.x, s)  ry == Bit(p.y, s)  q == Turn(p, n, s)
           ux == Bit(r.x, s)  uy == Bit(r.y, s)  u == Turn(r, n, s)
<1>1. /\ rx \in {0, 1} /\ ry \in {0, 1}
      /\ q.x = IF ry = 1 THEN p.x ELSE IF rx = 1 THEN n - 1 - p.y ELSE p.y
      /\ q.y = IF ry = 1 THEN p.y ELSE IF rx = 1 THEN n - 1 - p.x ELSE p.x
      /\ q.d = p.d + s * s * Quarter(rx, ry)
  BY TurnIs
<1>2. /\ ux \in {0, 1} /\ uy \in {0, 1}
      /\ u.x = IF uy = 1 THEN r.x ELSE IF ux = 1 THEN n - 1 - r.y ELSE r.y
      /\ u.y = IF uy = 1 THEN r.y ELSE IF ux = 1 THEN n - 1 - r.x ELSE r.x
      /\ u.d = r.d + s * s * Quarter(ux, uy)
  BY TurnIs
<1>3. q.d = u.d /\ q.x % s = u.x % s /\ q.y % s = u.y % s
  BY DEF SameModulo
<1> HIDE DEF rx, ry, q, ux, uy, u
<1>4. Quarter(rx, ry) = Quarter(ux, uy)
  <2> DEFINE a == Quarter(rx, ry)  b == Quarter(ux, uy)  S == s * s
  <2>1. a \in Nat /\ b \in Nat /\ S \in Nat /\ S >= 1
    BY <1>1, <1>2 DEF Quarter
  <2>2. S * a = S * b
    <3>1. q.d = p.d + S * a /\ u.d = p.d + S * b /\ q.d = u.d /\ p.d \in Nat
      BY <1>1, <1>2, <1>3
    <3> HIDE DEF a, b, S
    <3> DEFINE v == S * a  w == S * b  e == p.d  f == q.d
    <3>2. v \in Nat /\ w \in Nat
      BY <2>1
    <3>3. f = e + v /\ f = e + w /\ e \in Nat
      BY <3>1
    <3> HIDE DEF v, w, e, f
    <3>4. v = w
      BY <3>2, <3>3
    <3> QED
      BY <3>4 DEF v, w
  <2> HIDE DEF a, b, S
  <2>3. a = b
    <3>1. CASE a < b
      <4>1. S * b >= S * (a + 1) /\ S * (a + 1) = S * a + S
        BY <3>1, <2>1
      <4> QED
        BY <4>1, <2>1, <2>2
    <3>2. CASE b < a
      <4>1. S * a >= S * (b + 1) /\ S * (b + 1) = S * b + S
        BY <3>2, <2>1
      <4> QED
        BY <4>1, <2>1, <2>2
    <3> QED
      BY <3>1, <3>2, <2>1
  <2> QED
    BY <2>3 DEF a, b
<1>5. rx = ux /\ ry = uy
  BY <1>1, <1>2, <1>4 DEF Quarter
<1>6. p.x \in Nat /\ p.y \in Nat /\ r.x \in Nat /\ r.y \in Nat /\ p.x < s * m /\ p.y < s * m /\ r.x < s * m /\ r.y < s * m
  BY DEF InSquare
<1>7. p.x % s = r.x % s /\ p.y % s = r.y % s
  <2>1. CASE ry = 1
    BY <2>1, <1>1, <1>2, <1>3, <1>5
  <2>2. CASE ry = 0 /\ rx = 0
    BY <2>2, <1>1, <1>2, <1>3, <1>5
  <2>3. CASE ry = 0 /\ rx = 1
    <3>1. /\ (n - 1 - p.y) % s = (n - 1 - r.y) % s
          /\ (n - 1 - p.x) % s = (n - 1 - r.x) % s
      BY <2>3, <1>1, <1>2, <1>3, <1>5
    <3>2. /\ (n - 1 - p.x) % s = s - 1 - (p.x % s) /\ (n - 1 - p.y) % s = s - 1 - (p.y % s)
          /\ (n - 1 - r.x) % s = s - 1 - (r.x % s) /\ (n - 1 - r.y) % s = s - 1 - (r.y % s)
      BY <1>6, FlipIs
    <3>3. p.x % s \in Nat /\ p.y % s \in Nat /\ r.x % s \in Nat /\ r.y % s \in Nat
      BY <1>6, Division
    <3> DEFINE a == p.x % s  b == p.y % s  c == r.x % s  e == r.y % s
    <3>4. s - 1 - a = s - 1 - c /\ s - 1 - b = s - 1 - e /\ a \in Nat /\ b \in Nat /\ c \in Nat /\ e \in Nat
      BY <3>1, <3>2, <3>3
    <3> HIDE DEF a, b, c, e
    <3>5. a = c /\ b = e
      BY <3>4
    <3> QED
      BY <3>5 DEF a, b, c, e
  <2> QED
    BY <2>1, <2>2, <2>3, <1>1
<1>8. /\ p.x % (2 * s) = (p.x % s) + s * rx /\ p.y % (2 * s) = (p.y % s) + s * ry
      /\ r.x % (2 * s) = (r.x % s) + s * ux /\ r.y % (2 * s) = (r.y % s) + s * uy
  BY <1>6, BitIs DEF rx, ry, ux, uy
<1> QED
  BY <1>5, <1>7, <1>8 DEF SameModulo

(***************************************************************************)
(* 5. The way along the curve.                                             *)
(* At zoom z the k-th turn takes a tile to its place in a quadrant of side *)
(* 2^(z - k), and adds a multiple of that quadrant's tiles to the distance. *)
(***************************************************************************)

\* Side and tiles of a quadrant, and of the next larger one.
LEMMA Levels ==
  ASSUME NEW z \in Nat, NEW k \in Nat, k < z
  PROVE  /\ 2^(z - (k + 1)) \in Nat \ {0} /\ 2^(z - k) = 2 * 2^(z - (k + 1))
         /\ 2^(2 * (z - (k + 1))) = 2^(z - (k + 1)) * 2^(z - (k + 1))
         /\ 2^(2 * (z - k)) = 4 * (2^(z - (k + 1)) * 2^(z - (k + 1)))
<1> DEFINE j == z - (k + 1)
<1>1. j \in Nat /\ z - k = j + 1
  OBVIOUS
<1>2. /\ 2^j \in Nat /\ 2^j >= 1 /\ 2^(j + 1) = 2 * 2^j
      /\ 2^(2 * j) = 2^j * 2^j /\ 2^(2 * (j + 1)) = 4 * 2^(2 * j)
  BY <1>1, Powers
<1> HIDE DEF j
<1>3. /\ 2^j \in Nat \ {0} /\ 2^(z - k) = 2 * 2^j
      /\ 2^(2 * j) = 2^j * 2^j /\ 2^(2 * (z - k)) = 4 * (2^j * 2^j)
  BY <1>1, <1>2
<1> QED
  BY <1>3 DEF j

\* The side of a quadrant divides that of the square.
LEMMA Divides ==
  ASSUME NEW z \in Nat, NEW k \in 0 .. z
  PROVE  \E m \in Nat : 2^z = 2^(z - k) * m
<1> DEFINE T == {i \in Nat : i <= z => \E m \in Nat : 2^z = 2^(z - i) * m}
<1>1. 0 \in T
  <2>1. 2^z = 2^(z - 0) * 1
    BY Powers
  <2> QED
    BY <2>1
<1>2. ASSUME NEW i \in Nat, i \in T PROVE i + 1 \in T
  <2>1. CASE i + 1 <= z
    <3>1. PICK m \in Nat : 2^z = 2^(z - i) * m
      BY <1>2, <2>1
    <3>2. 2^(z - (i + 1)) \in Nat /\ 2^(z - i) = 2 * 2^(z - (i + 1))
      <4>1. i < z
        BY <2>1
      <4> QED
        BY <4>1, Levels
    <3> DEFINE s == 2^(z - (i + 1))
    <3>3. 2^z = (2 * s) * m /\ s \in Nat
      BY <3>1, <3>2
    <3> HIDE DEF s
    <3>4. 2^z = s * (2 * m) /\ 2 * m \in Nat
      BY <3>3
    <3>5. \E x \in Nat : 2^z = s * x
      BY <3>4
    <3> QED
      BY <3>5 DEF s
  <2>2. CASE ~(i + 1 <= z)
    BY <2>2
  <2> QED
    BY <2>1, <2>2
<1> HIDE DEF T
<1>3. k \in T
  BY <1>1, <1>2, Induction
<1> QED
  BY <1>3 DEF T

\* what is known of the k-th turn: its distance is a multiple of its quadrant, and
\* the rest of the way stays within that quadrant
WalksOn(w, z, k) ==
  /\ InSquare(w[k], 2^z) /\ w[k].d \in Nat
  /\ \E m \in Nat : w[k].d = m * 2^(2 * (z - k))
  /\ w[k].d + 2^(2 * (z - k)) <= 2^(2 * z)
  /\ k < z => w[k].d <= w[k + 1].d /\ w[k + 1].d + 2^(2 * (z - (k + 1))) <= w[k].d + 2^(2 * (z - k))

\* Every turn of a tile of the square is such.
LEMMA WalkStays ==
  ASSUME Word \in Nat, NEW z \in Nat, 2^z <= Word, NEW x, NEW y, NEW w, IsWalk(w, z, x, y),
         x \in 0 .. 2^z - 1, y \in 0 .. 2^z - 1
  PROVE  \A k \in 0 .. z : WalksOn(w, z, k)
<1> DEFINE Good(k) == /\ InSquare(w[k], 2^z) /\ w[k].d \in Nat
                      /\ \E m \in Nat : w[k].d = m * 2^(2 * (z - k))
                      /\ w[k].d + 2^(2 * (z - k)) <= 2^(2 * z)
           Near(k) == w[k].d <= w[k + 1].d /\ w[k + 1].d + 2^(2 * (z - (k + 1))) <= w[k].d + 2^(2 * (z - k))
           T == {k \in Nat : k <= z => Good(k)}
<1>0. 2^z \in Nat /\ 2^(2 * z) \in Nat /\ 2^z >= 1
  BY Powers
<1>1. 0 \in T
  <2>1. w[0] = [x |-> x, y |-> y, d |-> 0]
    BY DEF IsWalk
  <2>2. InSquare(w[0], 2^z) /\ w[0].d = 0
    BY <2>1, <1>0 DEF InSquare
  <2>3. 0 = 0 * 2^(2 * (z - 0)) /\ z - 0 = z
    BY <1>0
  <2>4. Good(0)
    BY <2>2, <2>3, <1>0
  <2> QED
    BY <2>4
<1>2. ASSUME NEW k \in Nat, k < z, Good(k) PROVE Good(k + 1) /\ Near(k)
  <2> DEFINE s == 2^(z - (k + 1))
  <2>1. /\ s \in Nat \ {0} /\ 2^(2 * (z - (k + 1))) = s * s /\ 2^(2 * (z - k)) = 4 * (s * s)
    BY <1>2, Levels
  <2>2. w[k + 1] = Turn(w[k], 2^z, s)
    <3>1. k + 1 \in 0 .. z /\ k + 1 # 0 /\ (k + 1) - 1 = k
      BY <1>2
    <3> QED
      BY <3>1 DEF IsWalk
  <2> HIDE DEF s
  <2>3. PICK c \in 0 .. 3 : InSquare(w[k + 1], 2^z) /\ w[k + 1].d = w[k].d + s * s * c
    <3>1. InSquare(w[k], 2^z) /\ w[k].d \in Nat
      BY <1>2
    <3> HIDE DEF Good, Near
    <3>2. InSquare(Turn(w[k], 2^z, s), 2^z) /\ GoesOn(w[k], Turn(w[k], 2^z, s), s)
      <4>1. 2^z \in Nat /\ s \in Nat \ {0}
        BY <2>1, <1>0
      <4> QED
        BY <4>1, <3>1, TurnStays, Zenon
    <3> QED
      BY <3>2, <2>2 DEF GoesOn
  <2>4. PICK m \in Nat : w[k].d = m * (4 * (s * s))
    BY <1>2, <2>1
  <2> DEFINE S == s * s  a == w[k].d  b == w[k + 1].d
  <2>5. S \in Nat /\ a \in Nat /\ b = a + S * c /\ a = m * (4 * S) /\ a + 4 * S <= 2^(2 * z)
    BY <2>1, <2>3, <2>4, <1>2
  <2>6. 2^(2 * (z - (k + 1))) = S /\ 2^(2 * (z - k)) = 4 * S
    BY <2>1
  <2> HIDE DEF S, a, b
  <2>7. S * c \in Nat /\ S * c <= 3 * S
    <3>1. c = 0 \/ c = 1 \/ c = 2 \/ c = 3
      OBVIOUS
    <3> QED
      BY <3>1, <2>5
  <2>8. b \in Nat /\ b = (4 * m + c) * S /\ 4 * m + c \in Nat
    <3>1. (4 * m + c) * S = m * (4 * S) + S * c
      BY <2>5
    <3> QED
      BY <3>1, <2>5, <2>7
  <2>9. b + S <= a + 4 * S /\ a <= b
    <3> DEFINE t == S * c
    <3>1. t \in Nat /\ t <= 3 * S /\ b = a + t
      BY <2>5, <2>7
    <3> HIDE DEF t
    <3> QED
      BY <3>1, <2>5
  <2>10. b + S <= 2^(2 * z)
    BY <2>9, <2>5, <2>8, <1>0
  <2>11. \E x_ \in Nat : b = x_ * S
    BY <2>8
  <2> QED
    BY <2>3, <2>6, <2>8, <2>9, <2>10, <2>11 DEF a, b
<1> HIDE DEF Good, Near
<1>3. ASSUME NEW k \in Nat, k \in T PROVE k + 1 \in T
  BY <1>2, <1>3
<1> HIDE DEF T
<1>4. Nat \subseteq T
  BY <1>1, <1>3, Induction
<1>5. ASSUME NEW k \in 0 .. z PROVE Good(k) /\ (k < z => Near(k))
  <2>1. Good(k)
    BY <1>4 DEF T
  <2> QED
    BY <2>1, <1>2
<1> QED
  BY <1>5 DEF Good, Near, WalksOn

\* The distance at the end is within the quadrant of every turn.
LEMMA WalkEnds ==
  ASSUME Word \in Nat, NEW z \in Nat, 2^z <= Word, NEW x, NEW y, NEW w, IsWalk(w, z, x, y),
         x \in 0 .. 2^z - 1, y \in 0 .. 2^z - 1, NEW k \in 0 .. z
  PROVE  w[k].d <= w[z].d /\ w[z].d < w[k].d + 2^(2 * (z - k))
<1> DEFINE S(i) == 2^(2 * (z - i))
           Near(i) == w[i].d <= w[i + 1].d /\ w[i + 1].d + S(i + 1) <= w[i].d + S(i)
           T == {j \in Nat : k + j <= z => w[k].d <= w[k + j].d /\ w[k + j].d + S(k + j) <= w[k].d + S(k)}
<1>1. \A i \in 0 .. z : w[i].d \in Nat /\ S(i) \in Nat /\ (i < z => Near(i))
  <2> TAKE i \in 0 .. z
  <2>1. w[i].d \in Nat /\ (i < z => Near(i))
    BY WalkStays DEF WalksOn
  <2>2. z - i \in Nat
    OBVIOUS
  <2> QED
    BY <2>1, <2>2, Powers
<1>2. S(z) = 1
  <2>1. 2 * (z - z) = 0
    OBVIOUS
  <2> QED
    BY <2>1, Powers
<1> HIDE DEF S
<1>3. 0 \in T
  <2>1. k + 0 = k
    OBVIOUS
  <2> QED
    BY <2>1, <1>1
<1>4. ASSUME NEW j \in Nat, j \in T PROVE j + 1 \in T
  <2>1. CASE k + (j + 1) <= z
    <3> DEFINE i == k + j
    <3>1. i \in 0 .. z /\ i < z /\ i + 1 = k + (j + 1) /\ i + 1 \in 0 .. z
      BY <2>1
    <3>2. w[k].d <= w[i].d /\ w[i].d + S(i) <= w[k].d + S(k)
      BY <1>4, <3>1
    <3> HIDE DEF i
    <3>3. Near(i)
      BY <1>1, <3>1
    <3>4. w[k].d \in Nat /\ w[i].d \in Nat /\ w[i + 1].d \in Nat /\ S(k) \in Nat /\ S(i) \in Nat /\ S(i + 1) \in Nat
      BY <1>1, <3>1
    <3>5. w[k].d <= w[i + 1].d /\ w[i + 1].d + S(i + 1) <= w[k].d + S(k)
      BY <3>2, <3>3, <3>4
    <3> QED
      BY <3>1, <3>5
  <2>2. CASE ~(k + (j + 1) <= z)
    BY <2>2
  <2> QED
    BY <2>1, <2>2
<1> HIDE DEF T
<1>5. z - k \in T
  BY <1>3, <1>4, Induction
<1>6. w[k].d <= w[z].d /\ w[z].d + S(z) <= w[k].d + S(k)
  <2>1. k + (z - k) = z
    OBVIOUS
  <2> QED
    BY <1>5, <2>1 DEF T
<1>7. w[k].d \in Nat /\ w[z].d \in Nat /\ S(k) \in Nat
  BY <1>1
<1>8. w[k].d <= w[z].d /\ w[z].d < w[k].d + S(k)
  BY <1>2, <1>6, <1>7
<1> QED
  BY <1>8 DEF S

\* One distance, one tile: going back, the place of both is the same modulo 2, 4, 8
\* ... and at last modulo the square.
LEMMA OnePlace ==
  ASSUME Word \in Nat, NEW z \in Nat, 2^z <= Word,
         NEW x \in 0 .. 2^z - 1, NEW y \in 0 .. 2^z - 1, NEW w, IsWalk(w, z, x, y),
         NEW a \in 0 .. 2^z - 1, NEW b \in 0 .. 2^z - 1, NEW v, IsWalk(v, z, a, b),
         w[z].d = v[z].d
  PROVE  x = a /\ y = b
<1> DEFINE D == w[z].d
           S(i) == 2^(2 * (z - i))
<1>1. \A k \in 0 .. z : InSquare(w[k], 2^z) /\ w[k].d \in Nat /\ \E m \in Nat : w[k].d = m * S(k)
  <2> TAKE k \in 0 .. z
  <2>1. \A i \in 0 .. z : WalksOn(w, z, i)
    BY WalkStays, Zenon
  <2> QED
    BY <2>1 DEF WalksOn
<1>2. \A k \in 0 .. z : InSquare(v[k], 2^z) /\ v[k].d \in Nat /\ \E m \in Nat : v[k].d = m * S(k)
  <2> TAKE k \in 0 .. z
  <2>1. \A i \in 0 .. z : WalksOn(v, z, i)
    BY WalkStays, Zenon
  <2> QED
    BY <2>1 DEF WalksOn
<1>3. ASSUME NEW k \in 0 .. z PROVE w[k].d = v[k].d
  <2>1. PICK m \in Nat : w[k].d = m * S(k)
    BY <1>1
  <2>2. PICK l \in Nat : v[k].d = l * S(k)
    BY <1>2
  <2>3. w[k].d <= D /\ D < w[k].d + S(k)
    BY WalkEnds
  <2>4. v[k].d <= D /\ D < v[k].d + S(k)
    BY WalkEnds
  <2>5. S(k) \in Nat
    BY Powers, z - k \in Nat
  <2>6. D \in Nat
    BY <1>1
  <2> HIDE DEF S, D
  <2>7. m * S(k) = l * S(k)
    <3>1. m * S(k) <= D /\ D < m * S(k) + S(k)
      BY <2>1, <2>3
    <3>2. l * S(k) <= D /\ D < l * S(k) + S(k)
      BY <2>2, <2>4
    <3> QED
      BY <3>1, <3>2, <2>5, <2>6, SameMultiple
  <2> QED
    BY <2>1, <2>2, <2>7
<1> HIDE DEF S, D
<1> DEFINE Alike(k) == w[k].x % 2^(z - k) = v[k].x % 2^(z - k) /\ w[k].y % 2^(z - k) = v[k].y % 2^(z - k)
           T == {j \in Nat : j <= z => Alike(z - j)}
<1>4. 0 \in T
  <2>1. z - (z - 0) = 0 /\ z - 0 = z /\ z \in 0 .. z
    OBVIOUS
  <2>2. w[z].x \in Nat /\ v[z].x \in Nat /\ w[z].y \in Nat /\ v[z].y \in Nat
    BY <1>1, <1>2, <2>1 DEF InSquare
  <2>3. \A n \in Nat : n % 1 = 0
    OBVIOUS
  <2>4. Alike(z)
    <3>1. z - z = 0
      OBVIOUS
    <3> QED
      BY <2>2, <2>3, <3>1, Powers
  <2> QED
    BY <2>1, <2>4
<1>5. ASSUME NEW j \in Nat, j \in T PROVE j + 1 \in T
  <2>1. CASE j + 1 <= z
    <3> DEFINE k == z - (j + 1)
    <3>1. k \in Nat /\ k < z /\ k + 1 = z - j /\ k \in 0 .. z /\ k + 1 \in 0 .. z /\ k + 1 # 0 /\ (k + 1) - 1 = k
      BY <2>1
    <3>2. Alike(k + 1)
      BY <1>5, <2>1, <3>1
    <3> HIDE DEF k
    <3> DEFINE s == 2^(z - (k + 1))
    <3>3. s \in Nat \ {0} /\ 2^(z - k) = 2 * s
      BY <3>1, Levels
    <3>4. w[k + 1] = Turn(w[k], 2^z, s) /\ v[k + 1] = Turn(v[k], 2^z, s)
      BY <3>1 DEF IsWalk
    <3>5. PICK m \in Nat : 2^z = s * m
      BY <3>1, Divides
    <3>6. /\ InSquare(w[k], 2^z) /\ InSquare(v[k], 2^z) /\ w[k].d \in Nat /\ w[k].d = v[k].d
          /\ w[k + 1].d = v[k + 1].d
      BY <1>1, <1>2, <1>3, <3>1
    <3>7. w[k + 1].x % s = v[k + 1].x % s /\ w[k + 1].y % s = v[k + 1].y % s
      BY <3>2
    <3> HIDE DEF s
    <3>8. SameModulo(w[k], v[k], 2 * s)
      <4> DEFINE n == 2^z  p == w[k]  r == v[k]  t == 2 * s
      <4>1. n \in Nat /\ n <= Word /\ n = s * m /\ InSquare(p, n) /\ InSquare(r, n) /\ p.d \in Nat /\ p.d = r.d
        BY <3>5, <3>6, Powers
      <4>2. /\ Turn(p, n, s).d = Turn(r, n, s).d
            /\ SameModulo(Turn(p, n, s), Turn(r, n, s), s)
        BY <3>4, <3>6, <3>7 DEF SameModulo
      <4>3. t = 2 * s
        OBVIOUS
      <4> HIDE DEF n, p, r, t
      <4>4. SameModulo(p, r, t)
        BY <4>1, <4>2, <4>3, <3>3, <3>5, TurnTold, Zenon
      <4> QED
        BY <4>4 DEF p, r, t
    <3>9. Alike(k)
      BY <3>3, <3>8 DEF SameModulo
    <3> QED
      BY <3>9 DEF k
  <2>2. CASE ~(j + 1 <= z)
    BY <2>2
  <2> QED
    BY <2>1, <2>2
<1> HIDE DEF T
<1>6. z \in T
  BY <1>4, <1>5, Induction
<1>7. Alike(0)
  <2>1. z - z = 0
    OBVIOUS
  <2> QED
    BY <1>6, <2>1 DEF T
<1>8. w[0].x = x /\ w[0].y = y /\ v[0].x = a /\ v[0].y = b
  BY DEF IsWalk
<1> DEFINE n == 2^z
<1>9. n \in Nat /\ n >= 1 /\ x % n = a % n /\ y % n = b % n
  <2>1. z - 0 = z
    OBVIOUS
  <2> QED
    BY <1>7, <1>8, <2>1, Powers
<1>10. x \in Nat /\ y \in Nat /\ a \in Nat /\ b \in Nat /\ x < n /\ y < n /\ a < n /\ b < n
  BY <1>9
<1> HIDE DEF n
<1>11. \A c \in Nat : c < n => c % n = c
  <2> TAKE c \in Nat
  <2> HAVE c < n
  <2>1. c = n * 0 + c /\ n \in Nat \ {0}
    BY <1>9
  <2>2. (n * 0 + c) % n = c
    BY <2>1, Quotient
  <2> QED
    BY <2>1, <2>2
<1> QED
  BY <1>9, <1>10, <1>11

(***************************************************************************)
(* 6. Every zoom.                                                          *)
(***************************************************************************)

\* the tiles of a zoom the curve visits
Square(z) == {<<z, x, y>> : x \in 0 .. 2^z - 1, y \in 0 .. 2^z - 1}
\* the bounding boxes of a layer
Boxes == {b \in [c0 : 0 .. 3, c1 : 1 .. 4, r0 : 0 .. 3, r1 : 1 .. 4] : b.c0 < b.c1 /\ b.r0 < b.r1}

\* A function that never falls from one number to the next never falls.
LEMMA Grows ==
  ASSUME NEW f \in [Nat -> Nat], \A n \in Nat : f[n] <= f[n + 1], NEW a \in Nat, NEW b \in Nat, a <= b
  PROVE  f[a] <= f[b]
<1> DEFINE T == {n \in Nat : a <= n => f[a] <= f[n]}
<1>1. 0 \in T
  <2>1. a <= 0 => a = 0
    OBVIOUS
  <2> QED
    BY <2>1
<1>2. ASSUME NEW n \in Nat, n \in T PROVE n + 1 \in T
  <2>1. CASE a <= n
    <3>1. f[a] <= f[n] /\ f[n] <= f[n + 1]
      BY <1>2, <2>1
    <3>2. f[a] \in Nat /\ f[n] \in Nat /\ f[n + 1] \in Nat
      OBVIOUS
    <3>3. f[a] <= f[n + 1]
      BY <3>1, <3>2
    <3> QED
      BY <3>3
  <2>2. CASE a = n + 1
    <3>1. f[a] = f[n + 1] /\ f[a] \in Nat
      BY <2>2
    <3>2. f[a] <= f[n + 1]
      BY <3>1
    <3> QED
      BY <3>2
  <2>3. CASE a > n + 1
    BY <2>3
  <2> QED
    BY <2>1, <2>2, <2>3
<1> HIDE DEF T
<1>3. b \in T
  BY <1>1, <1>2, Induction
<1> QED
  BY <1>3 DEF T

\* So powers of two do not.
LEMMA Rises ==
  ASSUME NEW a \in Nat, NEW b \in Nat, a <= b
  PROVE  2^a <= 2^b
<1> DEFINE f == [n \in Nat |-> 2^n]
<1>1. \A n \in Nat : f[n] = 2^n
  OBVIOUS
<1>2. f \in [Nat -> Nat] /\ \A n \in Nat : f[n] <= f[n + 1]
  <2>1. \A n \in Nat : f[n] = 2^n /\ 2^n \in Nat
    BY Powers
  <2>2. ASSUME NEW n \in Nat PROVE f[n] <= f[n + 1]
    <3>1. 2^n \in Nat /\ 2^(n + 1) = 2 * 2^n
      BY Powers
    <3>2. f[n] = 2^n /\ f[n + 1] = 2^(n + 1)
      BY <2>1
    <3> QED
      BY <3>1, <3>2
  <2> QED
    BY <2>1, <2>2
<1> HIDE DEF f
<1>3. f[a] <= f[b]
  BY <1>2, Grows
<1> QED
  BY <1>1, <1>3

\* The square of every zoom fits the integers.
LEMMA Fits ==
  ASSUME GridAssumption, NEW z \in 0 .. MaxZoom
  PROVE  Word \in Nat /\ 2^z \in Nat /\ 2^z >= 1 /\ 2^z <= Word
<1>1. z \in Nat /\ MaxZoom \in Nat /\ z <= MaxZoom /\ Columns \in Nat /\ Columns >= 1 /\ Word \in Nat
  BY DEF GridAssumption
<1>3. 2^z <= 2^MaxZoom
  BY <1>1, Rises
<1> DEFINE p == 2^MaxZoom
<1>4. p \in Nat /\ p >= 1 /\ 2^(2 * MaxZoom) = p * p
  BY <1>1, Powers
<1>5. Word > 4 * Columns * (p * p)
  BY <1>4 DEF GridAssumption
<1>6. 2^z \in Nat /\ 2^z >= 1 /\ 2^z <= p
  BY <1>1, <1>3, Powers
<1> HIDE DEF p
<1>7. p * p >= p /\ p * p \in Nat
  BY <1>4
<1>8. 4 * Columns * (p * p) >= p * p
  <2> DEFINE q == p * p
  <2>1. q \in Nat
    BY <1>7
  <2> HIDE DEF q
  <2>2. Columns * q >= q /\ Columns * q \in Nat
    BY <2>1, <1>1
  <2>3. 4 * Columns * q = 4 * (Columns * q)
    BY <2>1, <1>1
  <2>4. 4 * Columns * q >= q
    BY <2>1, <2>2, <2>3
  <2> QED
    BY <2>4 DEF q
<1>9. 4 * Columns * (p * p) \in Nat
  BY <1>1, <1>7
<1>10. p <= Word
  <2> DEFINE r == 4 * Columns * (p * p)  q == p * p
  <2>1. Word > r /\ r >= q /\ q >= p /\ r \in Nat /\ q \in Nat /\ p \in Nat
    BY <1>4, <1>5, <1>7, <1>8, <1>9
  <2> HIDE DEF r, q
  <2> QED
    BY <2>1, <1>1
<1> QED
  BY <1>1, <1>4, <1>6, <1>10

\* And so do not the tiles before a zoom.
LEMMA BasesGrow ==
  /\ \A z \in Nat : zoom_base(z) \in Nat
  /\ \A a, b \in Nat : a <= b => zoom_base(a) <= zoom_base(b)
<1>1. \A z \in Nat : zoom_base(z) \in Nat /\ zoom_base(z) <= zoom_base(z + 1)
  <2> TAKE z \in Nat
  <2>1. zoom_base(z) \in Nat /\ zoom_base(z + 1) = zoom_base(z) + 2^(2 * z) /\ 2^(2 * z) \in Nat
    BY Base, Powers
  <2> DEFINE p == 2^(2 * z)
  <2>2. zoom_base(z) \in Nat /\ zoom_base(z + 1) = zoom_base(z) + p /\ p \in Nat
    BY <2>1
  <2> HIDE DEF p
  <2> QED
    BY <2>2
<1>2. ASSUME NEW a \in Nat, NEW b \in Nat, a <= b PROVE zoom_base(a) <= zoom_base(b)
  <2> DEFINE f == [z \in Nat |-> zoom_base(z)]
  <2>1. \A z \in Nat : f[z] = zoom_base(z)
    OBVIOUS
  <2>2. f \in [Nat -> Nat] /\ \A z \in Nat : f[z] <= f[z + 1]
    BY <1>1
  <2> HIDE DEF f
  <2>3. f[a] <= f[b]
    BY <1>2, <2>2, Grows
  <2> QED
    BY <2>1, <2>3
<1> QED
  BY <1>1, <1>2

\* The ids of a zoom lie between its base and the next one. (mod.rs: zxy_to_tileid)
LEMMA InItsZoom ==
  ASSUME GridAssumption, NEW z \in 0 .. MaxZoom, NEW t \in Square(z)
  PROVE  Id(t) \in Nat /\ zoom_base(z) <= Id(t) /\ Id(t) < zoom_base(z + 1)
<1>1. PICK x \in 0 .. 2^z - 1, y \in 0 .. 2^z - 1 : t = <<z, x, y>>
  BY DEF Square
<1>2. Id(t) = zxy_to_tileid(z, x, y)
  BY <1>1 DEF Id
<1>3. z \in Nat /\ z \in 0 .. z
  BY DEF GridAssumption
<1>4. PICK w : IsWalk(w, z, x, y) /\ zxy_to_tileid(z, x, y) = zoom_base(z) + w[z].d
  BY <1>3, WalkExists
<1>5. Word \in Nat /\ 2^z <= Word
  BY Fits
<1>6. \A i \in 0 .. z : WalksOn(w, z, i)
  BY <1>3, <1>4, <1>5, WalkStays, Zenon
<1>7. w[z].d \in Nat /\ w[z].d + 2^(2 * (z - z)) <= 2^(2 * z)
  BY <1>3, <1>6 DEF WalksOn
<1>8. 2^(2 * (z - z)) = 1
  <2>1. 2 * (z - z) = 0
    BY <1>3
  <2> QED
    BY <2>1, Powers
<1> DEFINE p == 2^(2 * z)  d == w[z].d
<1>9. p \in Nat /\ zoom_base(z) \in Nat /\ zoom_base(z + 1) = zoom_base(z) + p /\ d \in Nat /\ d + 1 <= p
  BY <1>3, <1>7, <1>8, Base, Powers
<1>10. Id(t) = zoom_base(z) + d
  BY <1>2, <1>4
<1> HIDE DEF p, d
<1> QED
  BY <1>9, <1>10

\* Two tiles of a zoom with one id are one tile.
LEMMA OneTile ==
  ASSUME GridAssumption, NEW z \in 0 .. MaxZoom, NEW t \in Square(z), NEW u \in Square(z), Id(t) = Id(u)
  PROVE  t = u
<1>1. PICK x \in 0 .. 2^z - 1, y \in 0 .. 2^z - 1 : t = <<z, x, y>>
  BY DEF Square
<1>2. PICK a \in 0 .. 2^z - 1, b \in 0 .. 2^z - 1 : u = <<z, a, b>>
  BY DEF Square
<1>3. z \in Nat /\ z \in 0 .. z /\ Word \in Nat /\ 2^z <= Word
  BY Fits DEF GridAssumption
<1>4. PICK w : IsWalk(w, z, x, y) /\ zxy_to_tileid(z, x, y) = zoom_base(z) + w[z].d
  BY <1>3, WalkExists
<1>5. PICK v : IsWalk(v, z, a, b) /\ zxy_to_tileid(z, a, b) = zoom_base(z) + v[z].d
  BY <1>3, WalkExists
<1>6. Id(t) = zoom_base(z) + w[z].d /\ Id(u) = zoom_base(z) + v[z].d
  BY <1>1, <1>2, <1>4, <1>5 DEF Id
<1>7. \A i \in 0 .. z : WalksOn(w, z, i)
  BY <1>3, <1>4, WalkStays, Zenon
<1>8. \A i \in 0 .. z : WalksOn(v, z, i)
  BY <1>3, <1>5, WalkStays, Zenon
<1>9. w[z].d = v[z].d
  <2>1. w[z].d \in Nat /\ v[z].d \in Nat /\ zoom_base(z) \in Nat
    BY <1>3, <1>7, <1>8, Base DEF WalksOn
  <2> DEFINE d == w[z].d  e == v[z].d  k == zoom_base(z)
  <2>2. k + d = k + e /\ d \in Nat /\ e \in Nat /\ k \in Nat
    BY <2>1, <1>6
  <2> HIDE DEF d, e, k
  <2>3. d = e
    BY <2>2
  <2> QED
    BY <2>3 DEF d, e
<1>10. x = a /\ y = b
  BY <1>3, <1>4, <1>5, <1>9, OnePlace, Zenon
<1> QED
  BY <1>1, <1>2, <1>10

\* And so are two of any zooms: an id names one tile. (write.rs: add; read.rs)
LEMMA OneTileOfAll ==
  ASSUME GridAssumption, NEW z \in 0 .. MaxZoom, NEW k \in 0 .. MaxZoom,
         NEW t \in Square(z), NEW u \in Square(k), Id(t) = Id(u)
  PROVE  t = u
<1>1. /\ Id(t) \in Nat /\ zoom_base(z) <= Id(t) /\ Id(t) < zoom_base(z + 1)
      /\ zoom_base(k) <= Id(t) /\ Id(t) < zoom_base(k + 1)
  BY InItsZoom
<1>2. z \in Nat /\ k \in Nat /\ z + 1 \in Nat /\ k + 1 \in Nat
  BY DEF GridAssumption
<1>3. zoom_base(z) \in Nat /\ zoom_base(z + 1) \in Nat /\ zoom_base(k) \in Nat /\ zoom_base(k + 1) \in Nat
  BY <1>2, BasesGrow
<1>4. z = k
  <2>1. CASE z < k
    <3>1. zoom_base(z + 1) <= zoom_base(k)
      BY <2>1, <1>2, BasesGrow
    <3> QED
      BY <3>1, <1>1, <1>3
  <2>2. CASE k < z
    <3>1. zoom_base(k + 1) <= zoom_base(z)
      BY <2>2, <1>2, BasesGrow
    <3> QED
      BY <3>1, <1>1, <1>3
  <2> QED
    BY <2>1, <2>2, <1>2
<1> QED
  BY <1>4, OneTile

\* A box that is not empty covers a column, and a row.
LEMMA QuarterIn ==
  ASSUME NEW w \in Nat, w >= 1, NEW c \in 0 .. 3, NEW e \in 1 .. 4, c < e
  PROVE  \E x \in 0 .. w - 1 : 4 * x < e * w /\ c * w < 4 * (x + 1)
<1> DEFINE v == c * w  x == v \div 4  u == e * w
<1>1. v \in Nat /\ v <= 3 * w
  BY c = 0 \/ c = 1 \/ c = 2 \/ c = 3
<1>2. u \in Nat /\ v < u
  <2>1. e = 1 \/ e = 2 \/ e = 3 \/ e = 4
    OBVIOUS
  <2>2. c = 0 \/ c = 1 \/ c = 2 \/ c = 3
    OBVIOUS
  <2> QED
    BY <2>1, <2>2
<1> HIDE DEF v, u
<1>3. x \in Nat /\ 4 * x <= v /\ v < 4 * (x + 1)
  BY <1>1
<1> HIDE DEF x
<1>4. x \in 0 .. w - 1 /\ 4 * x < u
  BY <1>1, <1>2, <1>3
<1> QED
  BY <1>3, <1>4 DEF v, u

\* So every box touches a tile of every zoom. (tms.rs: tile_limits)
LEMMA Touched ==
  ASSUME GridAssumption, NEW z \in 0 .. MaxZoom, box \in Boxes
  PROVE  Limits(z) # {}
<1>1. 2^z \in Nat /\ 2^z >= 1 /\ Columns \in Nat /\ Columns >= 1
  BY Fits DEF GridAssumption
<1>2. MatrixH(z) \in Nat /\ MatrixH(z) >= 1 /\ MatrixW(z) \in Nat /\ MatrixW(z) >= 1
  BY <1>1 DEF MatrixH, MatrixW
<1>3. /\ box.c0 \in 0 .. 3 /\ box.c1 \in 1 .. 4 /\ box.c0 < box.c1
      /\ box.r0 \in 0 .. 3 /\ box.r1 \in 1 .. 4 /\ box.r0 < box.r1
  BY DEF Boxes
<1>4. PICK x \in 0 .. MatrixW(z) - 1 : 4 * x < box.c1 * MatrixW(z) /\ box.c0 * MatrixW(z) < 4 * (x + 1)
  BY <1>2, <1>3, QuarterIn
<1>5. PICK y \in 0 .. MatrixH(z) - 1 : 4 * y < box.r1 * MatrixH(z) /\ box.r0 * MatrixH(z) < 4 * (y + 1)
  BY <1>2, <1>3, QuarterIn
<1> DEFINE t == <<z, x, y>>
<1>6. t \in GridTiles(z) /\ t[2] = x /\ t[3] = y
  BY DEF GridTiles
<1> HIDE DEF t
<1>7. t \in Limits(z)
  BY <1>4, <1>5, <1>6 DEF Limits
<1> QED
  BY <1>7

\* A tile of the grid left of column 2^z is in the square.
LEMMA InTheSquare ==
  ASSUME GridAssumption, NEW z \in 0 .. MaxZoom, NEW t \in GridTiles(z), t[2] < 2^z
  PROVE  t \in Square(z)
<1>1. PICK x \in 0 .. MatrixW(z) - 1, y \in 0 .. MatrixH(z) - 1 : t = <<z, x, y>>
  BY DEF GridTiles
<1>2. 2^z \in Nat /\ x \in Nat /\ x < 2^z /\ y \in 0 .. 2^z - 1
  <2>1. x < 2^z
    BY <1>1
  <2>2. 2^z \in Nat
    BY Fits
  <2> QED
    BY <2>1, <2>2 DEF MatrixH
<1>3. x \in 0 .. 2^z - 1
  BY <1>2
<1> QED
  BY <1>1, <1>2, <1>3 DEF Square

(***************************************************************************)
(* 7. The bake.                                                            *)
(***************************************************************************)

\* the stages a bake goes through, and the types
Stages == bakeStage \in {"baking", "refused", "serving"} /\ zoom \in 0 .. MaxZoom + 1 /\ box \in Boxes /\ lastId \in Nat
\* under every id of the archive lies the tile of that id, of a zoom already baked
OnlyItsTiles ==
  \A id \in DOMAIN baked :
    \E z \in 0 .. MaxZoom : z < zoom /\ baked[id] \in Square(z) /\ Id(baked[id]) = id
\* the last id added is of a zoom already baked
LastOfAll == baked = NothingYet \/ lastId < zoom_base(zoom)
\* and every tile touched in those zooms is there, under its own id
AllTouched ==
  \A z \in 0 .. MaxZoom : z < zoom => \A t \in Limits(z) : Id(t) \in DOMAIN baked /\ baked[Id(t)] = t

\* the invariant of a bake: it is inductive because the zooms' ids do not overlap and
\* an id names one tile
BakeInv == Stages /\ OnlyItsTiles /\ LastOfAll /\ AllTouched /\ AnswersAddressableTiles

\* It holds before the first zoom.
LEMMA StartSound ==
  ASSUME GridAssumption, BakeInit
  PROVE  BakeInv
<1>1. Stages
  BY DEF BakeInit, Stages, Boxes, GridAssumption
<1>2. OnlyItsTiles /\ LastOfAll
  BY DEF BakeInit, NothingYet, OnlyItsTiles, LastOfAll
<1>3. AllTouched
  <2>1. \A z \in 0 .. MaxZoom : ~(z < zoom)
    BY DEF BakeInit, GridAssumption
  <2> QED
    BY <2>1 DEF AllTouched
<1>4. AnswersAddressableTiles
  BY DEF BakeInit, NothingAsked, AnswersAddressableTiles
<1> QED
  BY <1>1, <1>2, <1>3, <1>4 DEF BakeInv

\* The grid check lets through zooms whose touched tiles are all in the square.
\* (generate.rs, raster.rs: the check before the bake)
LEMMA LimitsInSquare ==
  ASSUME GridAssumption, NEW z \in 0 .. MaxZoom, Addressable(z)
  PROVE  Limits(z) \subseteq Square(z)
<1> SUFFICES ASSUME NEW t \in Limits(z) PROVE t \in Square(z)
  OBVIOUS
<1>1. t \in GridTiles(z)
  BY DEF Limits
<1>2. t[2] < 2^z
  BY DEF Addressable
<1> QED
  BY <1>1, <1>2, InTheSquare

\* And these the writer always takes. (write.rs: add)
LEMMA AlwaysAscends ==
  ASSUME GridAssumption, BakeInv, zoom \in 0 .. MaxZoom, Addressable(zoom)
  PROVE  Ascends(Limits(zoom))
<1>1. Limits(zoom) \subseteq Square(zoom)
  BY LimitsInSquare
<1>2. \A t, u \in Limits(zoom) : Id(t) = Id(u) => t = u
  BY <1>1, OneTile
<1>3. ASSUME baked # NothingYet, NEW t \in Limits(zoom) PROVE Id(t) > lastId
  <2>1. Id(t) \in Nat /\ zoom_base(zoom) <= Id(t)
    BY <1>1, InItsZoom
  <2>2. lastId < zoom_base(zoom) /\ lastId \in Nat
    BY <1>3 DEF BakeInv, LastOfAll, Stages
  <2>3. zoom_base(zoom) \in Nat
    BY BasesGrow DEF GridAssumption
  <2> QED
    BY <2>1, <2>2, <2>3
<1> QED
  BY <1>2, <1>3 DEF Ascends

\* Baking a zoom keeps the invariant.
LEMMA BakeStep ==
  ASSUME GridAssumption, BakeInv, BakeZoom
  PROVE  BakeInv'
<1> DEFINE ts == Limits(zoom)
           ids == {Id(t) : t \in ts}
           pick(id) == CHOOSE t \in ts : Id(t) = id
<1>0. MaxZoom \in Nat
  BY DEF GridAssumption
<1>1. zoom \in 0 .. MaxZoom /\ Addressable(zoom)
  <2>1. zoom \in 0 .. MaxZoom + 1
    BY DEF BakeInv, Stages
  <2>2. zoom <= MaxZoom /\ Addressable(zoom)
    BY Zenon DEF BakeZoom
  <2> QED
    BY <2>1, <2>2, <1>0
<1>2. Ascends(ts)
  BY <1>1, AlwaysAscends
<1>3. /\ baked' = [id \in DOMAIN baked \cup ids |-> IF id \in ids THEN pick(id) ELSE baked[id]]
      /\ lastId' = Max(ids) /\ zoom' = zoom + 1 /\ UNCHANGED <<bakeStage, box, answer>>
  BY <1>2, Zenon DEF BakeZoom
<1>4. ts \subseteq Square(zoom)
  BY <1>1, LimitsInSquare
<1>5. \A t \in ts : Id(t) \in Nat /\ zoom_base(zoom) <= Id(t) /\ Id(t) < zoom_base(zoom + 1)
  BY <1>1, <1>4, InItsZoom
<1>6. \A t \in ts : pick(Id(t)) = t
  <2> TAKE t \in ts
  <2>1. pick(Id(t)) \in ts /\ Id(pick(Id(t))) = Id(t)
    OBVIOUS
  <2> HIDE DEF pick
  <2> QED
    BY <1>2, <2>1 DEF Ascends
<1>7. ts # {}
  BY <1>1, Touched DEF BakeInv, Stages
<1> HIDE DEF pick
<1>8. Max(ids) \in ids
  <2>1. ids \in SUBSET Nat /\ ids # {}
    BY <1>5, <1>7
  <2>2. zoom_base(zoom + 1) \in Nat
    BY <1>1, BasesGrow
  <2>3. \A k \in ids : k < zoom_base(zoom + 1)
    BY <1>5
  <2> HIDE DEF ids
  <2> QED
    BY <2>1, <2>2, <2>3, GreatestElement
<1>9. Stages'
  <2>1. lastId' \in Nat
    BY <1>3, <1>5, <1>8
  <2>2. zoom' \in 0 .. MaxZoom + 1
    BY <1>0, <1>1, <1>3
  <2> QED
    BY <2>1, <2>2, <1>3 DEF BakeInv, Stages
<1>10. OnlyItsTiles'
  <2> SUFFICES ASSUME NEW id \in DOMAIN baked'
               PROVE  \E z \in 0 .. MaxZoom : z < zoom' /\ baked'[id] \in Square(z) /\ Id(baked'[id]) = id
    BY DEF OnlyItsTiles
  <2>1. CASE id \in ids
    <3>1. PICK t \in ts : id = Id(t)
      BY <2>1
    <3>2. baked'[id] = t
      BY <2>1, <3>1, <1>3, <1>6
    <3>3. zoom < zoom'
      BY <1>1, <1>3
    <3> QED
      BY <3>1, <3>2, <3>3, <1>1, <1>4
  <2>2. CASE id \notin ids
    <3>1. id \in DOMAIN baked /\ baked'[id] = baked[id]
      BY <2>2, <1>3
    <3>2. PICK z \in 0 .. MaxZoom : z < zoom /\ baked[id] \in Square(z) /\ Id(baked[id]) = id
      BY <3>1 DEF BakeInv, OnlyItsTiles
    <3>3. z < zoom'
      BY <3>2, <1>0, <1>1, <1>3
    <3> QED
      BY <3>1, <3>2, <3>3
  <2> QED
    BY <2>1, <2>2
<1>11. LastOfAll'
  <2>1. lastId' < zoom_base(zoom + 1)
    BY <1>3, <1>5, <1>8
  <2> QED
    BY <2>1, <1>3 DEF LastOfAll, zoom_base
<1>12. AllTouched'
  <2>1. \A z : Limits(z)' = Limits(z)
    BY <1>3 DEF Limits, GridTiles, MatrixW, MatrixH
  <2> SUFFICES ASSUME NEW z \in 0 .. MaxZoom, z < zoom', NEW t \in Limits(z)
               PROVE  Id(t) \in DOMAIN baked' /\ baked'[Id(t)] = t
    BY <2>1 DEF AllTouched
  <2>2. CASE z = zoom
    <3>1. Id(t) \in ids
      BY <2>2
    <3> QED
      BY <2>2, <3>1, <1>3, <1>6
  <2>3. CASE z # zoom
    <3>1. z < zoom
      BY <2>3, <1>0, <1>1, <1>3
    <3>2. Id(t) \in DOMAIN baked /\ baked[Id(t)] = t
      BY <3>1 DEF BakeInv, AllTouched
    <3>3. CASE Id(t) \in ids
      <4>1. PICK u \in ts : Id(u) = Id(t)
        BY <3>3
      <4>2. PICK k \in 0 .. MaxZoom : baked[Id(t)] \in Square(k)
        BY <3>2 DEF BakeInv, OnlyItsTiles
      <4>3. u = t
        BY <4>1, <4>2, <3>2, <1>1, <1>4, OneTileOfAll
      <4> QED
        BY <3>3, <4>1, <4>3, <1>3, <1>6
    <3>4. CASE Id(t) \notin ids
      BY <3>2, <3>4, <1>3
    <3> QED
      BY <3>3, <3>4
  <2> QED
    BY <2>2, <2>3
<1>13. AnswersAddressableTiles'
  BY <1>3 DEF BakeInv, AnswersAddressableTiles
<1> QED
  BY <1>9, <1>10, <1>11, <1>12, <1>13 DEF BakeInv

\* And a request does: it finds the tile asked or nothing.
LEMMA ServeStep ==
  ASSUME GridAssumption, BakeInv, NEW t \in Published, Serve(t)
  PROVE  BakeInv'
<1>1. UNCHANGED <<box, zoom, bakeStage, lastId, baked>>
  BY DEF Serve
<1>2. Stages' /\ OnlyItsTiles' /\ LastOfAll' /\ AllTouched'
  BY <1>1 DEF BakeInv, Stages, OnlyItsTiles, LastOfAll, AllTouched, Limits, GridTiles, MatrixW, MatrixH
<1>3. ASSUME t[2] < 2^(t[1]) PROVE get_raw(t[1], t[2], t[3]) \in {None, t}
  <2>1. PICK z \in 0 .. MaxZoom : t \in GridTiles(z)
    BY DEF Published, Zooms
  <2>2. t[1] = z /\ t \in Square(z)
    <3>1. t[1] = z
      BY <2>1 DEF GridTiles
    <3> QED
      BY <3>1, <2>1, <1>3, InTheSquare
  <2>3. get_raw(t[1], t[2], t[3]) = Lookup(Id(t))
    BY DEF get_raw, Id
  <2>4. CASE Id(t) \in DOMAIN baked
    <3>1. PICK k \in 0 .. MaxZoom : baked[Id(t)] \in Square(k) /\ Id(baked[Id(t)]) = Id(t)
      BY <2>4 DEF BakeInv, OnlyItsTiles
    <3>2. baked[Id(t)] = t
      BY <2>2, <3>1, OneTileOfAll
    <3> QED
      BY <2>3, <2>4, <3>2 DEF Lookup
  <2>5. CASE Id(t) \notin DOMAIN baked
    BY <2>3, <2>5 DEF Lookup
  <2> QED
    BY <2>4, <2>5
<1>4. AnswersAddressableTiles'
  <2>1. answer' = [asked |-> t, got |-> IF get_raw(t[1], t[2], t[3]) # None THEN get_raw(t[1], t[2], t[3]) ELSE t]
    BY DEF Serve
  <2>2. answer'.asked = t /\ (t[2] < 2^(t[1]) => answer'.got = t)
    BY <2>1, <1>3
  <2> QED
    BY <2>2 DEF AnswersAddressableTiles
<1> QED
  BY <1>2, <1>4 DEF BakeInv

\* The other steps leave the archive alone.
LEMMA OtherStep ==
  ASSUME GridAssumption, BakeInv, Refuse \/ Finished \/ UNCHANGED bakeVars
  PROVE  BakeInv'
<1>1. UNCHANGED <<box, zoom, lastId, baked, answer>> /\ bakeStage' \in {"refused", "serving", bakeStage}
  BY DEF Refuse, Finished, bakeVars
<1> QED
  BY <1>1 DEF BakeInv, Stages, OnlyItsTiles, LastOfAll, AllTouched, Limits, GridTiles, MatrixW, MatrixH,
    AnswersAddressableTiles

\* The invariant of the bake holds in every reachable state, for any grid whose ids
\* fit the integers.
THEOREM BakeSound == BakeSpec => []BakeInv
<1> USE TheGrid
<1>1. BakeInit => BakeInv
  BY StartSound
<1>2. BakeInv /\ [BakeNext]_bakeVars => BakeInv'
  BY BakeStep, ServeStep, OtherStep DEF BakeNext
<1> QED
  BY <1>1, <1>2, PTL DEF BakeSpec

\* A bake that passes the grid check is never broken off by the ascending-id check of
\* the writer, for any number of zooms and any extent of the layer.
\* (generate.rs, raster.rs; write.rs: add)
THEOREM NeverBreaksOff == BakeSpec => []BakesInAscendingOrder
<1> USE TheGrid
<1>1. BakeInv => BakesInAscendingOrder
  BY DEF BakeInv, Stages, BakesInAscendingOrder
<1> QED
  BY <1>1, BakeSound, PTL

\* A request inside the square is answered its own tile, from the archive or live, for
\* any grid and any extent of the layer. (mvt_http.rs: render_mvt_tile)
THEOREM AnswersTheTile == BakeSpec => []AnswersAddressableTiles
<1> USE TheGrid
<1>1. BakeInv => AnswersAddressableTiles
  BY DEF BakeInv
<1> QED
  BY <1>1, BakeSound, PTL

\* What a step of a bake may do to the archive: it keeps every tile it holds, and every
\* tile it adds comes after all of these.
GrowsAtItsEnd ==
  /\ \A id \in DOMAIN baked : id \in DOMAIN baked' /\ baked'[id] = baked[id]
  /\ \A id \in DOMAIN baked, new \in DOMAIN baked' \ DOMAIN baked : id < new

\* No step of a bake overwrites a tile or adds one below another: the directory the
\* writer builds is in ascending order over all zooms, and a request never sees a tile
\* change. (generate.rs, raster.rs; write.rs: add)
THEOREM ArchiveGrowsAtItsEnd == BakeSpec => [][GrowsAtItsEnd]_bakeVars
<1> USE TheGrid
<1>1. ASSUME BakeInv, BakeZoom PROVE GrowsAtItsEnd
  <2> DEFINE ts == Limits(zoom)
             ids == {Id(t) : t \in ts}
  <2>1. zoom \in 0 .. MaxZoom /\ Addressable(zoom)
    <3>1. zoom \in 0 .. MaxZoom + 1 /\ zoom <= MaxZoom /\ Addressable(zoom) /\ MaxZoom \in Nat
      BY <1>1, Zenon DEF BakeZoom, BakeInv, Stages, GridAssumption
    <3> QED
      BY <3>1
  <2>2. Ascends(ts) /\ ts \subseteq Square(zoom)
    BY <1>1, <2>1, AlwaysAscends, LimitsInSquare
  <2>3. /\ DOMAIN baked' = DOMAIN baked \cup ids
        /\ \A id \in DOMAIN baked : id \notin ids => baked'[id] = baked[id]
    BY <1>1, <2>2 DEF BakeZoom
  <2>4. ASSUME NEW id \in DOMAIN baked, NEW t \in ts PROVE id < Id(t)
    <3>1. PICK z \in 0 .. MaxZoom : z < zoom /\ baked[id] \in Square(z) /\ Id(baked[id]) = id
      BY <1>1 DEF BakeInv, OnlyItsTiles
    <3>2. id \in Nat /\ id < zoom_base(z + 1)
      BY <3>1, InItsZoom
    <3>3. Id(t) \in Nat /\ zoom_base(zoom) <= Id(t)
      BY <2>1, <2>2, InItsZoom
    <3>4. z + 1 \in Nat /\ zoom \in Nat /\ z + 1 <= zoom
      BY <2>1, <3>1 DEF GridAssumption
    <3>5. zoom_base(z + 1) <= zoom_base(zoom) /\ zoom_base(z + 1) \in Nat /\ zoom_base(zoom) \in Nat
      BY <3>4, BasesGrow
    <3> QED
      BY <3>2, <3>3, <3>5
  <2>5. \A id \in DOMAIN baked : id \in Nat /\ id \notin ids
    <3> TAKE id \in DOMAIN baked
    <3>1. id \in Nat
      <4>1. PICK z \in 0 .. MaxZoom : baked[id] \in Square(z) /\ Id(baked[id]) = id
        BY <1>1 DEF BakeInv, OnlyItsTiles
      <4> QED
        BY <4>1, InItsZoom
    <3>2. ~(id < id)
      BY <3>1
    <3> QED
      BY <3>1, <3>2, <2>4
  <2> HIDE DEF ids
  <2>6. \A id \in DOMAIN baked, new \in ids : id < new
    BY <2>4 DEF ids
  <2> QED
    BY <2>3, <2>5, <2>6 DEF GrowsAtItsEnd
<1>2. ASSUME UNCHANGED baked PROVE GrowsAtItsEnd
  BY <1>2 DEF GrowsAtItsEnd
<1>3. BakeInv /\ [BakeNext]_bakeVars => [GrowsAtItsEnd]_bakeVars
  BY <1>1, <1>2 DEF BakeNext, Refuse, Finished, Serve, bakeVars
<1> QED
  BY <1>3, BakeSound, PTL DEF BakeSpec

(***************************************************************************)
(* 8. The way back.                                                        *)
(***************************************************************************)

\* the places on the way back, from a single tile up to the square
IsBack(b, z, d) ==
  \A k \in 0 .. z :
    b[k] = IF k = 0 THEN [x |-> 0, y |-> 0] ELSE Back(b[k - 1], 2^(k - 1), d \div 2^(2 * (k - 1)))

\* the zoom tileid_to_zxy finds
ZoomOf(id) == CHOOSE k \in 0 .. id : zoom_base(k) <= id /\ id < zoom_base(k + 1)

\* tileid_to_zxy is the zoom and the place at the end of the way back.
\* (mod.rs: tileid_to_zxy)
LEMMA BackExists ==
  ASSUME NEW id, NEW z \in Nat, z = ZoomOf(id)
  PROVE  \E b : IsBack(b, z, id - zoom_base(z)) /\ tileid_to_zxy(id) = <<z, b[z].x, b[z].y>>
<1> DEFINE e == id - zoom_base(z)
           start == [x |-> 0, y |-> 0]
           Step(p, k) == Back(p, 2^(k - 1), e \div 2^(2 * (k - 1)))
           Eq(f, n) == f = [k \in 0 .. n |-> IF k = 0 THEN start ELSE Step(f[k - 1], k)]
           T == {n \in Nat : \E f : Eq(f, n)}
           walk == CHOOSE f : Eq(f, z)
<1> HIDE DEF start, Step
<1>1. 0 \in T
  <2>1. Eq([k \in 0 .. 0 |-> start], 0)
    <3>1. \A k \in 0 .. 0 : k = 0
      OBVIOUS
    <3> QED
      BY <3>1, Zenon
  <2>2. \E f : Eq(f, 0)
    BY <2>1, Zenon
  <2> QED
    BY <2>2
<1>2. ASSUME NEW n \in T PROVE n + 1 \in T
  <2>1. PICK f : Eq(f, n)
    OBVIOUS
  <2> DEFINE h == [k \in 0 .. n + 1 |-> IF k = n + 1 THEN Step(f[n], n + 1) ELSE f[k]]
             G == [k \in 0 .. n + 1 |-> IF k = 0 THEN start ELSE Step(h[k - 1], k)]
  <2>2. n \in Nat
    OBVIOUS
  <2> HIDE DEF T
  <2>3. \A k \in 0 .. n : f[k] = IF k = 0 THEN start ELSE Step(f[k - 1], k)
    BY <2>1, Zenon
  <2>4. ASSUME NEW k \in 0 .. n + 1 PROVE h[k] = G[k]
    <3>1. G[k] = IF k = 0 THEN start ELSE Step(h[k - 1], k)
      BY Zenon
    <3>2. h[k] = IF k = n + 1 THEN Step(f[n], n + 1) ELSE f[k]
      BY Zenon
    <3>3. CASE k = n + 1
      <4>1. k # 0 /\ k - 1 = n /\ k - 1 \in 0 .. n + 1 /\ k - 1 # n + 1
        BY <3>3, <2>2
      <4>2. h[k - 1] = f[n]
        BY <4>1
      <4> HIDE DEF h, G
      <4> QED
        BY <3>1, <3>2, <3>3, <4>1, <4>2, Zenon
    <3>4. CASE k # n + 1
      <4>1. k \in 0 .. n /\ (k # 0 => k - 1 \in 0 .. n + 1 /\ k - 1 # n + 1)
        BY <3>4, <2>2
      <4>2. k # 0 => h[k - 1] = f[k - 1]
        BY <4>1
      <4> HIDE DEF h, G
      <4> QED
        BY <3>1, <3>2, <3>4, <4>1, <4>2, <2>3, Zenon
    <3> QED
      BY <3>3, <3>4
  <2>5. h = G
    BY <2>4, Zenon
  <2>6. Eq(h, n + 1)
    BY <2>5, Zenon
  <2> HIDE DEF h
  <2>7. \E f_ : Eq(f_, n + 1)
    BY <2>6, Zenon
  <2> QED
    BY <2>2, <2>7 DEF T
<1>3. z \in T
  <2> HIDE DEF T
  <2>1. Nat \subseteq T
    BY <1>1, <1>2, Induction
  <2> QED
    BY <2>1
<1>4. Eq(walk, z)
  BY <1>3, Zenon
<1>5. tileid_to_zxy(id) = <<z, walk[z].x, walk[z].y>>
  BY Zenon DEF tileid_to_zxy, ZoomOf, start, Step
<1> HIDE DEF walk
<1>6. IsBack(walk, z, e)
  BY <1>4, Zenon DEF IsBack, start, Step
<1> QED
  BY <1>5, <1>6

\* What one step back does, by the digit of the distance.
LEMMA BackIs ==
  ASSUME Word \in Nat, NEW s \in Nat \ {0}, s <= Word, NEW p, InSquare(p, s), NEW t \in Nat
  PROVE  /\ t % 4 = 0 => Back(p, s, t) = [x |-> p.y, y |-> p.x]
         /\ t % 4 = 1 => Back(p, s, t) = [x |-> p.x, y |-> s + p.y]
         /\ t % 4 = 2 => Back(p, s, t) = [x |-> s + p.x, y |-> s + p.y]
         /\ t % 4 = 3 => Back(p, s, t) = [x |-> s + (s - 1 - p.y), y |-> s - 1 - p.x]
<1> DEFINE rx == (t \div 2) % 2  ry == (t + rx) % 2
<1>1. p.x \in Nat /\ p.y \in Nat /\ p.x < s /\ p.y < s
  BY DEF InSquare
<1>2. Minus(s - 1, p.x) = s - 1 - p.x /\ Minus(s - 1, p.y) = s - 1 - p.y
  <2>1. s - 1 \in Nat /\ s - 1 < Word /\ p.x <= s - 1 /\ p.y <= s - 1
    BY <1>1
  <2> QED
    BY <1>1, <2>1, MinusIs
<1> DEFINE fx == IF ry = 0 /\ rx = 1 THEN Minus(s - 1, p.x) ELSE p.x
           fy == IF ry = 0 /\ rx = 1 THEN Minus(s - 1, p.y) ELSE p.y
<1>3. Back(p, s, t) = [x |-> s * rx + (IF ry = 0 THEN fy ELSE fx), y |-> s * ry + (IF ry = 0 THEN fx ELSE fy)]
  BY Zenon DEF Back
<1>4. /\ t % 4 = 0 => rx = 0 /\ ry = 0
      /\ t % 4 = 1 => rx = 0 /\ ry = 1
      /\ t % 4 = 2 => rx = 1 /\ ry = 1
      /\ t % 4 = 3 => rx = 1 /\ ry = 0
  OBVIOUS
<1> HIDE DEF rx, ry
<1>5. s * 0 = 0 /\ s * 1 = s
  OBVIOUS
<1> QED
  BY <1>1, <1>2, <1>3, <1>4, <1>5

\* A number in quadrants of S, and in quadrants four times as large.
LEMMA Digits ==
  ASSUME NEW S \in Nat \ {0}, NEW D \in Nat
  PROVE  LET t == D \div S  r == D % S  c == t % 4 IN
         /\ t \in Nat /\ r \in Nat /\ r < S /\ c \in 0 .. 3
         /\ D = S * t + r
         /\ D % (4 * S) = S * c + r
         /\ D \div (4 * S) = t \div 4
<1> DEFINE t == D \div S  r == D % S  c == t % 4  q == t \div 4
<1>1. t \in Nat /\ r \in Nat /\ r < S /\ D = S * t + r
  BY Division
<1> HIDE DEF t, r
<1>2. c \in 0 .. 3 /\ q \in Nat /\ t = 4 * q + c
  BY <1>1
<1> HIDE DEF c, q
<1>3. S * t = S * (4 * q) + S * c
  BY <1>2
<1>4. S * (4 * q) = (4 * S) * q
  BY <1>2
<1>5. S * c \in Nat /\ S * c + r < 4 * S
  <2>1. c = 0 \/ c = 1 \/ c = 2 \/ c = 3
    BY <1>2
  <2> QED
    BY <2>1, <1>1
<1>6. D = (4 * S) * q + (S * c + r)
  <2> DEFINE a == S * t  b == S * (4 * q)  d == S * c  e == (4 * S) * q
  <2>1. a = b + d /\ b = e /\ D = a + r /\ d \in Nat /\ r \in Nat /\ e \in Nat
    BY <1>1, <1>2, <1>3, <1>4, <1>5
  <2> HIDE DEF a, b, d, e
  <2>2. D = e + (d + r)
    BY <2>1
  <2> QED
    BY <2>2 DEF d, e
<1>7. D % (4 * S) = S * c + r /\ D \div (4 * S) = q
  <2> DEFINE U == 4 * S  v == S * c + r
  <2>1. U \in Nat \ {0} /\ v \in Nat /\ v < U /\ D = U * q + v
    BY <1>1, <1>5, <1>6
  <2> HIDE DEF U, v
  <2>2. D % U = v /\ D \div U = q
    BY <2>1, <1>2, Quotient
  <2> QED
    BY <2>2 DEF U, v
<1> QED
  BY <1>1, <1>2, <1>7 DEF t, r, c, q

\* Side and tiles of a square, and of the next larger one.
LEMMA Down ==
  ASSUME NEW k \in Nat
  PROVE  /\ 2^k \in Nat \ {0} /\ 2^(k + 1) = 2 * 2^k
         /\ 2^(2 * k) \in Nat \ {0} /\ 2^(2 * (k + 1)) = 4 * 2^(2 * k) /\ 2^(2 * k) = 2^k * 2^k
<1>1. 2 * k \in Nat
  OBVIOUS
<1> QED
  BY <1>1, Powers

\* A step back stays in its square.
LEMMA BackStays ==
  ASSUME Word \in Nat, NEW z \in Nat, 2^z <= Word, NEW d \in Nat, NEW b, IsBack(b, z, d), NEW k \in 0 .. z
  PROVE  InSquare(b[k], 2^k)
<1> DEFINE T == {i \in Nat : i <= z => InSquare(b[i], 2^i)}
<1>1. 0 \in T
  <2>1. b[0] = [x |-> 0, y |-> 0]
    BY DEF IsBack
  <2>2. InSquare(b[0], 2^0)
    BY <2>1, Powers DEF InSquare
  <2> QED
    BY <2>2
<1>2. ASSUME NEW i \in Nat, i \in T PROVE i + 1 \in T
  <2>1. CASE i + 1 <= z
    <3> DEFINE s == 2^i  S == 2^(2 * i)  t == d \div S  p == b[i]  q == b[i + 1]
    <3>1. s \in Nat \ {0} /\ 2^(i + 1) = 2 * s /\ S \in Nat \ {0}
      BY Down
    <3>2. s <= Word
      <4>1. 2^i <= 2^z
        BY <2>1, Rises
      <4>2. 2^i \in Nat /\ 2^z \in Nat
        BY Powers
      <4> QED
        BY <4>1, <4>2
    <3>3. InSquare(p, s)
      BY <1>2, <2>1
    <3>4. q = Back(p, s, t)
      <4>1. i + 1 \in 0 .. z /\ i + 1 # 0 /\ (i + 1) - 1 = i
        BY <2>1
      <4> QED
        BY <4>1 DEF IsBack
    <3>5. t \in Nat
      <4> HIDE DEF S
      <4> QED
        BY <3>1, Division
    <3> HIDE DEF s, S, t, p, q
    <3>6. /\ t % 4 = 0 => q = [x |-> p.y, y |-> p.x]
          /\ t % 4 = 1 => q = [x |-> p.x, y |-> s + p.y]
          /\ t % 4 = 2 => q = [x |-> s + p.x, y |-> s + p.y]
          /\ t % 4 = 3 => q = [x |-> s + (s - 1 - p.y), y |-> s - 1 - p.x]
      BY <3>1, <3>2, <3>3, <3>4, <3>5, BackIs
    <3>7. t % 4 = 0 \/ t % 4 = 1 \/ t % 4 = 2 \/ t % 4 = 3
      BY <3>5
    <3>8. p.x \in Nat /\ p.y \in Nat /\ p.x < s /\ p.y < s
      BY <3>3 DEF InSquare
    <3>9. InSquare(q, 2 * s)
      BY <3>1, <3>6, <3>7, <3>8 DEF InSquare
    <3> QED
      BY <3>1, <3>9 DEF q
  <2>2. CASE ~(i + 1 <= z)
    BY <2>2
  <2> QED
    BY <2>1, <2>2
<1> HIDE DEF T
<1>3. k \in T
  BY <1>1, <1>2, Induction
<1> QED
  BY <1>3 DEF T

\* the place of p in its quadrant of side s
Under(q, p, s) == q.x = p.x % s /\ q.y = p.y % s

\* A step back undoes the turn of its quadrant.
LEMMA Untwists ==
  ASSUME Word \in Nat, NEW n \in Nat, n <= Word, NEW s \in Nat \ {0}, NEW m \in Nat, n = s * m, s <= Word,
         NEW p, InSquare(p, n), NEW r, Under(r, Turn(p, n, s), s),
         NEW t \in Nat, t % 4 = Quarter(Bit(p.x, s), Bit(p.y, s)), NEW q, q = Back(r, s, t), NEW u, u = 2 * s
  PROVE  Under(q, p, u)
<1> DEFINE rx == Bit(p.x, s)  ry == Bit(p.y, s)  v == Turn(p, n, s)
<1>1. /\ rx \in {0, 1} /\ ry \in {0, 1}
      /\ v.x = IF ry = 1 THEN p.x ELSE IF rx = 1 THEN n - 1 - p.y ELSE p.y
      /\ v.y = IF ry = 1 THEN p.y ELSE IF rx = 1 THEN n - 1 - p.x ELSE p.x
  BY TurnIs
<1>2. p.x \in Nat /\ p.y \in Nat /\ p.x < s * m /\ p.y < s * m
  BY DEF InSquare
<1>3. p.x % u = (p.x % s) + s * rx /\ p.y % u = (p.y % s) + s * ry
  BY <1>2, BitIs DEF rx, ry
<1>4. /\ p.x % s \in Nat /\ p.x % s < s /\ p.y % s \in Nat /\ p.y % s < s
      /\ (n - 1 - p.x) % s = s - 1 - (p.x % s) /\ (n - 1 - p.y) % s = s - 1 - (p.y % s)
  BY <1>2, Division, FlipIs
<1>5. r.x = v.x % s /\ r.y = v.y % s /\ t % 4 = Quarter(rx, ry)
  BY DEF Under
<1>15. Under(q, p, u) <=> (q.x = p.x % u /\ q.y = p.y % u)
  BY DEF Under
<1> HIDE DEF rx, ry, v
<1> DEFINE a == p.x % s  c == p.y % s
<1>6. /\ r.x = IF ry = 1 THEN a ELSE IF rx = 1 THEN s - 1 - c ELSE c
      /\ r.y = IF ry = 1 THEN c ELSE IF rx = 1 THEN s - 1 - a ELSE a
  BY <1>1, <1>4, <1>5
<1>7. /\ a \in Nat /\ a < s /\ c \in Nat /\ c < s /\ p.x % u = a + s * rx /\ p.y % u = c + s * ry
  BY <1>3, <1>4
<1> HIDE DEF a, c
<1>8. InSquare(r, s)
  BY <1>1, <1>6, <1>7 DEF InSquare
<1>9. /\ t % 4 = 0 => q = [x |-> r.y, y |-> r.x]
      /\ t % 4 = 1 => q = [x |-> r.x, y |-> s + r.y]
      /\ t % 4 = 2 => q = [x |-> s + r.x, y |-> s + r.y]
      /\ t % 4 = 3 => q = [x |-> s + (s - 1 - r.y), y |-> s - 1 - r.x]
  BY <1>8, BackIs
<1>10. s * 0 = 0 /\ s * 1 = s
  OBVIOUS
<1>11. CASE ry = 1 /\ rx = 0
  <2>1. t % 4 = 1
    BY <1>5, <1>11 DEF Quarter
  <2> QED
    BY <2>1, <1>6, <1>7, <1>9, <1>10, <1>11, <1>15
<1>12. CASE ry = 1 /\ rx = 1
  <2>1. t % 4 = 2
    BY <1>5, <1>12 DEF Quarter
  <2> QED
    BY <2>1, <1>6, <1>7, <1>9, <1>10, <1>12, <1>15
<1>13. CASE ry = 0 /\ rx = 0
  <2>1. t % 4 = 0
    BY <1>5, <1>13 DEF Quarter
  <2> QED
    BY <2>1, <1>6, <1>7, <1>9, <1>10, <1>13, <1>15
<1>14. CASE ry = 0 /\ rx = 1
  <2>1. t % 4 = 3
    BY <1>5, <1>14 DEF Quarter
  <2> QED
    BY <2>1, <1>6, <1>7, <1>9, <1>10, <1>14, <1>15
<1> QED
  BY <1>1, <1>11, <1>12, <1>13, <1>14

\* The distance tells the digit of every turn.
LEMMA DigitIs ==
  ASSUME Word \in Nat, NEW z \in Nat, 2^z <= Word, NEW x, NEW y, NEW w, IsWalk(w, z, x, y),
         x \in 0 .. 2^z - 1, y \in 0 .. 2^z - 1, NEW k \in Nat, k < z
  PROVE  LET s == 2^(z - (k + 1)) IN
         (w[z].d \div 2^(2 * (z - (k + 1)))) % 4 = Quarter(Bit(w[k].x, s), Bit(w[k].y, s))
<1> DEFINE s == 2^(z - (k + 1))  S == s * s  D == w[z].d  e == w[k + 1].d
           c == Quarter(Bit(w[k].x, s), Bit(w[k].y, s))
<1>1. /\ s \in Nat \ {0} /\ 2^(2 * (z - (k + 1))) = S /\ 2^(2 * (z - k)) = 4 * S
  BY Levels
<1>2. \A i \in 0 .. z : WalksOn(w, z, i)
  BY WalkStays, Zenon
<1>3. k \in 0 .. z /\ k + 1 \in 0 .. z /\ k + 1 # 0 /\ (k + 1) - 1 = k
  OBVIOUS
<1>4. InSquare(w[k], 2^z) /\ w[k].d \in Nat /\ D \in Nat /\ e \in Nat
  BY <1>2, <1>3 DEF WalksOn
<1>5. PICK m \in Nat : w[k].d = m * (4 * S)
  BY <1>1, <1>2, <1>3 DEF WalksOn
<1>6. e <= D /\ D < e + S
  <2>1. w[k + 1].d <= w[z].d /\ w[z].d < w[k + 1].d + 2^(2 * (z - (k + 1)))
    BY <1>3, WalkEnds
  <2> QED
    BY <2>1, <1>1
<1>7. w[k + 1] = Turn(w[k], 2^z, s)
  BY <1>3 DEF IsWalk
<1> HIDE DEF s
<1>8. e = w[k].d + s * s * c /\ c \in 0 .. 3
  <2> DEFINE p == w[k]  n == 2^z  rx == Bit(p.x, s)  ry == Bit(p.y, s)  q == Turn(p, n, s)
  <2>1. n \in Nat /\ n <= Word /\ InSquare(p, n)
    BY <1>4, Powers
  <2> HIDE DEF p, n
  <2>2. rx \in {0, 1} /\ ry \in {0, 1} /\ q.d = p.d + s * s * Quarter(rx, ry)
    BY <2>1, <1>1, TurnIs
  <2>3. Quarter(rx, ry) \in 0 .. 3
    <3> HIDE DEF rx, ry
    <3> QED
      BY <2>2 DEF Quarter
  <2> HIDE DEF rx, ry, q
  <2>4. w[k + 1] = q /\ c = Quarter(rx, ry)
    BY <1>7 DEF p, n, q, rx, ry
  <2> HIDE DEF c
  <2>5. e = p.d + s * s * c
    BY <2>2, <2>4
  <2> QED
    BY <2>3, <2>4, <2>5 DEF p
<1>9. S \in Nat \ {0}
  BY <1>1
<1> DEFINE t == 4 * m + c
<1>10. e = S * t /\ t \in Nat /\ t % 4 = c
  <2> HIDE DEF c
  <2>1. e = m * (4 * S) + S * c
    BY <1>5, <1>8
  <2> HIDE DEF e, S
  <2>2. m * (4 * S) + S * c = S * (4 * m + c)
    BY <1>8, <1>9
  <2>3. (4 * m + c) % 4 = c /\ 4 * m + c \in Nat
    BY <1>8
  <2> QED
    BY <2>1, <2>2, <2>3
<1> HIDE DEF S, D, e, c, t
<1>11. D \div S = t
  <2> DEFINE r == D - e
  <2>1. r \in Nat /\ r < S /\ D = e + r
    BY <1>4, <1>6, <1>9
  <2>2. D = S * t + r
    BY <2>1, <1>10
  <2> HIDE DEF r
  <2>3. (S * t + r) \div S = t
    BY <2>1, <1>9, <1>10, Quotient
  <2> QED
    BY <2>2, <2>3
<1> QED
  BY <1>1, <1>10, <1>11 DEF D, c, s

\* The way back leads to the tile the way along began at.
LEMMA LeadsBack ==
  ASSUME Word \in Nat, NEW z \in Nat, 2^z <= Word, NEW x \in 0 .. 2^z - 1, NEW y \in 0 .. 2^z - 1,
         NEW w, IsWalk(w, z, x, y), NEW b, IsBack(b, z, w[z].d)
  PROVE  b[z].x = x /\ b[z].y = y
<1> DEFINE D == w[z].d
           Same(k) == b[k].x = w[z - k].x % 2^k /\ b[k].y = w[z - k].y % 2^k
           T == {k \in Nat : k <= z => Same(k)}
<1>0. \A i \in 0 .. z : WalksOn(w, z, i)
  BY WalkStays, Zenon
<1>1. \A i \in 0 .. z : InSquare(w[i], 2^z)
  BY <1>0 DEF WalksOn
<1>2. D \in Nat
  BY <1>0 DEF WalksOn
<1>3. 0 \in T
  <2>1. b[0] = [x |-> 0, y |-> 0]
    BY DEF IsBack
  <2>2. z - 0 = z /\ w[z].x \in Nat /\ w[z].y \in Nat
    BY <1>1 DEF InSquare
  <2>3. \A n \in Nat : n % 1 = 0
    OBVIOUS
  <2> QED
    BY <2>1, <2>2, <2>3, Powers
<1>4. ASSUME NEW k \in Nat, k \in T PROVE k + 1 \in T
  <2>1. CASE k + 1 <= z
    <3> DEFINE j == z - (k + 1)
    <3>1. j \in Nat /\ j < z /\ z - (j + 1) = k /\ z - k = j + 1 /\ j \in 0 .. z /\ j + 1 \in 0 .. z
          /\ j + 1 # 0 /\ (j + 1) - 1 = j /\ z - j = k + 1
      BY <2>1
    <3> HIDE DEF j
    <3> DEFINE s == 2^k  n == 2^z  p == w[j]  r == b[k]  q == b[k + 1]  u == 2^(k + 1)
               t == D \div 2^(2 * k)
    <3>2. s \in Nat \ {0} /\ u = 2 * s /\ n \in Nat /\ n <= Word /\ t \in Nat
      <4>1. s \in Nat \ {0} /\ u = 2 * s /\ 2^(2 * k) \in Nat \ {0}
        BY Down
      <4>2. t \in Nat
        <5>1. \A S \in Nat \ {0} : D \div S \in Nat
          BY <1>2, Division
        <5> QED
          BY <4>1, <5>1
      <4> QED
        BY <4>1, <4>2, Powers
    <3>3. s <= Word
      <4>1. s <= n
        BY <2>1, Rises
      <4> QED
        BY <4>1, <3>2
    <3>4. PICK m \in Nat : n = s * m
      <4>1. PICK m \in Nat : 2^z = 2^(z - (j + 1)) * m
        BY <3>1, Divides
      <4> QED
        BY <4>1, <3>1
    <3>5. w[j + 1] = Turn(p, n, s)
      BY <3>1 DEF IsWalk
    <3>6. Under(r, Turn(p, n, s), s)
      BY <1>4, <2>1, <3>1, <3>5 DEF Under
    <3>7. InSquare(p, n)
      BY <1>1, <3>1
    <3>8. t % 4 = Quarter(Bit(p.x, s), Bit(p.y, s))
      BY <3>1, DigitIs
    <3>9. q = Back(r, s, t)
      <4>1. k + 1 \in 0 .. z /\ k + 1 # 0 /\ (k + 1) - 1 = k
        BY <2>1
      <4> QED
        BY <4>1 DEF IsBack
    <3>10. Under(q, p, u)
      <4> HIDE DEF s, n, p, r, q, u, t
      <4> QED
        BY <3>2, <3>3, <3>4, <3>6, <3>7, <3>8, <3>9, Untwists, Zenon
    <3>11. Same(k + 1)
      BY <3>10 DEF j, Under
    <3> QED
      BY <3>11
  <2>2. CASE ~(k + 1 <= z)
    BY <2>2
  <2> QED
    BY <2>1, <2>2
<1> HIDE DEF T
<1>5. z \in T
  BY <1>3, <1>4, Induction
<1>6. Same(z)
  BY <1>5 DEF T
<1>7. w[0].x = x /\ w[0].y = y /\ z - z = 0
  BY DEF IsWalk
<1>8. b[z].x = x % 2^z /\ b[z].y = y % 2^z
  BY <1>6, <1>7
<1> DEFINE n == 2^z
<1>9. n \in Nat \ {0} /\ x \in Nat /\ y \in Nat /\ x < n /\ y < n
  BY Powers
<1>10. b[z].x = x % n /\ b[z].y = y % n
  BY <1>8
<1> HIDE DEF n
<1>11. \A c \in Nat : c < n => c % n = c
  <2> TAKE c \in Nat
  <2> HAVE c < n
  <2>1. (n * 0 + c) % n = c
    BY <1>9, Quotient
  <2>2. n * 0 + c = c
    BY <1>9
  <2> QED
    BY <2>1, <2>2
<1> QED
  BY <1>9, <1>10, <1>11

(***************************************************************************)
(* 9. Neighbours.                                                          *)
(***************************************************************************)

\* places that share an edge
NextTo(p, q) ==
  \/ p.x = q.x /\ (p.y = q.y + 1 \/ q.y = p.y + 1)
  \/ p.y = q.y /\ (p.x = q.x + 1 \/ q.x = p.x + 1)

\* The curve of a square begins in one corner and ends in the next.
LEMMA Corners ==
  ASSUME Word \in Nat, NEW z \in Nat, 2^z <= Word, NEW d \in Nat, NEW b, IsBack(b, z, d), NEW k \in 0 .. z
  PROVE  /\ d % 2^(2 * k) = 0 => b[k].x = 0 /\ b[k].y = 0
         /\ d % 2^(2 * k) = 2^(2 * k) - 1 => b[k].x = 2^k - 1 /\ b[k].y = 0
<1> DEFINE First(i) == d % 2^(2 * i) = 0 => b[i].x = 0 /\ b[i].y = 0
           Last(i) == d % 2^(2 * i) = 2^(2 * i) - 1 => b[i].x = 2^i - 1 /\ b[i].y = 0
           T == {i \in Nat : i <= z => First(i) /\ Last(i)}
<1>1. 0 \in T
  <2>1. b[0] = [x |-> 0, y |-> 0]
    BY DEF IsBack
  <2>2. 2^0 = 1
    BY Powers
  <2>3. First(0) /\ Last(0)
    BY <2>1, <2>2
  <2> QED
    BY <2>3
<1>2. ASSUME NEW i \in Nat, i \in T PROVE i + 1 \in T
  <2>1. CASE i + 1 <= z
    <3> DEFINE s == 2^i  S == 2^(2 * i)  t == d \div S  p == b[i]  q == b[i + 1]  r == d % S  c == t % 4
    <3>1. s \in Nat \ {0} /\ 2^(i + 1) = 2 * s /\ S \in Nat \ {0} /\ 2^(2 * (i + 1)) = 4 * S
      BY Down
    <3>2. s <= Word
      <4>1. 2^i <= 2^z
        BY <2>1, Rises
      <4>2. 2^i \in Nat /\ 2^z \in Nat
        BY Powers
      <4> QED
        BY <4>1, <4>2
    <3>3. InSquare(p, s)
      <4>1. i \in 0 .. z
        BY <2>1
      <4> QED
        BY <4>1, BackStays
    <3>4. q = Back(p, s, t)
      <4>1. i + 1 \in 0 .. z /\ i + 1 # 0 /\ (i + 1) - 1 = i
        BY <2>1
      <4> QED
        BY <4>1 DEF IsBack
    <3>5. First(i) /\ Last(i)
      BY <1>2, <2>1
    <3>6. /\ r = 0 => p.x = 0 /\ p.y = 0
          /\ r = S - 1 => p.x = s - 1 /\ p.y = 0
      BY <3>5
    <3>7. /\ t \in Nat /\ r \in Nat /\ r < S /\ c \in 0 .. 3
          /\ d % (4 * S) = S * c + r
      <4> HIDE DEF S
      <4> QED
        BY <3>1, Digits
    <3>8. /\ First(i + 1) <=> (d % (4 * S) = 0 => q.x = 0 /\ q.y = 0)
          /\ Last(i + 1) <=> (d % (4 * S) = 4 * S - 1 => q.x = 2 * s - 1 /\ q.y = 0)
      BY <3>1
    <3> HIDE DEF First, Last
    <3> HIDE DEF s, S, t, p, q, r
    <3>9. /\ c = 0 => q = [x |-> p.y, y |-> p.x]
          /\ c = 3 => q = [x |-> s + (s - 1 - p.y), y |-> s - 1 - p.x]
      BY <3>1, <3>2, <3>3, <3>4, <3>7, BackIs
    <3> HIDE DEF c
    <3>10. /\ S * c + r = 0 => c = 0 /\ r = 0
           /\ S * c + r = 4 * S - 1 => c = 3 /\ r = S - 1
      <4>1. c = 0 \/ c = 1 \/ c = 2 \/ c = 3
        BY <3>7
      <4> QED
        BY <4>1, <3>1, <3>7
    <3>11. First(i + 1)
      <4>1. c = 0 /\ r = 0 => q.x = 0 /\ q.y = 0
        BY <3>6, <3>9
      <4> QED
        BY <4>1, <3>7, <3>8, <3>10
    <3>12. Last(i + 1)
      <4>1. c = 3 /\ r = S - 1 => q.x = 2 * s - 1 /\ q.y = 0
        BY <3>1, <3>6, <3>9
      <4> QED
        BY <4>1, <3>7, <3>8, <3>10
    <3> QED
      BY <3>11, <3>12
  <2>2. CASE ~(i + 1 <= z)
    BY <2>2
  <2> QED
    BY <2>1, <2>2
<1> HIDE DEF T
<1>3. k \in T
  BY <1>1, <1>2, Induction
<1> QED
  BY <1>3 DEF T

\* A turn keeps neighbours neighbours, and one quadrant ends where the next begins.
LEMMA TurnsTogether ==
  ASSUME Word \in Nat, NEW s \in Nat \ {0}, s <= Word, NEW p, InSquare(p, s), NEW r, InSquare(r, s),
         NEW t \in Nat, NEW u \in Nat,
         \/ u = t /\ NextTo(p, r)
         \/ u = t + 1 /\ t % 4 # 3 /\ p.x = s - 1 /\ p.y = 0 /\ r.x = 0 /\ r.y = 0
  PROVE  NextTo(Back(p, s, t), Back(r, s, u))
<1> DEFINE a == Back(p, s, t)  b == Back(r, s, u)
<1>1. /\ t % 4 = 0 => a = [x |-> p.y, y |-> p.x]
      /\ t % 4 = 1 => a = [x |-> p.x, y |-> s + p.y]
      /\ t % 4 = 2 => a = [x |-> s + p.x, y |-> s + p.y]
      /\ t % 4 = 3 => a = [x |-> s + (s - 1 - p.y), y |-> s - 1 - p.x]
  BY BackIs
<1>2. /\ u % 4 = 0 => b = [x |-> r.y, y |-> r.x]
      /\ u % 4 = 1 => b = [x |-> r.x, y |-> s + r.y]
      /\ u % 4 = 2 => b = [x |-> s + r.x, y |-> s + r.y]
      /\ u % 4 = 3 => b = [x |-> s + (s - 1 - r.y), y |-> s - 1 - r.x]
  BY BackIs
<1>3. /\ p.x \in Nat /\ p.y \in Nat /\ p.x < s /\ p.y < s
      /\ r.x \in Nat /\ r.y \in Nat /\ r.x < s /\ r.y < s
  BY DEF InSquare
<1> HIDE DEF a, b
<1>4. t % 4 = 0 \/ t % 4 = 1 \/ t % 4 = 2 \/ t % 4 = 3
  OBVIOUS
<1>5. CASE u = t /\ NextTo(p, r)
  <2>1. \/ p.x = r.x /\ (p.y = r.y + 1 \/ r.y = p.y + 1)
        \/ p.y = r.y /\ (p.x = r.x + 1 \/ r.x = p.x + 1)
    BY <1>5 DEF NextTo
  <2>2. NextTo(a, b)
    BY <2>1, <1>1, <1>2, <1>3, <1>4, <1>5 DEF NextTo
  <2> QED
    BY <2>2 DEF a, b
<1>6. CASE u = t + 1 /\ t % 4 # 3 /\ p.x = s - 1 /\ p.y = 0 /\ r.x = 0 /\ r.y = 0
  <2>1. \/ t % 4 = 0 /\ u % 4 = 1
        \/ t % 4 = 1 /\ u % 4 = 2
        \/ t % 4 = 2 /\ u % 4 = 3
    BY <1>6
  <2>2. NextTo(a, b)
    BY <2>1, <1>1, <1>2, <1>3, <1>6 DEF NextTo
  <2> QED
    BY <2>2 DEF a, b
<1> QED
  BY <1>5, <1>6

\* One more: in the same quadrant, or the first of the next.
LEMMA NextDigits ==
  ASSUME NEW S \in Nat \ {0}, NEW d \in Nat
  PROVE  IF d % S < S - 1 THEN (d + 1) \div S = d \div S
         ELSE (d + 1) \div S = d \div S + 1 /\ (d + 1) % S = 0 /\ d % S = S - 1
<1> DEFINE t == d \div S  r == d % S
<1>1. t \in Nat /\ r \in Nat /\ r < S /\ d = S * t + r
  BY Division
<1> HIDE DEF t, r
<1>2. CASE r < S - 1
  <2>1. r + 1 \in Nat /\ r + 1 < S
    BY <1>1, <1>2
  <2>2. d + 1 = S * t + (r + 1)
    <3> DEFINE f == S * t
    <3>1. d = f + r /\ f \in Nat
      BY <1>1
    <3> HIDE DEF f
    <3>2. d + 1 = f + (r + 1)
      BY <3>1, <1>1
    <3> QED
      BY <3>2 DEF f
  <2> DEFINE w == r + 1
  <2>3. (S * t + w) \div S = t
    <3>1. w \in Nat /\ w < S
      BY <2>1
    <3> HIDE DEF w
    <3> QED
      BY <3>1, <1>1, Quotient
  <2>4. (d + 1) \div S = t
    BY <2>2, <2>3
  <2> QED
    BY <2>4, <1>2 DEF t, r
<1>3. CASE ~(r < S - 1)
  <2>1. r = S - 1
    BY <1>1, <1>3
  <2> DEFINE u == t + 1
  <2>2. d + 1 = S * u + 0
    <3>1. S * u = S * t + S
      BY <1>1
    <3> DEFINE f == S * t  g == S * u
    <3>2. d = f + r /\ g = f + S /\ f \in Nat
      BY <1>1, <3>1
    <3> HIDE DEF f, g
    <3>3. d + 1 = g /\ g \in Nat
      BY <2>1, <3>2
    <3>4. g + 0 = g
      BY <3>3
    <3> QED
      BY <3>3, <3>4 DEF g
  <2>3. (S * u + 0) \div S = u /\ (S * u + 0) % S = 0
    <3>1. u \in Nat /\ 0 \in Nat /\ 0 < S
      BY <1>1
    <3> HIDE DEF u
    <3> QED
      BY <3>1, Quotient
  <2>4. (d + 1) \div S = t + 1 /\ (d + 1) % S = 0
    BY <2>2, <2>3
  <2> QED
    BY <2>1, <2>4, <1>3 DEF t, r
<1> QED
  BY <1>2, <1>3

\* Consecutive distances of one square are neighbours.
LEMMA Consecutive ==
  ASSUME Word \in Nat, NEW z \in Nat, 2^z <= Word, NEW d \in Nat, NEW b, IsBack(b, z, d),
         NEW e, IsBack(e, z, d + 1), NEW k \in 0 .. z, d \div 2^(2 * k) = (d + 1) \div 2^(2 * k)
  PROVE  NextTo(b[k], e[k])
<1> DEFINE Fine(i) == d \div 2^(2 * i) = (d + 1) \div 2^(2 * i) => NextTo(b[i], e[i])
           T == {i \in Nat : i <= z => Fine(i)}
<1>1. 0 \in T
  <2>1. 2^(2 * 0) = 1
    BY Powers
  <2>2. d \div 1 = d /\ (d + 1) \div 1 = d + 1
    OBVIOUS
  <2>3. Fine(0)
    BY <2>1, <2>2
  <2> QED
    BY <2>3
<1>2. ASSUME NEW i \in Nat, i \in T PROVE i + 1 \in T
  <2>1. CASE i + 1 <= z /\ d \div 2^(2 * (i + 1)) = (d + 1) \div 2^(2 * (i + 1))
    <3> DEFINE s == 2^i  S == 2^(2 * i)
               t == d \div S  p == b[i]  q == b[i + 1]  r == d % S
               u == (d + 1) \div S  v == (d + 1) % S  m == e[i]  n == e[i + 1]
    <3>1. s \in Nat \ {0} /\ S \in Nat \ {0} /\ 2^(2 * (i + 1)) = 4 * S
      BY Down
    <3>2. s <= Word
      <4>1. 2^i <= 2^z
        BY <2>1, Rises
      <4>2. 2^i \in Nat /\ 2^z \in Nat
        BY Powers
      <4> QED
        BY <4>1, <4>2
    <3>3. i \in 0 .. z /\ i + 1 \in 0 .. z /\ i + 1 # 0 /\ (i + 1) - 1 = i /\ d + 1 \in Nat
      BY <2>1
    <3>4. InSquare(p, s) /\ InSquare(m, s)
      BY <3>3, BackStays
    <3>5. q = Back(p, s, t) /\ n = Back(m, s, u)
      BY <3>3 DEF IsBack
    <3>6. t = u => NextTo(p, m)
      BY <1>2, <2>1
    <3>7. /\ r = S - 1 => p.x = s - 1 /\ p.y = 0
          /\ v = 0 => m.x = 0 /\ m.y = 0
      BY <3>3, Corners
    <3>8. d \div (4 * S) = (d + 1) \div (4 * S)
      BY <2>1, <3>1
    <3>9. /\ t \in Nat /\ r \in Nat /\ r < S /\ d = S * t + r /\ d \div (4 * S) = t \div 4
          /\ u \in Nat /\ v \in Nat /\ v < S /\ d + 1 = S * u + v /\ (d + 1) \div (4 * S) = u \div 4
      <4> HIDE DEF S
      <4> QED
        BY <3>1, <3>3, Digits
    <3>10. IF r < S - 1 THEN u = t ELSE u = t + 1 /\ v = 0 /\ r = S - 1
      <4> HIDE DEF S
      <4> QED
        BY <3>1, NextDigits
    <3> HIDE DEF s, S, t, p, q, r, u, v, m, n
    <3>11. t \div 4 = u \div 4
      BY <3>8, <3>9
    <3>12. \/ u = t /\ NextTo(p, m)
           \/ u = t + 1 /\ t % 4 # 3 /\ p.x = s - 1 /\ p.y = 0 /\ m.x = 0 /\ m.y = 0
      <4>1. u = t + 1 => t % 4 # 3
        BY <3>9, <3>11
      <4> QED
        BY <4>1, <3>6, <3>7, <3>10
    <3>13. NextTo(q, n)
      BY <3>1, <3>2, <3>4, <3>5, <3>9, <3>12, TurnsTogether
    <3> QED
      BY <3>13 DEF q, n
  <2>2. CASE ~(i + 1 <= z /\ d \div 2^(2 * (i + 1)) = (d + 1) \div 2^(2 * (i + 1)))
    BY <2>2
  <2> QED
    BY <2>1, <2>2
<1> HIDE DEF T
<1>3. k \in T
  BY <1>1, <1>2, Induction
<1>4. Fine(k)
  BY <1>3 DEF T
<1> QED
  BY <1>4

\* A zoom is not above the id of its first tile, so the search for it finds it.
LEMMA Above ==
  ASSUME NEW z \in Nat
  PROVE  z <= zoom_base(z)
<1> DEFINE T == {n \in Nat : n <= zoom_base(n)}
<1>1. 0 \in T
  BY Base
<1>2. ASSUME NEW n \in Nat, n \in T PROVE n + 1 \in T
  <2>1. zoom_base(n) \in Nat /\ zoom_base(n + 1) = zoom_base(n) + 2^(2 * n)
    BY Base
  <2> DEFINE p == 2^(2 * n)
  <2>2. p \in Nat /\ p >= 1 /\ zoom_base(n + 1) = zoom_base(n) + p
    BY <2>1, Down
  <2>3. n <= zoom_base(n)
    BY <1>2
  <2> HIDE DEF p
  <2>4. n + 1 <= zoom_base(n + 1)
    BY <2>1, <2>2, <2>3
  <2> QED
    BY <2>4
<1> HIDE DEF T
<1>3. z \in T
  BY <1>1, <1>2, Induction
<1> QED
  BY <1>3 DEF T

\* The zoom found is the one whose ids the id is among.
LEMMA ZoomIs ==
  ASSUME NEW z \in Nat, NEW id \in Nat, zoom_base(z) <= id, id < zoom_base(z + 1)
  PROVE  ZoomOf(id) = z
<1> DEFINE In(k) == zoom_base(k) <= id /\ id < zoom_base(k + 1)
           c == CHOOSE k \in 0 .. id : In(k)
<1>1. z \in 0 .. id /\ In(z)
  BY Above, BasesGrow
<1>2. c \in 0 .. id /\ In(c)
  <2> HIDE DEF In
  <2> QED
    BY <1>1, Zenon
<1>3. c = ZoomOf(id)
  BY Zenon DEF ZoomOf
<1> HIDE DEF c
<1>4. c \in Nat /\ c + 1 \in Nat /\ z + 1 \in Nat
  BY <1>2
<1>5. /\ zoom_base(z) \in Nat /\ zoom_base(z + 1) \in Nat
      /\ zoom_base(c) \in Nat /\ zoom_base(c + 1) \in Nat
  BY <1>4, BasesGrow
<1>6. ~(z < c)
  <2>1. z < c => zoom_base(z + 1) <= zoom_base(c)
    BY <1>4, BasesGrow
  <2> QED
    BY <2>1, <1>2, <1>5
<1>7. ~(c < z)
  <2>1. c < z => zoom_base(c + 1) <= zoom_base(z)
    BY <1>4, BasesGrow
  <2> QED
    BY <2>1, <1>2, <1>5
<1> QED
  BY <1>3, <1>4, <1>6, <1>7

\* tileid_to_zxy leads back to every tile. (mod.rs: tileid_to_zxy)
LEMMA Retraced ==
  ASSUME GridAssumption, NEW z \in 0 .. MaxZoom, NEW t \in Square(z)
  PROVE  /\ tileid_to_zxy(Id(t)) = t
         /\ Id(t) - zoom_base(z) \in 0 .. 2^(2 * z) - 1
         /\ \E b : IsBack(b, z, Id(t) - zoom_base(z)) /\ t = <<z, b[z].x, b[z].y>>
<1>1. PICK x \in 0 .. 2^z - 1, y \in 0 .. 2^z - 1 : t = <<z, x, y>>
  BY DEF Square
<1>2. z \in Nat /\ z \in 0 .. z /\ Word \in Nat /\ 2^z <= Word
  BY Fits DEF GridAssumption
<1>3. PICK w : IsWalk(w, z, x, y) /\ zxy_to_tileid(z, x, y) = zoom_base(z) + w[z].d
  BY <1>2, WalkExists
<1> DEFINE id == Id(t)  B == zoom_base(z)  d == w[z].d
<1>4. id = B + d
  BY <1>1, <1>3 DEF Id
<1>5. id \in Nat /\ B <= id /\ id < zoom_base(z + 1) /\ B \in Nat /\ zoom_base(z + 1) = B + 2^(2 * z) /\ 2^(2 * z) \in Nat
  BY <1>2, InItsZoom, Base, Down
<1>6. d \in Nat
  <2>1. \A i \in 0 .. z : WalksOn(w, z, i)
    BY <1>2, <1>3, WalkStays, Zenon
  <2> QED
    BY <1>2, <2>1 DEF WalksOn
<1>7. id - B = d /\ id - B \in 0 .. 2^(2 * z) - 1
  <2> HIDE DEF id, B, d
  <2> DEFINE p == 2^(2 * z)
  <2>1. p \in Nat /\ id < B + p
    BY <1>5
  <2> HIDE DEF p
  <2>2. id - B = d /\ id - B \in 0 .. p - 1
    BY <2>1, <1>4, <1>5, <1>6
  <2> QED
    BY <2>2 DEF p
<1>8. ZoomOf(id) = z
  BY <1>2, <1>5, ZoomIs
<1>9. PICK b : IsBack(b, z, id - B) /\ tileid_to_zxy(id) = <<z, b[z].x, b[z].y>>
  BY <1>2, <1>8, BackExists
<1>10. IsBack(b, z, w[z].d)
  BY <1>7, <1>9
<1>11. b[z].x = x /\ b[z].y = y
  BY <1>2, <1>3, <1>10, LeadsBack
<1> QED
  BY <1>1, <1>7, <1>9, <1>11

\* Tiles with consecutive ids share an edge.
LEMMA SharesAnEdge ==
  ASSUME GridAssumption, NEW z \in 0 .. MaxZoom, NEW t \in Square(z), NEW u \in Square(z), Id(u) = Id(t) + 1
  PROVE  \/ t[2] = u[2] /\ (t[3] = u[3] + 1 \/ u[3] = t[3] + 1)
         \/ t[3] = u[3] /\ (t[2] = u[2] + 1 \/ u[2] = t[2] + 1)
<1> DEFINE d == Id(t) - zoom_base(z)  f == Id(u) - zoom_base(z)
<1>1. PICK b : IsBack(b, z, d) /\ t = <<z, b[z].x, b[z].y>>
  BY Retraced
<1>2. PICK e : IsBack(e, z, f) /\ u = <<z, e[z].x, e[z].y>>
  BY Retraced
<1>3. d \in 0 .. 2^(2 * z) - 1 /\ f \in 0 .. 2^(2 * z) - 1
  BY Retraced
<1>4. z \in Nat /\ z \in 0 .. z /\ Word \in Nat /\ 2^z <= Word
  BY Fits DEF GridAssumption
<1>5. f = d + 1
  <2>1. Id(t) \in Nat /\ zoom_base(z) \in Nat
    BY <1>4, InItsZoom, Base
  <2> DEFINE i == Id(t)  j == Id(u)  B == zoom_base(z)
  <2>2. j = i + 1 /\ i \in Nat /\ B \in Nat
    BY <2>1
  <2> HIDE DEF i, j, B
  <2>3. j - B = (i - B) + 1
    BY <2>2
  <2> QED
    BY <2>3 DEF i, j, B
<1> HIDE DEF d, f
<1>6. d \div 2^(2 * z) = (d + 1) \div 2^(2 * z)
  <2> DEFINE p == 2^(2 * z)
  <2>1. p \in Nat \ {0}
    BY <1>4, Down
  <2>2. d \in Nat /\ d < p /\ d + 1 < p
    BY <1>3, <1>5, <2>1
  <2>3. p * 0 + d = d /\ p * 0 + (d + 1) = d + 1
    BY <2>1, <2>2
  <2> HIDE DEF p
  <2> DEFINE g == d + 1
  <2>4. g \in Nat /\ g < p
    BY <2>2
  <2> HIDE DEF g
  <2>5. (p * 0 + d) \div p = 0 /\ (p * 0 + g) \div p = 0
    BY <2>1, <2>2, <2>4, Quotient
  <2>6. d \div p = 0 /\ (d + 1) \div p = 0
    BY <2>3, <2>5 DEF g
  <2> QED
    BY <2>6 DEF p
<1>7. NextTo(b[z], e[z])
  <2>1. d \in Nat
    BY <1>3
  <2> QED
    BY <2>1, <1>1, <1>2, <1>4, <1>5, <1>6, Consecutive
<1> QED
  BY <1>1, <1>2, <1>7 DEF NextTo

\* The ids of every archive follow the Hilbert curve: tileid_to_zxy leads back to the
\* tile, and tiles with consecutive ids of a zoom share an edge, at every zoom.
\* (mod.rs: zxy_to_tileid, tileid_to_zxy; the PMTiles reference)
THEOREM HilbertCurve == BakeSpec => []IsTheHilbertCurve
<1> USE TheGrid
<1>1. BakeInv => IsTheHilbertCurve
  <2> SUFFICES ASSUME BakeInv, NEW id \in DOMAIN baked
               PROVE  /\ tileid_to_zxy(id) = baked[id]
                      /\ id + 1 \in DOMAIN baked /\ baked[id + 1][1] = baked[id][1] =>
                           LET t == baked[id]  u == baked[id + 1] IN
                           \/ t[2] = u[2] /\ (t[3] = u[3] + 1 \/ u[3] = t[3] + 1)
                           \/ t[3] = u[3] /\ (t[2] = u[2] + 1 \/ u[2] = t[2] + 1)
    BY DEF IsTheHilbertCurve
  <2>1. PICK z \in 0 .. MaxZoom : baked[id] \in Square(z) /\ Id(baked[id]) = id
    BY DEF BakeInv, OnlyItsTiles
  <2>2. tileid_to_zxy(id) = baked[id]
    BY <2>1, Retraced
  <2>3. ASSUME id + 1 \in DOMAIN baked, baked[id + 1][1] = baked[id][1]
        PROVE  LET t == baked[id]  u == baked[id + 1] IN
               \/ t[2] = u[2] /\ (t[3] = u[3] + 1 \/ u[3] = t[3] + 1)
               \/ t[3] = u[3] /\ (t[2] = u[2] + 1 \/ u[2] = t[2] + 1)
    <3>1. PICK k \in 0 .. MaxZoom : baked[id + 1] \in Square(k) /\ Id(baked[id + 1]) = id + 1
      BY <2>3 DEF BakeInv, OnlyItsTiles
    <3>2. baked[id][1] = z /\ baked[id + 1][1] = k
      BY <2>1, <3>1 DEF Square
    <3>3. k = z
      BY <2>3, <3>2
    <3> DEFINE t == baked[id]  u == baked[id + 1]
    <3>4. t \in Square(z) /\ u \in Square(z) /\ Id(u) = Id(t) + 1
      BY <2>1, <3>1, <3>3
    <3> HIDE DEF t, u
    <3>5. \/ t[2] = u[2] /\ (t[3] = u[3] + 1 \/ u[3] = t[3] + 1)
          \/ t[3] = u[3] /\ (t[2] = u[2] + 1 \/ u[2] = t[2] + 1)
      BY <3>4, SharesAnEdge
    <3> QED
      BY <3>5 DEF t, u
  <2> QED
    BY <2>2, <2>3
<1> QED
  BY <1>1, BakeSound, PTL
==============================================================================
