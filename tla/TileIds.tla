----------------------------- MODULE TileIds -----------------------------
(***************************************************************************)
(* How a tile of a published grid is found in an archive: the Hilbert      *)
(* TileID of (z, x, y), the bake, which adds the tiles of the layer's      *)
(* bounding box zoom after zoom in ascending TileID order, and the         *)
(* request, whose x and y are checked against the grid's own matrix.       *)
(*                                                                         *)
(* An integer is unsigned and of Word values, so n - 1 - x wraps when x is *)
(* not below n (an unchecked release build).                               *)
(***************************************************************************)
EXTENDS Naturals, FiniteSetsExt

CONSTANTS
  MaxZoom,        \* levels of the grid: 0 .. MaxZoom
  Columns,        \* width of the matrix at zoom 0: 1 for a square grid, 2 for WorldCRS84Quad
  Word            \* 2^64 in the code

GridAssumption ==
  /\ MaxZoom \in Nat /\ Columns \in Nat \ {0}
  /\ Word \in Nat /\ Word > 4 * Columns * 2^(2 * MaxZoom)
ASSUME TheGrid == GridAssumption

Zooms == 0 .. MaxZoom
MatrixW(z) == Columns * 2^z
MatrixH(z) == 2^z
GridTiles(z) == {<<z, x, y>> : x \in 0 .. MatrixW(z) - 1, y \in 0 .. MatrixH(z) - 1}
Published == UNION {GridTiles(z) : z \in Zooms}

(***************************************************************************)
(* The TileID.                                                             *)
(***************************************************************************)
Minus(a, b) == (a + Word - b) % Word
Bit(v, s)   == (v \div s) % 2

\* the tiles of the zooms before
zoom_base(z) ==
  LET base[k \in 0 .. z] == IF k = 0 THEN 0 ELSE base[k - 1] + 2^(2 * (k - 1)) IN base[z]

\* one quadrant of side s, of a square of side n: the distance along the curve, and the turn
NoTurn(p, n, s) ==                               \* mutant: the quadrant is not flipped
  LET rx == Bit(p.x, s)  ry == Bit(p.y, s) IN
  [x |-> IF ry = 0 THEN p.y ELSE p.x, y |-> IF ry = 0 THEN p.x ELSE p.y,
   d |-> p.d + s * s * (IF rx = 1 THEN 3 - ry ELSE ry)]
Turn(p, n, s) ==
  LET rx == Bit(p.x, s)  ry == Bit(p.y, s)
      x == IF ry = 0 /\ rx = 1 THEN Minus(n - 1, p.x) ELSE p.x
      y == IF ry = 0 /\ rx = 1 THEN Minus(n - 1, p.y) ELSE p.y IN
  [x |-> IF ry = 0 THEN y ELSE x, y |-> IF ry = 0 THEN x ELSE y,
   d |-> p.d + s * s * (IF rx = 1 THEN 3 - ry ELSE ry)]            \* (3 * rx) ^ ry

zxy_to_tileid(z, x, y) ==
  LET walk[k \in 0 .. z] ==
        IF k = 0 THEN [x |-> x, y |-> y, d |-> 0] ELSE Turn(walk[k - 1], 2^z, 2^(z - k))
  IN  zoom_base(z) + walk[z].d

\* one quadrant of side s on the way back, t the distance in such quadrants
Back(p, s, t) ==
  LET rx == (t \div 2) % 2
      ry == (t + rx) % 2                                           \* (t ^ rx) & 1
      x == IF ry = 0 /\ rx = 1 THEN Minus(s - 1, p.x) ELSE p.x
      y == IF ry = 0 /\ rx = 1 THEN Minus(s - 1, p.y) ELSE p.y IN
  [x |-> s * rx + (IF ry = 0 THEN y ELSE x), y |-> s * ry + (IF ry = 0 THEN x ELSE y)]

\* from the finest quadrant up
tileid_to_zxy(id) ==
  LET z == CHOOSE k \in 0 .. id : zoom_base(k) <= id /\ id < zoom_base(k + 1)
      d == id - zoom_base(z)
      walk[k \in 0 .. z] ==
        IF k = 0 THEN [x |-> 0, y |-> 0] ELSE Back(walk[k - 1], 2^(k - 1), d \div 2^(2 * (k - 1)))
  IN  <<z, walk[z].x, walk[z].y>>

Id(t) == zxy_to_tileid(t[1], t[2], t[3])

(***************************************************************************)
(* The bake and the requests.                                              *)
(***************************************************************************)
VARIABLES
  box,            \* the layer's bounding box, in quarters of the matrix: [c0, c1, r0, r1]
  zoom,           \* next zoom to bake; MaxZoom + 1 when the archive is there
  bakeStage,      \* "baking", "refused", "serving"
  lastId,         \* PmtilesWriter.last_id
  baked,          \* tile id -> the tile baked under it
  answer          \* of the last request: [asked, got]

bakeVars == <<box, zoom, bakeStage, lastId, baked, answer>>

None == <<>>
NothingYet == [id \in {} |-> None]
NothingAsked == [asked |-> None, got |-> None]
Lookup(id) == IF id \in DOMAIN baked THEN baked[id] ELSE None

Swapped(z, x, y) == Lookup(zxy_to_tileid(z, y, x))     \* mutant: arguments out of order
get_raw(z, x, y) == Lookup(zxy_to_tileid(z, x, y))

\* tile_limits: the tiles of a zoom the box touches
Limits(z) ==
  {t \in GridTiles(z) : /\ 4 * t[2] < box.c1 * MatrixW(z) /\ box.c0 * MatrixW(z) < 4 * (t[2] + 1)
                        /\ 4 * t[3] < box.r1 * MatrixH(z) /\ box.r0 * MatrixH(z) < 4 * (t[3] + 1)}

BakeInit ==
  /\ box \in {b \in [c0 : 0 .. 3, c1 : 1 .. 4, r0 : 0 .. 3, r1 : 1 .. 4] : b.c0 < b.c1 /\ b.r0 < b.r1}
  /\ zoom = 0 /\ bakeStage = "baking" /\ lastId = 0
  /\ baked = NothingYet
  /\ answer = NothingAsked

\* no column or row at or beyond 2^z
AnyTile(z) == TRUE                               \* mutant: no such check
Addressable(z) == \A t \in Limits(z) : t[2] < 2^z /\ t[3] < 2^z

\* sorted by id, every one comes after the one before and the first after the last zoom's
Ascends(ts) ==
  /\ \A t, u \in ts : Id(t) = Id(u) => t = u
  /\ baked = NothingYet \/ \A t \in ts : Id(t) > lastId

BakeZoom ==
  /\ bakeStage = "baking" /\ zoom <= MaxZoom /\ Addressable(zoom)
  /\ LET ts  == Limits(zoom)
         ids == {Id(t) : t \in ts} IN
     IF Ascends(ts)
     THEN /\ baked' = [id \in DOMAIN baked \cup ids |->
                           IF id \in ids THEN CHOOSE t \in ts : Id(t) = id ELSE baked[id]]
          /\ lastId' = Max(ids)
          /\ zoom' = zoom + 1
          /\ UNCHANGED bakeStage
     ELSE /\ bakeStage' = "not ascending"
          /\ UNCHANGED <<zoom, lastId, baked>>
  /\ UNCHANGED <<box, answer>>

Refuse ==
  /\ bakeStage = "baking" /\ zoom <= MaxZoom /\ ~Addressable(zoom)
  /\ bakeStage' = "refused"
  /\ UNCHANGED <<box, zoom, lastId, baked, answer>>

Finished ==
  /\ bakeStage = "baking" /\ zoom > MaxZoom
  /\ bakeStage' = "serving"
  /\ UNCHANGED <<box, zoom, lastId, baked, answer>>

\* GET /mvt/{layer}/{tms}/{z}/{x}/{y}, in range of the matrix: the archive, or a live encode
Serve(t) ==
  /\ bakeStage = "serving" /\ t \in Published
  /\ answer' = [asked |-> t, got |-> IF get_raw(t[1], t[2], t[3]) # None THEN get_raw(t[1], t[2], t[3]) ELSE t]
  /\ UNCHANGED <<box, zoom, bakeStage, lastId, baked>>

BakeNext == BakeZoom \/ Refuse \/ Finished \/ \E t \in Published : Serve(t)

BakeSpec == BakeInit /\ [][BakeNext]_bakeVars

(***************************************************************************)
(* Properties.                                                             *)
(***************************************************************************)
(***************************************************************************)
(* A bake that is not refused up front never breaks off in the writer's    *)
(* ascending-id check: ids are distinct within a zoom, and every id of a   *)
(* zoom comes after those of the zoom before.  (generate.rs, raster.rs;    *)
(* write.rs: add)                                                          *)
(***************************************************************************)
BakesInAscendingOrder == bakeStage # "not ascending"

(***************************************************************************)
(* The curve: tiles with consecutive ids of one zoom share an edge, and    *)
(* tileid_to_zxy leads back.  (mod.rs; the PMTiles reference)              *)
(***************************************************************************)
IsTheHilbertCurve ==
  \A id \in DOMAIN baked :
    /\ tileid_to_zxy(id) = baked[id]
    /\ id + 1 \in DOMAIN baked /\ baked[id + 1][1] = baked[id][1] =>
         LET t == baked[id]  u == baked[id + 1] IN
         \/ t[2] = u[2] /\ (t[3] = u[3] + 1 \/ u[3] = t[3] + 1)
         \/ t[3] = u[3] /\ (t[2] = u[2] + 1 \/ u[2] = t[2] + 1)

(***************************************************************************)
(* The answer to a tile in range of its grid is that tile, baked or live:  *)
(* a grid whose tiles cannot be addressed uniquely is rejected up front.   *)
(* (generate.rs: the comment on aliasing; mvt_http.rs: render_mvt_tile.)   *)
(* The bake asks this of the layer's bounding box, the request is checked  *)
(* against the whole matrix.                                               *)
(***************************************************************************)
AnswersTheTileAsked == answer.got = answer.asked

(***************************************************************************)
(* A request inside the square the curve is defined on is answered its own *)
(* tile, on every grid and for every bounding box.  (mod.rs:               *)
(* zxy_to_tileid; mvt_http.rs: render_mvt_tile)                            *)
(***************************************************************************)
AnswersAddressableTiles ==
  answer.asked # None /\ answer.asked[2] < 2^(answer.asked[1]) => answer.got = answer.asked
==========================================================================
