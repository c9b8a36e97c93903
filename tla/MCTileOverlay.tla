-------------------------- MODULE MCTileOverlay --------------------------
(***************************************************************************)
(* Two tiles: the least for one tile's record to be replaced, at the same  *)
(* offset, by the other's.  One request is enough for everything between a *)
(* save and a compaction; a read overtaken by a compaction and a save      *)
(* needs two.  Tiles and requests are interchangeable.                     *)
(***************************************************************************)
EXTENDS TileOverlay, TLC

CONSTANTS t1, t2, r1, r2
MCTiles     == {t1, t2}
OneRequest  == {r1}
TwoRequests == {r1, r2}
Symmetry    == Permutations(MCTiles) \cup Permutations(Requests)
==========================================================================
