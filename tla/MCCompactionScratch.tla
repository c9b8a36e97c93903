----------------------- MODULE MCCompactionScratch -----------------------
(***************************************************************************)
(* Two chunks of tile data: one can be written, and not yet the other.     *)
(* The two archives have one name, in two directories.                     *)
(***************************************************************************)
EXTENDS CompactionScratch, TLC

CONSTANTS roads, rivers
TwoJobs  == {roads, rivers}
SameStem == [j \in Jobs |-> "tiles"]
==========================================================================
