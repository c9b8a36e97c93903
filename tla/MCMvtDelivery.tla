-------------------------- MODULE MCMvtDelivery --------------------------
(* Small instances of MvtDelivery. *)
EXTENDS MvtDelivery, TLC

CONSTANTS r1, r2

TwoRequests == {r1, r2}
TwoClients  == {{}, {"gzip", "br"}}
EveryTier   == {"none", "archive", "overlay"}
LaterEmpty  == {1}
Symmetry    == Permutations(TwoRequests)
==========================================================================
