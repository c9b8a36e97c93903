---------------------------- MODULE TileStore ----------------------------
(***************************************************************************)
(* What the write-through cache promises, with every mechanism taken away: *)
(* a map from tiles to the blob kept for them.  A request offers the blob  *)
(* it encoded, and the map changes exactly when an offered blob is saved:  *)
(* then that tile's entry becomes that blob.  A compaction, a crash, a     *)
(* restart and the replay of the log are invisible, with one exception     *)
(* that the code does not rule out.  Once a save was cut short, the saves  *)
(* of the same process after it go astray: they change nothing kept, but   *)
(* the next compaction may publish anything under their tiles.             *)
(***************************************************************************)
CONSTANTS Tiles, Requests, Blobs, Garbage, None

VARIABLES
  kept,      \* [Tiles -> Blobs, Garbage or None], what a restart would answer
  offered,   \* [Requests -> Blobs or None], the blob a request is about to save
  cut,       \* was a save of this process cut short?
  astray     \* the tiles whose last save went astray

vars == <<kept, offered, cut, astray>>

Init ==
  /\ kept \in [Tiles -> Blobs \cup {None}]
  /\ offered = [r \in Requests |-> None]
  /\ cut = FALSE /\ astray = {}

Handed(r) == offered[r] # None /\ offered' = [offered EXCEPT ![r] = None]

Offer(r) ==
  /\ offered[r] = None
  /\ \E b \in Blobs : offered' = [offered EXCEPT ![r] = b]
  /\ UNCHANGED <<kept, cut, astray>>

Save(r) ==
  /\ ~cut
  /\ Handed(r)
  /\ kept' = [kept EXCEPT ![offered[r].tile] = offered[r]]
  /\ UNCHANGED <<cut, astray>>

\* skipped, or failed without a trace
Drop(r) == Handed(r) /\ UNCHANGED <<kept, cut, astray>>

CutShort(r) == Handed(r) /\ cut' = TRUE /\ UNCHANGED <<kept, astray>>

GoAstray(r) ==
  /\ cut
  /\ Handed(r)
  /\ astray' = astray \cup {offered[r].tile}
  /\ UNCHANGED <<kept, cut>>

\* a compaction after a save was cut short; it also makes the saves to come sound again
Publish ==
  /\ cut
  /\ kept' \in [Tiles -> Blobs \cup {Garbage, None}]
  /\ \A t \in Tiles \ astray : kept'[t] = kept[t]
  /\ UNCHANGED offered
  /\ \/ UNCHANGED <<cut, astray>>
     \/ cut' = FALSE /\ astray' = {}

\* the process dies: what it had not saved is gone, and what is kept stays
Die ==
  /\ offered' = [r \in Requests |-> None]
  /\ cut' = FALSE /\ astray' = {}
  /\ UNCHANGED kept

Next ==
  \/ Publish \/ Die
  \/ \E r \in Requests : Offer(r) \/ Save(r) \/ Drop(r) \/ CutShort(r) \/ GoAstray(r)

Spec == Init /\ [][Next]_vars
==========================================================================
