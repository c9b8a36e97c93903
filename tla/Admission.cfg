\* Three requests over one permit and two threads: one is always left over to
\* queue; a client that disconnects gives its permit back while its render goes
\* on, so that a second thread can join that render.
CONSTANTS
  None = None
  Requests = {r1, r2, r3}
  TileKeys = {tile}
  MapKeys = {map}
  Permits = 1
  Threads = 2
  Disconnects = TRUE
SPECIFICATION FairSpec
INVARIANTS
  TypeOK
  OneRenderPerTile
  ErrorsAreNeverPinned
  RendersWithinPermits
PROPERTY EveryRequestIsAnswered
