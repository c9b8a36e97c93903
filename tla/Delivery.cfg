CONSTANTS
  r1 = r1
  r2 = r2
  None = None
  Requests <- TwoRequests
  AcceptSets <- TwoClients
  MaxRev = 1
  EmptyRevs <- LaterEmpty
  Tiers <- EveryTier
  StoredIn = "zstd"
  Preferred = "br"
  CacheOn = TRUE
  Front = TRUE
SPECIFICATION Spec
INVARIANTS
  TypeOK
  NobodyGetsBytesItCannotDecode
  NotModifiedIsExact
  RepresentationsAgree
SYMMETRY Symmetry
