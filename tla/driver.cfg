SPECIFICATION FairSpec
CONSTANTS
  t1 = t1
  t2 = t2
  Threads = {t1, t2}
  PAGE_SIZE = 2
  Memory <- FourBytes
  Requests <- MixedRequests
  Faults = {"names", "lock", "map", "pool"}
INVARIANT TypeOK
INVARIANT CopyInsideView
INVARIANT TrueMeansMoved
INVARIANT NamesFollowDriver
PROPERTY AccessImplemented
PROPERTY RequestCompletes
PROPERTY StopCompletes
