CONSTANTS
  t1 = t1
  t2 = t2
  Threads <- OneThread
  Ops <- AllOps
  Targets <- Actives
  ForeignKeys = FALSE
  MaxMappings = 3
  MaxRequests = 2
  MaxFailures = 1
SPECIFICATION Spec
CHECK_DEADLOCK FALSE
INVARIANTS BaselineExists CacheIsFresh PublishedApart
