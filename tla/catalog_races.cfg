CONSTANTS
  t1 = t1
  t2 = t2
  Threads <- TwoThreads
  Ops <- RacingOps
  Targets <- Activations
  ForeignKeys = TRUE
  MaxMappings = 2
  MaxRequests = 1
  MaxFailures = 1
SPECIFICATION FairSpec
CHECK_DEADLOCK FALSE
PROPERTIES CacheCatchesUp
