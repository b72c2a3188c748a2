CONSTANTS
  t1 = t1
  t2 = t2
  a = a
  b = b
  c = c
  d = d
  x = x
  fw = fw
  NoSource = NoSource
  Threads <- TwoThreads
  Items <- MCItems
  Source <- MCSource
  Outcome <- MCOutcome
  Batches <- MCBatches
  Purging = TRUE
  Segment = 2
  MaxRefs = 4
  MaxFailures = 1
SPECIFICATION MCSpec
CHECK_DEADLOCK FALSE
SYMMETRY ThreadSymmetry
INVARIANTS ReplyNamesItsRow SentAreStored SequenceFollowsArrival RowsHaveRawFiles
PROPERTIES BatchIsLines
