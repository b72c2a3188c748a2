CONSTANTS
  d1 = d1
  p1 = p1
  p2 = p2
  Drifts <- OneDrift
  Pollers <- TwoPollers
  Slots = 2
  Slow = {"waiting", "analyze"}
  MaxJobs = 3
  MaxJobRestarts = 1
SPECIFICATION FairJobsSpec
CHECK_DEADLOCK FALSE
INVARIANTS OneAnalysisPerDrift
PROPERTIES EveryJobEnds OutcomeIsFinal
