CONSTANTS
  t1 = t1
  t2 = t2
  e1 = e1
  e2 = e2
  e3 = e3
  f0 = f0
  f1 = f1
  f2 = f2
  NoEvent = NoEvent
  Threads <- TwoThreads
  Events <- TwoEvents
  Fields <- MCFields
  Carries <- MCCarries
  BaseFields <- MCBase
  AutoApply = FALSE
  PartialAnswers = FALSE
  Reapprove = TRUE
  MaxMappings = 3
  MaxDrifts = 2
  MaxRaised = 3
  MaxFailures = 0
SPECIFICATION Spec
CHECK_DEADLOCK FALSE
INVARIANTS RequestBeyondBaseline ReleasedIsUnderstood HeldIsExplained
SYMMETRY ThreadAndShapeSymmetry
