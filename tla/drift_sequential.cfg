CONSTANTS
  t1 = t1
  t2 = t2
  e1 = e1
  e2 = e2
  e3 = e3
  f0 = f0
  f1 = f1
  f2 = f2
  NoEvent = NoEvent
  Threads <- OneThread
  Events <- PiledEvents
  Fields <- MCFields
  Carries <- MCCarries
  BaseFields <- MCBase
  AutoApply = TRUE
  PartialAnswers = FALSE
  Reapprove = FALSE
  MaxMappings = 3
  MaxDrifts = 12
  MaxRaised = 2
  MaxFailures = 1
SPECIFICATION FairSpec
CHECK_DEADLOCK FALSE
INVARIANTS OneOpenRequestPerShape WaitedForExtendsCurrent HeldIsDecidable
PROPERTIES ApprovalEmptiesThePile ResolvedStaysResolved
