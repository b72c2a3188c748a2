CONSTANTS
  Threads = {t1, t2}
  EnvNames <- MCEnvNames
  Lower <- MCLower
  Seeded = "Default"
  BatchEnv = "default"
  Names <- MCNames
  NoName = NoName
  MaxRequests = 4
SYMMETRY Requests
SPECIFICATION Spec
CHECK_DEADLOCK FALSE
INVARIANTS EventsKnowTheirSource RegisteredOnce
PROPERTY RemovedIsGone
