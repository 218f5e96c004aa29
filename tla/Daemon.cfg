CONSTANTS
  c1 = c1
  c2 = c2
  d1 = d1
  d2 = d2
  NULL = NULL
  Client = {c1, c2}
  Daemon = {d1, d2}
  MaxRetries = 1
  MaxAttempts = 1
  MaxRuns = 2
  MaxTerms = 1
  MaxDeaths = 1
SPECIFICATION Spec
INVARIANTS
  OneMount
  CancelIsHonoured
PROPERTIES
  DaemonLeaves
CHECK_DEADLOCK FALSE
