SPECIFICATION FairSpec
CONSTANTS
  Proc = {p1, p2}
  None = None
  MaxRun = 2
INVARIANTS
  LiveRunStaysOpen
  LockUncontended
  ClearExcludesBuilds
  WatermarkStaysSafe
PROPERTIES
  ImplementsActiveRuns
  PrepareProgresses
