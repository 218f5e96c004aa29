SPECIFICATION Spec
CONSTANTS
  MaxRun = 2
  p1 = p1
  p2 = p2
  h1 = h1
  h2 = h2
  k1 = k1
  k2 = k2
  NoHash = NoHash
  Path = {p1}
  Hash = {h1, h2}
  Key = {k1, k2}
  Outcomes <- ClashOutcomes
  Visible <- ClashVisible
  Reads <- ClashReads
  Command <- OwnCommand
  MaxJob = 2
  MaxFault = 1
  MaxCommand = 1
INVARIANTS UniqueLivePath KnownRowsPersist JobRowsExist HeldJobsKept
CHECK_DEADLOCK FALSE
