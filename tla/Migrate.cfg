SPECIFICATION Spec
CONSTANTS
  Wake = {w1}
  Releases = {6, 9, 10, 13, 15, 16}
  Targets = {10, 15, 16}
  Found <- SomeFound
  Workspaces <- SomeWorkspaces
  NewJob = "new"
  NewFile = "new"
  MaxTries = 2
  Heeds = TRUE
INVARIANTS  OriginalSurvives
CHECK_DEADLOCK FALSE
