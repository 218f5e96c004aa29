CONSTANTS
  j1 = j1
  NULL = NULL
  Job = {j1}
  Paths <- SomePaths
  Input <- SomeInput
  Slots = {1}
  MaxStaging = 2
  MaxItems = 3
  Kinds = {"file", "symlink", "directory", "special"}
  Hidden = ".fuse_hidden"
SPECIFICATION Spec
INVARIANTS
  WorkspaceIsUntouched
  ViewIsCoherent
  ReportIsFaithful
CHECK_DEADLOCK FALSE
