SPECIFICATION Spec
CONSTANTS
  Wake = {w1, w2}
  Path = {p1}
  Content = {c1, c2}
  Kinds = {"workspace", "private"}
  Types = {"file", "symlink", "directory"}
  MaxJobs = 2
  MaxCrashes = 1
  MaxRedos = 1
  Partial = Partial
  NULL = NULL
SYMMETRY Symmetry
INVARIANTS
  
  
  LeftoversHaveACause
CHECK_DEADLOCK FALSE
