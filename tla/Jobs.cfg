SPECIFICATION FairSpec
CONSTANTS
  j1 = j1
  j2 = j2
  j3 = j3
  Job = {j1, j2, j3}
  Std = {"stdout"}
  Runner = {"runner_out"}
  Threads <- SomeThreads
  Memory <- SomeMemory
  CpuLimit = 100
  MemLimit = 4
  MaxChildren = 2
  Programs <- SomePrograms
INVARIANTS BudgetsRespected LoopEndsIdle ExitsAreNoticed OutputIsComplete 
PROPERTIES JobsComplete
CHECK_DEADLOCK FALSE
