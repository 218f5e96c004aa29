CONSTANTS
  j1 = j1  j2 = j2
  Jobs <- MCJobs
  Key <- MCKey
  Policy <- MCPolicy
  Invocation <- MCInvocation
  Chunk = 1
  MaxFaults = 1
SPECIFICATION Spec
INVARIANTS  HitsAreGenuine
CHECK_DEADLOCK FALSE
