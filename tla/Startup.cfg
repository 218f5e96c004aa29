SPECIFICATION Spec
CONSTANTS
  Order <- MCOrder
  Slash = 2
  NULL = NULL
  MaxAttempts = 4
  WakeVersion <- MCWakeVersion
  MaxAdded = 2
  Invocations <- MCInvocations
INVARIANTS
  ConfigPriority
  
  
  ListedAreLive
\* A wake ends with its exit status.
CHECK_DEADLOCK FALSE
