----------------------------- MODULE MCJobTable -----------------------------
(* Small sets of jobs for JobTable. *)
EXTENDS JobTable

CONSTANTS j1, j2, j3

\* The first two fit side by side, the third exceeds the memory by itself.
SomeThreads == [j \in Job |-> IF j = j3 THEN 40 ELSE 60]
SomeMemory == [j \in Job |-> CASE j = j1 -> 1 [] j = j2 -> 2 [] j = j3 -> 5]

\* Three jobs that compete for the budgets and write nothing, and one job of
\* which every stream and every wait queue is used.
SomePrograms ==
  {[jobs |-> {j1, j2, j3}, streams |-> {"stdout"}, waits |-> {}, data |-> 0],
   [jobs |-> {j1}, streams |-> Stream, waits |-> Queue, data |-> 2]}
=============================================================================
