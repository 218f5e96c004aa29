----------------------------- MODULE ActiveRuns -----------------------------
(***************************************************************************)
(* What the run table of wake.db promises to everything built on it.       *)
(*                                                                         *)
(* A run is one `wake` build.  Its row is "open" while end_time is null.   *)
(* An open run is "live" while its process exists and "dead" once it has   *)
(* crashed.  A live run is closed only by its own process; a dead run is   *)
(* closed by whoever reaps it.  Each run takes a GC watermark once it has  *)
(* started: every run up to the watermark is over, and stays over.         *)
(*                                                                         *)
(* RunRegistry shows that the row, lock-file and probing protocol of       *)
(* database.cpp and run_lock.cpp implements this.  BuildStore builds on it.*)
(***************************************************************************)
EXTENDS Integers

CONSTANT MaxRun  \* bound on the number of runs ever recorded

ASSUME MaxRunAssumption == MaxRun \in Nat

VARIABLES
  status,     \* status[r]: what has become of run r
  watermark   \* watermark[r]: gc_watermark of run r's process, 0 until computed

runVars == <<status, watermark>>

Run == 1 .. MaxRun

Status == {"absent", "live", "dead", "over"}

RunsTypeOK ==
  /\ status \in [Run -> Status]
  /\ watermark \in [Run -> 0 .. MaxRun]

RunsInit ==
  /\ status = [r \in Run |-> "absent"]
  /\ watermark = [r \in Run |-> 0]

\* Runs whose end_time is null.
Incomplete == {r \in Run : status[r] \in {"live", "dead"}}

\* A new row takes the next autoincrement id.
StartRun(r) ==
  /\ status[r] = "absent"
  /\ \A q \in 1 .. (r - 1) : status[q] # "absent"
  /\ status' = [status EXCEPT ![r] = "live"]
  /\ UNCHANGED watermark

\* min(run_id) - 1 over the open runs.
SetWatermark(r) ==
  /\ status[r] = "live"
  /\ \E m \in Incomplete :
       /\ \A q \in Incomplete : m <= q
       /\ watermark' = [watermark EXCEPT ![r] = m - 1]
  /\ UNCHANGED status

CloseRun(r) ==
  /\ status[r] = "live"
  /\ status' = [status EXCEPT ![r] = "over"]
  /\ UNCHANGED watermark

CrashRun(r) ==
  /\ status[r] = "live"
  /\ status' = [status EXCEPT ![r] = "dead"]
  /\ UNCHANGED watermark

\* One transaction closes every run found dead.
ReapRuns(S) ==
  /\ S # {}
  /\ \A r \in S : status[r] = "dead"
  /\ status' = [r \in Run |-> IF r \in S THEN "over" ELSE status[r]]
  /\ UNCHANGED watermark

RunsNext ==
  \/ \E r \in Run : StartRun(r) \/ SetWatermark(r) \/ CloseRun(r) \/ CrashRun(r)
  \/ \E S \in SUBSET Run : ReapRuns(S)

RunsSpec == RunsInit /\ [][RunsNext]_runVars

-----------------------------------------------------------------------------
\* Run ids are handed out in order: the rows that exist are a prefix.
IdsArePrefix ==
  \A r \in Run : status[r] # "absent" => \A q \in 1 .. (r - 1) : status[q] # "absent"

\* Only a run that has started holds a watermark, and it lies below the run.
WatermarkBelowOwner ==
  \A r \in Run : watermark[r] = 0 \/ (status[r] # "absent" /\ watermark[r] < r)

\* No open run is at or below any process's cached watermark, however long ago
\* prepare() computed it: what finish_job() and clean() delete with that
\* watermark never belongs to a run that is still going.
WatermarkSafe ==
  \A r \in Run, q \in Incomplete : watermark[r] < q
=============================================================================
