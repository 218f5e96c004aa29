---------------------------- MODULE RunRegistry ----------------------------
(***************************************************************************)
(* The life of a run as the processes carry it out: Database::prepare,     *)
(* reap_dead_runs, finish_run and close, the --clean and --prune commands, *)
(* and the run lock files (.wake/locks/run_N.lock) with their fcntl locks. *)
(*                                                                         *)
(* A process may crash between any two steps.  The kernel then drops its   *)
(* file locks and SQLite rolls its open transaction back; files and        *)
(* committed rows stay.                                                    *)
(***************************************************************************)
EXTENDS Integers, FiniteSets

CONSTANTS
  Proc,    \* process slots: a slot runs one wake process after another
  MaxRun,  \* bound on run ids
  None     \* no process

ASSUME RegistryAssumption ==
  /\ MaxRun \in Nat
  /\ None \notin Proc

Run == 1 .. MaxRun

VARIABLES
  runs,       \* runs[r]: committed row, by end_time (null, > 0, -1)
  writer,     \* the process inside `begin immediate`, or None
  linked,     \* run ids whose lock file is linked in .wake/locks
  holder,     \* holder[r]: process with the fcntl lock on that file, or None
  aged,       \* open runs started more than 24 hours ago
  pc,         \* pc[p]: where process p is
  me,         \* me[p]: imp->run_id, 0 when prepare() was never called
  listed,     \* listed[p]: incomplete_runs still to be probed
  old,        \* old[p]: runs older than 24 hours at reap_dead_runs' ts
  opened,     \* opened[p]: run whose lock file p is probing, or 0
  found,      \* found[p]: dead_runs
  watermark   \* watermark[r]: gc_watermark of the process of run r

procVars == <<pc, me, listed, old, opened, found>>
vars == <<runs, writer, linked, holder, aged, procVars, watermark>>

Phase == {"idle", "insert", "lockfile", "commit", "list", "probe", "try", "unlink",
          "watermark", "build", "unlock", "exit", "clear", "clearing"}

TypeOK ==
  /\ runs \in [Run -> {"absent", "running", "done", "reaped"}]
  /\ writer \in Proc \cup {None}
  /\ linked \in SUBSET Run
  /\ holder \in [Run -> Proc \cup {None}]
  /\ aged \in SUBSET Run
  /\ pc \in [Proc -> Phase]
  /\ me \in [Proc -> 0 .. MaxRun]
  /\ listed \in [Proc -> SUBSET Run]
  /\ old \in [Proc -> SUBSET Run]
  /\ opened \in [Proc -> 0 .. MaxRun]
  /\ found \in [Proc -> SUBSET Run]
  /\ watermark \in [Run -> 0 .. MaxRun]

Init ==
  /\ runs = [r \in Run |-> "absent"]
  /\ writer = None
  /\ linked = {}
  /\ holder = [r \in Run |-> None]
  /\ aged = {}
  /\ pc = [p \in Proc |-> "idle"]
  /\ me = [p \in Proc |-> 0]
  /\ listed = [p \in Proc |-> {}]
  /\ old = [p \in Proc |-> {}]
  /\ opened = [p \in Proc |-> 0]
  /\ found = [p \in Proc |-> {}]
  /\ watermark = [r \in Run |-> 0]

Open == {r \in Run : runs[r] = "running"}

\* Take the write lock of the database, or wait for it.
CanWrite == writer = None

goto(p, l) == pc' = [pc EXCEPT ![p] = l]

\* The process is gone: its memory, its file locks and its transaction with it.
Gone(p) ==
  /\ pc' = [pc EXCEPT ![p] = "idle"]
  /\ me' = [me EXCEPT ![p] = 0]
  /\ listed' = [listed EXCEPT ![p] = {}]
  /\ old' = [old EXCEPT ![p] = {}]
  /\ opened' = [opened EXCEPT ![p] = 0]
  /\ found' = [found EXCEPT ![p] = {}]
  /\ holder' = [r \in Run |-> IF holder[r] = p THEN None ELSE holder[r]]
  /\ writer' = IF writer = p THEN None ELSE writer

-----------------------------------------------------------------------------
(* Database::prepare and RunLock::create_and_acquire *)

\* begin_rw_txn and add_run: the row and its id are not committed yet.
InsertRun(p) ==
  /\ pc[p] = "idle"
  /\ CanWrite
  /\ \E r \in Run :
       /\ runs[r] = "absent"
       /\ \A q \in 1 .. (r - 1) : runs[q] # "absent"
       /\ me' = [me EXCEPT ![p] = r]
  /\ writer' = p
  /\ goto(p, "insert")
  /\ UNCHANGED <<runs, linked, holder, aged, listed, old, opened, found, watermark>>

\* open(O_CREAT) and write_pid_fd.
CreateLock(p) ==
  /\ pc[p] = "insert"
  /\ linked' = linked \cup {me[p]}
  /\ goto(p, "lockfile")
  /\ UNCHANGED <<runs, writer, holder, aged, me, listed, old, opened, found, watermark>>

\* F_SETLKW waits, inside the transaction, until nobody else holds the lock.
AcquireLock(p) ==
  /\ pc[p] = "lockfile"
  /\ holder[me[p]] = None
  /\ holder' = [holder EXCEPT ![me[p]] = p]
  /\ goto(p, "commit")
  /\ UNCHANGED <<runs, writer, linked, aged, me, listed, old, opened, found, watermark>>

\* create_and_acquire fails and prepare exits: open failed (no file), the pid
\* could not be written (the file stays), or fcntl failed (the file is unlinked).
LockFails(p) ==
  /\ \/ pc[p] = "insert" /\ UNCHANGED linked
     \/ pc[p] = "lockfile" /\ linked' \in {linked, linked \ {me[p]}}
  /\ Gone(p)
  /\ UNCHANGED <<runs, aged, watermark>>

CommitRun(p) ==
  /\ pc[p] = "commit"
  /\ runs' = [runs EXCEPT ![me[p]] = "running"]
  /\ writer' = None
  /\ goto(p, "list")
  /\ UNCHANGED <<linked, holder, aged, me, listed, old, opened, found, watermark>>

\* `wake --clean` and `wake --prune` open the database and reap first.
StartMaintenance(p) ==
  /\ pc[p] = "idle"
  /\ goto(p, "list")
  /\ UNCHANGED <<runs, writer, linked, holder, aged, me, listed, old, opened, found, watermark>>

-----------------------------------------------------------------------------
(* Database::reap_dead_runs and RunLockProbe::probe(cleanup = true) *)

\* Mutant: the lock directory is scanned instead of the table.
ListLockFiles(p) ==
  /\ pc[p] = "list"
  /\ listed' = [listed EXCEPT ![p] = linked \ {me[p]}]
  /\ old' = [old EXCEPT ![p] = aged]
  /\ goto(p, "probe")
  /\ UNCHANGED <<runs, writer, linked, holder, aged, me, opened, found, watermark>>

ListIncomplete(p) ==
  /\ pc[p] = "list"
  /\ listed' = [listed EXCEPT ![p] = Open \ {me[p]}]
  /\ old' = [old EXCEPT ![p] = aged]
  /\ goto(p, "probe")
  /\ UNCHANGED <<runs, writer, linked, holder, aged, me, opened, found, watermark>>

NextProbe(p, r) == r \in listed[p] /\ \A q \in listed[p] : r <= q

\* Mutant: a young run without a lock file is probed again until it is old.
ProbeMissingRetry(p, r) ==
  /\ pc[p] = "probe"
  /\ NextProbe(p, r)
  /\ r \notin linked
  /\ listed' = [listed EXCEPT ![p] = IF r \in old[p] THEN @ \ {r} ELSE @]
  /\ found' = [found EXCEPT ![p] = IF r \in old[p] THEN @ \cup {r} ELSE @]
  /\ UNCHANGED <<runs, writer, linked, holder, aged, pc, me, old, opened, watermark>>

\* No lock file: dead only if the run started more than 24 hours ago.
ProbeMissing(p, r) ==
  /\ pc[p] = "probe"
  /\ NextProbe(p, r)
  /\ r \notin linked
  /\ listed' = [listed EXCEPT ![p] = @ \ {r}]
  /\ found' = [found EXCEPT ![p] = IF r \in old[p] THEN @ \cup {r} ELSE @]
  /\ UNCHANGED <<runs, writer, linked, holder, aged, pc, me, old, opened, watermark>>

ProbeOpen(p, r) ==
  /\ pc[p] = "probe"
  /\ NextProbe(p, r)
  /\ r \in linked
  /\ opened' = [opened EXCEPT ![p] = r]
  /\ goto(p, "try")
  /\ UNCHANGED <<runs, writer, linked, holder, aged, me, listed, old, found, watermark>>

\* F_SETLK succeeds: the owner is dead.
ProbeLock(p) ==
  /\ pc[p] = "try"
  /\ holder[opened[p]] = None
  /\ holder' = [holder EXCEPT ![opened[p]] = p]
  /\ goto(p, "unlink")
  /\ UNCHANGED <<runs, writer, linked, aged, me, listed, old, opened, found, watermark>>

\* Mutant: a lock that somebody holds is taken for one left behind.
ProbeHeldDead(p) ==
  /\ pc[p] = "try"
  /\ holder[opened[p]] # None
  /\ listed' = [listed EXCEPT ![p] = @ \ {opened[p]}]
  /\ found' = [found EXCEPT ![p] = @ \cup {opened[p]}]
  /\ opened' = [opened EXCEPT ![p] = 0]
  /\ goto(p, "probe")
  /\ UNCHANGED <<runs, writer, linked, holder, aged, me, old, watermark>>

\* EAGAIN or EACCES: somebody holds it, taken for alive.
ProbeHeld(p) ==
  /\ pc[p] = "try"
  /\ holder[opened[p]] # None
  /\ listed' = [listed EXCEPT ![p] = @ \ {opened[p]}]
  /\ opened' = [opened EXCEPT ![p] = 0]
  /\ goto(p, "probe")
  /\ UNCHANGED <<runs, writer, linked, holder, aged, me, old, found, watermark>>

\* open or fcntl fails for another reason: a warning, and taken for alive.
ProbeError(p, r) ==
  /\ \/ pc[p] = "probe" /\ NextProbe(p, r)
     \/ pc[p] = "try" /\ r = opened[p]
  /\ listed' = [listed EXCEPT ![p] = @ \ {r}]
  /\ opened' = [opened EXCEPT ![p] = 0]
  /\ goto(p, "probe")
  /\ UNCHANGED <<runs, writer, linked, holder, aged, me, old, found, watermark>>

\* unlink while locked, release, close, report dead.
ProbeUnlink(p) ==
  /\ pc[p] = "unlink"
  /\ linked' = linked \ {opened[p]}
  /\ holder' = [holder EXCEPT ![opened[p]] = None]
  /\ listed' = [listed EXCEPT ![p] = @ \ {opened[p]}]
  /\ found' = [found EXCEPT ![p] = @ \cup {opened[p]}]
  /\ opened' = [opened EXCEPT ![p] = 0]
  /\ goto(p, "probe")
  /\ UNCHANGED <<runs, writer, aged, me, old, watermark>>

\* end_time := -1 for every dead run, in one transaction when there are any.
\* A build then goes on to its watermark, --clean and --prune to their check.
ReapDead(p) ==
  /\ pc[p] = "probe"
  /\ listed[p] = {}
  /\ found[p] # {} => CanWrite
  /\ runs' = [r \in Run |-> IF r \in found[p] THEN "reaped" ELSE runs[r]]
  /\ found' = [found EXCEPT ![p] = {}]
  /\ goto(p, IF me[p] = 0 THEN "clear" ELSE "watermark")
  /\ UNCHANGED <<writer, linked, holder, aged, me, listed, old, opened, watermark>>

-----------------------------------------------------------------------------
(* The rest of prepare, finish_run, process exit *)

\* Mutant: min(run_id), without the - 1.
IsOldestOpen(w) ==
  IF Open = {} THEN w = 0 ELSE w \in Open /\ \A q \in Open : w <= q

\* select min(run_id) - 1 ... where end_time is null; a null result reads as 0.
IsWatermark(w) ==
  IF Open = {} THEN w = 0 ELSE (w + 1) \in Open /\ \A q \in Open : w < q

ComputeWatermark(p) ==
  /\ pc[p] = "watermark"
  /\ \E w \in 0 .. MaxRun :
       /\ IsWatermark(w)
       /\ watermark' = [watermark EXCEPT ![me[p]] = w]
  /\ goto(p, "build")
  /\ UNCHANGED <<runs, writer, linked, holder, aged, me, listed, old, opened, found>>

FinishRun(p) ==
  /\ pc[p] = "build"
  /\ CanWrite
  /\ runs' = [runs EXCEPT ![me[p]] = "done"]
  /\ goto(p, "unlock")
  /\ UNCHANGED <<writer, linked, holder, aged, me, listed, old, opened, found, watermark>>

UnlinkOwn(p) ==
  /\ pc[p] = "unlock"
  /\ linked' = linked \ {me[p]}
  /\ goto(p, "exit")
  /\ UNCHANGED <<runs, writer, holder, aged, me, listed, old, opened, found, watermark>>

\* clean(), CAS collection, then Database::close drops the lock's descriptor.
Exit(p) ==
  /\ pc[p] = "exit"
  /\ Gone(p)
  /\ UNCHANGED <<runs, linked, aged, watermark>>

\* Mutant: the check is a transaction of its own.
ClearBeginUnlocked(p) ==
  /\ pc[p] = "clear"
  /\ CanWrite
  /\ Open = {}
  /\ goto(p, "clearing")
  /\ UNCHANGED <<runs, writer, linked, holder, aged, me, listed, old, opened, found, watermark>>

\* clear_jobs_if_safe and prune_to_workspace: refuse while any run is open,
\* otherwise keep the write lock while jobs and files are deleted.
ClearBegin(p) ==
  /\ pc[p] = "clear"
  /\ CanWrite
  /\ Open = {}
  /\ writer' = p
  /\ goto(p, "clearing")
  /\ UNCHANGED <<runs, linked, holder, aged, me, listed, old, opened, found, watermark>>

ClearRefused(p) ==
  /\ pc[p] = "clear"
  /\ CanWrite
  /\ Open # {}
  /\ Gone(p)
  /\ UNCHANGED <<runs, linked, aged, watermark>>

ClearEnd(p) ==
  /\ pc[p] = "clearing"
  /\ Gone(p)
  /\ UNCHANGED <<runs, linked, aged, watermark>>

\* single_step gives up on SQLITE_BUSY after its retries and exits.
BusyExit(p) ==
  /\ ~CanWrite
  /\ \/ pc[p] \in {"build", "clear"}
     \/ pc[p] = "probe" /\ listed[p] = {} /\ found[p] # {}
  /\ Gone(p)
  /\ UNCHANGED <<runs, linked, aged, watermark>>

-----------------------------------------------------------------------------
(* The environment *)

Crash(p) ==
  /\ pc[p] # "idle"
  /\ Gone(p)
  /\ UNCHANGED <<runs, linked, aged, watermark>>

Age(r) ==
  /\ runs[r] = "running"
  /\ r \notin aged
  /\ aged' = aged \cup {r}
  /\ UNCHANGED <<runs, writer, linked, holder, procVars, watermark>>

\* The steps a started process takes by itself.  Giving up a busy database is
\* one: the busy timeout and the retries are finite.
Step(p) ==
  \/ CreateLock(p) \/ AcquireLock(p) \/ CommitRun(p)
  \/ ListIncomplete(p)
  \/ \E r \in Run : ProbeMissing(p, r) \/ ProbeOpen(p, r)
  \/ ProbeLock(p) \/ ProbeHeld(p) \/ ProbeUnlink(p) \/ ReapDead(p)
  \/ ComputeWatermark(p) \/ FinishRun(p) \/ UnlinkOwn(p) \/ Exit(p)
  \/ ClearBegin(p) \/ ClearRefused(p) \/ ClearEnd(p) \/ BusyExit(p)

\* Failures, which nothing obliges to happen.
Fault(p) == LockFails(p) \/ (\E r \in Run : ProbeError(p, r)) \/ Crash(p)

Next ==
  \/ \E p \in Proc : InsertRun(p) \/ StartMaintenance(p) \/ Step(p) \/ Fault(p)
  \/ \E r \in Run : Age(r)

Spec == Init /\ [][Next]_vars

\* A started process is scheduled; nothing obliges anyone to start or crash one.
FairSpec == Spec /\ \A p \in Proc : WF_vars(Step(p))

-----------------------------------------------------------------------------
(* Properties *)

\* p has committed its row and has not reached finish_run.
Building(p) ==
  me[p] # 0 /\ pc[p] \in {"list", "probe", "try", "unlink", "watermark", "build"}

\* A build's row stays open until its own finish_run commits: prepare takes the
\* lock before it commits the row, so no reap_dead_runs, in whatever order its
\* listing, probing and marking interleave with other processes, closes it.
LiveRunStaysOpen == \A p \in Proc : Building(p) => runs[me[p]] = "running"

\* prepare waits for its own lock (F_SETLKW) while it holds the database write
\* lock.  The wait never blocks, even on a lock file that an earlier process
\* left behind when its transaction rolled back and its id was handed out again.
LockUncontended == \A p \in Proc : pc[p] = "lockfile" => holder[me[p]] = None

\* While --clean or --prune deletes jobs and files, no build is under way.
ClearExcludesBuilds ==
  \A p, q \in Proc : pc[p] = "clearing" => ~Building(q)

\* The listing `wake --ps` makes (an open row whose lock probe(cleanup = false)
\* does not report free) never leaves out a build that is under way.
IsLive(r) == r \notin linked \/ holder[r] # None

LiveBuildsAreListed ==
  \A p \in Proc : Building(p) => IsLive(me[p])

\* A process that has begun prepare() ends up building or exits; neither the
\* write lock nor another process's run lock can hold it up for ever.
PrepareProgresses ==
  \A p \in Proc : (pc[p] = "insert") ~> (pc[p] \in {"build", "idle"})

\* end_time = -1 is the mark of a run that crashed: a run that finish_run has
\* marked complete is not re-marked as reaped.
CompletedStaysCompleted ==
  [][\A r \in Run : runs[r] = "done" => runs'[r] = "done"]_vars

-----------------------------------------------------------------------------
(* Refinement of ActiveRuns: an open row is live while its process exists. *)

Owned(r) == \E p \in Proc : me[p] = r

statusOf == [r \in Run |->
  IF runs[r] = "absent" THEN "absent"
  ELSE IF runs[r] # "running" THEN "over"
  ELSE IF Owned(r) THEN "live" ELSE "dead"]

AR == INSTANCE ActiveRuns WITH status <- statusOf

\* The lock-file protocol implements the abstract life of a run: a live run is
\* closed only by itself, and only crashed runs are reaped.
ImplementsActiveRuns == AR!RunsSpec

\* The cached watermark of prepare() stays below every open run.
WatermarkStaysSafe == AR!WatermarkSafe
=============================================================================
