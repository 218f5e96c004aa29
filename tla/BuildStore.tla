----------------------------- MODULE BuildStore -----------------------------
(***************************************************************************)
(* What concurrent wake builds share: the jobs, files, run_jobs and        *)
(* run_files tables of wake.db, the content-addressable store (CAS) and    *)
(* the workspace.  The life of a run is that of ActiveRuns; here its       *)
(* process runs or reuses jobs, one after the other, then finishes,        *)
(* cleans the database and collects dead blobs.  `wake --rm`, `--clean`    *)
(* and `--prune` run beside it.                                            *)
(*                                                                         *)
(* Every action that writes the database is one `begin immediate`          *)
(* transaction; reads, CAS and workspace operations between transactions   *)
(* are actions of their own.  A file row is <<path, hash>>: type and mode  *)
(* are part of the hash.                                                   *)
(***************************************************************************)
EXTENDS ActiveRuns, FiniteSets

CONSTANTS
  Path, Hash,
  NoHash,    \* nothing at that workspace path
  Key,       \* job identities: directory, command, environment, stdin, signature
  Outcomes,  \* Outcomes[k]: the sets of file rows a job of key k may output
  Visible,   \* Visible[k]: the paths a rule may make visible to a job of key k
  Reads,     \* Reads[k]: the paths such a job reports as inputs
  Command,   \* Command[k]: what is left of key k without its signature
  MaxJob,    \* bound on job ids
  MaxFault,  \* bound on crashes and I/O failures
  MaxCommand \* bound on --rm, --clean, --prune and deletions by the user

Row == Path \X Hash
Job == 1 .. MaxJob
Proc == 0 .. MaxRun  \* the process of each run, and 0: a `wake --prune`

OnePerPath(S) == \A x, y \in S : x[1] = y[1] => x = y

ASSUME StoreAssumption ==
  /\ NoHash \notin Hash
  /\ MaxJob \in Nat /\ MaxFault \in Nat /\ MaxCommand \in Nat
  /\ Key # {}
  /\ Visible \in [Key -> SUBSET Path] /\ Reads \in [Key -> SUBSET Path]
  /\ Outcomes \in [Key -> SUBSET SUBSET Row]
  /\ \A k \in Key : \A S \in Outcomes[k] : OnePerPath(S)

VARIABLES
  files,      \* files[x]: row x of the files table
  runFiles,   \* runFiles[r]: rows claimed by run r (run_files)
  jobs,       \* job ids in the jobs table
  info,       \* info[j]: row j of the jobs table with its filetree
  nextJob,    \* next autoincrement job id
  runJobs,    \* runJobs[r]: jobs of run r (run_jobs)
  blobs,      \* hashes with a blob in the CAS
  workspace,  \* workspace[p]: content materialized at path p
  stage,      \* stage[r]: how far the process of run r is; stage[0]: --prune's
  work,       \* work[r]: the job in hand of that process
  held,       \* held[r]: jobs its wake program has as values
  known,      \* known[r]: Paths its wake program has as values
  scan,       \* scan[r]: the CAS listing that process is collecting
  rmTodo,     \* paths a `wake --rm` has still to unlink
  faults, commands

dbVars == <<files, runFiles, jobs, info, nextJob, runJobs>>
diskVars == <<blobs, workspace>>
procVars == <<stage, work, held, known, scan>>
vars == <<runVars, dbVars, diskVars, procVars, rmTodo, faults, commands>>

JobInfo == [key : Key, keep : BOOLEAN, done : BOOLEAN, err : BOOLEAN,
            visible : SUBSET Row, inputs : SUBSET Row, outputs : SUBSET Row]

At == {"idle", "claim", "fetch", "insert", "execute", "store", "ingest", "status", "finish",
       "panic"}

\* key, visible: the job in hand and what it may read; job: its id, or the
\* reuse candidate; outs: its outputs, of which todo are to be stored or
\* ingested and ready to be materialized; ok: it exited with status 0;
\* bad: an output could not be ingested or materialized.
Work == [at : At, key : Key, visible : SUBSET Row, job : 0 .. MaxJob, outs : SUBSET Row,
         todo : SUBSET Row, ready : SUBSET Row, ok : BOOLEAN, bad : BOOLEAN]

AnyKey == CHOOSE k \in Key : TRUE

Idle == [at |-> "idle", key |-> AnyKey, visible |-> {}, job |-> 0, outs |-> {}, todo |-> {},
         ready |-> {}, ok |-> FALSE, bad |-> FALSE]

NoInfo == [key |-> AnyKey, keep |-> FALSE, done |-> FALSE, err |-> FALSE,
           visible |-> {}, inputs |-> {}, outputs |-> {}]

DbTypeOK ==
  /\ files \in [Row -> {"none", "live", "deleted"}]
  /\ runFiles \in [Run -> SUBSET Row]
  /\ jobs \in SUBSET Job
  /\ info \in [Job -> JobInfo]
  /\ nextJob \in 1 .. (MaxJob + 1)
  /\ runJobs \in [Run -> SUBSET Job]

DiskTypeOK ==
  /\ blobs \in SUBSET Hash
  /\ workspace \in [Path -> Hash \cup {NoHash}]

ProcTypeOK ==
  /\ stage \in [Proc -> {"none", "prepare", "build", "clean", "scan", "gc", "gone"}]
  /\ work \in [Run -> Work]
  /\ held \in [Run -> SUBSET Job]
  /\ known \in [Run -> SUBSET Row]
  /\ scan \in [Proc -> SUBSET Hash]

TypeOK ==
  /\ RunsTypeOK /\ DbTypeOK /\ DiskTypeOK /\ ProcTypeOK
  /\ rmTodo \in SUBSET Path
  /\ faults \in 0 .. MaxFault
  /\ commands \in 0 .. MaxCommand

Init ==
  /\ RunsInit
  /\ files = [x \in Row |-> "none"]
  /\ runFiles = [r \in Run |-> {}]
  /\ jobs = {}
  /\ info = [j \in Job |-> NoInfo]
  /\ nextJob = 1
  /\ runJobs = [r \in Run |-> {}]
  /\ blobs = {}
  /\ workspace = [p \in Path |-> NoHash]
  /\ stage = [r \in Proc |-> "none"]
  /\ work = [r \in Run |-> Idle]
  /\ held = [r \in Run |-> {}]
  /\ known = [r \in Run |-> {}]
  /\ scan = [r \in Proc |-> {}]
  /\ rmTodo = {}
  /\ faults = 0
  /\ commands = 0

Doing(r, l) == stage[r] = "build" /\ work[r].at = l

LiveRow(x) == files[x] = "live"

\* exists(select 1 from files where hash = h and deleted = false)
BlobAvailable(h) == \E x \in Row : x[2] = h /\ LiveRow(x)

References(j) == info[j].visible \cup info[j].inputs \cup info[j].outputs

\* Mutant: the run that created the job, not the last one that used it.
CreatedUpToWatermark(j, w) == \E q \in Run : j \in runJobs[q] /\ q <= w

\* coalesce(max(run_id), 0) from run_jobs where job_id = j, compared with w.
UpToWatermark(j, w) == \A q \in Run : j \in runJobs[q] => q <= w

\* Rows of the jobs table that go take their filetree and run_jobs rows along.
DeleteJobs(D) ==
  /\ jobs' = jobs \ D
  /\ runJobs' = [q \in Run |-> runJobs[q] \ D]

\* Mutant: the scan for stale rows is skipped for any row that exists.
ReviveNew(S) == [x \in Row |->
  IF x \in S THEN "live"
  ELSE IF files[x] # "none" /\ \E s \in S : s[1] = x[1] /\ files[s] = "none" THEN "deleted"
  ELSE files[x]]

\* files after claiming and reviving rows S: a row that was not live becomes
\* so, and with it every other row of that path becomes stale.
Revive(S) == [x \in Row |->
  IF x \in S THEN "live"
  ELSE IF files[x] # "none" /\ \E s \in S : s[1] = x[1] /\ ~LiveRow(s) THEN "deleted"
  ELSE files[x]]

\* Mutant: rows that open runs claim are not spared.
WithoutUnlinked(J) == [x \in Row |->
  IF files[x] = "deleted" /\ \A j \in J : x \notin References(j) THEN "none" ELSE files[x]]

\* Mutant: rows that jobs refer to are not spared.
WithoutUnclaimed(J) == [x \in Row |->
  IF files[x] = "deleted" /\ \A q \in Run : x \notin runFiles[q] THEN "none" ELSE files[x]]

\* files after delete_stale_files, when the jobs left are J.
WithoutStale(J) == [x \in Row |->
  IF /\ files[x] = "deleted"
     /\ \A q \in Run : x \notin runFiles[q]
     /\ \A j \in J : x \notin References(j)
  THEN "none" ELSE files[x]]

-----------------------------------------------------------------------------
(* The run around the jobs: prepare, finish_run, clean, CAS collection *)

\* prepare up to its commit.
BeginRun(r) ==
  /\ StartRun(r)
  /\ stage' = [stage EXCEPT ![r] = "prepare"]
  /\ UNCHANGED <<dbVars, diskVars, work, held, known, scan, rmTodo, faults, commands>>

\* The end of prepare.
Prepare(r) ==
  /\ stage[r] = "prepare"
  /\ SetWatermark(r)
  /\ stage' = [stage EXCEPT ![r] = "build"]
  /\ UNCHANGED <<dbVars, diskVars, work, held, known, scan, rmTodo, faults, commands>>

\* reap_dead_runs, by whatever process.
Reap(S) ==
  /\ ReapRuns(S)
  /\ runFiles' = [q \in Run |-> IF q \in S THEN {} ELSE runFiles[q]]
  /\ UNCHANGED <<files, jobs, info, nextJob, runJobs, diskVars, procVars, rmTodo, faults, commands>>

\* The main loop ends when the program is done, on a panic or on early
\* termination, whatever job is in hand.
FinishRun(r) ==
  /\ stage[r] = "build"
  /\ CloseRun(r)
  /\ runFiles' = [runFiles EXCEPT ![r] = {}]
  /\ stage' = [stage EXCEPT ![r] = "clean"]
  /\ work' = [work EXCEPT ![r] = Idle]
  /\ held' = [held EXCEPT ![r] = {}]
  /\ known' = [known EXCEPT ![r] = {}]
  /\ UNCHANGED <<files, jobs, info, nextJob, runJobs, diskVars, scan, rmTodo, faults, commands>>

\* Database::clean: delete_jobs, then delete_stale_files.
Clean(r) ==
  /\ stage[r] = "clean"
  /\ LET dead == {j \in jobs : /\ ~info[j].keep
                               /\ info[j].outputs = {}
                               /\ UpToWatermark(j, watermark[r])}
     IN /\ DeleteJobs(dead)
        /\ files' = WithoutStale(jobs \ dead)
  /\ stage' = [stage EXCEPT ![r] = "scan"]
  /\ UNCHANGED <<runVars, runFiles, info, nextJob, diskVars, work, held, known, scan, rmTodo,
                 faults, commands>>

\* enumerate_blobs_strings, without any lock.
ScanBlobs(r) ==
  /\ stage[r] = "scan"
  /\ scan' = [scan EXCEPT ![r] = blobs]
  /\ stage' = [stage EXCEPT ![r] = "gc"]
  /\ UNCHANGED <<runVars, dbVars, diskVars, work, held, known, rmTodo, faults, commands>>

\* Blobs that gc_if_dead removes under the write lock.
Dead(listing) == {h \in listing : ~BlobAvailable(h)}

CollectBlobs(r) ==
  /\ stage[r] = "gc"
  /\ blobs' = blobs \ Dead(scan[r])
  /\ scan' = [scan EXCEPT ![r] = {}]
  /\ stage' = [stage EXCEPT ![r] = "gone"]
  /\ UNCHANGED <<runVars, dbVars, workspace, work, held, known, rmTodo, faults, commands>>

\* The process dies; the row of an unfinished run stays open.
Gone(r) ==
  /\ stage' = [stage EXCEPT ![r] = "gone"]
  /\ work' = [work EXCEPT ![r] = Idle]
  /\ held' = [held EXCEPT ![r] = {}]
  /\ known' = [known EXCEPT ![r] = {}]
  /\ scan' = [scan EXCEPT ![r] = {}]

Crash(r) ==
  /\ faults < MaxFault
  /\ faults' = faults + 1
  /\ \/ stage[r] \in {"prepare", "build"} /\ CrashRun(r)
     \/ stage[r] \in {"clean", "scan", "gc"} /\ UNCHANGED runVars
  /\ Gone(r)
  /\ UNCHANGED <<dbVars, diskVars, rmTodo, commands>>

-----------------------------------------------------------------------------
(* Reusing a job: prim_job_cache *)

\* Jobs that find_prior returns and whose inputs are all visible.
Matches(k, V) == {j \in jobs : /\ info[j].key = k /\ info[j].keep /\ info[j].done
                               /\ info[j].inputs \subseteq V}

\* The read-only transaction of reuse_job.  The query has no order: any match
\* may come first, and when one of its outputs has no blob no other is tried.
Lookup(r, k, V) ==
  /\ Doing(r, "idle")
  /\ V \subseteq known[r] /\ OnePerPath(V) /\ \A x \in V : x[1] \in Visible[k]
  /\ LET start == [Idle EXCEPT !.key = k, !.visible = V]
     IN \/ /\ Matches(k, V) = {}
           /\ work' = [work EXCEPT ![r] = [start EXCEPT !.at = "insert"]]
        \/ \E j \in Matches(k, V) :
             work' = [work EXCEPT ![r] =
               IF \A x \in info[j].outputs : BlobAvailable(x[2])
               THEN [start EXCEPT !.at = "claim", !.job = j, !.outs = info[j].outputs]
               ELSE [start EXCEPT !.at = "insert"]]
  /\ UNCHANGED <<runVars, dbVars, diskVars, stage, held, known, scan, rmTodo, faults, commands>>

\* The read-write transaction of reuse_job.
ClaimJob(r) ==
  /\ Doing(r, "claim")
  /\ LET w == work[r] IN
     IF w.job \in jobs
     THEN /\ runJobs' = [runJobs EXCEPT ![r] = @ \cup {w.job}]
          /\ runFiles' = [runFiles EXCEPT ![r] = @ \cup w.outs]
          /\ files' = Revive(w.outs)
          /\ held' = [held EXCEPT ![r] = @ \cup {w.job}]
          /\ work' = [work EXCEPT ![r] = [w EXCEPT !.at = "fetch", !.ready = w.outs]]
     ELSE /\ work' = [work EXCEPT ![r] = [w EXCEPT !.at = "insert", !.job = 0, !.outs = {}]]
          /\ UNCHANGED <<runJobs, runFiles, files, held>>
  /\ UNCHANGED <<runVars, jobs, info, nextJob, diskVars, stage, known, scan, rmTodo, faults,
                 commands>>

\* materialize_blob: copy the blob over whatever is at the path.
Materialize(x) ==
  workspace' = IF x[2] \in blobs THEN [workspace EXCEPT ![x[1]] = x[2]] ELSE workspace

\* w after materializing x, or failing to.
Unready(w, x) == [w EXCEPT !.ready = w.ready \ {x}, !.bad = w.bad \/ x[2] \notin blobs]

\* materializeCachedItemFromCas for one output of the reused job.
Fetch(r, x) ==
  /\ Doing(r, "fetch")
  /\ x \in work[r].ready
  /\ Materialize(x)
  /\ work' = [work EXCEPT ![r] = Unready(work[r], x)]
  /\ UNCHANGED <<runVars, dbVars, blobs, stage, held, known, scan, rmTodo, faults, commands>>

\* runAlways goes on with the reused job, or panics when an output is missing.
Hit(r) ==
  /\ Doing(r, "fetch")
  /\ work[r].ready = {}
  /\ IF work[r].bad
     THEN /\ work' = [work EXCEPT ![r] = [work[r] EXCEPT !.at = "panic"]]
          /\ UNCHANGED known
     ELSE /\ work' = [work EXCEPT ![r] = Idle]
          /\ known' = [known EXCEPT ![r] = @ \cup work[r].outs]
  /\ UNCHANGED <<runVars, dbVars, diskVars, stage, held, scan, rmTodo, faults, commands>>

-----------------------------------------------------------------------------
(* Running a job: primJobCreate to primJobFinish *)

InsertJob(r) ==
  /\ Doing(r, "insert")
  /\ nextJob <= MaxJob
  /\ nextJob' = nextJob + 1
  /\ jobs' = jobs \cup {nextJob}
  /\ info' = [info EXCEPT ![nextJob] =
                [NoInfo EXCEPT !.key = work[r].key, !.visible = work[r].visible]]
  /\ runJobs' = [runJobs EXCEPT ![r] = @ \cup {nextJob}]
  /\ held' = [held EXCEPT ![r] = @ \cup {nextJob}]
  /\ work' = [work EXCEPT ![r] = [work[r] EXCEPT !.at = "execute", !.job = nextJob]]
  /\ UNCHANGED <<runVars, files, runFiles, diskVars, stage, known, scan, rmTodo, faults, commands>>

\* A job whose outputs are all stored goes on to ingest them, and from there to
\* its runner status.
Settle(w) ==
  IF w.todo # {} \/ w.ready # {} THEN w
  ELSE IF w.at = "store" /\ w.outs # {} THEN [w EXCEPT !.at = "ingest", !.todo = w.outs]
  ELSE [w EXCEPT !.at = "status"]

\* The command ends, successfully or not, with its outputs in the staging
\* directory of the job.
Execute(r) ==
  /\ Doing(r, "execute")
  /\ \E S \in Outcomes[work[r].key], ok \in BOOLEAN :
       work' = [work EXCEPT ![r] =
         Settle([work[r] EXCEPT !.at = "store", !.outs = S, !.todo = S, !.ok = ok])]
  /\ UNCHANGED <<runVars, dbVars, diskVars, stage, held, known, scan, rmTodo, faults, commands>>

\* add_hash for one output.  All outputs are stored before any is ingested.
AddHash(r, x) ==
  /\ Doing(r, "store")
  /\ x \in work[r].todo
  /\ files' = Revive({x})
  /\ runFiles' = [runFiles EXCEPT ![r] = @ \cup {x}]
  /\ work' = [work EXCEPT ![r] = Settle([work[r] EXCEPT !.todo = work[r].todo \ {x}])]
  /\ UNCHANGED <<runVars, jobs, info, nextJob, runJobs, diskVars, stage, held, known, scan, rmTodo,
                 faults, commands>>

\* ingestPreparedStagingItemIntoCas for one output.
Ingest(r, x) ==
  /\ Doing(r, "ingest")
  /\ x \in work[r].todo
  /\ blobs' = blobs \cup {x[2]}
  /\ work' = [work EXCEPT ![r] = Settle([work[r] EXCEPT !.todo = work[r].todo \ {x},
                                                 !.ready = work[r].ready \cup {x}])]
  /\ UNCHANGED <<runVars, dbVars, workspace, stage, held, known, scan, rmTodo, faults, commands>>

\* The same, failing: the staged file cannot be stored.
IngestFails(r, x) ==
  /\ Doing(r, "ingest")
  /\ x \in work[r].todo
  /\ faults < MaxFault
  /\ faults' = faults + 1
  /\ work' = [work EXCEPT ![r] = Settle([work[r] EXCEPT !.todo = work[r].todo \ {x}, !.bad = TRUE])]
  /\ UNCHANGED <<runVars, dbVars, diskVars, stage, held, known, scan, rmTodo, commands>>

\* materializePreparedStagingItemFromCas for one ingested output.
Publish(r, x) ==
  /\ Doing(r, "ingest")
  /\ x \in work[r].ready
  /\ Materialize(x)
  /\ work' = [work EXCEPT ![r] = Settle(Unready(work[r], x))]
  /\ UNCHANGED <<runVars, dbVars, blobs, stage, held, known, scan, rmTodo, faults, commands>>

\* set_runner_status or clear_runner_status, a transaction before finish_job.
SetRunnerStatus(r) ==
  /\ Doing(r, "status")
  /\ info' = [info EXCEPT ![work[r].job] = [info[work[r].job] EXCEPT !.err = work[r].bad]]
  /\ work' = [work EXCEPT ![r] = [work[r] EXCEPT !.at = "finish"]]
  /\ UNCHANGED <<runVars, files, runFiles, jobs, nextJob, runJobs, diskVars, stage, held, known,
                 scan, rmTodo, faults, commands>>

\* Rows of one job that share a path with rows of another.
SharePath(S, T) == \E x \in S, y \in T : x[1] = y[1]
Conflict(S, T) == \E x \in S, y \in T : x[1] = y[1] /\ x # y

\* finish_job.  A conflict with another job of the run ends the process, after
\* the commit.
FinishJob(r) ==
  /\ Doing(r, "finish")
  /\ LET w    == work[r]
         outs == IF w.bad THEN {} ELSE w.outs
         old  == {j \in jobs \ {w.job} :
                    /\ \/ Command[info[j].key] = Command[w.key]
                       \/ SharePath(outs, info[j].outputs)
                    /\ UpToWatermark(j, watermark[r])}
         fail == \E j \in (runJobs[r] \ old) \ {w.job} : Conflict(outs, info[j].outputs)
     IN /\ info' = [info EXCEPT ![w.job] =
             [info[w.job] EXCEPT !.done = TRUE, !.keep = w.ok, !.outputs = outs,
                       !.inputs = {x \in w.visible : x[1] \in Reads[w.key]}]]
        /\ DeleteJobs(old)
        /\ IF fail
           THEN CrashRun(r) /\ Gone(r)
           ELSE /\ work' = [work EXCEPT ![r] = Idle]
                /\ known' = [known EXCEPT ![r] = @ \cup outs]
                /\ UNCHANGED <<runVars, stage, held, scan>>
  /\ UNCHANGED <<files, runFiles, nextJob, diskVars, rmTodo, faults, commands>>
-----------------------------------------------------------------------------
(* wake --rm, --clean, --prune and the user *)

Claimed(x) == \E q \in Incomplete : x \in runFiles[q]

\* remove_blobs: the paths of P to remove, and the blobs to go with them.
Removable(P) == {p \in P : \E x \in Row : x[1] = p /\ LiveRow(x) /\ ~Claimed(x)}

Orphans(F) ==
  {h \in Hash : /\ \E x \in Row : x[1] \in F /\ x[2] = h /\ LiveRow(x)
                /\ \A x \in Row : x[2] = h /\ LiveRow(x) => x[1] \in F
                /\ \A x \in Row : x[2] = h => ~Claimed(x)}

Command_ == commands < MaxCommand /\ commands' = commands + 1

\* The transaction of `wake --rm P`.
RmCommit(P) ==
  /\ Command_
  /\ rmTodo = {} /\ Removable(P) # {}
  /\ blobs' = blobs \ Orphans(Removable(P))
  /\ files' = [x \in Row |->
       IF x[1] \in Removable(P) /\ files[x] # "none" THEN "deleted" ELSE files[x]]
  /\ rmTodo' = Removable(P)
  /\ UNCHANGED <<runVars, runFiles, jobs, info, nextJob, runJobs, workspace, procVars, faults>>

\* The process dies after it removed the blobs and before the commit.
RmCrash(P) ==
  /\ Command_
  /\ rmTodo = {} /\ Removable(P) # {}
  /\ faults < MaxFault
  /\ faults' = faults + 1
  /\ blobs' = blobs \ Orphans(Removable(P))
  /\ UNCHANGED <<runVars, dbVars, workspace, procVars, rmTodo>>

\* remove_paths unlinks what the transaction removed.
RmUnlink(p) ==
  /\ p \in rmTodo
  /\ rmTodo' = rmTodo \ {p}
  /\ workspace' = [workspace EXCEPT ![p] = NoHash]
  /\ UNCHANGED <<runVars, dbVars, blobs, procVars, faults, commands>>

\* clear_jobs_if_safe of `wake --clean`; the unlinking is inside.
ClearJobs ==
  /\ Command_
  /\ Incomplete = {}
  /\ DeleteJobs(jobs)
  /\ files' = [x \in Row |->
       IF files[x] = "deleted" /\ \E q \in Run : x \in runFiles[q] THEN "deleted" ELSE "none"]
  /\ runFiles' = [q \in Run |-> {x \in runFiles[q] : ~LiveRow(x)}]
  /\ workspace' = [p \in Path |->
       IF \E x \in Row : x[1] = p /\ LiveRow(x) THEN NoHash ELSE workspace[p]]
  /\ UNCHANGED <<runVars, info, nextJob, blobs, procVars, rmTodo, faults>>

\* prune_to_workspace of `wake --prune`, which goes on to collect blobs.
Prune ==
  /\ Command_
  /\ Incomplete = {}
  /\ stage[0] \in {"none", "gone"}
  /\ LET dead == {x \in Row : /\ files[x] # "none"
                              /\ LiveRow(x) => workspace[x[1]] = NoHash}
     IN DeleteJobs({j \in jobs : References(j) \cap dead # {}})
  /\ stage' = [stage EXCEPT ![0] = "scan"]
  /\ UNCHANGED <<runVars, files, runFiles, info, nextJob, diskVars, work, held, known, scan,
                 rmTodo, faults>>

\* The user removes an output by hand.
UserRemove(p) ==
  /\ Command_
  /\ workspace[p] # NoHash
  /\ workspace' = [workspace EXCEPT ![p] = NoHash]
  /\ UNCHANGED <<runVars, dbVars, blobs, procVars, rmTodo, faults>>

-----------------------------------------------------------------------------

JobStep(r) ==
  \/ \E k \in Key, V \in SUBSET known[r] : Lookup(r, k, V)
  \/ ClaimJob(r) \/ (\E x \in Row : Fetch(r, x)) \/ Hit(r)
  \/ InsertJob(r) \/ Execute(r)
  \/ (\E x \in Row : AddHash(r, x))
  \/ (\E x \in Row : Ingest(r, x)) \/ (\E x \in Row : IngestFails(r, x))
  \/ (\E x \in Row : Publish(r, x))
  \/ SetRunnerStatus(r) \/ FinishJob(r)

CommandStep ==
  \/ \E P \in SUBSET Path : RmCommit(P)
  \/ \E P \in SUBSET Path : RmCrash(P)
  \/ \E p \in Path : RmUnlink(p)
  \/ ClearJobs \/ Prune
  \/ \E p \in Path : UserRemove(p)

Next ==
  \/ \E r \in Run : BeginRun(r) \/ Prepare(r) \/ FinishRun(r) \/ Clean(r) \/ Crash(r) \/ JobStep(r)
  \/ \E r \in Proc : ScanBlobs(r) \/ CollectBlobs(r)
  \/ \E S \in SUBSET Run : Reap(S)
  \/ CommandStep

Spec == Init /\ [][Next]_vars

-----------------------------------------------------------------------------
(* What the store guarantees *)

\* At most one live row describes a path, although add_hash and reuse_job skip
\* the scan for stale rows whenever the row they revive is live already.
UniqueLivePath == \A x, y \in Row : LiveRow(x) /\ LiveRow(y) /\ x[1] = y[1] => x = y

\* No job that a running program has as a value, created or reused by it, is
\* deleted under it: not by finish_job or clean of any other run, whose
\* watermark was read long before, nor by --clean or --prune.
HeldJobsKept == \A r \in Run : status[r] = "live" => held[r] \subseteq jobs

\* The file row of each Path a running program has is there and claimed by its
\* run, so that insert_job finds its file_id whatever other processes clean.
KnownRowsPersist ==
  \A r \in Run : status[r] = "live" =>
    \A x \in known[r] : files[x] # "none" /\ x \in runFiles[r]

\* Every filetree row points to a file row: delete_stale_files and --clean
\* leave no dangling reference.
JobRowsExist == \A j \in jobs : \A x \in References(j) : files[x] # "none"

-----------------------------------------------------------------------------
(* Why: the inductive invariant behind these *)

\* A process that prepares or builds belongs to a live run.
StageInv == \A r \in Run : stage[r] \in {"prepare", "build"} => status[r] = "live"

\* A run that has not started has left no trace in a process.
FreshInv ==
  \A r \in Run : status[r] = "absent" => held[r] = {} /\ known[r] = {} /\ work[r] = Idle

\* Jobs a running program holds are in the table, and in run_jobs for its run.
HeldInv == \A r \in Run : status[r] = "live" => held[r] \subseteq jobs \cap runJobs[r]

\* Outputs of the job in hand that its process has claimed.
Secured(w) ==
  IF w.at \in {"fetch", "ingest", "status", "finish"} THEN w.outs
  ELSE IF w.at = "store" THEN w.outs \ w.todo ELSE {}

\* Whatever rows a running program knows, sees or has secured are in run_files.
ClaimInv ==
  \A r \in Run : status[r] = "live" =>
    known[r] \cup work[r].visible \cup Secured(work[r]) \subseteq runFiles[r]

\* run_files refers to rows that exist.
RunFilesExist == \A r \in Run : \A x \in runFiles[r] : files[x] # "none"

-----------------------------------------------------------------------------
(* What comments, documentation and tests say of it *)

\* gc_dead_cas_blobs: "a hash present on disk with no live (deleted=0) files
\* row is truly dead": no running program has it in a Path or is about to
\* materialize it.
DeadBlobsUnused ==
  \A r \in Run : status[r] = "live" =>
    \A x \in known[r] \cup work[r].ready : x[2] \in blobs => BlobAvailable(x[2])

\* reuse_job: a cached job is used only when the blobs of its outputs are there,
\* so that materializeCachedItemFromCas does not fail.
HitsMaterialize ==
  \A r \in Run : Doing(r, "fetch") => \A x \in work[r].ready : x[2] \in blobs

\* `wake --rm` cannot race with concurrent builds: what it is about to unlink is
\* not an output that a running build claims and has materialized.
RmSparesActiveFiles ==
  \A x \in Row : x[1] \in rmTodo /\ LiveRow(x) /\ workspace[x[1]] = x[2] => ~Claimed(x)

\* A job with a failed runner status is not cached: find_prior cannot return it.
NoRunnerErrorCached == \A j \in jobs : info[j].done /\ info[j].keep => ~info[j].err
=============================================================================
