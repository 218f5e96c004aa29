# Formal model of wake

TLA+ specifications of wake, the build orchestrator of this repository: what its
processes, its daemons and its servers do to each other, and what its compiler
and runtime make of a program. Everything is translated from the source;
`PROJECT.json` maps each definition to its lines, and lists the hazards of the
code line by line.

## The system

Several wake processes share one workspace without a server. They meet in SQLite
(one writer at a time, `begin immediate`), in fcntl locks that the kernel drops
with their process, and in plain files that nothing locks. A transaction is
atomic, but the operations below take several, with file operations between
them, and a process may die anywhere. Inside a process everything is one loop
that alternates between evaluating the program and waiting on children. A job
may run in a sandbox, served by a FUSE daemon that the jobs of a user in a
workspace share, and its results may come from or go to a cache server.

| Part | State | Modules |
|---|---|---|
| Runs and run locks (`database.cpp`, `run_lock.cpp`) | `runs` table, `.wake/locks/run_N.lock`, GC watermark | `ActiveRuns`, `RunRegistry` |
| Build database, store, workspace (`database.cpp`, `cas.cpp`, `clean.cpp`, `job.wake`, `cas.wake`) | `jobs`, `files`, `filetree`, `run_jobs`, `run_files`, blobs, files | `BuildStore` |
| Files on their way into the store (`cas.cpp`, `cas_prim.cpp`) | staging directories, temporary files | `CasStaging` |
| Job table (`job.cpp`) | job states, pending heap, children, pipes, budgets, signals | `JobTable` |
| FUSE daemon (`fuse-waked`, `wakefs/`) | daemon, lock, mounts, clients; per job the visible, staged and open files | `FuseDaemon`, `FuseView` |
| wakebox | spec, mounts, processes, timer, report | `Wakebox` |
| Remote cache (`rust/rsc`, `remote_cache_*.wake`) | Postgres tables, local blob store, requests | `RemoteCache` |
| Command line (`tools/wake`, `config.cpp`, `sources.cpp`, `wakefiles.cpp`) | configuration, workspace, file lists, queries | `Startup` with `Config`, `Paths`, `Sources`, `Wakefiles`, `Inspect` |
| Compiler (`dst/`, `types/`, `optimizer/`) and runtime (`runtime.cpp`, `gc.cpp`, `target.cpp`) | expressions, types, terms; work stack, promises, heap | `Language` with `Packages`, `Desugar`, `Binder`, `Types`, `Ssa`, `Optimizer`, `Interpreter`; `Surface` is the reference |
| Migration (`wake-migrate`) | database files and their schema versions | `Migrate` |
| Language server (`lsp-wake`) | texts, tree, message queue | `LanguageServer` |

What must hold: a running build is never taken for dead nor cleaned away by
another one; rows and jobs a program refers to stay; a path has one current row;
no file is ever seen half written; output is complete when it is announced;
budgets are kept and given back; a job changes nothing but its own staging files
and its report says what it did; a cached result is one that an execution
produced; a program means the same before and after the optimizer.

## Modules

**ActiveRuns** is the abstract specification of the life of a run. A run is
absent, live, dead (crashed with its row open) or over. A live run is closed by
itself, a dead one by whoever reaps it. Each run takes a watermark once,
`min(open) - 1`.

**RunRegistry** is how the processes do it. `prepare` is `InsertRun` (write lock
taken, id chosen), `CreateLock`, `AcquireLock` (F_SETLKW), `CommitRun`; then
reaping: `ListIncomplete`, one `ProbeMissing` or `ProbeOpen` ... `ProbeUnlink`
per run, `ReapDead`; then `ComputeWatermark`. `FinishRun` and `UnlinkOwn` are the
two halves of `finish_run`. `--clean` and `--prune` reap, then `ClearBegin` or
`ClearRefused`. A crash between any two steps drops the process's locks and its
open transaction; `Age` makes a run older than 24 hours. `statusOf` maps this to
ActiveRuns: an open row is live while its process exists.

**BuildStore** takes the life of a run from ActiveRuns and adds what builds do.
A file row is `<<path, hash>>`, type and mode being part of the hash. A run has
one job in hand: `Lookup` (the read-only half of `reuse_job`), `ClaimJob` (its
read-write half), `Fetch`, `Hit`; or `InsertJob`, `Execute`, `AddHash`, `Ingest`,
`Publish`, `SetRunnerStatus`, `FinishJob`. The order "all rows, then blobs, then
workspace" is that of `materializeJobOutputs`; the items of one phase are
interleaved freely. The run then finishes, cleans (`delete_jobs`,
`delete_stale_files`) and collects blobs: `ScanBlobs` without a lock,
`CollectBlobs` under it. `--rm` is `RmCommit` followed by `RmUnlink` per path.
The query of `reuse_job` has no order, so any matching job may come first.

**CasStaging** follows one output of a job from where the command left it through
a staging file into the store and the workspace. A copy takes two steps with an
incomplete file between them; a rename is atomic. Names of temporary and staging
files hold process numbers, which may be used again by a later process.
`cleanup_stale_staging` sweeps the directories of numbers nobody has. A primitive
that finds no room on the heap for its result is executed again from its start.

**JobTable** is one process. `pc` follows the main loop: `run` (the program calls
primitives, WJobs execute), `launch`, `poll`, `pipes`, `reap`, back, and finally
`term`. Children write, close and exit at any moment; SIGCHLD is delivered only
while launching and polling. A job's entry lives while its process is not reaped
or one of its pipes is open, and takes its budgets along when it goes. Threads
are counted in hundredths. Any pending job may be the front of the heap, so that
nothing depends on the priority, which changes while a job waits.

**FuseDaemon** is the life of the daemon and of the wakebox clients that share
it. A client opens the marker file and, while that fails, starts a daemon and
retries; it creates its live file, sends its visible files, runs the job and asks
for the report. A daemon locks its log file, mounts, serves one request at a time
and leaves some time after its last client. SIGALRM and SIGTERM interrupt it
anywhere, so a request that must stop a pending exit takes three steps.

**FuseView** is what a job sees through the daemon: one action per FUSE operation
that changes state (create, mknod, mkdir, symlink, link, open, read, readlink,
unlink, rmdir, rename, release), the attach, input and report of wakebox, and the
ingestion of the report. A job has visible entries, served from the store, and
staged items, of which files and special nodes have a backing object. Two parts
are external and modelled from how the handlers use them: the kernel walks a path
through directories before it sends a request (`Reached`), and libfuse renames an
open file out of the way instead of removing it (`MayHide`). The history
variable `merged` remembers that a rename has replaced a directory that was not
empty (see Known disagreements).

**Wakebox** is one job from the WakeboxSpec value in wake to the exit code of
wakebox: spec file, mounts, the processes with and without a pid namespace, the
timer, processes the command left behind, and the result file.

**RemoteCache** has the server with its tables and its local store on one side,
the runner of the wake library on the other. A handler takes one step per
database statement or file, as it awaits each, and interleaves with the other
handlers and with the tasks that evict. The transaction of `read_job` is not
atomic: each of its statements has a snapshot of its own (READ COMMITTED).

**Language** carries a program from its files to its result. `Packages`,
`Desugar`, `Binder` and `Types` are the operators of the front end, `Ssa` and
`Optimizer` the terms and the passes over them, `Interpreter` the work stack with
promises and memoizing targets over a heap that a copying collector moves.
`Surface` says what a program means, read off its source, and is what the others
are compared with.

**Startup** is one invocation from its command line to its exit status, beside
other wakes that start, work and crash. `Config` (four layers and their
priority), `Paths`, `Sources` (the bisected list of sources), `Wakefiles`
(`.wakeignore` and the default package) and `Inspect` (the queries) are pure
operators it uses, each compared with a reference definition.

**Migrate** rewrites a database step by step beside wakes of older and newer
releases. **LanguageServer** is the message loop of `lsp-wake` with an editor and
a changing disk.

The `MC` modules give small instances to TLC. The modules whose names end in
`Proofs` hold theorems. `BuildStoreProofs` is also about `ActiveRuns`, which
BuildStore extends, and `SandboxProofs` is about `FuseView`, with the lemmas of
`SandboxLemmas`. Modules with theorems stay clear of `SequencesExt`, which makes
every obligation slow; `FuseView` has the two operators on paths it needs itself.

## Runs

| Run | Instance | Distinct states | Shows |
|---|---|---|---|
| `registry` | 2 processes, 2 run ids, any number of crashes and restarts | 102,051 | a build's row stays open until it finishes; F_SETLKW under the write lock never blocks; `--clean` and `--prune` exclude builds; watermarks stay safe; every prepare ends; the protocol implements ActiveRuns |
| `store` | 2 runs, 1 path, 2 contents, 2 jobs, 1 fault, 1 command | 1.75 M | one live row per path; rows and jobs of running programs persist |
| `jobs` | 3 jobs, one larger than the memory, 2 children, 1 own and 1 runner stream | 172,866 | budgets, no job left pending, no exit slept through, complete output, no child outlives wake, all complete |
| `staging` | 2 wakes, 1 path, 2 contents, 2 jobs, 1 kill, 1 re-execution | 525,678 | no partial file is seen; no hashed output is lost; every leftover has a cause |
| `view` | 1 job, 1 descriptor, 2 backing objects, 3 items, 8 paths | 55,898 | nothing but staging files changes; the view is one tree; the report is exact |
| `daemon` | 2 clients, 2 daemons, 2 jobs per client, 1 SIGTERM, 1 death | 163,050 | one mount at a time; no exit under a client; an idle daemon leaves |
| `wakebox` | specs with and without namespace, timeout and mounts | 15,198 | the report is made when nobody can write any more; a timeout ends |
| `remote` | 2 jobs with one key, 1 fault | 704,036 | what tables refer to can be read; a hit is what an execution produced |
| `language` | a list of programs, heaps of 64 and 90 pads | 6,312 | accepted programs do not go wrong; optimized programs have the result and effects of the source; no step allocates more than it reserved |
| `server` | 2 files, 4 messages, 1 change on disk | 499,718 | the tree, and what is answered from it, is that of the newest texts |
| `migrate` | 1 wake beside it, 6 releases, 3 targets, 2 tries | 98,296 | a migrated database says what it said; the original is on disk until it is replaced |
| `startup` | invocations over flags, layers, trees and start directories | 599,317 | configuration, workspace, files and package are the promised ones; listings show live runs |

### Bounds

Two processes and two ids in `registry` are enough for every pair of roles (a
builder, a reaper, a cleaner, a crashed predecessor whose id or lock file is met
again), because a slot runs one process after another. `store` needs two contents
of one path for rows to become stale, a second job that reads the first one's
output for references between jobs, and one fault and one command to meet them.
In `jobs` the first two jobs fit together and the third exceeds the memory alone.
stdout and stderr, and the two runner streams, are treated alike by the code; the
instance has one of each kind. `staging` needs two processes, one of which may be
killed and have its number reused. `view` has two directories a job may make with
a file in each, beside a visible one, so that every rename between them happens,
also onto a directory that is not empty; visible symlinks are left to the proof,
which holds for every input. In `daemon` two daemons race for the
lock while two clients come and go. In `remote` two executions of one key compete
for its row while one fault hits either. `language` has one program per construct
and pass, and heaps small enough for collections to happen. `server` lets one of
two files be edited while the other changes on disk. In `migrate` the releases are
those that differ in what `Database::open` lets in. `startup` enumerates
invocations, each against the reference definition.

Deadlock is checked in `registry`, `wakebox` and `language`. The other runs switch
it off: they end when the bounded ids, jobs or messages are used up or the
program has exited, as it does.

### Fairness

`registry`: each started process takes its next step (weak fairness of `Step`).
Waiting for the write lock is part of it: the busy timeout and the retries of
`single_step` are finite, after which the process exits. Nothing obliges a
process to start, to fail or to crash. `jobs`: wake's loop is scheduled, and a job
and the processes it leaves behind end and close their pipes some day. Nothing
obliges a program to launch or wait, a job to write, or anyone to interrupt.
Interrupts, panics and failing launches end the obligation (`Stopped`).
`daemon`: a daemon and a client that have a next step of their own take it; no
one is obliged to start a job, to send a signal or to die. `wakebox`: processes
that can go on do, and a timer that was armed expires; nothing obliges the
command to end, which is what `TimeoutEnds` is about. The other runs check safety.

## Proofs

TLAPS checks these for every value of the constants: any number of runs,
processes, jobs, paths, contents, clients and daemons, and any bound on faults,
crashes and commands. Each rests on an inductive invariant that TLC checked on
the instance of its run before it was proved.

| Module | Theorem | Property |
|---|---|---|
| `BuildStoreProofs` | `WatermarkIsSafe`, `StoreTypeCorrect`, `LivePathsUnique`, `HeldJobsAreKept`, `KnownRowsArePersistent`, `JobRowsAlwaysExist`, `StoreUsesRuns` | `WatermarkSafe` of ActiveRuns, `TypeOK`, `UniqueLivePath`, `HeldJobsKept`, `KnownRowsPersist`, `JobRowsExist`; steps of the store are steps of ActiveRuns |
| `RunRegistryProofs` | `LiveRunsStayOpen`, `LocksAreUncontended`, `ClearingExcludesBuilds`, `BuildsAreListed`, `WatermarksStaySafe`, `RegistryImplementsRuns` | the safety properties of `registry`, `LiveBuildsAreListed`, and the refinement |
| `JobTableProofs` | `LoadAlwaysAccounted`, `BudgetsAlwaysRespected`, `OutputsAreComplete`, `NoChildEverOutlives`, `ExitsAreAlwaysNoticed`, `LoopAlwaysEndsIdle` | the safety properties of `jobs`, `LoadIsAccounted` |
| `CasStagingProofs` | `FilesAreAlwaysWhole`, `HashedOutputsAlwaysSurvive` | `FilesAreWhole`, `HashedOutputsSurvive` |
| `FuseDaemonProofs` | `NeverTwoMounts`, `CancelAlwaysHonoured` | `OneMount`, `CancelIsHonoured` |
| `SandboxProofs` | `WorkspaceStaysUntouched`, `ViewStaysCoherent`, `ReportsAreFaithful`, `OpenFilesAlwaysWritable` | the properties of `view`, `OpenFilesStayWritable` |
| `RemoteCacheProofs` | `StoredIsAlwaysReadable`, `HitsAreAlwaysGenuine` | the properties of `remote` |

**ActiveRuns.** No open run is at or below any cached watermark. Inductive with
two facts more: ids are handed out in order (`IdsArePrefix`), and a watermark
lies below its owner (`WatermarkBelowOwner`), so a run that starts later has an id
above every watermark taken before.

**BuildStore.** Each step of the store is a step of ActiveRuns or leaves runs
alone, so `WatermarkSafe` holds in the store. A held job is in `run_jobs` for its
live run (`HeldInv`), that run is above every watermark, so `UpToWatermark` is
false for the job wherever `finish_job` and `clean` delete; `--clean` and
`--prune` require that no run is open. Whatever a running program knows, sees or
has stored is in `run_files` (`ClaimInv`), and rows in `run_files` exist
(`RunFilesExist`); `delete_stale_files` spares those rows and the rows that jobs
left in the table refer to. Neither fact is inductive without the other: a job's
references come from what its program knew. A row that becomes live retires all
others of its path; a row that is live already has, by the invariant, no live
rival, so skipping the scan is sound. `StageInv` and `FreshInv` tie processes to
runs.

**RunRegistry** (`RegistryInv`). A process has the fcntl lock of its run from
before the row is committed until it is gone, and its lock file is linked while
it builds (`LockInv`). A reaper declares dead what it could lock itself, or what
has no lock file; neither is a run under way (`ProbeInv`). What a reaper has
listed has a row, so it is never the id a prepare in progress was given, whose
row is not committed (`RowInv`): the wait for the lock inside prepare's
transaction finds it free. With the invariant each step is one of ActiveRuns
under `statusOf`, or a stutter; the watermark is then safe by the argument for
ActiveRuns.

**JobTable** (`JobInv`). The budgets are sums over the jobs that have an entry;
lemmas say what a sum over a finite set does when an element comes or goes, and
every step leaves entries and load alone, adds one entry with its load or removes
one. The output and the end of the loop need how far each job has got
(`ProcInv`), what poll promises about ready pipes (`ReadyInv`), what `done`
remembers (`LoopInv`) and who knows of an exit (`SignalInv`).

**CasStaging** (`CasInv`). Every staging and temporary file has the number of a
process in its name. A step of a process changes files of its own number only,
apart from the sweep at its start, which removes files of numbers no process has.
What a process has hashed, copied or half written therefore stays as it is while
others run, and the invariant need only say what the place of a process in its
job tells about its own files (`NamesOwned`, `SourceKept`, `CopyKept`,
`StoreKept`).

**FuseDaemon** (`DaemonInv`). A daemon mounts only while it has the lock, and
gives the lock up only after its mount is gone or with its process (`Held`);
nobody mounts over the dead mount point a crash leaves. A descriptor that was
granted is counted by its daemon (`Kept`), an exit begins only with empty
counts unless a signal forces it, and a request in the middle of `cancel_exit`
still waits for it (`Halfway`).

**FuseView** (`ViewInv`). The three lists of a job name the same paths (`Lists`).
Every staged item has a backing object of its own, there until the job has
reported (`Sole`, `Kept`). Nothing staged is at or above a visible path
(`Apart`), a job read only what it was shown or made (`ReadKnown`), an open file
has the name of a staged file or of a visible one (`Named`), and until a rename
replaces a directory that is not empty, everything above a name of the view is a
directory of the view (`Tree`). Most of the proof is about rename: where each path
goes (`Goes`), that a moved tree keeps its shape and its backing objects
(`RenameDone`, `RenameTree`, `RenameBacks`), and that open descriptors follow,
with and without the hidden name libfuse gives an open target.

**RemoteCache** (`CacheInv`). The file of a job is uploaded at most once, so a
file that eviction has handed to its tasks never gets a row again (`FilesKept`).
A job that has a row is past its post, so a row that was deleted never comes
back, and what a handler of `read_job` has taken from it stays true of the
execution it names (`Hit`, `Taken`).

The assumptions are the named ASSUMEs of the component modules. They fix the
types of the constants, and a few facts the code provides: a job outputs at most
one file per path (`StoreAssumption`), paths have their ancestors and an entry
above another is a directory (`ViewAssumption`).

Only model-checked:

- Everything temporal under fairness (`PrepareProgresses`, `JobsComplete`,
  `DaemonLeaves`, `TimeoutEnds`): liveness is out of the prover's reach.
- The language modules, `Packages` to `Interpreter`: they are recursive over
  programs, and induction over data is out of its reach.
- `Startup`, `Migrate` and `LanguageServer`, whose properties compare with
  reference definitions over enumerated inputs.
- `LeftoversHaveACause` of `staging` and `ReportIsFinal` of `wakebox`, which have
  no proof yet.

## Further properties

Stated in the modules and checked with the same instances, but not part of a
run: `TypeOK` and `LiveBuildsAreListed` (RunRegistry), `TypeOK` (BuildStore),
`LoadIsAccounted` and `WaitersResume` (JobTable), `OpenFilesStayWritable`
(FuseView), `ConnectEnds` (FuseDaemon), `StartsInWorkspace` and
`ZeroMeansSuccess` (Wakebox), `RetrySucceeds` (Language), `DiagnosticsAreSent`
(LanguageServer), `SourcesStaySearchable` and `InspectionOnlyReads` (Startup),
`ResolvedOnce` (RemoteCache).

## Known disagreements

Where the code does something else than a comment or document of the repository
says, the property that states the words is kept as a definition, and TLC finds a
counterexample:

- `RunRegistry!CompletedStaysCompleted`: `reap_dead_runs` (`database.cpp:968`)
  overwrites a run that completed since the listing, so `--history` calls it
  crashed; `database.h:83` reserves -1 for reaped runs. Harmless to safety.
- `BuildStore!DeadBlobsUnused` (`MaxFault = 0`, `MaxCommand = 0`): the collector
  (`database.cpp:2817`) does not look at `run_files`. When another run has put
  other content at a path, the first run's row is stale, and its blob is removed
  while that run refers to it; `main.cpp:530` calls such a blob truly dead.
- `BuildStore!HitsMaterialize` (`MaxFault = 0`, `MaxCommand = 1`): blobs are
  checked in the read-only transaction of `reuse_job` (`database.cpp:1240`) and
  may be gone when the job is claimed in the second (`:1245`).
- `BuildStore!RmSparesActiveFiles`: `--rm` (`clean.cpp:94`) unlinks after its
  transaction, possibly a file a build has materialized since
  (`managing-disk-usage.md:65`).
- `BuildStore!NoRunnerErrorCached`: a job with a failed runner status is kept and
  reused (`job.cpp:1765`, `job.wake:594`).
- `JobTable!RunnerOutputIsComplete`: runner pipes are closed at waitpid with
  unread data (`job.cpp:1119`, `:85`).
- `JobTable!FailedLaunchResumes`: waiting for the runner output of a job that
  could not be launched never ends (`job.cpp:1254`, `job.wake:536`).
- `FuseDaemon!RetriesUnmount`: "we setup an itimer to keep trying to unmount",
  but waiting for the failed attempt can block the daemon for good.
- `Language!StraightLineEffects` (`Programs <- Merged`): common subexpressions are
  found by the name of a constructor only (`cse.cpp:123`), so constructors of one
  name in two packages, at different places in their types, become one, and a
  match on it takes the wrong case; `types/primfn.h` has the optimizer keep
  effects.
- `LanguageServer!TimeoutSendsDiagnostics`: the diagnostics of a refresh on a
  timeout are not sent.
- `Startup!RecordsSurviveStart`: `make_workspace` truncates a `wake.db` created
  since `chdir_workspace` looked for one.
- `RemoteCache!HitsAreComplete` (`read_job.rs:143`) and `GraceIsHonoured`
  (`main.rs:279`): the statements of `read_job` see different snapshots, and a
  blob refreshed within the grace period can be evicted.
- FuseView: `wakefuse_rename` accepts a target directory that is not empty, where
  rename(2) says ENOTEMPTY, and merges the two; with a file `d/x` and a directory
  `e/x` that holds `y`, renaming `d` to `e` leaves `e/x` a file with a child. The
  proof attempt of `ViewIsCoherent` found this. `merged` marks such a job, and
  the first part of `ViewIsCoherent` is claimed only without it.

## Not modelled

- In the database: logs, tags, statistics, critical paths, source and claim
  jobs, directories, the `rm_generated` primitive, reflection, vacuum and
  checkpoint.
- A run has one job in hand in BuildStore, although wake overlaps many; what
  runs do to each other is there, what jobs of one run do to each other between
  transactions is not. All its jobs are cacheable, with an outcome from a given
  set.
- Shards, modes, times and copy loops of the store.
- Heap order, progress estimates, usage arithmetic and descriptor limits of the
  job table; a job is launched once, as the library does; the rounds of SIGTERM
  are one step.
- Bytes, attributes and tracing in the FUSE daemon; user namespaces, squashfs
  processes and the network in wakebox.
- Api keys, labels, statistics and load shedding arithmetic of the cache server.
- The lexer and the grammar (generated), layout and JSON; object layouts,
  finalisers and stack traces of the runtime.
- Event polling, shim and hashing tools, the composition of runners, the status
  display, data primitives, the formatter, diff, trie and rank maps: no state
  that others rely on, or pure functions over data (see `PROJECT.json`).
