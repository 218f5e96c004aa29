------------------------------- MODULE Startup -------------------------------
(***************************************************************************)
(* One invocation of wake, from its command line to its exit status:       *)
(* tools/wake/cli_options.h, main() of tools/wake/main.cpp, and            *)
(* chdir_workspace, make_workspace and check_version of                    *)
(* src/runtime/sources.cpp.  How the configuration, the wake files, the    *)
(* sources and the query of the database are computed is in the modules    *)
(* this one extends.                                                       *)
(*                                                                         *)
(* Other wakes work in the same workspace meanwhile: they create its       *)
(* database, start runs, launch and finish jobs, end or crash.             *)
(***************************************************************************)
EXTENDS Config, Paths, Wakefiles, Sources, Inspect, TLC

CONSTANTS
  Invocations,    \* what a behaviour may start from: a command line and a machine
  MaxAttempts,    \* directories tried for a workspace (100 in the code)
  WakeVersion,    \* the numbers of this wake's version
  MaxAdded        \* calls of add_sources in one build

VARIABLES
  inv,            \* the invocation: command line, environment and machine
  wake,           \* where main() is and what it has computed
  disk,           \* wake.db of every directory, and what this wake wrote
  others,         \* rows of the database and locks of the other wakes
  view            \* what an inspection has read and listed

vars == <<inv, wake, disk, others, view>>

NoRows == [x \in {} |-> x]

-----------------------------------------------------------------------------
(***************************************************************************)
(* The command line.                                                       *)
(***************************************************************************)
CaptureFlags == {"job", "output", "input", "label", "tag", "last", "last-executed", "failed",
                 "tag-dag", "canceled", "active", "queued", "in-flight", "history", "ps"}
RenderFlags == {"tag-uri", "script", "metadata", "timeline", "simple", "simple-timeline",
                "json", "simple-metadata"}

is_db_inspection(flags) == flags \cap (CaptureFlags \union RenderFlags) # {}

noargs(flags) ==
  is_db_inspection(flags) \/ flags \cap {"init", "html", "globals", "exports", "export-api", "exec"} # {}

targets(flags, args) == ~args /\ ~noargs(flags)

notype(flags) == is_db_inspection(flags) \/ flags \cap {"init", "stop-after-parse"} # {}

noexecute(flags, args) ==
  \/ notype(flags)
  \/ flags \cap {"html", "stop-after-type-check", "stop-after-ssa", "globals", "exports",
                 "export-api"} # {}
  \/ targets(flags, args)

\* CommandLineOptions: a budget that is not on the command line is taken from
\* the environment.
BudgetOption(i, name) == IF i.cmd_budget[name] # "none" THEN i.cmd_budget[name] ELSE i.env_budget[name]

\* The percent and the two budgets main() parses.
BudgetsParse(i) == \A name \in {"percent", "memory", "jobs"} : BudgetOption(i, name) # "bad"

\* CommandLineOptions::validate
validate(i) ==
  /\ ~({"quiet", "verbose"} \subseteq i.flags)
  /\ "profile" \in i.flags => "debug" \in i.flags
  /\ "shebang" \in i.flags => i.args /\ i.chdir = <<>>
  /\ {1, 2} \union i.fd_options \subseteq i.open_fds

-----------------------------------------------------------------------------
Init ==
  /\ inv \in Invocations
  /\ wake = [pc |-> "start", exit |-> "none", at |-> inv.cwd, start |-> inv.cwd,
             attempts |-> MaxAttempts, wake_cwd |-> Rel(<<>>), src_dir |-> <<>>,
             config |-> NoRows, ok |-> TRUE, readonly |-> FALSE,
             found |-> <<>>, left |-> <<>>, chosen |-> NothingChosen, package |-> NoPackage,
             sources |-> <<>>, added |-> 0]
  /\ disk = [db |-> inv.db, seeded |-> inv.seeded, touched |-> {}]
  /\ others = [runs |-> inv.runs, locked |-> inv.locked, jobs |-> inv.jobs, begun |-> DOMAIN inv.runs,
                waiting |-> inv.waiting, new |-> inv.new]
  /\ view = [snapshot |-> NoRows, live |-> {}, listed |-> {}, said |-> NoRows]

Go(pc) == wake' = [wake EXCEPT !.pc = pc]
Exit(status) == wake' = [wake EXCEPT !.pc = "done", !.exit = status]
Touch(what) == disk' = [disk EXCEPT !.touched = @ \union what]

\* From the command line to the first thing that is not about options.
ParseCommandLine ==
  /\ wake.pc = "start"
  /\ IF inv.flags \cap {"help", "version"} # {} THEN Exit("0")
     ELSE IF "lsp" \in inv.flags THEN Exit("exec")
     ELSE IF ~validate(inv) \/ ~BudgetsParse(inv) \/ (noargs(inv.flags) /\ inv.args) THEN Exit("1")
     ELSE IF "init" \in inv.flags THEN Go("init")
     ELSE IF "no-workspace" \in inv.flags THEN Go("log")
     ELSE Go("chdir")
  /\ UNCHANGED <<inv, disk, others, view>>

\* make_workspace: wake.db is created, or truncated if it is there.
make_workspace(dir) ==
  /\ disk' = [disk EXCEPT !.db[dir] = "empty", !.seeded = FALSE, !.touched = @ \union {"wake.db"}]
  /\ others' = IF dir = inv.home THEN [others EXCEPT !.runs = NoRows, !.jobs = NoRows] ELSE others

InitWorkspace ==
  /\ wake.pc = "init"
  /\ \/ /\ inv.kind[inv.init_dir] = "dir"
        /\ make_workspace(inv.init_dir)
        /\ Exit("0")
     \/ /\ inv.kind[inv.init_dir] # "dir"
        /\ Exit("1")
        /\ UNCHANGED <<disk, others>>
  /\ UNCHANGED <<inv, view>>

-----------------------------------------------------------------------------
(***************************************************************************)
(* chdir_workspace                                                         *)
(***************************************************************************)
Kind(parts) == IF parts \in DOMAIN inv.kind THEN inv.kind[parts] ELSE "none"

\* clo.chdir: the path of -C, or the script of a "#!" line.
ChdirOption == IF "shebang" \in inv.flags THEN <<inv.script>> ELSE inv.chdir

\* The directory a path given to -C leads to.
Target(p) == (IF p.abs THEN make_canonical(p) ELSE join_paths(Abs(inv.cwd), p)).parts

\* A path to a file stands for its directory, if it holds a slash.
ChdirTo(p) ==
  LET tail == [p EXCEPT !.parts = Front(@)]
  IN  CASE Kind(Target(p)) = "dir" -> <<Target(p)>>
        [] Kind(Target(p)) = "file" /\ Len(p.parts) > 1 -> <<Target(tail)>>
        [] OTHER -> <<>>

Chdir ==
  /\ wake.pc = "chdir"
  /\ LET to == IF ChdirOption = <<>> THEN <<inv.cwd>> ELSE ChdirTo(ChdirOption[1])
     IN  IF to = <<>> THEN Exit("1")
         ELSE wake' = [wake EXCEPT !.pc = "probe", !.at = to[1], !.start = to[1]]
  /\ UNCHANGED <<inv, disk, others, view>>

\* access("wake.db")
ProbeDatabase ==
  /\ wake.pc = "probe"
  /\ IF disk.db[wake.at] # "none" THEN Go("rebase") ELSE Go("probe root")
  /\ UNCHANGED <<inv, disk, others, view>>

\* access(".wakeroot"), and a database made beside it; or one level up.
ProbeRoot ==
  /\ wake.pc = "probe root"
  /\ \/ /\ wake.at \in inv.wakeroots
        /\ make_workspace(wake.at)
        /\ Go("rebase")
     \/ /\ wake.at \notin inv.wakeroots
        /\ IF wake.attempts = 1 THEN Exit("1")
           ELSE wake' = [wake EXCEPT !.pc = "probe", !.attempts = @ - 1,
                                     !.at = IF @ = <<>> THEN @ ELSE Front(@)]
        /\ UNCHANGED <<disk, others>>
  /\ UNCHANGED <<inv, view>>

\* (mutant of Rebase) Paths are made relative to the directory of -C.
RebaseFromStart ==
  /\ wake.pc = "rebase"
  /\ IF wake.at = <<>> /\ wake.start # <<>> THEN Exit("1")
     ELSE wake' = [wake EXCEPT !.pc = "log",
                               !.src_dir = SubSeq(wake.start, Len(wake.at) + 1, Len(wake.start)),
                               !.wake_cwd = make_relative(Abs(wake.at), Abs(wake.start))]
  /\ UNCHANGED <<inv, disk, others, view>>

\* Both directories relative to the workspace.  The test that the workspace is
\* above the start looks for a slash after its name, which "/" never has.
Rebase ==
  /\ wake.pc = "rebase"
  /\ IF wake.at = <<>> /\ wake.start # <<>> THEN Exit("1")
     ELSE wake' = [wake EXCEPT !.pc = "log",
                               !.src_dir = SubSeq(wake.start, Len(wake.at) + 1, Len(wake.start)),
                               !.wake_cwd = make_relative(Abs(wake.at), Abs(inv.cwd))]
  /\ UNCHANGED <<inv, disk, others, view>>

-----------------------------------------------------------------------------
(***************************************************************************)
(* Log, configuration, version and database.                               *)
(***************************************************************************)
Inspecting == is_db_inspection(inv.flags)
InWorkspace == "no-workspace" \notin inv.flags

OpenLog ==
  /\ wake.pc = "log"
  /\ IF Inspecting THEN Go("configure") /\ UNCHANGED disk
     ELSE IF ~inv.writable THEN Exit("1") /\ UNCHANGED disk
     ELSE Go("configure") /\ Touch({"wake.log"})
  /\ UNCHANGED <<inv, others, view>>

\* .wakeroot of the directory wake is in.
WakerootHere == IF wake.at \in inv.wakeroots THEN inv.wakeroot ELSE [kind |-> "missing"]

\* Heap options out of range, WakeConfig::init, --config.
Configure ==
  /\ wake.pc = "configure"
  /\ IF \E k \in {"heap_factor", "heap_pivot_mb"} : inv.overrides[k] = IllTyped THEN Exit("1")
     ELSE LET init == WakeConfig_init(WakerootHere, inv.env, inv.overrides, inv.sh, inv.userfiles)
          IN  CASE init.result = "failed" -> Exit("1")
                [] init.result = "thrown" -> Exit("crash")
                [] init.result = "ok" ->
                     wake' = [wake EXCEPT !.config = init.config,
                                          !.pc = IF "config" \in inv.flags THEN "done" ELSE "bulk",
                                          !.exit = IF "config" \in inv.flags THEN "0" ELSE @]
  /\ UNCHANGED <<inv, disk, others, view>>

\* parse_numbers: at most three numbers, -1 for what is not a number.
parse_numbers(v) ==
  IF v = <<>> \/ Len(v) > 3 \/ \E i \in DOMAIN v : v[i] < 0 THEN <<>>
  ELSE [i \in 1..3 |-> IF i <= Len(v) THEN v[i] ELSE 0]

\* check_version: the same major number, and no later than this wake.
check_version(workspace, config_version, wake_version) ==
  LET repo == parse_numbers(config_version)
      this == parse_numbers(wake_version)
  IN  workspace =>
        /\ repo # <<>> /\ this # <<>>
        /\ repo[1] = this[1]
        /\ ~(repo[2] > this[2] \/ (repo[2] = this[2] /\ repo[3] > this[3]))

OpenBulkLog ==
  /\ wake.pc = "bulk"
  /\ LET dir == wake.config["bulk_logging_dir"].value
     IN  IF dir = "default" THEN Go("version") /\ UNCHANGED disk
         ELSE IF dir \in inv.log_dirs THEN Go("version") /\ Touch({"bulk log"})
         ELSE Exit("1") /\ UNCHANGED disk
  /\ UNCHANGED <<inv, others, view>>

CheckVersion ==
  /\ wake.pc = "version"
  /\ LET version == wake.config["version"].value
     IN  IF version = <<>> \/ check_version(InWorkspace, version, WakeVersion) THEN Go("open")
         ELSE Exit("1")
  /\ UNCHANGED <<inv, disk, others, view>>

\* The last argument of db.open.
OpenReadonly(flags) == is_db_inspection(flags)

\* Database::open.  Without a workspace the database is in memory.  A reader
\* is not turned away by a database without tables, but the statements it
\* prepares next are.
OpenDatabase ==
  /\ wake.pc = "open"
  /\ LET state == IF InWorkspace THEN disk.db[wake.at] ELSE "memory"
         readonly == OpenReadonly(inv.flags)
     IN  IF state = "other version" \/ (readonly /\ state # "ready")
         THEN Exit("1") /\ UNCHANGED disk
         ELSE IF ~readonly /\ ~inv.writable /\ state # "memory" THEN Exit("1") /\ UNCHANGED disk
         ELSE /\ wake' = [wake EXCEPT !.pc = "store", !.readonly = readonly]
              /\ IF state = "empty" THEN disk' = [disk EXCEPT !.db[wake.at] = "ready"] ELSE UNCHANGED disk
  /\ UNCHANGED <<inv, others, view>>

\* CASContext, and the sweep of the staging area, which fails silently.
OpenStore ==
  /\ wake.pc = "store"
  /\ Go(IF "list-outputs" \in inv.flags THEN "list"
        ELSE IF inv.flags \cap {"clean", "prune"} # {} THEN "reap"
        ELSE IF "rm" \in inv.flags THEN "rm" ELSE "seed")
  /\ IF ~inv.store THEN UNCHANGED disk
     ELSE Touch({"cas"} \union (IF Inspecting THEN {} ELSE {"staging"}))
  /\ UNCHANGED <<inv, others, view>>

-----------------------------------------------------------------------------
(***************************************************************************)
(* Commands that only concern the database.                                *)
(***************************************************************************)
\* The rows wake sees: those of the workspace the others work in, or none.
AtHome == InWorkspace /\ wake.at = inv.home
Runs == IF AtHome THEN others.runs ELSE NoRows
Jobs == IF AtHome THEN others.jobs ELSE NoRows
OpenRuns == {r \in DOMAIN Runs : Runs[r].end_time = NULL}

ListOutputs ==
  /\ wake.pc = "list"
  /\ Exit("0")
  /\ UNCHANGED <<inv, disk, others, view>>

\* reap_dead_runs.  Any statement that writes ends a wake that only reads.
ReapDeadRuns ==
  /\ wake.pc = "reap"
  /\ LET dead == OpenRuns \ others.locked
     IN  IF dead # {} /\ wake.readonly THEN Exit("1") /\ UNCHANGED <<disk, others>>
         ELSE /\ Go(IF "clean" \in inv.flags THEN "clean" ELSE "prune")
              /\ others' = [others EXCEPT !.runs = [r \in DOMAIN @ |->
                              IF r \in dead THEN [@[r] EXCEPT !.end_time = -1] ELSE @[r]]]
              /\ IF dead = {} THEN UNCHANGED disk ELSE Touch({"rows"})
  /\ UNCHANGED <<inv, view>>

\* --clean: clear_jobs_if_safe.  The rows are deleted before the files are.
Clean ==
  /\ wake.pc = "clean"
  /\ IF OpenRuns # {} \/ wake.readonly THEN Exit("1") /\ UNCHANGED <<disk, others>>
     ELSE /\ Exit(IF inv.deletable THEN "0" ELSE "1")
          /\ Touch({"rows", "outputs"})
          /\ others' = IF AtHome THEN [others EXCEPT !.jobs = NoRows] ELSE others
  /\ UNCHANGED <<inv, view>>

\* --prune: jobs whose outputs are gone.  With nothing to delete, a wake that
\* only reads succeeds too.
Prune ==
  /\ wake.pc = "prune"
  /\ LET gone == {id \in DOMAIN Jobs : Jobs[id].outputs \cap inv.missing # {}}
     IN  IF OpenRuns # {} \/ (wake.readonly /\ gone # {}) THEN Exit("1") /\ UNCHANGED <<disk, others>>
         ELSE /\ Exit("0")
              /\ IF gone = {} THEN UNCHANGED disk ELSE Touch({"rows"})
              /\ others' = [others EXCEPT !.jobs = [id \in (DOMAIN @) \ gone |-> @[id]]]
  /\ UNCHANGED <<inv, view>>

\* --rm hands over to remove_paths.  (With an inspection flag it has no path
\* to remove: arguments were refused.)
Rm ==
  /\ wake.pc = "rm"
  /\ \E status \in {"0", "1"} : Exit(status)
  /\ IF inv.args /\ ~wake.readonly THEN Touch({"rows", "outputs"}) ELSE UNCHANGED disk
  /\ UNCHANGED <<inv, others, view>>

\* entropy: the first wake that may write stores the seed.
Seed ==
  /\ wake.pc = "seed"
  /\ IF wake.readonly /\ ~disk.seeded THEN Exit("1") /\ UNCHANGED disk
     ELSE /\ Go(IF Inspecting THEN "inspect" ELSE "find")
          /\ disk' = IF disk.seeded THEN disk
                     ELSE [disk EXCEPT !.seeded = TRUE, !.touched = @ \union {"rows"}]
  /\ UNCHANGED <<inv, others, view>>

\* inspect_database, first half: what is read before the query, in a
\* transaction of its own: the runs, and the locks of those without an end.
ReadRuns ==
  /\ wake.pc = "inspect"
  /\ view' = [view EXCEPT !.snapshot = Runs, !.live = get_live_run_ids(Runs, others.locked)]
  /\ IF "tag-dag" \in inv.flags THEN Exit("0") ELSE Go("query")
  /\ UNCHANGED <<inv, disk, others>>

\* Second half: --ps, --history (whose locks are probed only now) or a query
\* over the jobs.
Query ==
  /\ wake.pc = "query"
  /\ LET found == matching(inv.query, inv.flags, view.live, Runs, Jobs)
         pairs == matching_open_runs(inv.query, inv.flags, view.live, Runs, Jobs)
     IN  IF "ps" \in inv.flags THEN Exit("0") /\ view' = [view EXCEPT !.listed = pairs]
         ELSE IF "history" \in inv.flags
         THEN /\ Exit("0")
              /\ view' = [view EXCEPT !.said = [r \in DOMAIN view.snapshot |->
                                                query_runs(view.snapshot[r], r \in others.locked)]]
         ELSE /\ Exit(IF found = {} THEN "1" ELSE "0")
              /\ view' = [view EXCEPT !.listed = {<<Jobs[id].run, id>> : id \in found}]
  /\ UNCHANGED <<inv, disk, others>>

-----------------------------------------------------------------------------
(***************************************************************************)
(* From the wake files to the end of the build.                            *)
(***************************************************************************)
FindWakefiles ==
  /\ wake.pc = "find"
  /\ LET found == find_all_wakefiles(InWorkspace, inv.tree, inv.lib)
     IN  wake' = [wake EXCEPT !.pc = "sources", !.found = found, !.left = found]
  /\ UNCHANGED <<inv, disk, others, view>>

\* A git that fails ends wake; no .git means no sources.
FindSources ==
  /\ wake.pc = "sources"
  /\ IF inv.git.fails THEN Exit("1")
     ELSE wake' = [wake EXCEPT !.pc = "read", !.sources = find_all_sources(inv.git.files)]
  /\ UNCHANGED <<inv, disk, others, view>>

ReadWakefile ==
  /\ wake.pc = "read" /\ wake.left # <<>>
  /\ LET f == Head(wake.left)
     IN  wake' = [wake EXCEPT !.left = Tail(@),
                              !.chosen = ChoosePackage(@, f, inv.package[f], wake.src_dir)]
  /\ UNCHANGED <<inv, disk, others, view>>

\* --in, the package "nothing", the exports and the targets; --stop-after-parse
\* ends here.
SelectPackage ==
  /\ wake.pc = "read" /\ wake.left = <<>>
  /\ LET packages == {inv.package[f] : f \in Range(wake.found)}
         named == IF inv.in = "none" THEN wake.chosen.package
                  ELSE IF inv.in \in packages THEN inv.in ELSE wake.chosen.package
         package == IF named = NoPackage THEN "nothing" ELSE named
         ok == /\ inv.in \in packages \union {"none"}
               /\ inv.program.flattens
               /\ targets(inv.flags, inv.args) => package \in inv.program.exporting
     IN  wake' = [wake EXCEPT !.package = package, !.ok = ok,
                              !.pc = IF notype(inv.flags) THEN "done" ELSE "bind",
                              !.exit = IF ~notype(inv.flags) THEN @
                                       ELSE IF ok /\ ~inv.program.errors THEN "0" ELSE "1"]
  /\ UNCHANGED <<inv, disk, others, view>>

\* --check, bind_refs, the abort, what is printed, and the optimizer.
Bind ==
  /\ wake.pc = "bind"
  /\ IF \/ "check" \in inv.flags
        \/ ~wake.ok \/ ~inv.program.binds \/ inv.program.errors
        \/ "fatal-warnings" \in inv.flags /\ inv.program.warnings
     THEN Exit("1")
     ELSE IF noexecute(inv.flags, inv.args) THEN Exit("0") ELSE Go("prepare")
  /\ UNCHANGED <<inv, disk, others, view>>

\* Database::prepare adds the run.
Prepare ==
  /\ wake.pc = "prepare"
  /\ Go("run")
  /\ Touch({"rows"})
  /\ UNCHANGED <<inv, others, view>>

\* The program calls addSources.
AddSources ==
  /\ wake.pc = "run" /\ wake.added < MaxAdded
  /\ \E more \in inv.more :
       wake' = [wake EXCEPT !.sources = prim_add_sources(@, more), !.added = @ + 1]
  /\ UNCHANGED <<inv, disk, others, view>>

\* The loop ends: the value, an abort, or an early termination.  The garbage
\* collection after it takes the store for granted.
FinishRun ==
  /\ wake.pc = "run"
  /\ \E outcome \in {"value", "Fail", "abort", "exit_now"} :
       Exit(IF ~inv.store THEN "crash" ELSE IF outcome = "value" THEN "0" ELSE "1")
  /\ UNCHANGED <<inv, disk, others, view>>

-----------------------------------------------------------------------------
(***************************************************************************)
(* Other wakes in the workspace inv.home.                                  *)
(***************************************************************************)
\* What they do once this wake has exited does not matter any more.
OthersMatter == wake.pc # "done"

\* Another wake opens the database: it has tables from then on.
OtherCreates ==
  /\ OthersMatter /\ others.waiting > 0 /\ disk.db[inv.home] \in {"none", "empty"}
  /\ disk' = [disk EXCEPT !.db[inv.home] = "ready"]
  /\ UNCHANGED <<inv, wake, others, view>>

\* It seeds the hash function, starts a run under the next id and holds its lock.
OtherPrepares ==
  /\ OthersMatter /\ others.waiting > 0 /\ disk.db[inv.home] = "ready"
  /\ LET r == Max(others.begun \union {0}) + 1
     IN  others' = [others EXCEPT !.waiting = @ - 1, !.locked = @ \union {r}, !.begun = @ \union {r},
                                  !.runs = @ @@ (r :> [end_time |-> NULL, run_jobs |-> {}])]
  /\ disk' = [disk EXCEPT !.seeded = TRUE]
  /\ UNCHANGED <<inv, wake, view>>

Alive == IF OthersMatter THEN others.locked \cap DOMAIN others.runs ELSE {}

\* It queues a job, forks it, finishes it, or uses the result of an old one.
OtherQueues ==
  /\ \E r \in Alive, id \in others.new :
       others' = [others EXCEPT !.new = @ \ {id}, !.runs[r].run_jobs = @ \union {id},
                                !.jobs = @ @@ (id :> [inv.row EXCEPT !.run = r])]
  /\ UNCHANGED <<inv, wake, disk, view>>

Unfinished == {id \in DOMAIN others.jobs : others.jobs[id].run \in Alive /\ ~others.jobs[id].stat}

OtherLaunches ==
  /\ \E id \in Unfinished :
       others.jobs[id].starttime = 0 /\ others' = [others EXCEPT !.jobs[id].starttime = 1]
  /\ UNCHANGED <<inv, wake, disk, view>>

OtherFinishesJob ==
  /\ \E id \in Unfinished, status \in {0, 1} :
       /\ others.jobs[id].starttime # 0
       /\ others' = [others EXCEPT !.jobs[id].stat = TRUE, !.jobs[id].status = status]
  /\ UNCHANGED <<inv, wake, disk, view>>

OtherReuses ==
  /\ \E r \in Alive, id \in DOMAIN others.jobs :
       /\ others.jobs[id].stat /\ others.jobs[id].status = 0
       /\ others' = [others EXCEPT !.runs[r].run_jobs = @ \union {id}]
  /\ UNCHANGED <<inv, wake, disk, view>>

\* It ends its run, with no job of its own left unfinished, or dies; the next
\* wake to start reaps the run of a dead one.
OtherEnds ==
  /\ \E r \in Alive :
       /\ \A id \in Unfinished : others.jobs[id].run # r
       /\ others' = [others EXCEPT !.runs[r].end_time = 1, !.locked = @ \ {r}]
  /\ UNCHANGED <<inv, wake, disk, view>>

OtherCrashes ==
  /\ \E r \in Alive : others' = [others EXCEPT !.locked = @ \ {r}]
  /\ UNCHANGED <<inv, wake, disk, view>>

OtherReaps ==
  /\ OthersMatter
  /\ \E r \in (DOMAIN others.runs) \ others.locked :
       /\ others.runs[r].end_time = NULL
       /\ others' = [others EXCEPT !.runs[r].end_time = -1]
  /\ UNCHANGED <<inv, wake, disk, view>>

Next ==
  \/ ParseCommandLine \/ InitWorkspace \/ Chdir \/ ProbeDatabase \/ ProbeRoot \/ Rebase
  \/ OpenLog \/ Configure \/ OpenBulkLog \/ CheckVersion \/ OpenDatabase \/ OpenStore
  \/ ListOutputs \/ ReapDeadRuns \/ Clean \/ Prune \/ Rm \/ Seed \/ ReadRuns \/ Query
  \/ FindWakefiles \/ FindSources \/ ReadWakefile \/ SelectPackage \/ Bind
  \/ Prepare \/ AddSources \/ FinishRun
  \/ OtherCreates \/ OtherPrepares \/ OtherQueues \/ OtherLaunches \/ OtherFinishesJob
  \/ OtherReuses \/ OtherEnds \/ OtherCrashes \/ OtherReaps

Spec == Init /\ [][Next]_vars

-----------------------------------------------------------------------------
(***************************************************************************)
(* Properties.                                                             *)
(***************************************************************************)
Configured == wake.pc \notin {"start", "init", "chdir", "probe", "probe root", "rebase", "log",
                              "configure", "done"}

\* ConfigPriority: once WakeConfig::init has succeeded, every key has the value of the
\* strongest layer that gives a usable one where that key is allowed, in the order its comment
\* states (command line, environment, user config, .wakeroot, default), the user's file being
\* the one the other layers name.
ConfigPriority ==
  Configured =>
    LET none == [kind |-> "missing"]
        path == PromisedValue("user_config", WakerootHere, inv.env, inv.overrides, none, inv.sh)
    IN  \A k \in Keys :
          wake.config[k].value = PromisedValue(k, WakerootHere, inv.env, inv.overrides, FileAt(inv.userfiles, path), inv.sh)

\* WorkspaceIsNearest: after chdir_workspace, wake is in the nearest directory at or above the
\* one it was sent to that held a database or a .wakeroot when it started; src_dir leads from
\* there to that directory, and wake_cwd back to where the user was, even outside the workspace.
WorkspaceIsNearest ==
  Configured /\ InWorkspace =>
    /\ wake.start = wake.at \o wake.src_dir
    /\ \A n \in 1..Len(wake.src_dir) :
         LET d == wake.at \o SubSeq(wake.src_dir, 1, n)
         IN  inv.db[d] = "none" /\ d \notin inv.wakeroots
    /\ join_paths(Abs(wake.at), wake.wake_cwd) = Abs(inv.cwd)

\* FilesAndPackageAreExact: the wake files read are those below readable directories that the
\* last matching line of the .wakeignore files above them does not exclude, in order and each
\* once (filter_wakefiles carries its rules from file to file), and without --in the default
\* package is the one all files of the deepest such directory on the way to src_dir agree on.
FilesAndPackageAreExact ==
  /\ wake.pc \in {"read", "bind", "prepare", "run"} /\ inv.tree.manifest = <<>> =>
       wake.found = Sorted((IF InWorkspace THEN PromisedFiles(inv.tree) ELSE {})
                           \union (IF InWorkspace /\ inv.tree.stdlib THEN {} ELSE inv.lib))
  /\ wake.pc \in {"bind", "prepare", "run"} /\ inv.in = "none" =>
       LET promised == PromisedPackage(Range(wake.found), inv.package, wake.src_dir)
       IN  wake.package = IF promised = NoPackage THEN "nothing" ELSE promised

\* SourcesStaySearchable: however often the program adds sources, a search under a directory
\* (two bisections of the list in prim_sources) finds exactly the sources inside it.
SourcesStaySearchable ==
  wake.pc = "run" =>
    \A root \in inv.roots :
      prim_sources(wake.sources, root)
        = SelectSeq(wake.sources, LAMBDA f : f \in PromisedSources(wake.sources, root))

\* InspectionOnlyReads: an invocation with any inspection flag, whatever other commands are
\* combined with it, changes no row, no output, no log and no staging file of the workspace.
InspectionOnlyReads ==
  Inspecting => disk.touched \cap {"rows", "outputs", "wake.log", "staging"} = {}

\* ListedAreLive: each job --ps, --active, --queued and --in-flight list, with the run it is listed
\* under, belongs to a run whose process held its lock when the inspection looked, however runs
\* and jobs changed between that look (get_live_run_ids) and the query; a crashed run, whose row
\* may stay open for long, shows none.
ListedAreLive ==
  inv.flags \cap {"ps", "active", "queued", "in-flight"} # {} =>
    \A p \in view.listed : p[1] \in view.live

\* RecordsSurviveStart: no start of a build makes the run of another wake disappear from the
\* database.  (make_workspace truncates a wake.db created since chdir_workspace looked for one.)
RecordsSurviveStart == inv.flags \cap {"init"} = {} => others.begun \subseteq DOMAIN others.runs
=============================================================================
