------------------------------ MODULE Wakebox ------------------------------
(***************************************************************************)
(* One job in wakebox, from the WakeboxSpec value in wake to the exit code *)
(* of wakebox: the spec file, its parsing, the mounts, the processes of    *)
(* the job and its timer, and the result file.                             *)
(*                                                                         *)
(* The processes are the wakebox itself, "payload" (its child), with       *)
(* isolate-pids also "init" (first process of the namespace), "user" (the  *)
(* command), "orphan" (a process the command left behind) and "timer".     *)
(* A wait status is [code, sig].  Connecting to the daemon, the system     *)
(* calls of a mount and mkdir either work or fail.                         *)
(***************************************************************************)
EXTENDS Integers, Sequences, SequencesExt, FiniteSets

CONSTANTS
  Specs,        \* the values written by the wake program
  Toolchain,    \* where a squashfs without destination wants to be
  Statuses,     \* how a command may end
  NULL

ASSUME WakeboxAssumption ==
  \A s \in Statuses : s.code \in 0..255 /\ s.sig \in 0..127 /\ (s.sig # 0 => s.code = 0)

VARIABLES
  spec,      \* the value, its promises fulfilled one by one
  ready,     \* fulfilled promises of spec
  writer,    \* WriteWakeboxJson: "run", the promise it waits for, "done" or "error"
  file,      \* the spec file: NULL or its contents
  pc,        \* run_batch and run_in_fuse
  args,      \* struct fuse_args
  proc,      \* proc[p]: where a process is, with its wait status when ended
  cwd,       \* the file system the command was started in
  result,    \* what wakebox learned of the job, or NULL
  output,    \* the result file: NULL, "empty", "short" or "written"
  exit       \* exit code of wakebox, or NULL

vars == <<spec, ready, writer, file, pc, args, proc, cwd, result, output, exit>>

Procs == {"payload", "init", "user", "orphan", "timer"}
At(where) == [at |-> where, code |-> 0, sig |-> 0]
Exited(n) == [at |-> "ended", code |-> n % 256, sig |-> 0]
Killed == [at |-> "ended", code |-> 0, sig |-> 9]
Alive(p) == proc[p].at = "alive"
Ended(p) == proc[p].at = "ended"
Unborn(p) == proc[p].at = "none"

-----------------------------------------------------------------------------
(* The spec file *)

\* The promises of a spec in the order check_spec_ready looks at them; an
\* optional value and a list have promises inside.
Fields == <<"Command", "CommandTimeout", "seconds", "MountOps", "Visible", "path">>

check_spec_ready == SelectSeq(Fields, LAMBDA f : f \notin ready)

PathTypes == [regular |-> "file", directory |-> "directory", symlink |-> "symlink"]

\* The fields of the file; an unsupported path type is an error.
stream_spec_json(s) ==
  IF \E i \in 1..Len(s.visible) : s.visible[i].type \notin DOMAIN PathTypes THEN NULL
  ELSE [command |-> s.command, timeout |-> s.timeout, pids |-> s.pids, isolate |-> s.isolate, ops |-> s.ops,
        visible |-> [i \in 1..Len(s.visible) |->
                       [s.visible[i] EXCEPT !.type = PathTypes[s.visible[i].type]]]]

Init ==
  /\ spec \in Specs
  /\ ready = {} /\ writer = "run" /\ file = NULL
  /\ pc = "off" /\ args = NULL /\ cwd = NULL
  /\ proc = [p \in Procs |-> At("none")]
  /\ result = NULL /\ output = NULL /\ exit = NULL

\* A promise is fulfilled, which wakes the writer if it waits for this one.
Fulfill(f) ==
  /\ f \notin ready
  /\ ready' = ready \cup {f}
  /\ writer' = IF writer = f THEN "run" ELSE writer
  /\ UNCHANGED <<spec, file, pc, args, proc, cwd, result, output, exit>>

\* WriteWakeboxJson::execute; the old file is unlinked first.
Write ==
  /\ writer = "run"
  /\ IF check_spec_ready # << >>
     THEN /\ writer' = Head(check_spec_ready)
          /\ UNCHANGED file
     ELSE /\ writer' = IF stream_spec_json(spec) = NULL THEN "error" ELSE "done"
          /\ file' = stream_spec_json(spec)
  /\ UNCHANGED <<spec, ready, pc, args, proc, cwd, result, output, exit>>

\* json_as_struct: NULL where it returns false.
json_as_struct(f) ==
  IF \/ \E i \in 1..Len(f.visible) : f.visible[i].type # "directory" /\ ~f.visible[i].hash
     \/ f.timeout # NULL /\ f.timeout <= 0
  THEN NULL ELSE f

-----------------------------------------------------------------------------
(* Mounts: a table of [new, at, fs], new for the root that is pivoted to.  *)

Lookup(table, path) ==
  LET over == SelectSeq(table, LAMBDA m : IsPrefix(m.at, path))
  IN  IF over = << >> THEN "host" ELSE Last(over).fs

OldRoot(table) == SelectSeq(table, LAMBDA m : ~m.new)
NewRoot(table) == SelectSeq(table, LAMBDA m : m.new)

validate_mount(x) == x.type \in {"bind", "squashfs"} \/ x.source = NULL

\* The mount an operation adds, below the new root if there is one.
bind_mount(st, x) == [new |-> st.new, at |-> x.dest, fs |-> Lookup(OldRoot(st.table), x.source)]
workspace_mount(st, x) == [new |-> st.new, at |-> x.dest, fs |-> "fuse"]
mount_tmpfs(st, x) == [new |-> st.new, at |-> x.dest, fs |-> "tmpfs"]
squashfs_mount(st, x) ==
  [new |-> st.new, at |-> IF x.dest = NULL THEN Toolchain ELSE x.dest, fs |-> "squashfs"]

\* One operation of do_mounts: a destination "/" starts a new root.
MountOp(st, x) ==
  LET here == [st EXCEPT !.new = @ \/ x.dest = << >>]
      add(m) == [here EXCEPT !.table = Append(@, m)]
  IN  CASE ~st.ok \/ ~validate_mount(x) -> [st EXCEPT !.ok = FALSE]
        [] x.type = "bind" -> add(bind_mount(here, x))
        [] x.type = "workspace" -> add(workspace_mount(here, x))
        [] x.type = "tmpfs" -> add(mount_tmpfs(here, x))
        [] x.type = "squashfs" -> add(squashfs_mount(here, x))
        [] OTHER -> here

do_mounts(ops) == FoldLeft(MountOp, [new |-> FALSE, table |-> << >>, ok |-> TRUE], ops)

\* do_pivot: what was mounted outside of the new root is gone.
AfterPivot(st) == IF st.new THEN NewRoot(st.table) ELSE st.table

\* The command's working directory.
pick_running_dir(ops) ==
  LET of(type) == SelectSeq(ops, LAMBDA x : x.type = type)
      host == SelectSeq(of("bind"), LAMBDA x : x.source = <<"w">>)
  IN  CASE of("workspace") # << >> -> Head(of("workspace")).dest
        [] of("workspace") = << >> /\ host # << >> -> Head(host).dest
        [] OTHER -> IF \E i \in 1..Len(ops) : ops[i].dest = << >> THEN << >> ELSE <<"w">>

-----------------------------------------------------------------------------
(* The wakebox process *)

Finish(code) == exit' = code % 256 /\ pc' = "exited"

\* run_batch: read and check the spec, make the result file.
Start ==
  /\ pc = "off" /\ writer = "done"
  /\ LET a == json_as_struct(file) IN
     IF a = NULL \/ (a # NULL /\ ~a.command)
     THEN /\ Finish(1)
          /\ UNCHANGED <<args, output>>
     ELSE /\ pc' = "connect" /\ args' = a /\ output' = "empty"
          /\ UNCHANGED exit
  /\ UNCHANGED <<spec, ready, writer, file, proc, cwd, result>>

\* daemon_client::connect, then two forks: the payload and the timer.
Connect ==
  /\ pc = "connect"
  /\ \/ /\ Finish(1)
        /\ UNCHANGED proc
     \/ /\ pc' = "wait"
        /\ proc' = [proc EXCEPT !["payload"] = At("alive"),
                                !["timer"] = IF args.timeout = NULL THEN @ ELSE At("alive")]
        /\ UNCHANGED exit
  /\ UNCHANGED <<spec, ready, writer, file, args, cwd, result, output>>

\* collect_result_metadata and the rest of run_batch; the report of the daemon
\* is made now.  A write of the result that fails returns errno, one that is
\* short for want of room is not noticed.
Collect(res, retcode) ==
  /\ result' = [res EXCEPT !.writers = {p \in {"user", "orphan"} : Alive(p)}]
  /\ \/ output' \in {"written", "short"} /\ Finish(IF args.isolate THEN 0 ELSE retcode)
     \/ output' = "empty" /\ Finish(28)

TimedOutWaits ==
  /\ pc = "wait" /\ Ended("timer") /\ Ended("payload")
  /\ proc' = [proc EXCEPT !["timer"] = At("reaped")]
  /\ Collect([status |-> 124, timedout |-> TRUE, writers |-> {}], proc["timer"].code * 256)
  /\ UNCHANGED <<spec, ready, writer, file, args, cwd>>
\* wait() returned the timer: kill the payload and report at once.  The exit
\* code is the wait status of the timer, as wait() encodes it.
TimedOut ==
  /\ pc = "wait" /\ Ended("timer")
  /\ proc' = [proc EXCEPT !["timer"] = At("reaped"), !["payload"] = IF Ended("payload") THEN @ ELSE Killed]
  /\ Collect([status |-> 124, timedout |-> TRUE, writers |-> {}], proc["timer"].code * 256)
  /\ UNCHANGED <<spec, ready, writer, file, args, cwd>>

\* wait() returned the payload: kill the timer, report.
PayloadDone ==
  /\ pc = "wait" /\ Ended("payload")
  /\ proc' = [proc EXCEPT !["payload"] = At("reaped"),
                          !["timer"] = IF Alive("timer") THEN Killed ELSE @]
  /\ LET st == proc["payload"]
         status == IF st.sig = 0 THEN st.code ELSE -st.sig
     IN  Collect([status |-> status, timedout |-> FALSE, writers |-> {}], status)
  /\ UNCHANGED <<spec, ready, writer, file, args, cwd>>

-----------------------------------------------------------------------------
(* The other processes *)

Rest == UNCHANGED <<spec, ready, writer, file, pc, args, result, output, exit>>
Become(p, st) == proc' = [proc EXCEPT ![p] = st]

TimerExpires == Alive("timer") /\ Become("timer", Exited(124)) /\ UNCHANGED cwd /\ Rest

InSetup == Alive("payload") /\ Unborn("user") /\ Unborn("init")

\* setup_user_namespaces, do_mounts or a later call fails: exit(1).
SetupFails ==
  /\ InSetup
  /\ Become("payload", Exited(1))
  /\ UNCHANGED cwd /\ Rest

\* The command is executed by the payload, or a namespace is made for it.
Exec ==
  /\ InSetup
  /\ LET st == do_mounts(args.ops) IN
     /\ st.ok
     /\ cwd' = Lookup(AfterPivot(st), pick_running_dir(args.ops))
  /\ proc' = [proc EXCEPT ![IF args.pids THEN "init" ELSE "user"] = At("alive")]
  /\ Rest

\* pidns_init: mount /proc, fork the command.
InitForks ==
  /\ Alive("init") /\ Unborn("user")
  /\ \/ Become("user", At("alive"))
     \/ Become("init", Exited(1))
  /\ UNCHANGED cwd /\ Rest

UserForks ==
  /\ Alive("user") /\ Unborn("orphan")
  /\ Become("orphan", At("alive"))
  /\ UNCHANGED cwd /\ Rest

\* Without a namespace the command is the payload.
UserEnds(st) ==
  /\ Alive("user")
  /\ proc' = [proc EXCEPT !["user"] = st,
                          !["payload"] = IF ~args.pids /\ Alive("payload") THEN st ELSE @]
  /\ UNCHANGED cwd /\ Rest

OrphanEnds ==
  /\ Alive("orphan")
  /\ Become("orphan", Exited(0))
  /\ UNCHANGED cwd /\ Rest

\* Mutant: init does not wait for the processes the command left.
InitEndsEarly ==
  /\ Alive("init") /\ Ended("user")
  /\ Become("init", IF proc["user"].sig = 0 THEN Exited(proc["user"].code)
                    ELSE Exited(-proc["user"].sig))
  /\ UNCHANGED cwd /\ Rest

\* pidns_init has reaped all children: exit with the status of the command.
InitEnds ==
  /\ Alive("init") /\ Ended("user") /\ ~Alive("orphan")
  /\ Become("init", IF proc["user"].sig = 0 THEN Exited(proc["user"].code)
                    ELSE Exited(-proc["user"].sig))
  /\ UNCHANGED cwd /\ Rest

\* exec_in_pidns: waitpid of init, exit with its status.
PayloadEnds ==
  /\ Alive("payload") /\ Ended("init")
  /\ Become("payload", IF proc["init"].sig = 0 THEN Exited(proc["init"].code)
                       ELSE Exited(-proc["init"].sig))
  /\ UNCHANGED cwd /\ Rest

\* PR_SET_PDEATHSIG: init dies with the payload, and takes its namespace along.
DeathSignal ==
  /\ args # NULL /\ args.pids /\ ~Alive("payload")
  /\ \/ Alive("init") /\ Become("init", Killed)
     \/ /\ Ended("init") /\ Alive("user")
        /\ Become("user", Killed)
     \/ /\ Ended("init") /\ Alive("orphan")
        /\ Become("orphan", Killed)
  /\ UNCHANGED cwd /\ Rest

\* Without a namespace the command itself dies when its payload is killed.
PayloadKilled ==
  /\ args # NULL /\ ~args.pids /\ Alive("user") /\ ~Alive("payload")
  /\ Become("user", Killed)
  /\ UNCHANGED cwd /\ Rest

Done == pc = "exited" \/ writer = "error"
Terminated == Done /\ UNCHANGED vars

Wait == TimedOut \/ PayloadDone
System ==
  \/ Write \/ Start \/ Connect \/ Exec \/ InitForks \/ InitEnds \/ PayloadEnds
  \/ DeathSignal \/ PayloadKilled

Next ==
  \/ \E f \in ToSet(Fields) : Fulfill(f)
  \/ System \/ Wait \/ TimerExpires \/ SetupFails \/ UserForks \/ OrphanEnds
  \/ \E st \in Statuses : UserEnds([Exited(st.code) EXCEPT !.sig = st.sig])
  \/ Terminated

\* Promises are fulfilled, processes scheduled, timers expire.  The command and
\* what it leaves behind need not end.
Fairness ==
  /\ WF_vars(\E f \in ToSet(Fields) : Fulfill(f))
  /\ WF_vars(System) /\ WF_vars(Wait) /\ WF_vars(TimerExpires)

Spec == Init /\ [][Next]_vars /\ Fairness

-----------------------------------------------------------------------------
(* Properties *)

\* The workspace is mounted where the command starts, unless a later mount of
\* the spec covers the place or is a new root: do_mounts and pick_running_dir
\* agree on it.
StartsInWorkspace ==
  cwd # NULL /\ cwd # "fuse" =>
    LET ops == args.ops IN
    \A i \in 1..Len(ops) : ops[i].type = "workspace" =>
      \E j \in 1..Len(ops) :
        /\ j # i
        /\ \/ ops[j].type = "workspace"
           \/ j > i /\ IsPrefix(IF ops[j].dest = NULL THEN Toolchain ELSE ops[j].dest, ops[i].dest)

\* With a namespace for its processes, a job that was not timed out has none
\* left that could still write when the daemon makes its report.
ReportIsFinal ==
  result # NULL /\ args.pids /\ ~result.timedout => result.writers = {}

\* What zero means.  Status 0 in the result: the command ran and exited with 0,
\* in spite of the conversions between wait statuses and 8-bit exit codes.  Exit
\* code 0 of wakebox, which is all the runner in wake looks at before it reads
\* the result file: the result was written, though maybe not all of it.
ZeroMeansSuccess ==
  /\ result # NULL /\ result.status = 0 => proc["user"] = Exited(0)
  /\ exit = 0 => output \in {"written", "short"}

\* A wakebox with a timeout ends although its command never does.
TimeoutEnds == spec.timeout # NULL ~> Done
=============================================================================
