----------------------------- MODULE FuseDaemon -----------------------------
(***************************************************************************)
(* The life of the FUSE daemon and of the wakebox clients that share it.   *)
(*                                                                         *)
(* A client opens the marker file .f.fuse-waked below the mount point and, *)
(* as long as that fails, starts a daemon and retries.  It then creates    *)
(* its live file .l.<pid>, closes the marker, sends its visible files,     *)
(* runs the job, asks for the report and exits.  A daemon holds a lock on  *)
(* its log file, serves requests one at a time, and leaves some time after *)
(* its last client.  SIGALRM and SIGTERM interrupt it anywhere, so a       *)
(* request that must stop a pending exit takes three steps here.           *)
(*                                                                         *)
(* mounts is the stack of file systems on the mount point.  Daemon         *)
(* identities are reused once their process and their mount are gone.      *)
(***************************************************************************)
EXTENDS Naturals, Sequences, FiniteSets

CONSTANTS
  Client, Daemon,
  MaxRetries,    \* maxClientConnectRetries
  MaxAttempts,   \* QUIT_RETRY_ATTEMPTS
  MaxRuns,       \* bound on the wakeboxes started
  MaxTerms,      \* bound on SIGTERM, SIGINT, SIGQUIT sent
  MaxDeaths,     \* bound on clients that are killed
  NULL

ASSUME DaemonAssumption ==
  /\ NULL \notin Daemon
  /\ MaxRetries \in Nat /\ MaxAttempts \in Nat
  /\ MaxRuns \in Nat /\ MaxTerms \in Nat /\ MaxDeaths \in Nat

VARIABLES
  dir,      \* the directory of the mount point: "none", "empty" or "littered"
  lock,     \* who has the lock on the log file
  mounts,
  dm,       \* dm[d]: the process of a daemon
  cl,       \* cl[c]: the process of a wakebox
  budget    \* wakeboxes, signals and deaths to come

vars == <<dir, lock, mounts, dm, cl, budget>>

NoDaemon ==
  [pc |-> "off", madedir |-> FALSE, uses |-> {}, jobs |-> {}, attempts |-> 0,
   timer |-> FALSE, alarm |-> FALSE, half |-> NULL, child |-> "none",
   linger |-> FALSE, closed |-> {}, served |-> FALSE, termed |-> FALSE]

NoClient == [pc |-> "idle", f |-> NULL, l |-> NULL, kid |-> NULL, retry |-> 0]

Init ==
  /\ dir = "none" /\ lock = NULL /\ mounts = << >>
  /\ dm = [d \in Daemon |-> NoDaemon]
  /\ cl = [c \in Client |-> NoClient]
  /\ budget = [runs |-> MaxRuns, terms |-> MaxTerms, deaths |-> MaxDeaths]

Top == IF mounts = << >> THEN NULL ELSE mounts[Len(mounts)]
Mounted(d) == \E i \in 1..Len(mounts) : mounts[i] = d

\* fuse_unmount is by path: it takes off whatever was mounted last.
Unmount == SubSeq(mounts, 1, Len(mounts) - 1)
Serving(d) == d \in Daemon /\ dm[d].pc \in {"serve", "waitpid"}

should_exit(D) == D.uses = {} /\ D.jobs = {}

\* setitimer: wait for new clients, or for the next attempt to unmount.
schedule_exit(D) == [D EXCEPT !.timer = TRUE]

-----------------------------------------------------------------------------
(* Start of a daemon *)

\* mkdir of the mount point; the launcher forks and exits.
MakeDir(d) ==
  /\ dm[d].pc = "mkdir"
  /\ dm' = [dm EXCEPT ![d].pc = "lock", ![d].madedir = (dir = "none")]
  /\ dir' = IF dir = "none" THEN "empty" ELSE dir
  /\ UNCHANGED <<lock, mounts, cl, budget>>

TakeLockAnyway(d) ==
  /\ dm[d].pc = "lock"
  /\ lock' = IF lock = NULL THEN d ELSE lock
  /\ dm' = [dm EXCEPT ![d].pc = "mount"]
  /\ UNCHANGED <<dir, mounts, cl, budget>>
\* F_SETLK on the log: somebody else's lock means another daemon runs.
TakeLock(d) ==
  /\ dm[d].pc = "lock"
  /\ IF lock = NULL
     THEN /\ lock' = d
          /\ dm' = [dm EXCEPT ![d].pc = "mount"]
     ELSE /\ dm' = [dm EXCEPT ![d] = NoDaemon]
          /\ UNCHANGED lock
  /\ UNCHANGED <<dir, mounts, cl, budget>>

\* fuse_mount needs the directory, and fails on a mount nobody serves.
Mount(d) ==
  /\ dm[d].pc = "mount"
  /\ IF dir # "none" /\ (Top = NULL \/ Serving(Top))
     THEN /\ mounts' = Append(mounts, d)
          /\ dm' = [dm EXCEPT ![d].pc = "serve"]
     ELSE /\ dm' = [dm EXCEPT ![d].pc = "rmdir"]
          /\ UNCHANGED mounts
  /\ UNCHANGED <<dir, lock, cl, budget>>

-----------------------------------------------------------------------------
(* Requests *)

Idle(d) == dm[d].pc = "serve" /\ dm[d].half = NULL

\* open of .f or create of .l: first the use is counted ...
CountUse(d, c) ==
  /\ Idle(d)
  /\ \/ /\ cl[c].pc = "openF" /\ cl[c].f = d
        /\ dm' = [dm EXCEPT ![d].uses = @ \cup {c}, ![d].half = [c |-> c, at |-> "check"]]
     \/ /\ cl[c].pc = "createL" /\ cl[c].l = d
        /\ dm' = [dm EXCEPT ![d].jobs = @ \cup {c}, ![d].half = [c |-> c, at |-> "check"]]
  /\ UNCHANGED <<dir, lock, mounts, cl, budget>>

\* ... then cancel_exit looks whether an exit has begun, which refuses the
\* client (open fails with ENOENT, create with EPERM) ...
CancelCheck(d) ==
  /\ dm[d].pc = "serve" /\ dm[d].half # NULL /\ dm[d].half.at = "check"
  /\ LET c == dm[d].half.c IN
     IF dm[d].attempts = 0
     THEN /\ dm' = [dm EXCEPT ![d].half.at = "disarm"]
          /\ UNCHANGED cl
     ELSE IF cl[c].pc = "createL"
     THEN /\ dm' = [dm EXCEPT ![d].half = NULL, ![d].jobs = @ \ {c}]
          /\ cl' = [cl EXCEPT ![c].pc = "failed", ![c].l = NULL]
     ELSE /\ dm' = [dm EXCEPT ![d].half = NULL, ![d].uses = @ \ {c}]
          /\ cl' = [cl EXCEPT ![c].pc = "refused", ![c].f = NULL]
  /\ UNCHANGED <<dir, lock, mounts, budget>>

\* ... and stops the timer.
CancelTimer(d) ==
  /\ dm[d].pc = "serve" /\ dm[d].half # NULL /\ dm[d].half.at = "disarm"
  /\ dm' = [dm EXCEPT ![d].half = NULL, ![d].timer = FALSE, ![d].served = TRUE]
  /\ cl' = [cl EXCEPT ![dm[d].half.c].pc = IF @ = "openF" THEN "hasF" ELSE "hasL"]
  /\ UNCHANGED <<dir, lock, mounts, budget>>

ForgetQuietly(D, r) ==
  LET left == [D EXCEPT !.closed = @ \ {r},
                        !.uses = IF r.kind = "f" THEN @ \ {r.c} ELSE @,
                        !.jobs = IF r.kind = "l" THEN @ \ {r.c} ELSE @]
  IN  IF should_exit(left) /\ r.kind = "f" THEN schedule_exit(left) ELSE left
\* A closed descriptor reaches the daemon; the last one starts the timer.
Forget(D, r) ==
  LET left == [D EXCEPT !.closed = @ \ {r},
                        !.uses = IF r.kind = "f" THEN @ \ {r.c} ELSE @,
                        !.jobs = IF r.kind = "l" THEN @ \ {r.c} ELSE @]
  IN  IF should_exit(left) THEN schedule_exit(left) ELSE left

Release(d, r) ==
  /\ Idle(d) /\ r \in dm[d].closed
  /\ dm' = [dm EXCEPT ![d] = Forget(@, r)]
  /\ UNCHANGED <<dir, lock, mounts, cl, budget>>

-----------------------------------------------------------------------------
(* Exit of a daemon *)

TimerExpires(d) ==
  /\ Serving(d) /\ dm[d].timer
  /\ dm' = [dm EXCEPT ![d].timer = FALSE, ![d].alarm = TRUE]
  /\ UNCHANGED <<dir, lock, mounts, cl, budget>>

\* The rest of handle_exit, once an earlier attempt was reaped.
Attempt(d, D) ==
  LET R == [D EXCEPT !.child = "none", !.linger = @ \/ D.child = "exit42", !.pc = "serve"]
  IN  CASE R.linger ->
             /\ dm' = [dm EXCEPT ![d] = R]
             /\ lock' = IF lock = d THEN NULL ELSE lock
        [] ~R.linger /\ R.attempts = MaxAttempts ->
             /\ dm' = [dm EXCEPT ![d] = NoDaemon]
             /\ lock' = IF lock = d THEN NULL ELSE lock
        [] OTHER ->
             /\ dm' = [dm EXCEPT ![d] =
                  schedule_exit([R EXCEPT !.child = "umount", !.attempts = @ + 1])]
             /\ UNCHANGED lock

HandleAlarmAlways(d) ==
  /\ dm[d].pc = "serve" /\ dm[d].alarm
  /\ LET D == [dm[d] EXCEPT !.alarm = FALSE] IN
     IF D.child \in {"umount", "probe"}
     THEN dm' = [dm EXCEPT ![d] = [D EXCEPT !.pc = "waitpid"]] /\ UNCHANGED lock
     ELSE Attempt(d, D)
  /\ UNCHANGED <<dir, mounts, cl, budget>>
\* handle_exit, with an alarm: ignored when a client came in the meantime.
HandleAlarm(d) ==
  /\ dm[d].pc = "serve" /\ dm[d].alarm
  /\ LET D == [dm[d] EXCEPT !.alarm = FALSE] IN
     IF D.attempts = 0 /\ ~should_exit(D)
     THEN dm' = [dm EXCEPT ![d] = D] /\ UNCHANGED lock
     ELSE IF D.child \in {"umount", "probe"}
     THEN dm' = [dm EXCEPT ![d] = [D EXCEPT !.pc = "waitpid"]] /\ UNCHANGED lock
     ELSE Attempt(d, D)
  /\ UNCHANGED <<dir, mounts, cl, budget>>

\* handle_exit, with another signal: only the first one counts.
HandleTerm(d) ==
  /\ dm[d].pc = "serve" /\ budget.terms > 0
  /\ budget' = [budget EXCEPT !.terms = @ - 1]
  /\ IF dm[d].attempts # 0 THEN UNCHANGED <<dm, lock>>
     ELSE Attempt(d, [dm[d] EXCEPT !.termed = TRUE])
  /\ UNCHANGED <<dir, mounts, cl>>

\* waitpid returned in handle_exit.
Reaped(d) ==
  /\ dm[d].pc = "waitpid" /\ dm[d].child \in {"exit1", "exit42"}
  /\ Attempt(d, dm[d])
  /\ UNCHANGED <<dir, mounts, cl, budget>>

InUse(d) ==
  dm[d].uses \cup dm[d].jobs \cup {c \in Client : cl[c].f = d \/ cl[c].l = d} # {}

\* The forked child unmounts, lazily; this may fail while the mount is in use.
ChildUnmounts(d) ==
  /\ dm[d].child = "umount"
  /\ \/ /\ mounts' = Unmount
        /\ dm' = [dm EXCEPT ![d].child = "exit42"]
     \/ /\ InUse(d)
        /\ dm' = [dm EXCEPT ![d].child = "probe"]
        /\ UNCHANGED mounts
  /\ UNCHANGED <<dir, lock, cl, budget>>

\* access(".f.fuse-waked") in the child is a request to its own parent.
ChildProbes(d) ==
  /\ dm[d].child = "probe" /\ Idle(d)
  /\ dm' = [dm EXCEPT ![d].child = "exit1"]
  /\ UNCHANGED <<dir, lock, mounts, cl, budget>>

\* Unmounted and no longer in use: the kernel ends the session and fuse_loop.
LoopEnds(d) ==
  /\ Idle(d) /\ ~Mounted(d) /\ ~InUse(d)
  /\ dm' = [dm EXCEPT ![d].pc = "rmdir", ![d].timer = FALSE, ![d].alarm = FALSE]
  /\ UNCHANGED <<dir, lock, mounts, cl, budget>>

\* rmdir of the mount point by who made it; fails under a newer mount.
RemoveDir(d) ==
  /\ dm[d].pc = "rmdir"
  /\ dir' = IF dm[d].madedir /\ mounts = << >> /\ dir = "empty" THEN "none" ELSE dir
  /\ dm' = [dm EXCEPT ![d].pc = "exit"]
  /\ UNCHANGED <<lock, mounts, cl, budget>>

ExitDaemon(d) ==
  /\ dm[d].pc = "exit"
  /\ dm' = [dm EXCEPT ![d] = NoDaemon]
  /\ lock' = IF lock = d THEN NULL ELSE lock
  /\ UNCHANGED <<dir, mounts, cl, budget>>

-----------------------------------------------------------------------------
(* Clients *)

\* A wakebox starts and makes the directories of the mount point.
Connect(c) ==
  /\ cl[c].pc = "idle" /\ budget.runs > 0
  /\ budget' = [budget EXCEPT !.runs = @ - 1]
  /\ \A d \in Daemon : c \notin dm[d].uses \cup dm[d].jobs
  /\ cl' = [cl EXCEPT ![c].pc = "open"]
  /\ dir' = IF dir = "none" THEN "empty" ELSE dir
  /\ UNCHANGED <<lock, mounts, dm>>

\* open(".f.fuse-waked") goes to whoever serves the mount point.
OpenF(c) ==
  /\ cl[c].pc = "open"
  /\ cl' = IF Serving(Top)
           THEN [cl EXCEPT ![c].pc = "openF", ![c].f = Top]
           ELSE [cl EXCEPT ![c].pc = "refused"]
  /\ UNCHANGED <<dir, lock, mounts, dm, budget>>

\* The open failed: start a daemon and sleep, up to maxClientConnectRetries.
Retry(c) ==
  /\ cl[c].pc = "refused"
  /\ IF cl[c].retry = MaxRetries
     THEN /\ cl' = [cl EXCEPT ![c].pc = "failed"]
          /\ UNCHANGED dm
     ELSE \E d \in Daemon :
          /\ dm[d] = NoDaemon /\ ~Mounted(d)
          /\ dm' = [dm EXCEPT ![d].pc = "mkdir"]
          /\ cl' = [cl EXCEPT ![c].pc = "sleep", ![c].kid = d, ![c].retry = @ + 1]
  /\ UNCHANGED <<dir, lock, mounts, budget>>

\* The wait is over and the launcher of the daemon has been reaped.
WakeUp(c) ==
  /\ cl[c].pc = "sleep"
  /\ dm[cl[c].kid].pc # "mkdir"
  /\ cl' = [cl EXCEPT ![c].pc = "open", ![c].kid = NULL]
  /\ UNCHANGED <<dir, lock, mounts, dm, budget>>

\* The daemon that had the request is gone.
Disconnected(c) ==
  /\ \/ cl[c].pc = "openF" /\ ~Serving(cl[c].f)
     \/ cl[c].pc = "createL" /\ ~Serving(cl[c].l)
  /\ cl' = [cl EXCEPT ![c].pc = IF @ = "openF" THEN "refused" ELSE "failed"]
  /\ UNCHANGED <<dir, lock, mounts, dm, budget>>

\* Without a mount, a file made by path stays in the directory below it.
Litter == dir' = IF Top = NULL /\ dir # "none" THEN "littered" ELSE dir

\* open(".l.<pid>", O_CREAT | O_EXCL): by path again, on whatever is there now.
CreateL(c) ==
  /\ cl[c].pc = "hasF"
  /\ IF Serving(Top)
     THEN cl' = [cl EXCEPT ![c].pc = "createL", ![c].l = Top] /\ UNCHANGED dir
     ELSE cl' = [cl EXCEPT ![c].pc = "failed"] /\ Litter
  /\ UNCHANGED <<lock, mounts, dm, budget>>

\* Daemons that are told about the descriptors of c in K: one process each.
Closed(c, K) ==
  [d \in Daemon |->
     [dm[d] EXCEPT !.closed = @ \cup
        {r \in [c : {c}, kind : K] :
           \/ r.kind = "f" /\ cl[c].f = d /\ c \in dm[d].uses
           \/ r.kind = "l" /\ cl[c].l = d /\ c \in dm[d].jobs}]]

\* close of the marker, then the visible files are written to .i.<pid>; the
\* job runs and may be killed by the timer of wakebox.
CloseF(c) ==
  /\ cl[c].pc = "hasL"
  /\ dm' = Closed(c, {"f"})
  /\ cl' = [cl EXCEPT ![c].pc = "input", ![c].f = NULL]
  /\ UNCHANGED <<dir, lock, mounts, budget>>

SendInput(c) ==
  /\ cl[c].pc = "input"
  /\ \/ /\ Top = cl[c].l /\ Idle(Top)
        /\ cl' = [cl EXCEPT ![c].pc = "running"]
        /\ UNCHANGED dir
     \/ /\ Top # cl[c].l \/ ~Serving(Top)
        /\ cl' = [cl EXCEPT ![c].pc = "failed"]
        /\ Litter
  /\ UNCHANGED <<lock, mounts, dm, budget>>

\* disconnect: a write to the live file makes the report, which is read by path.
Disconnect(c) ==
  /\ cl[c].pc = "running" /\ (Idle(cl[c].l) \/ ~Serving(cl[c].l))
  /\ cl' = [cl EXCEPT ![c].pc =
              IF Top = cl[c].l /\ Serving(Top) THEN "done" ELSE "failed"]
  /\ UNCHANGED <<dir, lock, mounts, dm, budget>>

\* Descriptors a process leaves are closed by the kernel.
Leave(c) ==
  /\ dm' = Closed(c, {"f", "l"})
  /\ cl' = [cl EXCEPT ![c] = NoClient]

ExitClient(c) ==
  /\ cl[c].pc \in {"done", "failed"}
  /\ Leave(c)
  /\ UNCHANGED <<dir, lock, mounts, budget>>

\* wake kills the wakebox; a request it waits for is answered first.
KillClient(c) ==
  /\ cl[c].pc \notin {"idle", "openF", "createL", "done", "failed"}
  /\ budget.deaths > 0
  /\ budget' = [budget EXCEPT !.deaths = @ - 1]
  /\ Leave(c)
  /\ UNCHANGED <<dir, lock, mounts>>

-----------------------------------------------------------------------------
DaemonStep(d) ==
  \/ MakeDir(d) \/ TakeLock(d) \/ Mount(d)
  \/ CancelCheck(d) \/ CancelTimer(d)
  \/ \E c \in Client : CountUse(d, c)
  \/ \E r \in dm[d].closed : Release(d, r)
  \/ TimerExpires(d) \/ HandleAlarm(d) \/ Reaped(d)
  \/ ChildUnmounts(d) \/ ChildProbes(d)
  \/ LoopEnds(d) \/ RemoveDir(d) \/ ExitDaemon(d)

ClientStep(c) ==
  \/ OpenF(c) \/ Retry(c) \/ WakeUp(c) \/ Disconnected(c) \/ CreateL(c) \/ CloseF(c)
  \/ SendInput(c) \/ Disconnect(c) \/ ExitClient(c)

Next ==
  \/ \E d \in Daemon : DaemonStep(d) \/ HandleTerm(d)
  \/ \E c \in Client : ClientStep(c) \/ Connect(c) \/ KillClient(c)

\* Processes are scheduled and timers expire.  Nobody has to start a wakebox,
\* to kill one or to send a signal.
Fairness ==
  /\ \A d \in Daemon : WF_vars(DaemonStep(d))
  /\ \A c \in Client : WF_vars(ClientStep(c))

Spec == Init /\ [][Next]_vars /\ Fairness

-----------------------------------------------------------------------------
(* Properties *)

\* The lock on the log file, which a daemon takes after its forks and gives
\* back only once it is unmounted, keeps a second file system off the mount
\* point.
OneMount == Len(mounts) <= 1

\* "Return of 'true' guarantees the process will not exit": as long as a client
\* has a descriptor that cancel_exit granted, its daemon makes no attempt to
\* exit and serves the mount point, unless it was told to terminate.
CancelIsHonoured ==
  \A d \in Daemon, c \in Client :
    (cl[c].f = d /\ cl[c].pc # "openF") \/ (cl[c].l = d /\ cl[c].pc # "createL")
      => dm[d].termed \/ dm[d] = NoDaemon \/ (dm[d].attempts = 0 /\ Top = d)

\* handle_exit waits for a child which waits for an answer of the daemon.
Wedged(d) == dm[d].pc = "waitpid" /\ dm[d].child = "probe"

\* connect comes to an end, whatever daemons do: the client has its live file
\* or gives up (unless a daemon is stuck in handle_exit).
ConnectEnds ==
  \A c \in Client :
    cl[c].pc = "open" ~> (cl[c].pc \in {"hasL", "failed", "idle"} \/ \E d \in Daemon : Wedged(d))

\* A daemon that had a client leaves when nobody comes any more: the release
\* of the last file starts the timer, and no cancelled exit loses it.
DaemonLeaves ==
  <>[](\A c \in Client : cl[c].pc = "idle") =>
    <>[](\A d \in Daemon : dm[d].pc = "off" \/ ~dm[d].served \/ Wedged(d))

\* "In case it fails, we setup an itimer to keep trying to unmount": waiting
\* for the failed attempt never blocks the daemon for good.
RetriesUnmount == \A d \in Daemon : ~Wedged(d)
=============================================================================
