-------------------------- MODULE FuseDaemonProofs --------------------------
(***************************************************************************)
(* Proofs about the FUSE daemon and its clients: at most one file system   *)
(* is mounted at a time, and a client whose descriptor was granted by      *)
(* cancel_exit keeps its daemon, for any number of daemons, clients,       *)
(* signals and deaths.                                                     *)
(***************************************************************************)
EXTENDS FuseDaemon, TLAPS

HalfRec == [c : Client, at : {"check", "disarm"}]
ClosedRec == [c : Client, kind : {"f", "l"}]

DaemonRec ==
  [pc : {"off", "mkdir", "lock", "mount", "serve", "waitpid", "rmdir", "exit"},
   madedir : BOOLEAN, uses : SUBSET Client, jobs : SUBSET Client, attempts : Nat,
   timer : BOOLEAN, alarm : BOOLEAN, half : HalfRec \cup {NULL},
   child : {"none", "umount", "probe", "exit1", "exit42"},
   linger : BOOLEAN, closed : SUBSET ClosedRec, served : BOOLEAN, termed : BOOLEAN]

ClientRec ==
  [pc : {"idle", "open", "openF", "refused", "sleep", "hasF", "createL", "hasL",
         "input", "running", "done", "failed"},
   f : Daemon \cup {NULL}, l : Daemon \cup {NULL}, kid : Daemon \cup {NULL},
   retry : Nat]

\* At most one mount, and records of the right shape.
Shape ==
  /\ mounts = << >> \/ \E e \in Daemon : mounts = <<e>>
  /\ lock \in Daemon \cup {NULL}
  /\ dm \in [Daemon -> DaemonRec]
  /\ cl \in [Client -> ClientRec]

\* What the lock and the mount say about a daemon.  One that was mounted and
\* is gone left a mount point nobody serves; it holds no lock, and nobody
\* mounts over it.
Held(d) ==
  /\ mounts = <<d>> => dm[d].pc \in {"off", "serve", "waitpid"}
  /\ dm[d].pc = "off" => dm[d] = NoDaemon
  /\ dm[d].pc \in {"off", "mkdir", "lock"} => lock # d
  /\ dm[d].pc = "mount" => lock = d
  /\ dm[d].pc \in {"serve", "waitpid"} /\ ~dm[d].linger => lock = d
  /\ dm[d].pc \in {"serve", "waitpid"} =>
       (mounts = <<d>> <=> ~dm[d].linger /\ dm[d].child # "exit42")

\* How far an exit has come: no child and no lingering before the first
\* attempt, and no child once the daemon lingers.
Exiting(d) ==
  /\ dm[d].attempts = 0 => dm[d].child = "none" /\ ~dm[d].linger /\ dm[d].pc # "waitpid"
  /\ dm[d].linger => dm[d].child = "none" /\ dm[d].pc # "waitpid"
  /\ dm[d].pc \in {"off", "mkdir", "lock", "mount"} =>
       dm[d].child = "none" /\ ~dm[d].linger /\ dm[d].attempts = 0
  /\ dm[d].child \in {"umount", "probe", "exit1"} => dm[d].pc \in {"serve", "waitpid"}

\* What a daemon counts belongs to clients, and only while it serves: ...
Busy(d) ==
  dm[d].uses # {} \/ dm[d].jobs # {} \/ dm[d].half # NULL \/ dm[d].closed # {} =>
    dm[d].pc \in {"serve", "waitpid"}

\* ... a client on its way to its live file has closed nothing, ...
Joining == {"open", "openF", "refused", "sleep", "hasF", "createL", "hasL"}

ClosedFits(d, r) ==
  /\ r.kind = "f" => r.c \in dm[d].uses /\ cl[r.c].f # d
  /\ r.kind = "l" => r.c \in dm[d].jobs /\ cl[r.c].l # d
  /\ cl[r.c].pc \notin Joining

\* ... and the client whose request is in the middle of cancel_exit waits for
\* it; no exit has begun when the timer is to be stopped, except by a signal.
Waits(d, c) ==
  \/ cl[c].pc = "openF" /\ cl[c].f = d /\ c \in dm[d].uses
  \/ cl[c].pc = "createL" /\ cl[c].l = d /\ c \in dm[d].jobs

Halfway(d) ==
  dm[d].half # NULL =>
    /\ Waits(d, dm[d].half.c)
    /\ dm[d].half.at = "disarm" => dm[d].attempts = 0 \/ dm[d].termed

Counted(d) == Busy(d) /\ (\A r \in dm[d].closed : ClosedFits(d, r)) /\ Halfway(d)

\* A descriptor a client has is counted by its daemon.  An exit that begins
\* without a signal finds no such descriptor.
Granted(d, c) ==
  \/ cl[c].f = d /\ cl[c].pc # "openF"
  \/ cl[c].l = d /\ cl[c].pc # "createL"

Kept(d, c) ==
  /\ cl[c].f = d \/ cl[c].l = d =>
       dm[d].pc \in {"serve", "waitpid"} \/ (dm[d].pc = "off" /\ mounts = <<d>>)
  /\ cl[c].f = d /\ cl[c].pc # "openF" /\ dm[d].pc # "off" => c \in dm[d].uses
  /\ cl[c].l = d /\ cl[c].pc # "createL" /\ dm[d].pc # "off" => c \in dm[d].jobs
  /\ Granted(d, c) => dm[d].attempts = 0 \/ dm[d].termed

Good(d) == Held(d) /\ Exiting(d) /\ Counted(d) /\ \A c \in Client : Kept(d, c)

\* The inductive invariant.
DaemonInv == Shape /\ \A d \in Daemon : Good(d)

-----------------------------------------------------------------------------
(* The mount point *)

\* With at most one mount, Top, Mounted and Unmount are about that one.
LEMMA OneOnTop ==
  ASSUME Shape, NEW d \in Daemon
  PROVE  /\ mounts = << >> => Top = NULL
         /\ mounts = <<d>> => Top = d /\ Unmount = << >>
         /\ Top = d => mounts = <<d>>
         /\ Mounted(d) <=> mounts = <<d>>
<1>1. mounts = << >> => Top = NULL /\ ~Mounted(d)
  BY DEF Top, Mounted
<1>2. ASSUME NEW e \in Daemon, mounts = <<e>>
      PROVE  Top = e /\ Unmount = << >> /\ (Mounted(d) <=> d = e)
  <2>1. Len(mounts) = 1 /\ mounts[1] = e /\ mounts # << >>
    BY <1>2
  <2>2. Top = e
    BY <2>1 DEF Top
  <2>3. Mounted(d) <=> d = e
    BY <2>1 DEF Mounted
  <2>4. Unmount = << >>
    BY <1>2, <2>1 DEF Unmount
  <2>. QED
    BY <2>2, <2>3, <2>4
<1>3. CASE mounts = << >>
  <2>1. Top # d
    BY <1>1, <1>3, DaemonAssumption
  <2>. QED
    BY <1>1, <1>3, <2>1
<1>4. CASE \E e \in Daemon : mounts = <<e>>
  <2>1. PICK e \in Daemon : mounts = <<e>>
    BY <1>4
  <2>2. mounts = <<d>> <=> d = e
    BY <2>1
  <2>3. mounts # << >>
    BY <2>1
  <2>. QED
    BY <1>2, <2>1, <2>2, <2>3
<1>. QED
  BY <1>3, <1>4 DEF Shape

\* The fields of a daemon that does not run.
LEMMA NoDaemonFields ==
  /\ NoDaemon \in DaemonRec /\ NoDaemon.pc = "off" /\ NoDaemon.uses = {}
  /\ NoDaemon.jobs = {} /\ NoDaemon.half = NULL /\ NoDaemon.closed = {}
  /\ NoDaemon.attempts = 0 /\ NoDaemon.child = "none" /\ NoDaemon.linger = FALSE
BY DEF NoDaemon, DaemonRec

\* What is counted stays right as long as nothing is counted or forgotten and
\* no client moves.
LEMMA CountedStays ==
  ASSUME NEW d \in Daemon, Counted(d), UNCHANGED cl,
         dm'[d].uses = dm[d].uses, dm'[d].jobs = dm[d].jobs,
         dm'[d].half = dm[d].half, dm'[d].closed = dm[d].closed,
         dm[d].pc \in {"serve", "waitpid"} => dm'[d].pc \in {"serve", "waitpid"},
         dm[d].half # NULL /\ dm[d].half.at = "disarm" =>
           dm'[d].attempts = 0 \/ dm'[d].termed
  PROVE  Counted(d)'
<1>1. Busy(d)'
  BY DEF Counted, Busy
<1>2. ASSUME NEW r \in dm[d].closed PROVE ClosedFits(d, r)'
  BY DEF Counted, ClosedFits
<1>3. Halfway(d)'
  BY DEF Counted, Halfway, Waits
<1>. QED
  BY <1>1, <1>2, <1>3 DEF Counted

\* So do the descriptors of the clients.
LEMMA KeptStays ==
  ASSUME NEW d \in Daemon, NEW c \in Client, Kept(d, c), UNCHANGED <<cl, mounts>>,
         dm[d].uses \subseteq dm'[d].uses, dm[d].jobs \subseteq dm'[d].jobs,
         dm'[d].pc = dm[d].pc \/ (dm[d].pc # "off" /\ dm'[d].pc \in {"serve", "waitpid"}),
         dm[d].attempts = 0 \/ dm[d].termed => dm'[d].attempts = 0 \/ dm'[d].termed
  PROVE  Kept(d, c)'
BY DEF Kept, Granted

\* A step that only concerns one daemon keeps what holds of the others.
LEMMA OneDaemonMoves ==
  ASSUME DaemonInv, NEW d \in Daemon, UNCHANGED cl,
         dm' \in [Daemon -> DaemonRec],
         \A e \in Daemon \ {d} :
           /\ dm'[e] = dm[e]
           /\ lock' = e <=> lock = e
           /\ mounts' = <<e>> <=> mounts = <<e>>,
         lock' \in Daemon \cup {NULL},
         mounts' = << >> \/ \E e \in Daemon : mounts' = <<e>>,
         Held(d)', Exiting(d)', Counted(d)', \A c \in Client : Kept(d, c)'
  PROVE  DaemonInv'
<1>1. Shape'
  BY DEF DaemonInv, Shape
<1>2. ASSUME NEW e \in Daemon \ {d}
      PROVE  Good(e)'
  <2>1. Good(e)
    BY DEF DaemonInv
  <2>2. dm'[e] = dm[e] /\ (lock' = e <=> lock = e) /\ (mounts' = <<e>> <=> mounts = <<e>>)
    OBVIOUS
  <2>3. Held(e)'
    BY ONLY <2>1, <2>2 DEF Good, Held
  <2>4. Exiting(e)'
    BY ONLY <2>1, <2>2 DEF Good, Exiting
  <2>5. Counted(e)'
    <3>1. Counted(e)
      BY <2>1 DEF Good
    <3>2. dm[e].half # NULL /\ dm[e].half.at = "disarm" => dm[e].attempts = 0 \/ dm[e].termed
      BY <3>1 DEF Counted, Halfway
    <3>. QED
      BY ONLY <2>2, <3>1, <3>2, UNCHANGED cl, CountedStays, e \in Daemon
  <2>6. \A c \in Client : Kept(e, c)'
    BY ONLY <2>1, <2>2, UNCHANGED cl DEF Good, Kept, Granted
  <2>. QED
    BY <2>3, <2>4, <2>5, <2>6 DEF Good
<1>3. Good(d)'
  BY DEF Good
<1>. QED
  BY <1>1, <1>2, <1>3 DEF DaemonInv

-----------------------------------------------------------------------------
(* Start and end of a daemon *)

\* What the invariant says of one daemon.
LEMMA DaemonShape ==
  ASSUME DaemonInv, NEW d \in Daemon
  PROVE  /\ dm \in [Daemon -> DaemonRec] /\ dm[d] \in DaemonRec
         /\ Held(d) /\ Exiting(d) /\ Counted(d) /\ \A c \in Client : Kept(d, c)
         /\ Shape
BY DEF DaemonInv, Good, Shape

\* A daemon nobody has anything to do with.
Alone(d) ==
  /\ dm[d].uses = {} /\ dm[d].jobs = {} /\ dm[d].half = NULL /\ dm[d].closed = {}
  /\ \A c \in Client : cl[c].f # d /\ cl[c].l # d

\* Before it serves and after it has served, a daemon is alone.
LEMMA AloneOutside ==
  ASSUME DaemonInv, NEW d \in Daemon, dm[d].pc \notin {"off", "serve", "waitpid"}
  PROVE  Alone(d)
<1>1. Counted(d) /\ \A c \in Client : Kept(d, c)
  BY DaemonShape
<1>2. dm[d].uses = {} /\ dm[d].jobs = {} /\ dm[d].half = NULL /\ dm[d].closed = {}
  BY <1>1 DEF Counted, Busy
<1>3. \A c \in Client : cl[c].f # d /\ cl[c].l # d
  BY <1>1 DEF Kept
<1>. QED
  BY <1>2, <1>3 DEF Alone

\* A step that changes none of this.
LEMMA NothingMoves ==
  ASSUME DaemonInv, UNCHANGED <<lock, mounts, dm, cl>>
  PROVE  DaemonInv'
<1>1. Shape'
  BY DEF DaemonInv, Shape
<1>2. ASSUME NEW d \in Daemon PROVE Good(d)'
  <2>1. Held(d) /\ Exiting(d) /\ Counted(d) /\ \A c \in Client : Kept(d, c)
    BY DaemonShape
  <2>2. Held(d)'
    BY <2>1 DEF Held
  <2>3. Exiting(d)'
    BY <2>1 DEF Exiting
  <2>4. Counted(d)'
    <3>1. dm[d].half # NULL /\ dm[d].half.at = "disarm" => dm[d].attempts = 0 \/ dm[d].termed
      BY <2>1 DEF Counted, Halfway
    <3>. QED
      BY <2>1, <3>1, CountedStays
  <2>5. \A c \in Client : Kept(d, c)'
    BY <2>1, KeptStays
  <2>. QED
    BY <2>2, <2>3, <2>4, <2>5 DEF Good
<1>. QED
  BY <1>1, <1>2 DEF DaemonInv

\* A step of a daemon that is alone and stays so.
LEMMA AloneMoves ==
  ASSUME DaemonInv, NEW d \in Daemon, UNCHANGED cl,
         dm' \in [Daemon -> DaemonRec],
         \A e \in Daemon \ {d} :
           /\ dm'[e] = dm[e]
           /\ lock' = e <=> lock = e
           /\ mounts' = <<e>> <=> mounts = <<e>>,
         lock' \in Daemon \cup {NULL},
         mounts' = << >> \/ \E e \in Daemon : mounts' = <<e>>,
         \A c \in Client : cl[c].f # d /\ cl[c].l # d,
         dm'[d].uses = {}, dm'[d].jobs = {}, dm'[d].half = NULL, dm'[d].closed = {},
         Held(d)', Exiting(d)'
  PROVE  DaemonInv'
<1>1. Counted(d)'
  BY DEF Counted, Busy, Halfway
<1>2. \A c \in Client : Kept(d, c)'
  BY DEF Kept, Granted
<1>. QED
  BY <1>1, <1>2, OneDaemonMoves

\* The directory is made before the lock is asked for.
LEMMA MakeDirStep ==
  ASSUME DaemonInv, NEW d \in Daemon, MakeDir(d)
  PROVE  DaemonInv'
<1>0. dm \in [Daemon -> DaemonRec] /\ dm[d] \in DaemonRec
  BY DaemonShape
<1>a. Held(d) /\ Exiting(d) /\ Counted(d) /\ \A x \in Client : Kept(d, x)
  BY DaemonShape
<1>1. /\ dm' \in [Daemon -> DaemonRec]
      /\ \A e \in Daemon \ {d} : dm'[e] = dm[e]
  BY ONLY <1>0, MakeDir(d), ZenonT(30) DEF MakeDir, DaemonRec
<1>2. /\ dm[d].pc = "mkdir" /\ dm'[d].pc = "lock"
      /\ dm'[d].uses = dm[d].uses /\ dm'[d].jobs = dm[d].jobs
      /\ dm'[d].half = dm[d].half /\ dm'[d].closed = dm[d].closed
      /\ dm'[d].attempts = dm[d].attempts /\ dm'[d].child = dm[d].child
      /\ dm'[d].linger = dm[d].linger
  BY ONLY <1>0, MakeDir(d) DEF MakeDir, DaemonRec
<1>3. UNCHANGED <<lock, mounts, cl>>
  BY DEF MakeDir
<1>4. Held(d)' /\ Exiting(d)'
  BY ONLY <1>2, <1>3, <1>a DEF Held, Exiting
<1>5. Alone(d)
  BY <1>2, AloneOutside
<1>. QED
  BY <1>1, <1>2, <1>3, <1>4, <1>5, AloneMoves, DaemonShape DEF Shape, Alone

\* The directory is removed after the last mount is gone.
LEMMA RemoveDirStep ==
  ASSUME DaemonInv, NEW d \in Daemon, RemoveDir(d)
  PROVE  DaemonInv'
<1>0. dm \in [Daemon -> DaemonRec] /\ dm[d] \in DaemonRec
  BY DaemonShape
<1>a. Held(d) /\ Exiting(d) /\ Counted(d) /\ \A x \in Client : Kept(d, x)
  BY DaemonShape
<1>1. /\ dm' \in [Daemon -> DaemonRec]
      /\ \A e \in Daemon \ {d} : dm'[e] = dm[e]
  BY ONLY <1>0, RemoveDir(d) DEF RemoveDir, DaemonRec
<1>2. /\ dm[d].pc = "rmdir" /\ dm'[d].pc = "exit"
      /\ dm'[d].uses = dm[d].uses /\ dm'[d].jobs = dm[d].jobs
      /\ dm'[d].half = dm[d].half /\ dm'[d].closed = dm[d].closed
      /\ dm'[d].attempts = dm[d].attempts /\ dm'[d].child = dm[d].child
      /\ dm'[d].linger = dm[d].linger
  BY ONLY <1>0, RemoveDir(d) DEF RemoveDir, DaemonRec
<1>3. UNCHANGED <<lock, mounts, cl>>
  BY DEF RemoveDir
<1>4. Held(d)' /\ Exiting(d)'
  BY ONLY <1>2, <1>3, <1>a DEF Held, Exiting
<1>5. Alone(d)
  BY <1>2, AloneOutside
<1>. QED
  BY <1>1, <1>2, <1>3, <1>4, <1>5, AloneMoves, DaemonShape DEF Shape, Alone

\* A daemon that ends while it is alone leaves nothing behind.
LEMMA GoneAlone ==
  ASSUME DaemonInv, NEW d \in Daemon, UNCHANGED <<cl, mounts>>,
         dm' = [dm EXCEPT ![d] = NoDaemon],
         lock' = IF lock = d THEN NULL ELSE lock,
         dm[d].pc \in {"lock", "exit"}
  PROVE  DaemonInv'
<1>0. dm \in [Daemon -> DaemonRec]
  BY DaemonShape
<1>1. NoDaemon \in DaemonRec
  BY NoDaemonFields
<1>2. /\ dm' \in [Daemon -> DaemonRec]
      /\ \A e \in Daemon \ {d} : dm'[e] = dm[e]
  BY <1>0, <1>1
<1>3. dm'[d] = NoDaemon
  BY <1>0
<1>4. /\ dm'[d].pc = "off" /\ dm'[d].uses = {} /\ dm'[d].jobs = {} /\ dm'[d].half = NULL
      /\ dm'[d].closed = {} /\ dm'[d].attempts = 0 /\ dm'[d].child = "none"
      /\ dm'[d].linger = FALSE
  BY ONLY <1>3, NoDaemonFields
<1>5. lock' # d /\ mounts # <<d>>
  BY DaemonShape, DaemonAssumption DEF Held
<1>6. Held(d)' /\ Exiting(d)'
  BY ONLY <1>3, <1>4, <1>5, UNCHANGED <<cl, mounts>> DEF Held, Exiting
<1>7. Alone(d)
  BY AloneOutside
<1>8. /\ lock' \in Daemon \cup {NULL}
      /\ \A e \in Daemon \ {d} : lock' = e <=> lock = e
  BY DaemonShape, DaemonAssumption DEF Shape
<1>. QED
  BY <1>2, <1>4, <1>6, <1>7, <1>8, AloneMoves, DaemonShape DEF Shape, Alone

\* The lock goes to a daemon that finds it free; another one ends.
LEMMA TakeLockStep ==
  ASSUME DaemonInv, NEW d \in Daemon, TakeLock(d)
  PROVE  DaemonInv'
<1>0. dm \in [Daemon -> DaemonRec] /\ dm[d] \in DaemonRec /\ dm[d].pc = "lock"
  BY DaemonShape DEF TakeLock
<1>a. Held(d) /\ Exiting(d) /\ Counted(d) /\ \A x \in Client : Kept(d, x)
  BY DaemonShape
<1>1. CASE lock = NULL
  <2>1. lock' = d /\ dm' = [dm EXCEPT ![d].pc = "mount"] /\ UNCHANGED <<mounts, cl>>
    BY <1>1 DEF TakeLock
  <2>2. /\ dm' \in [Daemon -> DaemonRec]
        /\ \A e \in Daemon \ {d} : dm'[e] = dm[e]
    BY ONLY <1>0, <2>1 DEF DaemonRec
  <2>3. /\ dm'[d].pc = "mount"
        /\ dm'[d].uses = dm[d].uses /\ dm'[d].jobs = dm[d].jobs
        /\ dm'[d].half = dm[d].half /\ dm'[d].closed = dm[d].closed
        /\ dm'[d].attempts = dm[d].attempts /\ dm'[d].child = dm[d].child
        /\ dm'[d].linger = dm[d].linger
    BY ONLY <1>0, <2>1 DEF DaemonRec
  <2>4. Held(d)' /\ Exiting(d)'
    BY ONLY <1>0, <2>1, <2>3, <1>a DEF Held, Exiting
  <2>5. Alone(d)
    BY <1>0, AloneOutside
  <2>6. \A e \in Daemon \ {d} : lock' = e <=> lock = e
    BY <1>1, <2>1, DaemonAssumption
  <2>. QED
    BY <2>1, <2>2, <2>3, <2>4, <2>5, <2>6, AloneMoves, DaemonShape DEF Shape, Alone
<1>2. CASE lock # NULL
  <2>1. dm' = [dm EXCEPT ![d] = NoDaemon] /\ UNCHANGED <<lock, mounts, cl>>
    BY <1>2 DEF TakeLock
  <2>2. lock # d
    BY <1>0, DaemonShape DEF Held
  <2>. QED
    BY <1>0, <2>1, <2>2, GoneAlone, ZenonT(30)
<1>. QED
  BY <1>1, <1>2

\* The process ends and the kernel takes its lock.
LEMMA ExitDaemonStep ==
  ASSUME DaemonInv, NEW d \in Daemon, ExitDaemon(d)
  PROVE  DaemonInv'
BY GoneAlone, ZenonT(30) DEF ExitDaemon

\* A daemon mounts while it has the lock and nothing is mounted: whoever is
\* mounted and serves has the lock, and a mount nobody serves makes it fail.
LEMMA MountStep ==
  ASSUME DaemonInv, NEW d \in Daemon, Mount(d)
  PROVE  DaemonInv'
<1>0. dm \in [Daemon -> DaemonRec] /\ dm[d] \in DaemonRec /\ dm[d].pc = "mount"
  BY DaemonShape DEF Mount
<1>a. Held(d) /\ Exiting(d) /\ Counted(d) /\ \A x \in Client : Kept(d, x)
  BY DaemonShape
<1>1. Alone(d)
  BY <1>0, AloneOutside
<1>2. UNCHANGED <<lock, cl>> /\ lock = d
  BY <1>0, DaemonShape DEF Mount, Held
<1>3. \E p \in {"serve", "rmdir"} : dm' = [dm EXCEPT ![d].pc = p]
  BY DEF Mount
<1>4. /\ dm' \in [Daemon -> DaemonRec]
      /\ \A e \in Daemon \ {d} : dm'[e] = dm[e]
  BY ONLY <1>0, <1>3 DEF DaemonRec
<1>5. /\ dm'[d].uses = dm[d].uses /\ dm'[d].jobs = dm[d].jobs
      /\ dm'[d].half = dm[d].half /\ dm'[d].closed = dm[d].closed
      /\ dm'[d].attempts = dm[d].attempts /\ dm'[d].child = dm[d].child
      /\ dm'[d].linger = dm[d].linger
  BY ONLY <1>0, <1>3 DEF DaemonRec
<1>6. dm[d].child = "none" /\ dm[d].linger = FALSE /\ mounts # <<d>>
  BY <1>0, DaemonShape DEF Exiting, Held, DaemonRec
<1>7. CASE Top = NULL \/ Serving(Top)
  <2>1. mounts = << >>
    <3>1. SUFFICES ASSUME NEW e \in Daemon, mounts = <<e>> PROVE FALSE
      BY DaemonShape DEF Shape
    <3>2. Top = e
      BY <3>1, OneOnTop, DaemonShape
    <3>3. dm[e].pc \in {"serve", "waitpid"}
      BY <1>7, <3>2, DaemonAssumption DEF Serving
    <3>4. lock = e
      BY <3>1, <3>3, DaemonShape DEF Held
    <3>. QED
      BY <1>0, <1>2, <3>3, <3>4
  <2>2. CASE dir # "none"
    <3>1. mounts' = <<d>> /\ dm' = [dm EXCEPT ![d].pc = "serve"]
      <4>1. mounts' = Append(mounts, d) /\ dm' = [dm EXCEPT ![d].pc = "serve"]
        BY <1>7, <2>2 DEF Mount
      <4>. QED
        BY <2>1, <4>1
    <3>2. dm'[d].pc = "serve"
      BY <1>0, <3>1 DEF DaemonRec
    <3>3. Held(d)' /\ Exiting(d)'
      BY ONLY <1>0, <1>2, <1>5, <1>6, <3>1, <3>2, <1>a DEF Held, Exiting
    <3>4. \A e \in Daemon \ {d} : mounts' = <<e>> <=> mounts = <<e>>
      BY <2>1, <3>1
    <3>. QED
      BY <1>1, <1>2, <1>4, <1>5, <3>1, <3>3, <3>4, AloneMoves DEF Alone
  <2>3. CASE dir = "none"
    <3>1. UNCHANGED mounts /\ dm' = [dm EXCEPT ![d].pc = "rmdir"]
      BY <2>3 DEF Mount
    <3>2. dm'[d].pc = "rmdir"
      BY <1>0, <3>1 DEF DaemonRec
    <3>3. Held(d)' /\ Exiting(d)'
      BY ONLY <1>0, <1>2, <1>5, <1>6, <3>1, <3>2, <1>a DEF Held, Exiting
    <3>. QED
      BY <1>1, <1>2, <1>4, <1>5, <2>1, <3>1, <3>3, AloneMoves DEF Alone
  <2>. QED
    BY <2>2, <2>3
<1>8. CASE ~(Top = NULL \/ Serving(Top))
  <2>1. UNCHANGED mounts /\ dm' = [dm EXCEPT ![d].pc = "rmdir"]
    BY <1>8 DEF Mount
  <2>2. dm'[d].pc = "rmdir"
    BY <1>0, <2>1 DEF DaemonRec
  <2>3. Held(d)' /\ Exiting(d)'
    BY ONLY <1>0, <1>2, <1>5, <1>6, <2>1, <2>2, <1>a DEF Held, Exiting
  <2>. QED
    BY <1>1, <1>2, <1>4, <1>5, <2>1, <2>3, AloneMoves, DaemonShape DEF Alone, Shape
<1>. QED
  BY <1>7, <1>8

\* The loop ends when the daemon is unmounted and nobody uses it any more.
LEMMA LoopEndsStep ==
  ASSUME DaemonInv, NEW d \in Daemon, LoopEnds(d)
  PROVE  DaemonInv'
<1>0. dm \in [Daemon -> DaemonRec] /\ dm[d] \in DaemonRec
  BY DaemonShape
<1>a. Held(d) /\ Exiting(d) /\ Counted(d) /\ \A x \in Client : Kept(d, x)
  BY DaemonShape
<1>1. /\ dm' \in [Daemon -> DaemonRec]
      /\ \A e \in Daemon \ {d} : dm'[e] = dm[e]
  BY ONLY <1>0, LoopEnds(d), ZenonT(30) DEF LoopEnds, DaemonRec
<1>2. /\ dm'[d].pc = "rmdir"
      /\ dm'[d].uses = dm[d].uses /\ dm'[d].jobs = dm[d].jobs
      /\ dm'[d].half = dm[d].half /\ dm'[d].closed = dm[d].closed
      /\ dm'[d].attempts = dm[d].attempts /\ dm'[d].child = dm[d].child
      /\ dm'[d].linger = dm[d].linger
  BY ONLY <1>0, LoopEnds(d) DEF LoopEnds, DaemonRec
<1>3. UNCHANGED <<lock, mounts, cl>>
  BY DEF LoopEnds
<1>4. dm[d].pc = "serve" /\ dm[d].half = NULL
  BY DEF LoopEnds, Idle
<1>5. mounts # <<d>>
  BY OneOnTop, DaemonShape DEF LoopEnds
<1>6. /\ dm[d].uses = {} /\ dm[d].jobs = {}
      /\ \A c \in Client : cl[c].f # d /\ cl[c].l # d
  BY DEF LoopEnds, InUse
<1>7. dm[d].closed = {}
  <2>1. \A r \in dm[d].closed : r.kind \in {"f", "l"}
    BY ONLY <1>0 DEF DaemonRec, ClosedRec
  <2>. QED
    BY ONLY <1>6, <1>a, <2>1 DEF Counted, ClosedFits
<1>8. dm[d].linger \/ dm[d].child = "exit42"
  BY <1>4, <1>5, DaemonShape DEF Held
<1>9. Held(d)' /\ Exiting(d)'
  BY ONLY <1>2, <1>3, <1>4, <1>5, <1>8, <1>a DEF Held, Exiting
<1>. QED
  BY <1>1, <1>2, <1>3, <1>4, <1>6, <1>7, <1>9, AloneMoves, DaemonShape DEF Shape

-----------------------------------------------------------------------------
(* Signals and attempts to unmount *)

\* handle_exit past its early returns: the daemon lingers, gives up or forks
\* a child.  The first attempt is made for a signal or without any client.
LEMMA AttemptStep ==
  ASSUME DaemonInv, NEW d \in Daemon, NEW D \in DaemonRec, Attempt(d, D),
         UNCHANGED <<mounts, cl>>, dm[d].pc \in {"serve", "waitpid"},
         D.uses = dm[d].uses, D.jobs = dm[d].jobs, D.half = dm[d].half,
         D.closed = dm[d].closed, D.attempts = dm[d].attempts, D.linger = dm[d].linger,
         D.child = dm[d].child, dm[d].termed => D.termed,
         D.child \notin {"umount", "probe"},
         D.attempts = 0 => D.termed \/ should_exit(D)
  PROVE  DaemonInv'
<1>0. dm \in [Daemon -> DaemonRec] /\ dm[d] \in DaemonRec
  BY DaemonShape
<1>a. Held(d) /\ Exiting(d) /\ Counted(d) /\ \A x \in Client : Kept(d, x)
  BY DaemonShape
<1>. DEFINE R == [D EXCEPT !.child = "none", !.linger = @ \/ D.child = "exit42", !.pc = "serve"]
<1>1. /\ R \in DaemonRec /\ R.pc = "serve" /\ R.child = "none"
      /\ R.linger = (D.linger \/ D.child = "exit42")
      /\ R.uses = D.uses /\ R.jobs = D.jobs /\ R.half = D.half /\ R.closed = D.closed
      /\ R.attempts = D.attempts /\ R.termed = D.termed
  BY ZenonT(30) DEF DaemonRec
<1>. HIDE DEF R
<1>2. mounts = <<d>> <=> ~R.linger
  BY <1>1, DaemonShape, ZenonT(30) DEF Held
<1>3. ~R.linger => lock = d
  BY <1>1, DaemonShape, ZenonT(30) DEF Held
<1>4. R.linger => R.attempts # 0
  BY ONLY <1>1, <1>a, D.linger = dm[d].linger, D.child = dm[d].child,
     D.attempts = dm[d].attempts, ZenonT(30) DEF Exiting
<1>5. R.attempts = 0 => R.termed \/ (R.uses = {} /\ R.jobs = {})
  BY <1>1 DEF should_exit
<1>6. ASSUME NEW N \in DaemonRec, dm' = [dm EXCEPT ![d] = N],
             N.pc = "serve", N.uses = R.uses, N.jobs = R.jobs, N.half = R.half,
             N.closed = R.closed, N.termed = R.termed, N.attempts # 0,
             N.linger = R.linger, N.child \in {"none", "umount"},
             N.linger => N.child = "none",
             lock' = IF R.linger /\ lock = d THEN NULL ELSE lock
      PROVE  DaemonInv'
  <2>1. /\ dm' \in [Daemon -> DaemonRec] /\ dm'[d] = N
        /\ \A e \in Daemon \ {d} : dm'[e] = dm[e]
    BY <1>0, <1>6
  <2>2. Held(d)'
    BY ONLY <1>2, <1>3, <1>6, <2>1, UNCHANGED <<mounts, cl>> DEF Held
  <2>3. Exiting(d)'
    BY ONLY <1>6, <2>1 DEF Exiting
  <2>4. R.termed \/ R.attempts # 0 \/ (R.uses = {} /\ R.jobs = {})
    BY <1>5
  <2>5. Counted(d)'
    <3>1. dm[d].half # NULL /\ dm[d].half.at = "disarm" => R.termed
      <4>1. SUFFICES ASSUME dm[d].half # NULL, dm[d].half.at = "disarm" PROVE R.termed
        OBVIOUS
      <4>2. Waits(d, dm[d].half.c) /\ (dm[d].attempts = 0 \/ dm[d].termed)
        BY <1>a, <4>1 DEF Counted, Halfway
      <4>3. dm[d].uses # {} \/ dm[d].jobs # {}
        BY <4>2 DEF Waits
      <4>. QED
        BY ONLY <1>1, <2>4, <4>2, <4>3, dm[d].termed => D.termed,
           D.uses = dm[d].uses, D.jobs = dm[d].jobs, D.attempts = dm[d].attempts
    <3>2. /\ dm'[d].uses = dm[d].uses /\ dm'[d].jobs = dm[d].jobs
          /\ dm'[d].half = dm[d].half /\ dm'[d].closed = dm[d].closed
          /\ dm'[d].pc = "serve" /\ dm'[d].termed = R.termed
      BY <1>1, <1>6, <2>1
    <3>. QED
      BY ONLY <1>a, <3>1, <3>2, CountedStays, UNCHANGED <<mounts, cl>>, d \in Daemon
  <2>6. ASSUME NEW c \in Client PROVE Kept(d, c)'
    <3>1. Kept(d, c) /\ dm[d].pc # "off"
      BY <1>a
    <3>2. /\ dm'[d].uses = dm[d].uses /\ dm'[d].jobs = dm[d].jobs
          /\ dm'[d].pc = "serve" /\ dm'[d].termed = R.termed
      BY <1>1, <1>6, <2>1
    <3>3. Granted(d, c) => dm[d].uses # {} \/ dm[d].jobs # {}
      BY <3>1 DEF Kept, Granted
    <3>4. Granted(d, c) => R.termed
      BY ONLY <1>1, <2>4, <3>1, <3>3, dm[d].termed => D.termed, D.uses = dm[d].uses,
         D.jobs = dm[d].jobs, D.attempts = dm[d].attempts DEF Kept
    <3>. QED
      BY ONLY <3>1, <3>2, <3>4, UNCHANGED <<mounts, cl>> DEF Kept, Granted
  <2>7. /\ lock' \in Daemon \cup {NULL}
        /\ \A e \in Daemon \ {d} : lock' = e <=> lock = e
    BY <1>6, DaemonShape, DaemonAssumption DEF Shape
  <2>. QED
    BY <2>1, <2>2, <2>3, <2>5, <2>6, <2>7, OneDaemonMoves, DaemonShape DEF Shape
<1>7. CASE R.linger
  <2>1. dm' = [dm EXCEPT ![d] = R] /\ lock' = IF lock = d THEN NULL ELSE lock
    BY <1>7 DEF Attempt, R
  <2>. QED
    BY <1>1, <1>4, <1>6, <1>7, <2>1, ZenonT(30)
<1>8. CASE ~R.linger /\ R.attempts = MaxAttempts
  <2>1. dm' = [dm EXCEPT ![d] = NoDaemon] /\ lock' = IF lock = d THEN NULL ELSE lock
    BY <1>8 DEF Attempt, R
  <2>2. NoDaemon \in DaemonRec
    BY NoDaemonFields
  <2>3. /\ dm' \in [Daemon -> DaemonRec] /\ dm'[d] = NoDaemon
        /\ \A e \in Daemon \ {d} : dm'[e] = dm[e]
    BY <1>0, <2>1, <2>2
  <2>4. /\ dm'[d].pc = "off" /\ dm'[d].uses = {} /\ dm'[d].jobs = {} /\ dm'[d].half = NULL
        /\ dm'[d].closed = {} /\ dm'[d].attempts = 0 /\ dm'[d].child = "none"
        /\ dm'[d].linger = FALSE
    BY ONLY <2>3, NoDaemonFields
  <2>5. /\ lock' \in Daemon \cup {NULL} /\ lock' # d
        /\ \A e \in Daemon \ {d} : lock' = e <=> lock = e
    BY <2>1, DaemonShape, DaemonAssumption DEF Shape
  <2>6. mounts = <<d>>
    BY <1>2, <1>8
  <2>7. Held(d)' /\ Exiting(d)'
    BY ONLY <2>3, <2>4, <2>5, <2>6, UNCHANGED <<mounts, cl>> DEF Held, Exiting
  <2>8. Counted(d)' /\ \A c \in Client : Kept(d, c)'
    BY ONLY <2>4, <2>6, UNCHANGED <<mounts, cl>>
       DEF Counted, Busy, Halfway, Kept, Granted
  <2>. QED
    BY <2>3, <2>5, <2>7, <2>8, OneDaemonMoves, DaemonShape DEF Shape
<1>9. CASE ~R.linger /\ R.attempts # MaxAttempts
  <2>. DEFINE N == schedule_exit([R EXCEPT !.child = "umount", !.attempts = @ + 1])
  <2>1. dm' = [dm EXCEPT ![d] = N] /\ UNCHANGED lock
    BY <1>9 DEF Attempt, R
  <2>2. /\ N \in DaemonRec /\ N.pc = "serve" /\ N.uses = R.uses /\ N.jobs = R.jobs
        /\ N.half = R.half /\ N.closed = R.closed /\ N.termed = R.termed
        /\ N.attempts = R.attempts + 1 /\ N.linger = R.linger /\ N.child = "umount"
    <3>. DEFINE M == [R EXCEPT !.child = "umount", !.attempts = @ + 1]
    <3>1. R \in DaemonRec
      BY <1>1
    <3>2. M \in DaemonRec
      <4>1. R.attempts + 1 \in Nat
        BY ONLY <3>1 DEF DaemonRec
      <4>. DEFINE k == R.attempts + 1
      <4>2. k \in Nat /\ M = [R EXCEPT !.child = "umount", !.attempts = k]
        BY ONLY <3>1, <4>1 DEF DaemonRec
      <4>. HIDE DEF k, M
      <4>. QED
        BY ONLY <3>1, <4>2, ZenonT(30) DEF DaemonRec
    <3>3. /\ M.pc = R.pc /\ M.uses = R.uses /\ M.jobs = R.jobs /\ M.half = R.half
          /\ M.closed = R.closed /\ M.termed = R.termed /\ M.linger = R.linger
          /\ M.attempts = R.attempts + 1 /\ M.child = "umount"
      BY ONLY <3>1 DEF DaemonRec
    <3>. HIDE DEF M
    <3>4. N = [M EXCEPT !.timer = TRUE]
      BY DEF schedule_exit, M
    <3>5. N \in DaemonRec
      BY ONLY <3>2, <3>4, ZenonT(30) DEF DaemonRec
    <3>6. /\ N.pc = M.pc /\ N.uses = M.uses /\ N.jobs = M.jobs /\ N.half = M.half
          /\ N.closed = M.closed /\ N.termed = M.termed /\ N.linger = M.linger
          /\ N.attempts = M.attempts /\ N.child = M.child
      BY ONLY <3>2, <3>4 DEF DaemonRec
    <3>. QED
      BY ONLY <1>1, <3>3, <3>5, <3>6
  <2>3. N.attempts # 0
    BY <1>1, <2>2 DEF DaemonRec
  <2>. HIDE DEF N
  <2>. QED
    BY <1>6, <1>9, <2>1, <2>2, <2>3, ZenonT(30)
<1>. QED
  BY <1>7, <1>8, <1>9

\* What a handler changes besides the exit: alarm, timer and termed are not
\* looked at by the invariant, but a signal is remembered.
LEMMA HandleAlarmStep ==
  ASSUME DaemonInv, NEW d \in Daemon, HandleAlarm(d)
  PROVE  DaemonInv'
<1>0. dm \in [Daemon -> DaemonRec] /\ dm[d] \in DaemonRec /\ dm[d].pc = "serve"
  BY DaemonShape DEF HandleAlarm
<1>a. Held(d) /\ Exiting(d) /\ Counted(d) /\ \A x \in Client : Kept(d, x)
  BY DaemonShape
<1>. DEFINE D == [dm[d] EXCEPT !.alarm = FALSE]
<1>1. /\ D \in DaemonRec /\ D.pc = "serve" /\ D.uses = dm[d].uses /\ D.jobs = dm[d].jobs
      /\ D.half = dm[d].half /\ D.closed = dm[d].closed /\ D.attempts = dm[d].attempts
      /\ D.linger = dm[d].linger /\ D.child = dm[d].child /\ D.termed = dm[d].termed
  BY ONLY <1>0, ZenonT(30) DEF DaemonRec
<1>2. UNCHANGED <<mounts, cl>>
  BY DEF HandleAlarm
<1>. HIDE DEF D
<1>3. ASSUME NEW N \in DaemonRec, dm' = [dm EXCEPT ![d] = N], UNCHANGED lock,
             N.uses = D.uses, N.jobs = D.jobs,
             N.half = D.half, N.closed = D.closed, N.attempts = D.attempts,
             N.linger = D.linger, N.child = D.child, N.termed = D.termed,
             N.pc = "serve" \/ (N.pc = "waitpid" /\ D.child \in {"umount", "probe"})
      PROVE  DaemonInv'
  <2>1. /\ dm' \in [Daemon -> DaemonRec] /\ dm'[d] = N
        /\ \A e \in Daemon \ {d} : dm'[e] = dm[e]
    BY <1>0, <1>3
  <2>2. Held(d)'
    BY ONLY <1>0, <1>1, <1>2, <1>3, <2>1, <1>a DEF Held
  <2>3. Exiting(d)'
    BY ONLY <1>0, <1>1, <1>3, <2>1, <1>a DEF Exiting
  <2>4. /\ dm'[d].uses = dm[d].uses /\ dm'[d].jobs = dm[d].jobs
        /\ dm'[d].half = dm[d].half /\ dm'[d].closed = dm[d].closed
        /\ dm'[d].attempts = dm[d].attempts /\ dm'[d].termed = dm[d].termed
        /\ dm'[d].pc \in {"serve", "waitpid"}
    BY ONLY <1>1, <1>3, <2>1
  <2>5. Counted(d)'
    <3>1. dm[d].half # NULL /\ dm[d].half.at = "disarm" => dm[d].attempts = 0 \/ dm[d].termed
      BY <1>a DEF Counted, Halfway
    <3>. QED
      BY ONLY <1>2, <1>a, <2>4, <3>1, CountedStays, d \in Daemon
  <2>6. \A c \in Client : Kept(d, c)'
    BY ONLY <1>0, <1>2, <1>a, <2>4, KeptStays, d \in Daemon
  <2>. QED
    BY <1>2, <1>3, <2>1, <2>2, <2>3, <2>5, <2>6, OneDaemonMoves, DaemonShape DEF Shape
<1>4. CASE D.attempts = 0 /\ ~should_exit(D)
  <2>1. dm' = [dm EXCEPT ![d] = D] /\ UNCHANGED lock
    BY <1>4 DEF HandleAlarm, D
  <2>. QED
    BY <1>1, <1>3, <2>1, ZenonT(30)
<1>5. CASE ~(D.attempts = 0 /\ ~should_exit(D)) /\ D.child \in {"umount", "probe"}
  <2>. DEFINE N == [D EXCEPT !.pc = "waitpid"]
  <2>1. dm' = [dm EXCEPT ![d] = N] /\ UNCHANGED lock
    BY <1>5 DEF HandleAlarm, D
  <2>2. /\ N \in DaemonRec /\ N.pc = "waitpid" /\ N.uses = D.uses /\ N.jobs = D.jobs
        /\ N.half = D.half /\ N.closed = D.closed /\ N.attempts = D.attempts
        /\ N.linger = D.linger /\ N.child = D.child /\ N.termed = D.termed
    BY ONLY <1>1 DEF DaemonRec
  <2>. HIDE DEF N
  <2>. QED
    BY <1>3, <1>5, <2>1, <2>2, ZenonT(30)
<1>6. CASE ~(D.attempts = 0 /\ ~should_exit(D)) /\ D.child \notin {"umount", "probe"}
  <2>1. Attempt(d, D)
    BY <1>6 DEF HandleAlarm, D
  <2>. QED
    BY <1>0, <1>1, <1>2, <1>6, <2>1, AttemptStep
<1>. QED
  BY <1>4, <1>5, <1>6

\* The first signal begins an exit; nothing is promised to clients then.
LEMMA HandleTermStep ==
  ASSUME DaemonInv, NEW d \in Daemon, HandleTerm(d)
  PROVE  DaemonInv'
<1>0. dm \in [Daemon -> DaemonRec] /\ dm[d] \in DaemonRec /\ dm[d].pc = "serve"
  BY DaemonShape DEF HandleTerm
<1>1. UNCHANGED <<mounts, cl>>
  BY DEF HandleTerm
<1>2. CASE dm[d].attempts # 0
  <2>1. UNCHANGED <<dm, lock>>
    BY <1>2 DEF HandleTerm
  <2>. QED
    BY <1>1, <2>1, NothingMoves
<1>3. CASE dm[d].attempts = 0
  <2>. DEFINE D == [dm[d] EXCEPT !.termed = TRUE]
  <2>1. Attempt(d, D)
    BY <1>3 DEF HandleTerm
  <2>2. /\ D \in DaemonRec /\ D.pc = "serve" /\ D.uses = dm[d].uses /\ D.jobs = dm[d].jobs
        /\ D.half = dm[d].half /\ D.closed = dm[d].closed /\ D.attempts = dm[d].attempts
        /\ D.linger = dm[d].linger /\ D.child = dm[d].child /\ D.termed = TRUE
    BY ONLY <1>0, ZenonT(30) DEF DaemonRec
  <2>. HIDE DEF D
  <2>3. D.child = "none"
    BY <1>3, <2>2, DaemonShape DEF Exiting
  <2>. QED
    BY <1>0, <1>1, <2>1, <2>2, <2>3, AttemptStep, ZenonT(30)
<1>. QED
  BY <1>2, <1>3

\* An earlier attempt was reaped: an exit has begun.
LEMMA ReapedStep ==
  ASSUME DaemonInv, NEW d \in Daemon, Reaped(d)
  PROVE  DaemonInv'
<1>1. dm[d] \in DaemonRec
  BY DaemonShape
<1>2. dm[d].attempts # 0
  BY DaemonShape DEF Exiting, Reaped
<1>. QED
  BY <1>1, <1>2, AttemptStep DEF Reaped

\* The child takes off the mount of its own daemon.
LEMMA ChildUnmountsStep ==
  ASSUME DaemonInv, NEW d \in Daemon, ChildUnmounts(d)
  PROVE  DaemonInv'
<1>0. dm \in [Daemon -> DaemonRec] /\ dm[d] \in DaemonRec /\ dm[d].child = "umount"
  BY DaemonShape DEF ChildUnmounts
<1>a. Held(d) /\ Exiting(d) /\ Counted(d) /\ \A x \in Client : Kept(d, x)
  BY DaemonShape
<1>1. /\ dm[d].pc \in {"serve", "waitpid"} /\ ~dm[d].linger /\ dm[d].attempts # 0
      /\ mounts = <<d>>
  BY ONLY <1>0, <1>a DEF Exiting, Held
<1>2. PICK x \in {"exit42", "probe"} :
        /\ dm' = [dm EXCEPT ![d].child = x]
        /\ mounts' = IF x = "exit42" THEN Unmount ELSE mounts
  BY DEF ChildUnmounts
<1>3. mounts' = IF x = "exit42" THEN << >> ELSE <<d>>
  BY <1>1, <1>2, OneOnTop, DaemonShape
<1>4. /\ dm' \in [Daemon -> DaemonRec]
      /\ \A e \in Daemon \ {d} : dm'[e] = dm[e]
  BY ONLY <1>0, <1>2 DEF DaemonRec
<1>5. /\ dm'[d].child = x /\ dm'[d].pc = dm[d].pc
      /\ dm'[d].uses = dm[d].uses /\ dm'[d].jobs = dm[d].jobs
      /\ dm'[d].attempts = dm[d].attempts /\ dm'[d].half = dm[d].half
      /\ dm'[d].linger = dm[d].linger /\ dm'[d].closed = dm[d].closed
      /\ dm'[d].termed = dm[d].termed
  BY ONLY <1>0, <1>2 DEF DaemonRec
<1>6. UNCHANGED <<lock, cl>>
  BY DEF ChildUnmounts
<1>7. Held(d)'
  BY ONLY <1>1, <1>2, <1>3, <1>5, <1>6, <1>a DEF Held
<1>8. Exiting(d)'
  BY ONLY <1>1, <1>2, <1>5, <1>a DEF Exiting
<1>9. Counted(d)'
  <2>1. dm[d].half # NULL /\ dm[d].half.at = "disarm" => dm[d].attempts = 0 \/ dm[d].termed
    BY <1>a DEF Counted, Halfway
  <2>. QED
    BY ONLY <1>5, <1>6, <1>a, <2>1, CountedStays, d \in Daemon
<1>10. \A c \in Client : Kept(d, c)'
  BY ONLY <1>1, <1>5, <1>6, <1>a DEF Kept, Granted
<1>11. \A e \in Daemon \ {d} : mounts' = <<e>> <=> mounts = <<e>>
  BY <1>1, <1>3
<1>12. mounts' = << >> \/ \E e \in Daemon : mounts' = <<e>>
  BY <1>3
<1>. QED
  BY <1>4, <1>6, <1>7, <1>8, <1>9, <1>10, <1>11, <1>12, OneDaemonMoves, DaemonShape DEF Shape

-----------------------------------------------------------------------------
(* Requests *)

\* The timer and the probe of the child change nothing that matters here.
LEMMA QuietStep ==
  ASSUME DaemonInv, NEW d \in Daemon, TimerExpires(d) \/ ChildProbes(d)
  PROVE  DaemonInv'
<1>0. dm \in [Daemon -> DaemonRec] /\ dm[d] \in DaemonRec
  BY DaemonShape
<1>a. Held(d) /\ Exiting(d) /\ Counted(d) /\ \A x \in Client : Kept(d, x)
  BY DaemonShape
<1>1. UNCHANGED <<lock, mounts, cl>>
  BY DEF TimerExpires, ChildProbes
<1>2. /\ dm' \in [Daemon -> DaemonRec]
      /\ \A e \in Daemon \ {d} : dm'[e] = dm[e]
  <2>1. CASE TimerExpires(d)
    BY ONLY <1>0, <2>1, ZenonT(30) DEF TimerExpires, DaemonRec
  <2>2. CASE ChildProbes(d)
    BY ONLY <1>0, <2>2 DEF ChildProbes, DaemonRec
  <2>. QED
    BY <2>1, <2>2
<1>3. /\ dm[d].pc \in {"serve", "waitpid"} /\ dm'[d].pc = dm[d].pc
      /\ dm'[d].uses = dm[d].uses /\ dm'[d].jobs = dm[d].jobs
      /\ dm'[d].attempts = dm[d].attempts /\ dm'[d].half = dm[d].half
      /\ dm'[d].linger = dm[d].linger /\ dm'[d].closed = dm[d].closed
      /\ dm'[d].termed = dm[d].termed
      /\ \/ dm'[d].child = dm[d].child
         \/ dm[d].child = "probe" /\ dm'[d].child = "exit1"
  BY ONLY <1>0, TimerExpires(d) \/ ChildProbes(d)
     DEF TimerExpires, ChildProbes, Idle, Serving, DaemonRec
<1>4. Held(d)'
  BY ONLY <1>1, <1>3, <1>a DEF Held
<1>5. Exiting(d)'
  BY ONLY <1>3, <1>a DEF Exiting
<1>6. Counted(d)'
  <2>1. dm[d].half # NULL /\ dm[d].half.at = "disarm" => dm[d].attempts = 0 \/ dm[d].termed
    BY <1>a DEF Counted, Halfway
  <2>. QED
    BY ONLY <1>1, <1>3, <1>a, <2>1, CountedStays, d \in Daemon
<1>7. \A c \in Client : Kept(d, c)'
  BY ONLY <1>1, <1>3, <1>a, KeptStays, d \in Daemon
<1>. QED
  BY <1>1, <1>2, <1>4, <1>5, <1>6, <1>7, OneDaemonMoves, DaemonShape DEF Shape

\* The use is counted before cancel_exit looks at the exit.
LEMMA CountUseStep ==
  ASSUME DaemonInv, NEW d \in Daemon, NEW c \in Client, CountUse(d, c)
  PROVE  DaemonInv'
<1>0. dm \in [Daemon -> DaemonRec] /\ dm[d] \in DaemonRec
  BY DaemonShape
<1>a. Held(d) /\ Exiting(d) /\ Counted(d) /\ \A x \in Client : Kept(d, x)
  BY DaemonShape
<1>. DEFINE h == [c |-> c, at |-> "check"]
<1>1. h \in HalfRec /\ h.c = c /\ h.at = "check"
  BY DEF HalfRec
<1>2. UNCHANGED <<lock, mounts, cl>> /\ dm[d].pc = "serve" /\ dm[d].half = NULL
  BY DEF CountUse, Idle
<1>3. \E U, J \in SUBSET Client :
        /\ dm' = [dm EXCEPT ![d].uses = U, ![d].jobs = J, ![d].half = h]
        /\ \/ cl[c].pc = "openF" /\ cl[c].f = d /\ U = dm[d].uses \cup {c} /\ J = dm[d].jobs
           \/ cl[c].pc = "createL" /\ cl[c].l = d /\ U = dm[d].uses /\ J = dm[d].jobs \cup {c}
  <2>1. CASE cl[c].pc = "openF" /\ cl[c].f = d /\
             dm' = [dm EXCEPT ![d].uses = @ \cup {c}, ![d].half = h]
    <3>1. dm[d].uses \cup {c} \in SUBSET Client /\ dm[d].jobs \in SUBSET Client
      BY <1>0 DEF DaemonRec
    <3>2. dm' = [dm EXCEPT ![d].uses = dm[d].uses \cup {c}, ![d].jobs = dm[d].jobs, ![d].half = h]
      BY ONLY <1>0, <2>1, ZenonT(30) DEF DaemonRec
    <3>. QED
      BY <2>1, <3>1, <3>2
  <2>2. CASE cl[c].pc = "createL" /\ cl[c].l = d /\
             dm' = [dm EXCEPT ![d].jobs = @ \cup {c}, ![d].half = h]
    <3>1. dm[d].jobs \cup {c} \in SUBSET Client /\ dm[d].uses \in SUBSET Client
      BY <1>0 DEF DaemonRec
    <3>2. dm' = [dm EXCEPT ![d].uses = dm[d].uses, ![d].jobs = dm[d].jobs \cup {c}, ![d].half = h]
      BY ONLY <1>0, <2>2, ZenonT(30) DEF DaemonRec
    <3>. QED
      BY <2>2, <3>1, <3>2
  <2>. QED
    BY <2>1, <2>2 DEF CountUse
<1>. HIDE DEF h
<1>4. PICK U, J \in SUBSET Client :
        /\ dm' = [dm EXCEPT ![d].uses = U, ![d].jobs = J, ![d].half = h]
        /\ \/ cl[c].pc = "openF" /\ cl[c].f = d /\ U = dm[d].uses \cup {c} /\ J = dm[d].jobs
           \/ cl[c].pc = "createL" /\ cl[c].l = d /\ U = dm[d].uses /\ J = dm[d].jobs \cup {c}
  BY <1>3
<1>5. /\ dm' \in [Daemon -> DaemonRec]
      /\ \A e \in Daemon \ {d} : dm'[e] = dm[e]
  BY ONLY <1>0, <1>1, <1>4, ZenonT(30) DEF DaemonRec
<1>6. /\ dm'[d].pc = dm[d].pc /\ dm'[d].uses = U /\ dm'[d].jobs = J /\ dm'[d].half = h
      /\ dm'[d].attempts = dm[d].attempts /\ dm'[d].child = dm[d].child
      /\ dm'[d].linger = dm[d].linger /\ dm'[d].closed = dm[d].closed
      /\ dm'[d].termed = dm[d].termed
  BY ONLY <1>0, <1>4 DEF DaemonRec
<1>7. Held(d)'
  BY ONLY <1>2, <1>6, <1>a DEF Held
<1>8. Exiting(d)'
  BY ONLY <1>6, <1>a DEF Exiting
<1>9. Counted(d)'
  <2>1. Counted(d) /\ dm[d].uses \subseteq U /\ dm[d].jobs \subseteq J
    BY <1>4, DaemonShape
  <2>2. \/ cl[h.c].pc = "openF" /\ cl[h.c].f = d /\ h.c \in U
        \/ cl[h.c].pc = "createL" /\ cl[h.c].l = d /\ h.c \in J
    BY ONLY <1>1, <1>4
  <2>3. h.at # "disarm"
    BY ONLY <1>1
  <2>. QED
    <3>1. Busy(d)'
      BY ONLY <1>2, <1>6 DEF Busy
    <3>2. ASSUME NEW r \in dm[d].closed PROVE ClosedFits(d, r)'
      BY ONLY <1>2, <1>6, <2>1, <3>2 DEF Counted, ClosedFits
    <3>3. Halfway(d)'
      BY ONLY <1>2, <1>6, <2>2, <2>3 DEF Halfway, Waits
    <3>. QED
      BY ONLY <1>6, <3>1, <3>2, <3>3 DEF Counted
<1>10. \A x \in Client : Kept(d, x)'
  BY ONLY <1>2, <1>4, <1>6, <1>a DEF Kept, Granted
<1>. QED
  BY <1>2, <1>5, <1>7, <1>8, <1>9, <1>10, OneDaemonMoves, DaemonShape DEF Shape

\* A descriptor that is forgotten is one its client no longer has.
LEMMA ReleaseStep ==
  ASSUME DaemonInv, NEW d \in Daemon, NEW r \in dm[d].closed, Release(d, r)
  PROVE  DaemonInv'
<1>0. dm \in [Daemon -> DaemonRec] /\ dm[d] \in DaemonRec /\ r \in ClosedRec
  BY DaemonShape DEF DaemonRec
<1>a. Held(d) /\ Exiting(d) /\ Counted(d) /\ \A x \in Client : Kept(d, x)
  BY DaemonShape
<1>1. UNCHANGED <<lock, mounts, cl>> /\ dm[d].pc = "serve" /\ dm[d].half = NULL
  BY DEF Release, Idle
<1>. DEFINE U == IF r.kind = "f" THEN dm[d].uses \ {r.c} ELSE dm[d].uses
            J == IF r.kind = "l" THEN dm[d].jobs \ {r.c} ELSE dm[d].jobs
            Z == dm[d].closed \ {r}
            L == [dm[d] EXCEPT !.closed = Z, !.uses = U, !.jobs = J]
            N == Forget(dm[d], r)
<1>2. U \in SUBSET Client /\ J \in SUBSET Client /\ Z \in SUBSET ClosedRec
  BY <1>0 DEF DaemonRec
<1>3. N = L \/ N = [L EXCEPT !.timer = TRUE]
  BY DEF Forget, schedule_exit
<1>4. dm' = [dm EXCEPT ![d] = N]
  BY DEF Release
<1>. HIDE DEF U, J, Z, N
<1>5. /\ L \in DaemonRec /\ L.pc = dm[d].pc /\ L.uses = U /\ L.jobs = J /\ L.closed = Z
      /\ L.half = dm[d].half /\ L.attempts = dm[d].attempts /\ L.child = dm[d].child
      /\ L.linger = dm[d].linger /\ L.termed = dm[d].termed
  BY ONLY <1>0, <1>2, ZenonT(30) DEF DaemonRec
<1>. HIDE DEF L
<1>6. /\ N \in DaemonRec /\ N.pc = dm[d].pc /\ N.uses = U /\ N.jobs = J /\ N.closed = Z
      /\ N.half = dm[d].half /\ N.attempts = dm[d].attempts /\ N.child = dm[d].child
      /\ N.linger = dm[d].linger /\ N.termed = dm[d].termed
  BY ONLY <1>3, <1>5, ZenonT(30) DEF DaemonRec
<1>7. /\ dm' \in [Daemon -> DaemonRec] /\ dm'[d] = N
      /\ \A e \in Daemon \ {d} : dm'[e] = dm[e]
  BY ONLY <1>0, <1>4, <1>6
<1>8. Held(d)'
  BY ONLY <1>1, <1>6, <1>7, <1>a DEF Held
<1>9. Exiting(d)'
  BY ONLY <1>6, <1>7, <1>a DEF Exiting
<1>10. Counted(d)'
  <2>1. ASSUME NEW s \in Z
        PROVE  ClosedFits(d, s)'
    <3>1. s \in ClosedRec /\ s # r /\ s \in dm[d].closed
      BY <1>2, <2>1 DEF Z
    <3>2. s.c # r.c \/ s.kind # r.kind
      BY ONLY <1>0, <3>1 DEF ClosedRec
    <3>. QED
      <4>1. ClosedFits(d, s)
        BY <1>a, <3>1 DEF Counted
      <4>2. /\ s.kind = "f" /\ s.c \in dm[d].uses => s.c \in U
            /\ s.kind = "l" /\ s.c \in dm[d].jobs => s.c \in J
        BY ONLY <3>2 DEF U, J
      <4>. QED
        BY ONLY <1>1, <1>6, <1>7, <4>1, <4>2 DEF ClosedFits
  <2>2. Busy(d)' /\ Halfway(d)'
    BY ONLY <1>1, <1>6, <1>7 DEF Busy, Halfway
  <2>. QED
    BY ONLY <1>6, <1>7, <2>1, <2>2 DEF Counted
<1>11. \A x \in Client : Kept(d, x)'
  <2>1. /\ r.kind = "f" => cl[r.c].f # d
        /\ r.kind = "l" => cl[r.c].l # d
    BY <1>a DEF Counted, ClosedFits
  <2>. QED
    BY ONLY <1>1, <1>6, <1>7, <2>1, <1>a DEF Kept, Granted, U, J
<1>. QED
  BY <1>1, <1>7, <1>8, <1>9, <1>10, <1>11, OneDaemonMoves, DaemonShape DEF Shape

\* A daemon that does not move while one client does.
LEMMA OneClientMoves ==
  ASSUME DaemonInv, NEW e \in Daemon, NEW c \in Client,
         dm'[e] = dm[e], lock' = e <=> lock = e, mounts' = <<e>> <=> mounts = <<e>>,
         \A x \in Client \ {c} : cl'[x] = cl[x],
         dm[e].half # NULL => dm[e].half.c # c,
         \A r \in dm[e].closed : r.c = c =>
           /\ r.kind = "f" => cl'[c].f # e
           /\ r.kind = "l" => cl'[c].l # e
           /\ cl'[c].pc \notin Joining,
         Kept(e, c)'
  PROVE  Good(e)'
<1>0. dm[e] \in DaemonRec
  BY DaemonShape
<1>1. Held(e)'
  BY DaemonShape DEF Held
<1>2. Exiting(e)'
  BY DaemonShape DEF Exiting
<1>3. Counted(e)'
  <2>1. ASSUME NEW r \in dm[e].closed
        PROVE  ClosedFits(e, r)'
    <3>1. r.c \in Client
      BY <1>0 DEF DaemonRec, ClosedRec
    <3>. QED
      <4>1. ClosedFits(e, r)
        BY DaemonShape DEF Counted
      <4>2. CASE r.c = c
        BY <4>1, <4>2 DEF ClosedFits
      <4>3. CASE r.c # c
        <5>1. cl'[r.c] = cl[r.c]
          BY <3>1, <4>3
        <5>. QED
          BY ONLY <4>1, <5>1, dm'[e] = dm[e] DEF ClosedFits
      <4>. QED
        BY <4>2, <4>3
  <2>2. dm[e].half # NULL => cl'[dm[e].half.c] = cl[dm[e].half.c]
    BY <1>0 DEF DaemonRec, HalfRec
  <2>. QED
    <3>1. Counted(e)
      BY DaemonShape
    <3>2. Busy(e)'
      BY ONLY <3>1, dm'[e] = dm[e] DEF Counted, Busy
    <3>3. Halfway(e)'
      BY ONLY <2>2, <3>1, dm'[e] = dm[e] DEF Counted, Halfway, Waits
    <3>. QED
      BY ONLY <2>1, <3>2, <3>3, dm'[e] = dm[e] DEF Counted
<1>4. \A x \in Client : Kept(e, x)'
  <2>1. ASSUME NEW x \in Client \ {c} PROVE Kept(e, x)'
    <3>1. Kept(e, x) /\ cl'[x] = cl[x]
      BY DaemonShape
    <3>. QED
      BY ONLY <3>1, dm'[e] = dm[e], mounts' = <<e>> <=> mounts = <<e>> DEF Kept, Granted
  <2>. QED
    BY <2>1
<1>. QED
  BY <1>1, <1>2, <1>3, <1>4 DEF Good

\* A client on its way to its live file has closed nothing, and only the
\* daemon it waits for is in the middle of its request.
LEMMA JoiningFacts ==
  ASSUME DaemonInv, NEW e \in Daemon, NEW c \in Client
  PROVE  /\ cl[c].pc \in Joining => \A r \in dm[e].closed : r.c # c
         /\ dm[e].half # NULL /\ dm[e].half.c = c =>
              \/ cl[c].pc = "openF" /\ cl[c].f = e
              \/ cl[c].pc = "createL" /\ cl[c].l = e
<1>1. Counted(e)
  BY DaemonShape
<1>2. cl[c].pc \in Joining => \A r \in dm[e].closed : r.c # c
  BY <1>1 DEF Counted, ClosedFits
<1>3. dm[e].half # NULL /\ dm[e].half.c = c => Waits(e, c)
  BY <1>1 DEF Counted, Halfway
<1>. QED
  BY <1>2, <1>3 DEF Waits

\* cancel_exit refuses a client once an exit has begun, and forgets its use.
LEMMA CancelCheckStep ==
  ASSUME DaemonInv, NEW d \in Daemon, CancelCheck(d)
  PROVE  DaemonInv'
<1>0. dm \in [Daemon -> DaemonRec] /\ dm[d] \in DaemonRec /\ cl \in [Client -> ClientRec]
  BY DaemonShape DEF Shape
<1>a. Held(d) /\ Exiting(d) /\ Counted(d) /\ \A x \in Client : Kept(d, x)
  BY DaemonShape
<1>1. UNCHANGED <<lock, mounts>> /\ dm[d].pc = "serve" /\ dm[d].half # NULL
  BY DEF CancelCheck
<1>2. dm[d].half \in HalfRec
  BY <1>0, <1>1 DEF DaemonRec
<1>3. PICK c \in Client : c = dm[d].half.c
  BY <1>2 DEF HalfRec
<1>4. CASE dm[d].attempts = 0
  <2>1. dm' = [dm EXCEPT ![d].half.at = "disarm"] /\ UNCHANGED cl
    BY <1>4 DEF CancelCheck
  <2>. DEFINE h == [dm[d].half EXCEPT !.at = "disarm"]
  <2>2. h \in HalfRec /\ h.c = c
    BY <1>2, <1>3 DEF HalfRec
  <2>3. dm' = [dm EXCEPT ![d].half = h]
    BY <2>1
  <2>. HIDE DEF h
  <2>4. /\ dm' \in [Daemon -> DaemonRec]
        /\ \A e \in Daemon \ {d} : dm'[e] = dm[e]
    BY ONLY <1>0, <2>2, <2>3 DEF DaemonRec
  <2>5. /\ dm'[d].pc = dm[d].pc /\ dm'[d].uses = dm[d].uses /\ dm'[d].jobs = dm[d].jobs
        /\ dm'[d].half = h /\ dm'[d].attempts = dm[d].attempts
        /\ dm'[d].child = dm[d].child /\ dm'[d].linger = dm[d].linger
        /\ dm'[d].closed = dm[d].closed /\ dm'[d].termed = dm[d].termed
    BY ONLY <1>0, <2>3 DEF DaemonRec
  <2>6. Held(d)'
    BY ONLY <1>1, <2>5, <1>a DEF Held
  <2>7. Exiting(d)'
    BY ONLY <2>5, <1>a DEF Exiting
  <2>8. Counted(d)'
    <3>1. Busy(d)'
      BY ONLY <1>1, <2>5 DEF Busy
    <3>2. ASSUME NEW r \in dm[d].closed PROVE ClosedFits(d, r)'
      BY ONLY <1>a, <2>1, <2>5, <3>2 DEF Counted, ClosedFits
    <3>3. Halfway(d)'
      <4>1. Waits(d, c)
        BY <1>1, <1>3, <1>a DEF Counted, Halfway
      <4>2. Waits(d, c)'
        BY ONLY <2>1, <2>5, <4>1 DEF Waits
      <4>. QED
        BY ONLY <1>4, <2>2, <2>5, <4>2 DEF Halfway, Waits
    <3>. QED
      BY ONLY <2>5, <3>1, <3>2, <3>3 DEF Counted
  <2>9. \A x \in Client : Kept(d, x)'
    BY ONLY <1>1, <2>1, <2>5, <1>a DEF Kept, Granted
  <2>. QED
    BY <1>1, <2>1, <2>4, <2>6, <2>7, <2>8, <2>9, OneDaemonMoves, DaemonShape DEF Shape
<1>5. CASE dm[d].attempts # 0
  <2>1. \/ cl[c].pc = "openF" /\ cl[c].f = d
        \/ cl[c].pc = "createL" /\ cl[c].l = d
    BY <1>1, <1>3, JoiningFacts
  <2>2. \E U, J \in SUBSET Client, p \in {"failed", "refused"}, f, l \in Daemon \cup {NULL} :
          /\ dm' = [dm EXCEPT ![d].half = NULL, ![d].uses = U, ![d].jobs = J]
          /\ cl' = [cl EXCEPT ![c].pc = p, ![c].f = f, ![c].l = l]
          /\ \/ U = dm[d].uses \ {c} /\ J = dm[d].jobs /\ f = NULL /\ l = cl[c].l
                /\ cl[c].pc = "openF"
             \/ U = dm[d].uses /\ J = dm[d].jobs \ {c} /\ f = cl[c].f /\ l = NULL
                /\ cl[c].pc = "createL"
    <3>0. /\ dm[d].uses \in SUBSET Client /\ dm[d].jobs \in SUBSET Client
          /\ dm[d].uses \ {c} \in SUBSET Client /\ dm[d].jobs \ {c} \in SUBSET Client
          /\ cl[c].f \in Daemon \cup {NULL} /\ cl[c].l \in Daemon \cup {NULL}
      BY <1>0, <1>3 DEF DaemonRec, ClientRec
    <3>1. CASE cl[c].pc = "createL"
      <4>1. /\ dm' = [dm EXCEPT ![d].half = NULL, ![d].jobs = @ \ {c}]
            /\ cl' = [cl EXCEPT ![c].pc = "failed", ![c].l = NULL]
        BY <1>3, <1>5, <3>1 DEF CancelCheck
      <4>2. dm' = [dm EXCEPT ![d].half = NULL, ![d].uses = dm[d].uses,
                             ![d].jobs = dm[d].jobs \ {c}]
        BY ONLY <1>0, <4>1, ZenonT(30) DEF DaemonRec
      <4>3. cl' = [cl EXCEPT ![c].pc = "failed", ![c].f = cl[c].f, ![c].l = NULL]
        BY ONLY <1>0, <1>3, <4>1, ZenonT(30) DEF ClientRec
      <4>. QED
        BY <3>0, <3>1, <4>2, <4>3
    <3>2. CASE cl[c].pc = "openF"
      <4>1. /\ dm' = [dm EXCEPT ![d].half = NULL, ![d].uses = @ \ {c}]
            /\ cl' = [cl EXCEPT ![c].pc = "refused", ![c].f = NULL]
        BY <1>3, <1>5, <3>2 DEF CancelCheck
      <4>2. dm' = [dm EXCEPT ![d].half = NULL, ![d].uses = dm[d].uses \ {c},
                             ![d].jobs = dm[d].jobs]
        BY ONLY <1>0, <4>1, ZenonT(30) DEF DaemonRec
      <4>3. cl' = [cl EXCEPT ![c].pc = "refused", ![c].f = NULL, ![c].l = cl[c].l]
        BY ONLY <1>0, <1>3, <4>1, ZenonT(30) DEF ClientRec
      <4>. QED
        BY <3>0, <3>2, <4>2, <4>3
    <3>. QED
      BY <2>1, <3>1, <3>2
  <2>3. PICK U, J \in SUBSET Client, p \in {"failed", "refused"}, f, l \in Daemon \cup {NULL} :
          /\ dm' = [dm EXCEPT ![d].half = NULL, ![d].uses = U, ![d].jobs = J]
          /\ cl' = [cl EXCEPT ![c].pc = p, ![c].f = f, ![c].l = l]
          /\ \/ U = dm[d].uses \ {c} /\ J = dm[d].jobs /\ f = NULL /\ l = cl[c].l
                /\ cl[c].pc = "openF"
             \/ U = dm[d].uses /\ J = dm[d].jobs \ {c} /\ f = cl[c].f /\ l = NULL
                /\ cl[c].pc = "createL"
    BY <2>2
  <2>4. /\ dm' \in [Daemon -> DaemonRec]
        /\ \A e \in Daemon \ {d} : dm'[e] = dm[e]
    BY ONLY <1>0, <2>3, ZenonT(30) DEF DaemonRec
  <2>5. /\ dm'[d].pc = dm[d].pc /\ dm'[d].uses = U /\ dm'[d].jobs = J
        /\ dm'[d].half = NULL /\ dm'[d].attempts = dm[d].attempts
        /\ dm'[d].child = dm[d].child /\ dm'[d].linger = dm[d].linger
        /\ dm'[d].closed = dm[d].closed /\ dm'[d].termed = dm[d].termed
    BY ONLY <1>0, <2>3 DEF DaemonRec
  <2>6. /\ cl' \in [Client -> ClientRec]
        /\ \A x \in Client \ {c} : cl'[x] = cl[x]
    <3>1. cl' = [cl EXCEPT ![c].pc = p, ![c].f = f, ![c].l = l]
      BY <2>3
    <3>. QED
      <4>. DEFINE K == [cl[c] EXCEPT !.pc = p, !.f = f, !.l = l]
      <4>1. cl[c] \in ClientRec
        BY <1>0
      <4>2. K \in ClientRec
        BY ONLY <4>1, p \in {"failed", "refused"},
           f \in Daemon \cup {NULL}, l \in Daemon \cup {NULL}, ZenonT(30) DEF ClientRec
      <4>3. cl' = [cl EXCEPT ![c] = K]
        BY <3>1, ZenonT(30)
      <4>. HIDE DEF K
      <4>. QED
        BY ONLY <1>0, <4>2, <4>3
  <2>7. cl'[c].pc = p /\ cl'[c].f = f /\ cl'[c].l = l
    <3>1. cl' = [cl EXCEPT ![c].pc = p, ![c].f = f, ![c].l = l]
      BY <2>3
    <3>2. cl'[c] = [cl[c] EXCEPT !.pc = p, !.f = f, !.l = l] /\ cl[c] \in ClientRec
      BY ONLY <1>0, <1>3, <3>1, ZenonT(30)
    <3>. QED
      BY ONLY <3>2 DEF ClientRec
  <2>8. Shape'
    BY <1>1, <2>4, <2>6, DaemonShape DEF Shape
  <2>9. cl[c].pc \in Joining
    BY <2>1 DEF Joining
  <2>10. ASSUME NEW e \in Daemon \ {d}
         PROVE  Good(e)'
    <3>1. dm[e].half # NULL => dm[e].half.c # c
      BY <1>3, <2>1, JoiningFacts
    <3>2. \A r \in dm[e].closed : r.c # c
      BY <1>3, <2>9, JoiningFacts
    <3>3. dm'[e] = dm[e]
      BY <2>4
    <3>4. Kept(e, c)'
      <4>1. Kept(e, c) /\ e # NULL
        BY <1>3, DaemonShape, DaemonAssumption
      <4>2. /\ cl'[c].f = e => cl[c].f = e /\ cl[c].pc # "openF"
            /\ cl'[c].l = e => cl[c].l = e /\ cl[c].pc # "createL"
        BY ONLY <2>3, <2>7, <4>1
      <4>3. mounts' = mounts
        BY <1>1
      <4>. QED
        BY ONLY <3>3, <4>1, <4>2, <4>3 DEF Kept, Granted
    <3>5. \A r \in dm[e].closed : r.c = c =>
           /\ r.kind = "f" => cl'[c].f # e
           /\ r.kind = "l" => cl'[c].l # e
           /\ cl'[c].pc \notin Joining
      BY <3>2
    <3>6. (lock' = e <=> lock = e) /\ (mounts' = <<e>> <=> mounts = <<e>>)
      BY <1>1
    <3>. QED
      BY ONLY <1>3, <2>6, <3>1, <3>3, <3>4, <3>5, <3>6, OneClientMoves, DaemonInv, e \in Daemon
  <2>11. Good(d)'
    <3>1. Held(d)'
      BY ONLY <1>1, <2>5, <1>a DEF Held
    <3>2. Exiting(d)'
      BY ONLY <2>5, <1>a DEF Exiting
    <3>3. Counted(d)'
      <4>1. ASSUME NEW r \in dm[d].closed
            PROVE  cl'[r.c] = cl[r.c] /\ r.c # c
        <5>1. r.c \in Client
          BY <1>0 DEF DaemonRec, ClosedRec
        <5>2. r.c # c
          BY <1>3, <2>9, JoiningFacts
        <5>. QED
          BY <2>6, <5>1, <5>2
      <4>. QED
        <5>1. Counted(d)
          BY DaemonShape
        <5>2. \A x \in Client : x # c => (x \in U <=> x \in dm[d].uses)
                                        /\ (x \in J <=> x \in dm[d].jobs)
          BY <2>3
        <5>3. \A r \in dm[d].closed : r.c \in Client
          BY <1>0 DEF DaemonRec, ClosedRec
        <5>4. \A r \in dm[d].closed :
                ClosedFits(d, r)'
          BY ONLY <2>5, <4>1, <5>1, <5>2, <5>3 DEF Counted, ClosedFits
        <5>5. Busy(d)' /\ Halfway(d)'
          BY ONLY <1>1, <2>5 DEF Busy, Halfway
        <5>. QED
          BY ONLY <2>5, <5>4, <5>5 DEF Counted
    <3>4. ASSUME NEW x \in Client PROVE Kept(d, x)'
      <4>1. CASE x # c
        <5>1. cl'[x] = cl[x]
          BY <2>6, <4>1
        <5>. QED
          BY ONLY <1>1, <2>3, <2>5, <4>1, <5>1, <1>a, x \in Client
             DEF Kept, Granted
      <4>2. CASE x = c
        <5>1. Kept(d, c) /\ d # NULL /\ dm'[d].pc = "serve"
          BY <1>1, <2>5, DaemonShape, DaemonAssumption
        <5>2. /\ cl'[c].f = d => cl[c].f = d /\ cl[c].pc # "openF" /\ U = dm[d].uses
              /\ cl'[c].l = d => cl[c].l = d /\ cl[c].pc # "createL" /\ J = dm[d].jobs
          BY ONLY <2>3, <2>7, <5>1
        <5>3. Kept(d, c)'
          BY ONLY <1>1, <2>5, <5>1, <5>2 DEF Kept, Granted
        <5>. QED
          BY <4>2, <5>3
      <4>. QED
        BY <4>1, <4>2
    <3>. QED
      BY <3>1, <3>2, <3>3, <3>4 DEF Good
  <2>. QED
    BY <2>8, <2>10, <2>11 DEF DaemonInv
<1>. QED
  BY <1>4, <1>5

\* The timer is stopped and the client has its descriptor: no attempt was made
\* since the check, unless a signal came.
LEMMA CancelTimerStep ==
  ASSUME DaemonInv, NEW d \in Daemon, CancelTimer(d)
  PROVE  DaemonInv'
<1>0. dm \in [Daemon -> DaemonRec] /\ dm[d] \in DaemonRec /\ cl \in [Client -> ClientRec]
  BY DaemonShape DEF Shape
<1>a. Held(d) /\ Exiting(d) /\ Counted(d) /\ \A x \in Client : Kept(d, x)
  BY DaemonShape
<1>1. /\ UNCHANGED <<lock, mounts>> /\ dm[d].pc = "serve" /\ dm[d].half # NULL
      /\ dm[d].half.at = "disarm"
  BY DEF CancelTimer
<1>2. dm[d].half \in HalfRec
  BY <1>0, <1>1 DEF DaemonRec
<1>3. PICK c \in Client : c = dm[d].half.c
  BY <1>2 DEF HalfRec
<1>4. \/ cl[c].pc = "openF" /\ cl[c].f = d /\ c \in dm[d].uses
      \/ cl[c].pc = "createL" /\ cl[c].l = d /\ c \in dm[d].jobs
  BY <1>1, <1>3, <1>a DEF Counted, Halfway, Waits
<1>5. dm[d].attempts = 0 \/ dm[d].termed
  BY <1>1, <1>a DEF Counted, Halfway
<1>6. PICK p \in {"hasF", "hasL"} :
        /\ cl' = [cl EXCEPT ![c].pc = p]
        /\ p = IF cl[c].pc = "openF" THEN "hasF" ELSE "hasL"
  <2>1. cl' = [cl EXCEPT ![c].pc = IF @ = "openF" THEN "hasF" ELSE "hasL"]
    BY <1>3 DEF CancelTimer
  <2>. QED
    BY <1>0, <2>1, ZenonT(30)
<1>7. /\ cl' \in [Client -> ClientRec]
      /\ \A x \in Client \ {c} : cl'[x] = cl[x]
  BY ONLY <1>0, <1>6 DEF ClientRec
<1>8. cl'[c].pc = p /\ cl'[c].f = cl[c].f /\ cl'[c].l = cl[c].l
  <2>1. cl'[c] = [cl[c] EXCEPT !.pc = p] /\ cl[c] \in ClientRec
    BY ONLY <1>0, <1>6
  <2>. QED
    BY ONLY <2>1 DEF ClientRec
<1>9. /\ dm' \in [Daemon -> DaemonRec]
      /\ \A e \in Daemon \ {d} : dm'[e] = dm[e]
  BY ONLY <1>0, CancelTimer(d), ZenonT(30) DEF CancelTimer, DaemonRec
<1>10. /\ dm'[d].pc = dm[d].pc /\ dm'[d].uses = dm[d].uses /\ dm'[d].jobs = dm[d].jobs
       /\ dm'[d].half = NULL /\ dm'[d].attempts = dm[d].attempts
       /\ dm'[d].child = dm[d].child /\ dm'[d].linger = dm[d].linger
       /\ dm'[d].closed = dm[d].closed /\ dm'[d].termed = dm[d].termed
  BY ONLY <1>0, CancelTimer(d) DEF CancelTimer, DaemonRec
<1>11. Shape'
  BY <1>1, <1>7, <1>9, DaemonShape DEF Shape
<1>12. cl[c].pc \in Joining
  BY <1>4 DEF Joining
<1>13. ASSUME NEW e \in Daemon \ {d}
       PROVE  Good(e)'
  <2>1. dm[e].half # NULL => dm[e].half.c # c
    BY <1>4, JoiningFacts
  <2>2. \A r \in dm[e].closed : r.c = c =>
           /\ r.kind = "f" => cl'[c].f # e
           /\ r.kind = "l" => cl'[c].l # e
           /\ cl'[c].pc \notin Joining
    BY <1>12, JoiningFacts
  <2>3. dm'[e] = dm[e]
    BY <1>9
  <2>4. (lock' = e <=> lock = e) /\ (mounts' = <<e>> <=> mounts = <<e>>)
    BY <1>1
  <2>5. Kept(e, c)'
    <3>1. Kept(e, c)
      BY DaemonShape
    <3>2. /\ cl'[c].f = e => cl[c].f = e /\ cl[c].pc # "openF"
          /\ cl'[c].l = e => cl[c].l = e /\ cl[c].pc # "createL"
      BY ONLY <1>4, <1>8, e \in Daemon \ {d}
    <3>. QED
      BY ONLY <1>1, <2>3, <3>1, <3>2 DEF Kept, Granted
  <2>. QED
    BY ONLY <1>7, <2>1, <2>2, <2>3, <2>4, <2>5, OneClientMoves, DaemonInv, e \in Daemon, c \in Client
<1>14. Good(d)'
  <2>1. Held(d)'
    BY ONLY <1>1, <1>10, <1>a DEF Held
  <2>2. Exiting(d)'
    BY ONLY <1>10, <1>a DEF Exiting
  <2>3. Counted(d)'
    <3>1. ASSUME NEW r \in dm[d].closed
          PROVE  cl'[r.c] = cl[r.c]
      <4>1. r.c \in Client
        BY <1>0 DEF DaemonRec, ClosedRec
      <4>2. r.c # c
        BY <1>12, JoiningFacts
      <4>. QED
        BY <1>7, <4>1, <4>2
    <3>2. Counted(d)
      BY DaemonShape
    <3>. QED
      <4>1. Busy(d)' /\ Halfway(d)'
        BY ONLY <1>1, <1>10 DEF Busy, Halfway
      <4>2. ASSUME NEW r \in dm[d].closed PROVE ClosedFits(d, r)'
        BY ONLY <1>10, <3>1, <3>2, <4>2 DEF Counted, ClosedFits
      <4>. QED
        BY ONLY <1>10, <4>1, <4>2 DEF Counted
  <2>4. ASSUME NEW x \in Client PROVE Kept(d, x)'
    <3>1. Kept(d, x)
      BY DaemonShape
    <3>2. CASE x # c
      <4>1. cl'[x] = cl[x]
        BY <1>7, <3>2
      <4>. QED
        BY ONLY <1>1, <1>10, <3>1, <4>1 DEF Kept, Granted
    <3>3. CASE x = c
      <4>1. Kept(d, c)
        BY <3>1, <3>3
      <4>2. Kept(d, c)'
        BY ONLY <1>1, <1>4, <1>5, <1>6, <1>8, <1>10, <4>1 DEF Kept, Granted
      <4>. QED
        BY <3>3, <4>2
    <3>. QED
      BY <3>2, <3>3
  <2>. QED
    BY <2>1, <2>2, <2>3, <2>4 DEF Good
<1>. QED
  BY <1>11, <1>13, <1>14 DEF DaemonInv

-----------------------------------------------------------------------------
(* Clients *)

\* A client that waits for no daemon moves: it keeps its descriptors, or asks
\* a daemon that serves for a new one.
LEMMA ClientMoves ==
  ASSUME DaemonInv, NEW c \in Client, UNCHANGED <<lock, mounts, dm>>,
         cl' \in [Client -> ClientRec], \A x \in Client \ {c} : cl'[x] = cl[x],
         cl[c].pc \notin {"openF", "createL"},
         \/ cl[c].pc \in Joining
         \/ \A e \in Daemon : c \notin dm[e].uses \cup dm[e].jobs
         \/ cl'[c].pc \notin Joining /\ cl'[c].f = cl[c].f /\ cl'[c].l = cl[c].l,
         cl'[c].f = cl[c].f \/ (cl'[c].pc = "openF" /\ Serving(cl'[c].f)),
         cl'[c].l = cl[c].l \/ (cl'[c].pc = "createL" /\ Serving(cl'[c].l))
  PROVE  DaemonInv'
<1>1. Shape'
  BY DaemonShape DEF DaemonInv, Shape
<1>2. ASSUME NEW e \in Daemon
      PROVE  Good(e)'
  <2>1. dm[e].half # NULL => dm[e].half.c # c
    BY JoiningFacts
  <2>2. \A r \in dm[e].closed : r.c = c =>
           /\ r.kind = "f" => cl'[c].f # e
           /\ r.kind = "l" => cl'[c].l # e
           /\ cl'[c].pc \notin Joining
    <3>1. CASE cl[c].pc \in Joining
      BY <3>1, JoiningFacts
    <3>2. ASSUME \A x \in Daemon : c \notin dm[x].uses \cup dm[x].jobs,
                 NEW r \in dm[e].closed
          PROVE  r.c # c
      <4>1. r.kind \in {"f", "l"}
        BY DaemonShape DEF DaemonRec, ClosedRec
      <4>. QED
        <5>1. ClosedFits(e, r)
          BY <3>2, DaemonShape DEF Counted
        <5>. QED
          BY ONLY <3>2, <4>1, <5>1, e \in Daemon DEF ClosedFits
    <3>3. CASE cl'[c].pc \notin Joining /\ cl'[c].f = cl[c].f /\ cl'[c].l = cl[c].l
      <4>1. \A r \in dm[e].closed : ClosedFits(e, r)
        BY DaemonShape DEF Counted
      <4>. QED
        BY ONLY <3>3, <4>1 DEF ClosedFits
    <3>. QED
      BY <3>1, <3>2, <3>3
  <2>3. Kept(e, c)'
    <3>1. Kept(e, c)
      BY DaemonShape
    <3>2. /\ cl'[c].f = e => cl[c].f = e \/ (cl'[c].pc = "openF" /\ dm[e].pc \in {"serve", "waitpid"})
          /\ cl'[c].l = e => cl[c].l = e \/ (cl'[c].pc = "createL" /\ dm[e].pc \in {"serve", "waitpid"})
      BY DEF Serving
    <3>. QED
      BY ONLY <3>1, <3>2, UNCHANGED <<lock, mounts, dm>>,
         cl[c].pc \notin {"openF", "createL"} DEF Kept, Granted
  <2>4. /\ dm'[e] = dm[e] /\ (lock' = e <=> lock = e)
        /\ (mounts' = <<e>> <=> mounts = <<e>>)
    OBVIOUS
  <2>. QED
    BY ONLY <2>1, <2>2, <2>3, <2>4, OneClientMoves, DaemonInv, c \in Client, e \in Daemon,
       \A x \in Client \ {c} : cl'[x] = cl[x]
<1>. QED
  BY <1>1, <1>2 DEF DaemonInv

\* Only the program counter of a client and the descriptor it asks for change.
LEMMA ClientStepOnly ==
  ASSUME DaemonInv, NEW c \in Client,
         Connect(c) \/ OpenF(c) \/ WakeUp(c) \/ CreateL(c) \/ SendInput(c) \/ Disconnect(c)
  PROVE  DaemonInv'
<1>0. cl \in [Client -> ClientRec] /\ cl[c] \in ClientRec
  BY DEF DaemonInv, Shape
<1>1. UNCHANGED <<lock, mounts, dm>>
  BY DEF Connect, OpenF, WakeUp, CreateL, SendInput, Disconnect
<1>2. ASSUME NEW K \in ClientRec, cl' = [cl EXCEPT ![c] = K],
             cl[c].pc \notin {"openF", "createL"},
             \/ cl[c].pc \in Joining
             \/ \A e \in Daemon : c \notin dm[e].uses \cup dm[e].jobs
             \/ K.pc \notin Joining /\ K.f = cl[c].f /\ K.l = cl[c].l,
             K.f = cl[c].f \/ (K.pc = "openF" /\ Serving(K.f)),
             K.l = cl[c].l \/ (K.pc = "createL" /\ Serving(K.l))
      PROVE  DaemonInv'
  <2>1. /\ cl' \in [Client -> ClientRec] /\ cl'[c] = K
        /\ \A x \in Client \ {c} : cl'[x] = cl[x]
    BY ONLY <1>0, <1>2
  <2>. QED
    BY ONLY <1>1, <1>2, <2>1, ClientMoves, DaemonInv, c \in Client
<1>3. ASSUME NEW p \in {"open", "refused", "failed", "running", "done"},
             cl' = [cl EXCEPT ![c].pc = p], cl[c].pc \notin {"openF", "createL"},
             \/ cl[c].pc \in Joining
             \/ \A e \in Daemon : c \notin dm[e].uses \cup dm[e].jobs
             \/ p \notin Joining
      PROVE  DaemonInv'
  <2>. DEFINE K == [cl[c] EXCEPT !.pc = p]
  <2>1. K \in ClientRec /\ K.pc = p /\ K.f = cl[c].f /\ K.l = cl[c].l
    BY ONLY <1>0, p \in {"open", "refused", "failed", "running", "done"} DEF ClientRec
  <2>2. cl' = [cl EXCEPT ![c] = K]
    BY <1>3
  <2>. HIDE DEF K
  <2>. QED
    BY ONLY <1>2, <1>3, <2>1, <2>2, ZenonT(30)
<1>4. CASE Connect(c)
  BY <1>3, <1>4 DEF Connect
<1>5. CASE OpenF(c)
  <2>1. cl[c].pc = "open" /\ cl[c].pc \in Joining
    BY <1>5 DEF OpenF, Joining
  <2>2. CASE Serving(Top)
    <3>. DEFINE K == [cl[c] EXCEPT !.pc = "openF", !.f = Top]
    <3>1. K \in ClientRec /\ K.pc = "openF" /\ K.f = Top /\ K.l = cl[c].l
      BY ONLY <1>0, <2>2, ZenonT(30) DEF ClientRec, Serving
    <3>2. cl' = [cl EXCEPT ![c] = K]
      BY <1>5, <2>2, ZenonT(30) DEF OpenF
    <3>. HIDE DEF K
    <3>. QED
      BY <1>2, <2>1, <2>2, <3>1, <3>2, ZenonT(30)
  <2>3. CASE ~Serving(Top)
    BY <1>3, <1>5, <2>1, <2>3 DEF OpenF
  <2>. QED
    BY <2>2, <2>3
<1>6. CASE WakeUp(c)
  <2>. DEFINE K == [cl[c] EXCEPT !.pc = "open", !.kid = NULL]
  <2>1. K \in ClientRec /\ K.pc = "open" /\ K.f = cl[c].f /\ K.l = cl[c].l
    BY ONLY <1>0, ZenonT(30) DEF ClientRec
  <2>2. cl' = [cl EXCEPT ![c] = K] /\ cl[c].pc = "sleep" /\ cl[c].pc \in Joining
    BY <1>6, ZenonT(30) DEF WakeUp, Joining
  <2>. HIDE DEF K
  <2>. QED
    BY <1>2, <2>1, <2>2, ZenonT(30)
<1>7. CASE CreateL(c)
  <2>1. cl[c].pc = "hasF" /\ cl[c].pc \in Joining
    BY <1>7 DEF CreateL, Joining
  <2>2. CASE Serving(Top)
    <3>. DEFINE K == [cl[c] EXCEPT !.pc = "createL", !.l = Top]
    <3>1. K \in ClientRec /\ K.pc = "createL" /\ K.l = Top /\ K.f = cl[c].f
      BY ONLY <1>0, <2>2, ZenonT(30) DEF ClientRec, Serving
    <3>2. cl' = [cl EXCEPT ![c] = K]
      BY <1>7, <2>2, ZenonT(30) DEF CreateL
    <3>. HIDE DEF K
    <3>. QED
      BY <1>2, <2>1, <2>2, <3>1, <3>2, ZenonT(30)
  <2>3. CASE ~Serving(Top)
    BY <1>3, <1>7, <2>1, <2>3 DEF CreateL
  <2>. QED
    BY <2>2, <2>3
<1>8. CASE SendInput(c)
  BY <1>3, <1>8 DEF SendInput, Joining
<1>9. CASE Disconnect(c)
  <2>1. \E p \in {"done", "failed"} : cl' = [cl EXCEPT ![c].pc = p]
    BY <1>9, ZenonT(30) DEF Disconnect
  <2>. QED
    BY <1>3, <1>9, <2>1, ZenonT(30) DEF Disconnect, Joining
<1>. QED
  BY <1>4, <1>5, <1>6, <1>7, <1>8, <1>9

\* The daemon that had the request is gone and left its mount behind.
LEMMA DisconnectedStep ==
  ASSUME DaemonInv, NEW c \in Client, Disconnected(c)
  PROVE  DaemonInv'
<1>0. cl \in [Client -> ClientRec] /\ cl[c] \in ClientRec
  BY DEF DaemonInv, Shape
<1>1. UNCHANGED <<lock, mounts, dm>>
  BY DEF Disconnected
<1>2. \/ cl[c].pc = "openF" /\ ~Serving(cl[c].f)
      \/ cl[c].pc = "createL" /\ ~Serving(cl[c].l)
  BY DEF Disconnected
<1>3. PICK p \in {"refused", "failed"} : cl' = [cl EXCEPT ![c].pc = p]
  <2>1. cl' = [cl EXCEPT ![c].pc = IF cl[c].pc = "openF" THEN "refused" ELSE "failed"]
    BY DEF Disconnected
  <2>. QED
    BY <2>1, ZenonT(30)
<1>4. /\ cl' \in [Client -> ClientRec]
      /\ \A x \in Client \ {c} : cl'[x] = cl[x]
  BY ONLY <1>0, <1>3 DEF ClientRec
<1>5. cl'[c].pc = p /\ cl'[c].f = cl[c].f /\ cl'[c].l = cl[c].l
  BY ONLY <1>0, <1>3 DEF ClientRec
<1>6. Shape'
  BY <1>1, <1>4 DEF DaemonInv, Shape
<1>7. ASSUME NEW e \in Daemon
      PROVE  Good(e)'
  <2>1. dm[e].half # NULL => dm[e].half.c # c
    <3>1. dm[e].half # NULL => dm[e].pc \in {"serve", "waitpid"}
      BY DaemonShape DEF Counted, Busy
    <3>2. dm[e].half # NULL /\ dm[e].half.c = c =>
            \/ cl[c].pc = "openF" /\ cl[c].f = e
            \/ cl[c].pc = "createL" /\ cl[c].l = e
      BY JoiningFacts
    <3>. QED
      BY ONLY <1>2, <3>1, <3>2, e \in Daemon DEF Serving
  <2>2. \A r \in dm[e].closed : r.c = c =>
           /\ r.kind = "f" => cl'[c].f # e
           /\ r.kind = "l" => cl'[c].l # e
           /\ cl'[c].pc \notin Joining
    <3>1. cl[c].pc \in Joining
      BY <1>2 DEF Joining
    <3>2. \A r \in dm[e].closed : r.c # c
      BY <3>1, JoiningFacts
    <3>. QED
      BY ONLY <3>2
  <2>3. Kept(e, c)'
    <3>1. Kept(e, c) /\ (dm[e].pc = "off" => dm[e] = NoDaemon)
      BY DaemonShape DEF Held
    <3>2. dm[e].pc = "off" => dm[e].attempts = 0
      BY ONLY <3>1, NoDaemonFields
    <3>3. /\ cl[c].pc = "openF" /\ cl[c].f = e => dm[e].pc = "off" /\ mounts = <<e>>
          /\ cl[c].pc = "createL" /\ cl[c].l = e => dm[e].pc = "off" /\ mounts = <<e>>
      BY <1>2, <3>1 DEF Kept, Serving
    <3>. QED
      BY ONLY <1>1, <1>3, <1>5, <3>1, <3>2, <3>3 DEF Kept, Granted
  <2>4. /\ dm'[e] = dm[e] /\ (lock' = e <=> lock = e)
        /\ (mounts' = <<e>> <=> mounts = <<e>>)
    BY <1>1
  <2>. QED
    BY ONLY <1>4, <2>1, <2>2, <2>3, <2>4, OneClientMoves, DaemonInv, c \in Client, e \in Daemon
<1>. QED
  BY <1>6, <1>7 DEF DaemonInv

\* A daemon is started in a process that serves no mount.
LEMMA RetryStep ==
  ASSUME DaemonInv, NEW c \in Client, Retry(c)
  PROVE  DaemonInv'
<1>0. cl \in [Client -> ClientRec] /\ cl[c] \in ClientRec /\ dm \in [Daemon -> DaemonRec]
  BY DEF DaemonInv, Shape
<1>1. UNCHANGED <<lock, mounts>> /\ cl[c].pc = "refused"
  BY DEF Retry
<1>2. CASE cl[c].retry = MaxRetries
  <2>1. cl' = [cl EXCEPT ![c].pc = "failed"] /\ UNCHANGED dm
    BY <1>2 DEF Retry
  <2>2. /\ cl' \in [Client -> ClientRec]
        /\ \A x \in Client \ {c} : cl'[x] = cl[x]
    BY ONLY <1>0, <2>1 DEF ClientRec
  <2>3. cl'[c].pc = "failed" /\ cl'[c].f = cl[c].f /\ cl'[c].l = cl[c].l
    BY ONLY <1>0, <2>1 DEF ClientRec
  <2>4. cl[c].pc \in Joining
    BY <1>1 DEF Joining
  <2>. QED
    BY <1>1, <2>1, <2>2, <2>3, <2>4, ClientMoves
<1>3. CASE cl[c].retry # MaxRetries
  <2>1. PICK d \in Daemon :
          /\ dm[d] = NoDaemon /\ ~Mounted(d)
          /\ dm' = [dm EXCEPT ![d].pc = "mkdir"]
          /\ cl' = [cl EXCEPT ![c].pc = "sleep", ![c].kid = d, ![c].retry = @ + 1]
    BY <1>3 DEF Retry
  <2>. DEFINE k == cl[c].retry + 1
              K == [cl[c] EXCEPT !.pc = "sleep", !.kid = d, !.retry = k]
  <2>2. k \in Nat
    BY <1>0 DEF ClientRec
  <2>3. cl' = [cl EXCEPT ![c] = K]
    BY <2>1, ZenonT(30)
  <2>. HIDE DEF k
  <2>4. K \in ClientRec /\ K.pc = "sleep" /\ K.f = cl[c].f /\ K.l = cl[c].l
    BY ONLY <1>0, <2>2, d \in Daemon, ZenonT(30) DEF ClientRec
  <2>. HIDE DEF K
  <2>5. /\ cl' \in [Client -> ClientRec] /\ cl'[c] = K
        /\ \A x \in Client \ {c} : cl'[x] = cl[x]
    BY ONLY <1>0, <2>3, <2>4
  <2>6. /\ dm' \in [Daemon -> DaemonRec]
        /\ \A e \in Daemon \ {d} : dm'[e] = dm[e]
    <3>1. dm' = [dm EXCEPT ![d].pc = "mkdir"]
      BY <2>1
    <3>. QED
      BY ONLY <1>0, <3>1, d \in Daemon DEF DaemonRec
  <2>7. /\ dm'[d].pc = "mkdir" /\ dm'[d].uses = {} /\ dm'[d].jobs = {} /\ dm'[d].half = NULL
        /\ dm'[d].closed = {} /\ dm'[d].attempts = 0 /\ dm'[d].child = "none"
        /\ dm'[d].linger = FALSE
    <3>1. dm'[d] = [NoDaemon EXCEPT !.pc = "mkdir"]
      BY ONLY <1>0, <2>1
    <3>. QED
      BY ONLY <3>1, NoDaemonFields DEF DaemonRec
  <2>8. dm[d].pc = "off" /\ mounts # <<d>>
    <3>1. mounts # <<d>>
      BY <2>1, OneOnTop DEF DaemonInv
    <3>. QED
      BY <2>1, <3>1, NoDaemonFields
  <2>9. Shape'
    BY <1>1, <2>5, <2>6 DEF DaemonInv, Shape
  <2>10. Good(d)'
    <3>1. \A x \in Client : cl[x].f # d /\ cl[x].l # d
      BY <2>8, DaemonShape DEF Kept
    <3>2. \A x \in Client : cl'[x].f # d /\ cl'[x].l # d
      BY ONLY <2>4, <2>5, <3>1, c \in Client
    <3>3. lock # d
      BY <2>8, DaemonShape DEF Held
    <3>4. Held(d)' /\ Exiting(d)'
      BY ONLY <1>1, <2>7, <2>8, <3>3 DEF Held, Exiting
    <3>5. Counted(d)' /\ \A x \in Client : Kept(d, x)'
      BY ONLY <2>7, <3>2 DEF Counted, Busy, Halfway, Kept, Granted
    <3>. QED
      BY <3>4, <3>5 DEF Good
  <2>11. ASSUME NEW e \in Daemon \ {d}
         PROVE  Good(e)'
    <3>1. dm[e].half # NULL => dm[e].half.c # c
      BY <1>1, JoiningFacts
    <3>2. \A r \in dm[e].closed : r.c = c =>
             /\ r.kind = "f" => cl'[c].f # e
             /\ r.kind = "l" => cl'[c].l # e
             /\ cl'[c].pc \notin Joining
      BY <1>1, JoiningFacts DEF Joining
    <3>3. /\ dm'[e] = dm[e] /\ (lock' = e <=> lock = e)
          /\ (mounts' = <<e>> <=> mounts = <<e>>)
      BY <1>1, <2>6
    <3>4. Kept(e, c)'
      <4>1. Kept(e, c)
        BY DaemonShape
      <4>. QED
        BY ONLY <1>1, <2>4, <2>5, <3>3, <4>1 DEF Kept, Granted
    <3>. QED
      BY ONLY <2>5, <3>1, <3>2, <3>3, <3>4, OneClientMoves, DaemonInv, c \in Client, e \in Daemon
  <2>. QED
    BY <2>9, <2>10, <2>11 DEF DaemonInv
<1>. QED
  BY <1>2, <1>3

\* A client closes descriptors and keeps the others: its daemons hear of the
\* ones they had counted.
LEMMA ClosedStep ==
  ASSUME DaemonInv, NEW c \in Client, NEW K \in SUBSET {"f", "l"},
         UNCHANGED <<lock, mounts>>, dm' = Closed(c, K),
         cl' \in [Client -> ClientRec], \A x \in Client \ {c} : cl'[x] = cl[x],
         cl[c].pc \notin {"openF", "createL"}, cl'[c].pc \notin Joining,
         cl'[c].f = IF "f" \in K THEN NULL ELSE cl[c].f,
         cl'[c].l = IF "l" \in K THEN NULL ELSE cl[c].l
  PROVE  DaemonInv'
<1>0. dm \in [Daemon -> DaemonRec]
  BY DEF DaemonInv, Shape
<1>. DEFINE S(e) == {r \in [c : {c}, kind : K] :
                       \/ r.kind = "f" /\ cl[c].f = e /\ c \in dm[e].uses
                       \/ r.kind = "l" /\ cl[c].l = e /\ c \in dm[e].jobs}
<1>1. ASSUME NEW e \in Daemon
      PROVE  dm'[e] = [dm[e] EXCEPT !.closed = @ \cup S(e)]
  BY <1>1 DEF Closed
<1>2. dm' = [e \in Daemon |-> dm'[e]]
  BY DEF Closed
<1>3. ASSUME NEW e \in Daemon
      PROVE  /\ S(e) \subseteq ClosedRec
             /\ \A r \in S(e) :
                  /\ r.c = c /\ r.kind \in K
                  /\ r.kind = "f" => cl[c].f = e /\ c \in dm[e].uses
                  /\ r.kind = "l" => cl[c].l = e /\ c \in dm[e].jobs
  BY DEF ClosedRec
<1>. HIDE DEF S
<1>4. ASSUME NEW e \in Daemon
      PROVE  /\ dm'[e] \in DaemonRec
             /\ dm'[e].pc = dm[e].pc /\ dm'[e].uses = dm[e].uses /\ dm'[e].jobs = dm[e].jobs
             /\ dm'[e].half = dm[e].half /\ dm'[e].attempts = dm[e].attempts
             /\ dm'[e].child = dm[e].child /\ dm'[e].linger = dm[e].linger
             /\ dm'[e].termed = dm[e].termed
             /\ dm'[e].closed = dm[e].closed \cup S(e)
  <2>1. dm[e] \in DaemonRec
    BY <1>0
  <2>2. dm[e].closed \cup S(e) \in SUBSET ClosedRec
    BY <1>3, <2>1 DEF DaemonRec
  <2>. DEFINE Z == dm[e].closed \cup S(e)
  <2>3. dm'[e] = [dm[e] EXCEPT !.closed = Z] /\ Z \in SUBSET ClosedRec
    BY <1>1, <2>2
  <2>. HIDE DEF Z
  <2>4. dm'[e] \in DaemonRec
    BY ONLY <2>1, <2>3 DEF DaemonRec
  <2>5. /\ dm'[e].pc = dm[e].pc /\ dm'[e].uses = dm[e].uses /\ dm'[e].jobs = dm[e].jobs
        /\ dm'[e].half = dm[e].half /\ dm'[e].attempts = dm[e].attempts
        /\ dm'[e].child = dm[e].child /\ dm'[e].linger = dm[e].linger
        /\ dm'[e].termed = dm[e].termed /\ dm'[e].closed = Z
    BY ONLY <2>1, <2>3 DEF DaemonRec
  <2>. QED
    BY <2>4, <2>5 DEF Z
<1>5. Shape'
  <2>1. dm' \in [Daemon -> DaemonRec]
    BY ONLY <1>2, <1>4
  <2>. QED
    BY <2>1 DEF DaemonInv, Shape
<1>6. ASSUME NEW e \in Daemon
      PROVE  Good(e)'
  <2>0. Held(e) /\ Exiting(e) /\ Counted(e) /\ dm[e] \in DaemonRec
    BY DaemonShape
  <2>1. Held(e)'
    <3>1. dm[e].pc = "off" => dm'[e] = NoDaemon
      <4>1. SUFFICES ASSUME dm[e] = NoDaemon PROVE dm'[e] = NoDaemon
        BY <2>0 DEF Held
      <4>2. dm[e].uses = {} /\ dm[e].jobs = {} /\ dm[e].closed = {}
        BY ONLY <4>1, NoDaemonFields
      <4>3. \A r \in S(e) : r.kind \in {"f", "l"}
        BY <1>3
      <4>4. dm[e].closed \cup S(e) = dm[e].closed
        BY ONLY <1>3, <4>2, <4>3, e \in Daemon
      <4>. QED
        BY ONLY <1>1, <2>0, <4>1, <4>4, e \in Daemon DEF DaemonRec
    <3>. QED
      BY ONLY <1>4, <2>0, <3>1, e \in Daemon, UNCHANGED <<lock, mounts>> DEF Held
  <2>2. Exiting(e)'
    BY ONLY <1>4, <2>0, e \in Daemon DEF Exiting
  <2>3. Counted(e)'
    <3>1. e # NULL
      BY DaemonAssumption
    <3>2. ASSUME NEW r \in dm'[e].closed
          PROVE  ClosedFits(e, r)'
      <4>0. dm'[e].uses = dm[e].uses /\ dm'[e].jobs = dm[e].jobs
        BY <1>4
      <4>1. r \in dm[e].closed \/ r \in S(e)
        BY <1>4
      <4>2. CASE r \in S(e)
        <5>1. /\ r.c = c /\ r.kind \in K
              /\ r.kind = "f" => cl[c].f = e /\ c \in dm[e].uses
              /\ r.kind = "l" => cl[c].l = e /\ c \in dm[e].jobs
          BY <1>3, <4>2
        <5>2. /\ r.kind = "f" => cl'[c].f = NULL
              /\ r.kind = "l" => cl'[c].l = NULL
          BY <5>1
        <5>. QED
          BY ONLY <3>1, <4>0, <5>1, <5>2, cl'[c].pc \notin Joining DEF ClosedFits
      <4>3. CASE r \in dm[e].closed
        <5>1. r.c \in Client
          BY <2>0, <4>3 DEF DaemonRec, ClosedRec
        <5>2. ClosedFits(e, r)
          BY <2>0, <4>3 DEF Counted
        <5>3. CASE r.c # c
          <6>1. cl'[r.c] = cl[r.c]
            BY <5>1, <5>3
          <6>. QED
            BY ONLY <4>0, <5>2, <6>1 DEF ClosedFits
        <5>4. CASE r.c = c
          BY <3>1, <4>0, <5>2, <5>4 DEF ClosedFits
        <5>. QED
          BY <5>3, <5>4
      <4>. QED
        BY <4>1, <4>2, <4>3
    <3>3. dm'[e].closed # {} => dm[e].pc \in {"serve", "waitpid"}
      <4>1. SUFFICES ASSUME NEW r \in dm'[e].closed
                     PROVE  dm[e].pc \in {"serve", "waitpid"}
        OBVIOUS
      <4>2. r.kind \in {"f", "l"}
        <5>1. dm'[e] \in DaemonRec
          BY <1>4
        <5>. QED
          BY ONLY <4>1, <5>1 DEF DaemonRec, ClosedRec
      <4>. QED
        <5>1. dm'[e].uses = dm[e].uses /\ dm'[e].jobs = dm[e].jobs
          BY <1>4
        <5>2. dm[e].uses # {} \/ dm[e].jobs # {}
          BY ONLY <3>2, <4>1, <4>2, <5>1 DEF ClosedFits
        <5>. QED
          BY ONLY <2>0, <5>2 DEF Counted, Busy
    <3>4. dm[e].half # NULL => cl'[dm[e].half.c] = cl[dm[e].half.c]
      <4>1. SUFFICES ASSUME dm[e].half # NULL PROVE cl'[dm[e].half.c] = cl[dm[e].half.c]
        OBVIOUS
      <4>2. dm[e].half.c \in Client
        BY <2>0, <4>1 DEF DaemonRec, HalfRec
      <4>3. dm[e].half.c # c
        BY <4>1, JoiningFacts
      <4>. QED
        BY <4>2, <4>3
    <3>. QED
      <4>1. /\ dm'[e].pc = dm[e].pc /\ dm'[e].uses = dm[e].uses /\ dm'[e].jobs = dm[e].jobs
            /\ dm'[e].half = dm[e].half /\ dm'[e].attempts = dm[e].attempts
            /\ dm'[e].termed = dm[e].termed
        BY <1>4
      <4>2. Busy(e)'
        BY ONLY <2>0, <3>3, <4>1 DEF Counted, Busy
      <4>3. Halfway(e)'
        BY ONLY <2>0, <3>4, <4>1 DEF Counted, Halfway, Waits
      <4>. QED
        BY ONLY <3>2, <4>2, <4>3 DEF Counted
  <2>4. ASSUME NEW x \in Client
        PROVE  Kept(e, x)'
    <3>1. Kept(e, x) /\ e # NULL
      BY DaemonShape, DaemonAssumption
    <3>2. /\ cl'[x].f = e => cl[x].f = e /\ (cl'[x].pc # "openF" => cl[x].pc # "openF")
          /\ cl'[x].l = e => cl[x].l = e /\ (cl'[x].pc # "createL" => cl[x].pc # "createL")
      BY <3>1
    <3>. QED
      BY ONLY <1>4, <3>1, <3>2, e \in Daemon, UNCHANGED <<lock, mounts>> DEF Kept, Granted
  <2>. QED
    BY <2>1, <2>2, <2>3, <2>4 DEF Good
<1>. QED
  BY <1>5, <1>6 DEF DaemonInv

\* The marker is closed, or the process ends with all its descriptors.
LEMMA CloseStep ==
  ASSUME DaemonInv, NEW c \in Client, CloseF(c) \/ ExitClient(c) \/ KillClient(c)
  PROVE  DaemonInv'
<1>0. cl \in [Client -> ClientRec] /\ cl[c] \in ClientRec
  BY DEF DaemonInv, Shape
<1>1. CASE CloseF(c)
  <2>1. /\ dm' = Closed(c, {"f"}) /\ UNCHANGED <<lock, mounts>> /\ cl[c].pc = "hasL"
        /\ cl' = [cl EXCEPT ![c].pc = "input", ![c].f = NULL]
    BY <1>1 DEF CloseF
  <2>2. /\ cl' \in [Client -> ClientRec]
        /\ \A x \in Client \ {c} : cl'[x] = cl[x]
    BY ONLY <1>0, <2>1, ZenonT(30) DEF ClientRec
  <2>3. cl'[c].pc = "input" /\ cl'[c].f = NULL /\ cl'[c].l = cl[c].l
    BY ONLY <1>0, <2>1 DEF ClientRec
  <2>4. cl'[c].pc \notin Joining
    BY <2>3 DEF Joining
  <2>. DEFINE K == {"f"}
  <2>5. K \in SUBSET {"f", "l"} /\ dm' = Closed(c, K) /\ "f" \in K /\ "l" \notin K
    BY <2>1
  <2>. HIDE DEF K
  <2>. QED
    BY ONLY <2>1, <2>2, <2>3, <2>4, <2>5, ClosedStep, DaemonInv, c \in Client
<1>2. CASE ExitClient(c) \/ KillClient(c)
  <2>1. /\ dm' = Closed(c, {"f", "l"}) /\ UNCHANGED <<lock, mounts>>
        /\ cl[c].pc \notin {"openF", "createL"} /\ cl' = [cl EXCEPT ![c] = NoClient]
    BY <1>2 DEF ExitClient, KillClient, Leave
  <2>2. /\ NoClient \in ClientRec /\ NoClient.pc = "idle" /\ NoClient.f = NULL
        /\ NoClient.l = NULL
    BY DEF NoClient, ClientRec
  <2>3. /\ cl' \in [Client -> ClientRec] /\ cl'[c] = NoClient
        /\ \A x \in Client \ {c} : cl'[x] = cl[x]
    BY ONLY <1>0, <2>1, <2>2, c \in Client
  <2>4. cl'[c].pc \notin Joining
    BY <2>2, <2>3 DEF Joining
  <2>. DEFINE K == {"f", "l"}
  <2>5. K \in SUBSET {"f", "l"} /\ dm' = Closed(c, K) /\ "f" \in K /\ "l" \in K
    BY <2>1
  <2>. HIDE DEF K
  <2>. QED
    BY ONLY <2>1, <2>2, <2>3, <2>4, <2>5, ClosedStep, DaemonInv, c \in Client
<1>. QED
  BY <1>1, <1>2

-----------------------------------------------------------------------------
(* The theorems *)

\* Nothing is mounted and nobody runs in the beginning.
LEMMA DaemonInvInit == Init => DaemonInv
<1>. SUFFICES ASSUME Init PROVE DaemonInv
  OBVIOUS
<1>1. NoDaemon \in DaemonRec /\ NoClient \in ClientRec
  BY NoDaemonFields DEF NoClient, ClientRec
<1>2. Shape
  BY <1>1 DEF Init, Shape
<1>3. ASSUME NEW d \in Daemon
      PROVE  Good(d)
  <2>1. dm[d] = NoDaemon /\ mounts = << >> /\ lock = NULL /\ d # NULL
    BY DaemonAssumption DEF Init
  <2>2. /\ dm[d].pc = "off" /\ dm[d].uses = {} /\ dm[d].jobs = {} /\ dm[d].half = NULL
        /\ dm[d].closed = {} /\ dm[d].attempts = 0 /\ dm[d].child = "none"
        /\ dm[d].linger = FALSE
    BY ONLY <2>1, NoDaemonFields
  <2>3. \A c \in Client : cl[c].f # d /\ cl[c].l # d
    BY <2>1 DEF Init, NoClient
  <2>4. Held(d) /\ Exiting(d)
    BY ONLY <2>1, <2>2 DEF Held, Exiting
  <2>5. Counted(d) /\ \A c \in Client : Kept(d, c)
    BY ONLY <2>2, <2>3 DEF Counted, Busy, Halfway, Kept, Granted
  <2>. QED
    BY <2>4, <2>5 DEF Good
<1>. QED
  BY <1>2, <1>3 DEF DaemonInv

\* Every step of a daemon, of a client or of a signal keeps the invariant.
LEMMA DaemonInvNext == DaemonInv /\ [Next]_vars => DaemonInv'
<1>. SUFFICES ASSUME DaemonInv, [Next]_vars PROVE DaemonInv'
  OBVIOUS
<1>1. ASSUME NEW d \in Daemon, DaemonStep(d)
      PROVE  DaemonInv'
  BY <1>1, MakeDirStep, TakeLockStep, MountStep, CancelCheckStep, CancelTimerStep,
     CountUseStep, ReleaseStep, QuietStep, HandleAlarmStep, ReapedStep, ChildUnmountsStep,
     LoopEndsStep, RemoveDirStep, ExitDaemonStep DEF DaemonStep
<1>2. ASSUME NEW d \in Daemon, HandleTerm(d)
      PROVE  DaemonInv'
  BY <1>2, HandleTermStep
<1>3. ASSUME NEW c \in Client, ClientStep(c)
      PROVE  DaemonInv'
  BY <1>3, ClientStepOnly, RetryStep, DisconnectedStep, CloseStep DEF ClientStep
<1>4. ASSUME NEW c \in Client, Connect(c) \/ KillClient(c)
      PROVE  DaemonInv'
  BY <1>4, ClientStepOnly, CloseStep
<1>5. CASE UNCHANGED vars
  BY <1>5, NothingMoves DEF vars
<1>. QED
  BY <1>1, <1>2, <1>3, <1>4, <1>5 DEF Next

\* The invariant holds throughout.
LEMMA DaemonInvAlways == Spec => []DaemonInv
BY DaemonInvInit, DaemonInvNext, PTL DEF Spec

\* The lock on the log file keeps a second file system off the mount point,
\* however daemons are started, signalled, refused and replaced.
THEOREM NeverTwoMounts == Spec => []OneMount
<1>1. DaemonInv => OneMount
  <2>1. CASE mounts = << >>
    BY <2>1 DEF OneMount
  <2>2. ASSUME NEW e \in Daemon, mounts = <<e>> PROVE OneMount
    BY <2>2 DEF OneMount
  <2>. QED
    BY <2>1, <2>2 DEF DaemonInv, Shape
<1>. QED
  BY <1>1, DaemonInvAlways, PTL

\* A client whose descriptor cancel_exit granted keeps a daemon that makes no
\* attempt to exit and that serves the mount point, unless a signal told the
\* daemon to terminate.
THEOREM CancelAlwaysHonoured == Spec => []CancelIsHonoured
<1>1. DaemonInv => CancelIsHonoured
  <2>. SUFFICES ASSUME DaemonInv, NEW d \in Daemon, NEW c \in Client, Granted(d, c),
                       ~dm[d].termed, dm[d] # NoDaemon
                PROVE  dm[d].attempts = 0 /\ Top = d
    BY DEF CancelIsHonoured, Granted
  <2>1. dm[d].pc # "off"
    BY DaemonShape DEF Held
  <2>2. dm[d].pc \in {"serve", "waitpid"} /\ dm[d].attempts = 0
    BY <2>1, DaemonShape DEF Kept, Granted
  <2>3. mounts = <<d>>
    BY <2>2, DaemonShape DEF Exiting, Held
  <2>. QED
    BY <2>2, <2>3, OneOnTop, DaemonShape
<1>. QED
  BY <1>1, DaemonInvAlways, PTL
=============================================================================
