------------------------- MODULE RunRegistryProofs -------------------------
(***************************************************************************)
(* The run protocol of database.cpp and run_lock.cpp is right for any      *)
(* number of processes and runs, wherever processes crash: RegistryInv is  *)
(* inductive, the safety properties of RunRegistry follow from it, and     *)
(* with it every step of the protocol is a step of ActiveRuns.             *)
(*                                                                         *)
(* The argument in short.  A process has the fcntl lock of its run from    *)
(* before the row is committed until it is gone (LockInv), and its lock    *)
(* file is linked while it builds.  A reaper declares dead what it could   *)
(* lock itself, or what has no lock file; neither is a run under way       *)
(* (ProbeInv).  What a reaper has listed has a row, so it is never the id  *)
(* that a prepare in progress was given, whose row is not committed        *)
(* (RowInv): the wait for the lock inside prepare's transaction finds it   *)
(* free.                                                                   *)
(***************************************************************************)
EXTENDS RunRegistry, TLAPS

Preparing == {"insert", "lockfile", "commit"}

\* p has the fcntl lock of its own run, until it is gone.
HoldsOwn(p) == me[p] # 0 /\ pc[p] \notin {"insert", "lockfile"}

\* What the place of a process says about its memory.
PhaseInv ==
  \A p \in Proc :
    /\ pc[p] \in {"idle", "clear", "clearing"} => me[p] = 0
    /\ pc[p] \in Preparing \cup {"watermark", "build", "unlock", "exit"} => me[p] # 0
    /\ pc[p] \in {"try", "unlink"} => opened[p] \in listed[p]
    /\ pc[p] \notin {"probe", "try", "unlink"} => listed[p] = {} /\ found[p] = {}

\* Who is inside prepare's transaction, or deletes, has the write lock.
WriterInv ==
  /\ \A p \in Proc : pc[p] \in Preparing \cup {"clearing"} => writer = p
  /\ \A p \in Proc : pc[p] = "clearing" => Open = {}

\* What the place of a process says about the row of its run.
RowInv ==
  \A p \in Proc :
    /\ pc[p] \in Preparing => /\ runs[me[p]] = "absent"
                              /\ \A q \in 1 .. (me[p] - 1) : runs[q] # "absent"
    /\ Building(p) => runs[me[p]] = "running"
    /\ pc[p] \in {"unlock", "exit"} => runs[me[p]] \in {"done", "reaped"}

\* A run has one process.
OneProcess == \A p, q \in Proc : me[p] = me[q] /\ me[p] # 0 => p = q

\* Who holds which lock, and which lock files are there.
LockInv ==
  /\ \A p \in Proc : HoldsOwn(p) => holder[me[p]] = p
  /\ \A p \in Proc : pc[p] = "unlink" => holder[opened[p]] = p
  /\ \A p \in Proc, r \in Run : holder[r] = p =>
       (me[p] = r /\ HoldsOwn(p)) \/ (pc[p] = "unlink" /\ opened[p] = r)
  /\ \A p \in Proc : pc[p] \in {"lockfile", "commit"} \/ Building(p) => me[p] \in linked

\* What a reaper has listed has a row and is not its own; what it has found
\* dead is not under way.
ProbeInv ==
  \A p \in Proc :
    /\ me[p] \notin listed[p] \cup found[p]
    /\ \A r \in listed[p] \cup found[p] : runs[r] # "absent"
    /\ \A q \in Proc : Building(q) => me[q] \notin found[p]

RegistryInv ==
  TypeOK /\ PhaseInv /\ WriterInv /\ RowInv /\ OneProcess /\ LockInv /\ ProbeInv
-----------------------------------------------------------------------------
(* Every action keeps the invariant *)

\* No process, no run, no lock file.
LEMMA RegistryInitInv == Init => RegistryInv
  BY RegistryAssumption DEF Init, RegistryInv, TypeOK, PhaseInv, WriterInv, RowInv, OneProcess,
     LockInv, ProbeInv, Preparing, HoldsOwn, Building, Open, Run, Phase

\* prepare's insert, under the write lock: the id is nobody else's.
LEMMA InsertRunInv ==
  ASSUME RegistryInv, NEW p \in Proc, InsertRun(p)
  PROVE  RegistryInv'
<1> USE RegistryAssumption DEF RegistryInv, TypeOK, PhaseInv, WriterInv, RowInv, OneProcess, LockInv, ProbeInv,
     Preparing, HoldsOwn, Building, Open, Run, Phase, CanWrite, goto, NextProbe
<1>1. TypeOK'
  BY DEF InsertRun
<1>2. PhaseInv'
  BY DEF InsertRun
<1>3. WriterInv'
  BY DEF InsertRun
<1>4. RowInv'
  BY DEF InsertRun
<1>5. OneProcess'
  <2> PICK r \in Run : runs[r] = "absent" /\ me' = [me EXCEPT ![p] = r]
    BY DEF InsertRun
  <2>1. ASSUME NEW q \in Proc, me[q] = r PROVE FALSE
    <3>1. me[q] # 0 /\ pc[q] \in Phase
      BY <2>1
    <3>2. pc[q] \notin Preparing
      BY <2>1 DEF InsertRun
    <3>3. ~Building(q) /\ pc[q] \notin {"unlock", "exit"}
      BY <2>1
    <3> QED
      BY <3>1, <3>2, <3>3
  <2> QED
    BY <2>1
<1>6. LockInv'
  BY DEF InsertRun
<1>7. ProbeInv'
  BY DEF InsertRun
<1> QED
  BY <1>1, <1>2, <1>3, <1>4, <1>5, <1>6, <1>7

\* The lock file is created, or one left by an earlier process is met.
LEMMA CreateLockInv ==
  ASSUME RegistryInv, NEW p \in Proc, CreateLock(p)
  PROVE  RegistryInv'
<1> USE RegistryAssumption DEF RegistryInv, TypeOK, PhaseInv, WriterInv, RowInv, OneProcess, LockInv, ProbeInv,
     Preparing, HoldsOwn, Building, Open, Run, Phase, CanWrite, goto, NextProbe
<1>1. TypeOK'
  <2>1. me[p] \in Run
    BY DEF CreateLock
  <2>2. linked' \in SUBSET Run
    BY ONLY <2>1, TypeOK, CreateLock(p) DEF CreateLock, TypeOK
  <2> QED
    BY <2>2 DEF CreateLock
<1>2. PhaseInv'
  BY DEF CreateLock
<1>3. WriterInv'
  BY DEF CreateLock
<1>4. RowInv'
  BY DEF CreateLock
<1>5. OneProcess'
  BY DEF CreateLock
<1>6. LockInv'
  BY DEF CreateLock
<1>7. ProbeInv'
  BY DEF CreateLock
<1> QED
  BY <1>1, <1>2, <1>3, <1>4, <1>5, <1>6, <1>7

\* F_SETLKW succeeds.
LEMMA AcquireLockInv ==
  ASSUME RegistryInv, NEW p \in Proc, AcquireLock(p)
  PROVE  RegistryInv'
<1> USE RegistryAssumption DEF RegistryInv, TypeOK, PhaseInv, WriterInv, RowInv, OneProcess, LockInv, ProbeInv,
     Preparing, HoldsOwn, Building, Open, Run, Phase, CanWrite, goto, NextProbe
<1>1. TypeOK'
  BY DEF AcquireLock
<1>2. PhaseInv'
  BY DEF AcquireLock
<1>3. WriterInv'
  BY DEF AcquireLock
<1>4. RowInv'
  BY DEF AcquireLock
<1>5. OneProcess'
  BY DEF AcquireLock
<1>6. LockInv'
  BY DEF AcquireLock
<1>7. ProbeInv'
  BY DEF AcquireLock
<1> QED
  BY <1>1, <1>2, <1>3, <1>4, <1>5, <1>6, <1>7

\* prepare commits: its lock is taken already, so no reaper can find the run dead.
LEMMA CommitRunInv ==
  ASSUME RegistryInv, NEW p \in Proc, CommitRun(p)
  PROVE  RegistryInv'
<1> USE RegistryAssumption DEF RegistryInv, TypeOK, PhaseInv, WriterInv, RowInv, OneProcess, LockInv, ProbeInv,
     Preparing, HoldsOwn, Building, Open, Run, Phase, CanWrite, goto, NextProbe
<1>1. TypeOK'
  BY DEF CommitRun
<1>2. PhaseInv'
  BY DEF CommitRun
<1>3. WriterInv'
  BY DEF CommitRun
<1>4. RowInv'
  BY DEF CommitRun
<1>5. OneProcess'
  BY DEF CommitRun
<1>6. LockInv'
  BY DEF CommitRun
<1>7. ProbeInv'
  BY DEF CommitRun
<1> QED
  BY <1>1, <1>2, <1>3, <1>4, <1>5, <1>6, <1>7

\* --clean and --prune begin with reaping.
LEMMA StartMaintenanceInv ==
  ASSUME RegistryInv, NEW p \in Proc, StartMaintenance(p)
  PROVE  RegistryInv'
<1> USE RegistryAssumption DEF RegistryInv, TypeOK, PhaseInv, WriterInv, RowInv, OneProcess, LockInv, ProbeInv,
     Preparing, HoldsOwn, Building, Open, Run, Phase, CanWrite, goto, NextProbe
<1>1. TypeOK'
  BY DEF StartMaintenance
<1>2. PhaseInv'
  BY DEF StartMaintenance
<1>3. WriterInv'
  BY DEF StartMaintenance
<1>4. RowInv'
  BY DEF StartMaintenance
<1>5. OneProcess'
  BY DEF StartMaintenance
<1>6. LockInv'
  BY DEF StartMaintenance
<1>7. ProbeInv'
  BY DEF StartMaintenance
<1> QED
  BY <1>1, <1>2, <1>3, <1>4, <1>5, <1>6, <1>7

\* reap_dead_runs lists open rows only, without its own.
LEMMA ListIncompleteInv ==
  ASSUME RegistryInv, NEW p \in Proc, ListIncomplete(p)
  PROVE  RegistryInv'
<1> USE RegistryAssumption DEF RegistryInv, TypeOK, PhaseInv, WriterInv, RowInv, OneProcess, LockInv, ProbeInv,
     Preparing, HoldsOwn, Building, Open, Run, Phase, CanWrite, goto, NextProbe
<1>1. TypeOK'
  BY DEF ListIncomplete
<1>2. PhaseInv'
  BY DEF ListIncomplete
<1>3. WriterInv'
  BY DEF ListIncomplete
<1>4. RowInv'
  BY DEF ListIncomplete
<1>5. OneProcess'
  BY DEF ListIncomplete
<1>6. LockInv'
  BY DEF ListIncomplete
<1>7. ProbeInv'
  BY DEF ListIncomplete
<1> QED
  BY <1>1, <1>2, <1>3, <1>4, <1>5, <1>6, <1>7

\* A run without a lock file is found dead, which a run under way is not.
LEMMA ProbeMissingInv ==
  ASSUME RegistryInv, NEW p \in Proc, NEW r \in Run, ProbeMissing(p, r)
  PROVE  RegistryInv'
<1> USE RegistryAssumption DEF RegistryInv, TypeOK, PhaseInv, WriterInv, RowInv, OneProcess, LockInv, ProbeInv,
     Preparing, HoldsOwn, Building, Open, Run, Phase, CanWrite, goto, NextProbe
<1>1. TypeOK'
  <2>1. listed' \in [Proc -> SUBSET Run] /\ found' \in [Proc -> SUBSET Run]
    BY DEF ProbeMissing
  <2> QED
    BY <2>1 DEF ProbeMissing
<1>2. PhaseInv'
  BY DEF ProbeMissing
<1>3. WriterInv'
  BY DEF ProbeMissing
<1>4. RowInv'
  BY DEF ProbeMissing
<1>5. OneProcess'
  BY DEF ProbeMissing
<1>6. LockInv'
  BY DEF ProbeMissing
<1>7. ProbeInv'
  BY DEF ProbeMissing
<1> QED
  BY <1>1, <1>2, <1>3, <1>4, <1>5, <1>6, <1>7

\* The lock file of the next listed run is opened.
LEMMA ProbeOpenInv ==
  ASSUME RegistryInv, NEW p \in Proc, NEW r \in Run, ProbeOpen(p, r)
  PROVE  RegistryInv'
<1> USE RegistryAssumption DEF RegistryInv, TypeOK, PhaseInv, WriterInv, RowInv, OneProcess, LockInv, ProbeInv,
     Preparing, HoldsOwn, Building, Open, Run, Phase, CanWrite, goto, NextProbe
<1>1. TypeOK'
  <2>1. opened' \in [Proc -> 0 .. MaxRun] /\ pc' \in [Proc -> Phase]
    BY DEF ProbeOpen
  <2> QED
    BY <2>1 DEF ProbeOpen
<1>2. PhaseInv'
  BY DEF ProbeOpen
<1>3. WriterInv'
  BY DEF ProbeOpen
<1>4. RowInv'
  BY DEF ProbeOpen
<1>5. OneProcess'
  BY DEF ProbeOpen
<1>6. LockInv'
  <2>1. \A q \in Proc : HoldsOwn(q)' => holder'[me'[q]] = q
    BY DEF ProbeOpen
  <2>2. \A q \in Proc : pc'[q] = "unlink" => holder'[opened'[q]] = q
    BY DEF ProbeOpen
  <2>3. \A q \in Proc, s \in Run : holder'[s] = q =>
          (me'[q] = s /\ HoldsOwn(q)') \/ (pc'[q] = "unlink" /\ opened'[q] = s)
    BY DEF ProbeOpen
  <2>4. \A q \in Proc : pc'[q] \in {"lockfile", "commit"} \/ Building(q)' => me'[q] \in linked'
    BY DEF ProbeOpen
  <2> QED
    BY <2>1, <2>2, <2>3, <2>4
<1>7. ProbeInv'
  BY DEF ProbeOpen
<1> QED
  BY <1>1, <1>2, <1>3, <1>4, <1>5, <1>6, <1>7

\* F_SETLK succeeds: nobody had the lock.
LEMMA ProbeLockInv ==
  ASSUME RegistryInv, NEW p \in Proc, ProbeLock(p)
  PROVE  RegistryInv'
<1> USE RegistryAssumption DEF RegistryInv, TypeOK, PhaseInv, WriterInv, RowInv, OneProcess, LockInv, ProbeInv,
     Preparing, HoldsOwn, Building, Open, Run, Phase, CanWrite, goto, NextProbe
<1>1. TypeOK'
  BY DEF ProbeLock
<1>2. PhaseInv'
  BY DEF ProbeLock
<1>3. WriterInv'
  BY DEF ProbeLock
<1>4. RowInv'
  BY DEF ProbeLock
<1>5. OneProcess'
  BY DEF ProbeLock
<1>6. LockInv'
  BY DEF ProbeLock
<1>7. ProbeInv'
  BY DEF ProbeLock
<1> QED
  BY <1>1, <1>2, <1>3, <1>4, <1>5, <1>6, <1>7

\* Somebody has the lock, and the run is left alone.
LEMMA ProbeHeldInv ==
  ASSUME RegistryInv, NEW p \in Proc, ProbeHeld(p)
  PROVE  RegistryInv'
<1> USE RegistryAssumption DEF RegistryInv, TypeOK, PhaseInv, WriterInv, RowInv, OneProcess, LockInv, ProbeInv,
     Preparing, HoldsOwn, Building, Open, Run, Phase, CanWrite, goto, NextProbe
<1>1. TypeOK'
  <2>1. /\ listed' \in [Proc -> SUBSET Run]
        /\ opened' \in [Proc -> 0 .. MaxRun]
        /\ pc' \in [Proc -> Phase]
    BY DEF ProbeHeld
  <2> QED
    BY <2>1 DEF ProbeHeld
<1>2. PhaseInv'
  BY DEF ProbeHeld
<1>3. WriterInv'
  BY DEF ProbeHeld
<1>4. RowInv'
  BY DEF ProbeHeld
<1>5. OneProcess'
  BY DEF ProbeHeld
<1>6. LockInv'
  <2>1. \A q \in Proc : HoldsOwn(q)' => holder'[me'[q]] = q
    BY DEF ProbeHeld
  <2>2. \A q \in Proc : pc'[q] = "unlink" => holder'[opened'[q]] = q
    BY DEF ProbeHeld
  <2>3. \A q \in Proc, s \in Run : holder'[s] = q =>
          (me'[q] = s /\ HoldsOwn(q)') \/ (pc'[q] = "unlink" /\ opened'[q] = s)
    BY DEF ProbeHeld
  <2>4. \A q \in Proc : pc'[q] \in {"lockfile", "commit"} \/ Building(q)' => me'[q] \in linked'
    BY DEF ProbeHeld
  <2> QED
    BY <2>1, <2>2, <2>3, <2>4
<1>7. ProbeInv'
  BY DEF ProbeHeld
<1> QED
  BY <1>1, <1>2, <1>3, <1>4, <1>5, <1>6, <1>7

\* A probe that fails leaves the run alone.
LEMMA ProbeErrorInv ==
  ASSUME RegistryInv, NEW p \in Proc, NEW r \in Run, ProbeError(p, r)
  PROVE  RegistryInv'
<1> USE RegistryAssumption DEF RegistryInv, TypeOK, PhaseInv, WriterInv, RowInv, OneProcess, LockInv, ProbeInv,
     Preparing, HoldsOwn, Building, Open, Run, Phase, CanWrite, goto, NextProbe
<1>1. TypeOK'
  BY DEF ProbeError
<1>2. /\ pc[p] \in {"probe", "try"} /\ pc'[p] = "probe" /\ listed'[p] \subseteq listed[p]
      /\ \A q \in Proc \ {p} : pc'[q] = pc[q] /\ opened'[q] = opened[q] /\ listed'[q] = listed[q]
      /\ UNCHANGED <<runs, writer, linked, holder, me, found>>
  BY DEF ProbeError
<1>3. PhaseInv'
  BY ONLY PhaseInv, <1>2 DEF PhaseInv, Preparing
<1>4. WriterInv'
  BY ONLY WriterInv, <1>2 DEF WriterInv, Preparing, Open
<1>5. RowInv'
  BY ONLY RowInv, <1>2 DEF RowInv, Preparing, Building
<1>6. OneProcess' /\ LockInv'
  <2>1. OneProcess'
    BY ONLY OneProcess, <1>2 DEF OneProcess
  <2>2. \A q \in Proc : HoldsOwn(q)' => holder'[me'[q]] = q
    BY ONLY LockInv, <1>2 DEF LockInv, HoldsOwn
  <2>3. \A q \in Proc : pc'[q] = "unlink" => holder'[opened'[q]] = q
    BY ONLY LockInv, <1>2 DEF LockInv, HoldsOwn
  <2>4. \A q \in Proc, s \in Run : holder'[s] = q =>
          (me'[q] = s /\ HoldsOwn(q)') \/ (pc'[q] = "unlink" /\ opened'[q] = s)
    BY ONLY LockInv, <1>2 DEF LockInv, HoldsOwn
  <2>5. \A q \in Proc : pc'[q] \in {"lockfile", "commit"} \/ Building(q)' => me'[q] \in linked'
    BY ONLY LockInv, <1>2 DEF LockInv, Building
  <2> QED
    BY <2>1, <2>2, <2>3, <2>4, <2>5
<1>7. ProbeInv'
  BY ONLY ProbeInv, <1>2 DEF ProbeInv, Building
<1> QED
  BY <1>1, <1>2, <1>3, <1>4, <1>5, <1>6, <1>7

\* The reaper unlinks the file it has locked and finds the run dead: who had
\* run r under way would have the lock.
LEMMA ProbeUnlinkInv ==
  ASSUME RegistryInv, NEW p \in Proc, ProbeUnlink(p)
  PROVE  RegistryInv'
<1> USE RegistryAssumption DEF RegistryInv, TypeOK, PhaseInv, WriterInv, RowInv, OneProcess, LockInv, ProbeInv,
     Preparing, HoldsOwn, Building, Open, Run, Phase, CanWrite, goto, NextProbe
<1>1. TypeOK'
  <2>1. opened[p] \in Run
    BY DEF ProbeUnlink
  <2> USE ONLY <2>1, RegistryAssumption, ProbeUnlink(p), TypeOK DEF ProbeUnlink, TypeOK
  <2>2. listed' \in [Proc -> SUBSET Run]
    OBVIOUS
  <2>3. found' \in [Proc -> SUBSET Run]
    OBVIOUS
  <2>4. linked' \in SUBSET Run
    OBVIOUS
  <2>5. holder' \in [Run -> Proc \cup {None}]
    OBVIOUS
  <2>6. opened' \in [Proc -> 0 .. MaxRun]
    OBVIOUS
  <2> QED
    BY <2>2, <2>3, <2>4, <2>5, <2>6 DEF goto, Phase
<1>2. PhaseInv'
  BY DEF ProbeUnlink
<1>3. WriterInv'
  BY DEF ProbeUnlink
<1>4. RowInv'
  BY DEF ProbeUnlink
<1>5. OneProcess'
  BY DEF ProbeUnlink
<1>6. LockInv'
  <2>1. \A q \in Proc : HoldsOwn(q)' => holder'[me'[q]] = q
    BY DEF ProbeUnlink
  <2>2. \A q \in Proc : pc'[q] = "unlink" => holder'[opened'[q]] = q
    BY DEF ProbeUnlink
  <2>3. \A q \in Proc, s \in Run : holder'[s] = q =>
          (me'[q] = s /\ HoldsOwn(q)') \/ (pc'[q] = "unlink" /\ opened'[q] = s)
    BY DEF ProbeUnlink
  <2>4. \A q \in Proc : pc'[q] \in {"lockfile", "commit"} \/ Building(q)' => me'[q] \in linked'
    BY DEF ProbeUnlink
  <2> QED
    BY <2>1, <2>2, <2>3, <2>4
<1>7. ProbeInv'
  BY DEF ProbeUnlink
<1> QED
  BY <1>1, <1>2, <1>3, <1>4, <1>5, <1>6, <1>7

\* reap_dead_runs marks what it found; none of it is under way.
LEMMA ReapDeadInv ==
  ASSUME RegistryInv, NEW p \in Proc, ReapDead(p)
  PROVE  RegistryInv'
<1> USE RegistryAssumption DEF RegistryInv, TypeOK, PhaseInv, WriterInv, RowInv, OneProcess, LockInv, ProbeInv,
     Preparing, HoldsOwn, Building, Open, Run, Phase, CanWrite, goto, NextProbe
<1>1. TypeOK'
  BY DEF ReapDead
<1>2. PhaseInv'
  BY DEF ReapDead
<1>3. WriterInv'
  BY DEF ReapDead
<1>4. RowInv'
  BY DEF ReapDead
<1>5. OneProcess'
  BY DEF ReapDead
<1>6. LockInv'
  BY DEF ReapDead
<1>7. ProbeInv'
  BY DEF ReapDead
<1> QED
  BY <1>1, <1>2, <1>3, <1>4, <1>5, <1>6, <1>7

\* The watermark does not touch rows or locks.
LEMMA ComputeWatermarkInv ==
  ASSUME RegistryInv, NEW p \in Proc, ComputeWatermark(p)
  PROVE  RegistryInv'
<1> USE RegistryAssumption DEF RegistryInv, TypeOK, PhaseInv, WriterInv, RowInv, OneProcess, LockInv, ProbeInv,
     Preparing, HoldsOwn, Building, Open, Run, Phase, CanWrite, goto, NextProbe
<1>1. TypeOK'
  <2>1. watermark' \in [Run -> 0 .. MaxRun]
    BY DEF ComputeWatermark
  <2>2. pc' \in [Proc -> Phase]
    BY DEF ComputeWatermark
  <2> QED
    BY <2>1, <2>2 DEF ComputeWatermark
<1>2. PhaseInv'
  BY ONLY TypeOK, PhaseInv, ComputeWatermark(p) DEF TypeOK, PhaseInv, Preparing, ComputeWatermark, goto
<1>3. WriterInv'
  BY ONLY TypeOK, WriterInv, ComputeWatermark(p) DEF TypeOK, WriterInv, Preparing, Open, ComputeWatermark, goto
<1>4. RowInv'
  BY ONLY TypeOK, RowInv, ComputeWatermark(p) DEF TypeOK, RowInv, Preparing, Building, ComputeWatermark, goto
<1>5. OneProcess'
  BY ONLY TypeOK, OneProcess, ComputeWatermark(p) DEF TypeOK, OneProcess, ComputeWatermark, goto
<1>6. LockInv'
  BY ONLY TypeOK, LockInv, ComputeWatermark(p) DEF TypeOK, LockInv, HoldsOwn, Building, ComputeWatermark, goto
<1>7. ProbeInv'
  BY ONLY TypeOK, ProbeInv, ComputeWatermark(p) DEF TypeOK, ProbeInv, Building, ComputeWatermark, goto
<1> QED
  BY <1>1, <1>2, <1>3, <1>4, <1>5, <1>6, <1>7

\* finish_run closes the process's own row, which is nobody else's.
LEMMA FinishRunInv ==
  ASSUME RegistryInv, NEW p \in Proc, FinishRun(p)
  PROVE  RegistryInv'
<1> USE RegistryAssumption DEF RegistryInv, TypeOK, PhaseInv, WriterInv, RowInv, OneProcess, LockInv, ProbeInv,
     Preparing, HoldsOwn, Building, Open, Run, Phase, CanWrite, goto, NextProbe
<1>1. TypeOK'
  BY DEF FinishRun
<1>2. PhaseInv'
  BY ONLY TypeOK, PhaseInv, FinishRun(p), RegistryAssumption DEF TypeOK, PhaseInv, Preparing, FinishRun, goto
<1>3. WriterInv'
  BY ONLY TypeOK, WriterInv, FinishRun(p), RegistryAssumption DEF TypeOK, WriterInv, Preparing, Open, FinishRun, goto
<1>4. RowInv'
  BY ONLY TypeOK, RowInv, OneProcess, PhaseInv, FinishRun(p), RegistryAssumption DEF TypeOK, RowInv, Preparing, Building, OneProcess, PhaseInv, Preparing, FinishRun, goto
<1>5. OneProcess'
  BY ONLY TypeOK, OneProcess, FinishRun(p), RegistryAssumption DEF TypeOK, OneProcess, FinishRun, goto
<1>6. LockInv'
  BY ONLY TypeOK, LockInv, FinishRun(p), RegistryAssumption DEF TypeOK, LockInv, HoldsOwn, Building, FinishRun, goto
<1>7. ProbeInv'
  BY ONLY TypeOK, ProbeInv, FinishRun(p), RegistryAssumption DEF TypeOK, ProbeInv, Building, FinishRun, goto
<1> QED
  BY <1>1, <1>2, <1>3, <1>4, <1>5, <1>6, <1>7

\* finish_run unlinks its lock file when its row is closed.
LEMMA UnlinkOwnInv ==
  ASSUME RegistryInv, NEW p \in Proc, UnlinkOwn(p)
  PROVE  RegistryInv'
<1> USE RegistryAssumption DEF RegistryInv, TypeOK, PhaseInv, WriterInv, RowInv, OneProcess, LockInv, ProbeInv,
     Preparing, HoldsOwn, Building, Open, Run, Phase, CanWrite, goto, NextProbe
<1>1. TypeOK'
  BY DEF UnlinkOwn
<1>2. PhaseInv'
  BY ONLY TypeOK, PhaseInv, UnlinkOwn(p) DEF TypeOK, PhaseInv, Preparing, UnlinkOwn, goto
<1>3. WriterInv'
  BY ONLY TypeOK, WriterInv, UnlinkOwn(p) DEF TypeOK, WriterInv, Preparing, Open, UnlinkOwn, goto
<1>4. RowInv'
  BY ONLY TypeOK, RowInv, UnlinkOwn(p) DEF TypeOK, RowInv, Preparing, Building, UnlinkOwn, goto
<1>5. OneProcess'
  BY ONLY TypeOK, OneProcess, UnlinkOwn(p) DEF TypeOK, OneProcess, UnlinkOwn, goto
<1>6. LockInv'
  BY ONLY TypeOK, LockInv, OneProcess, PhaseInv, UnlinkOwn(p) DEF TypeOK, LockInv, HoldsOwn, Building, OneProcess, PhaseInv, UnlinkOwn, goto
<1>7. ProbeInv'
  BY ONLY TypeOK, ProbeInv, UnlinkOwn(p) DEF TypeOK, ProbeInv, Building, UnlinkOwn, goto
<1> QED
  BY <1>1, <1>2, <1>3, <1>4, <1>5, <1>6, <1>7

\* --clean and --prune go on when no row is open, and keep the write lock.
LEMMA ClearBeginInv ==
  ASSUME RegistryInv, NEW p \in Proc, ClearBegin(p)
  PROVE  RegistryInv'
<1> USE RegistryAssumption DEF RegistryInv, TypeOK, PhaseInv, WriterInv, RowInv, OneProcess, LockInv, ProbeInv,
     Preparing, HoldsOwn, Building, Open, Run, Phase, CanWrite, goto, NextProbe
<1>1. TypeOK'
  BY DEF ClearBegin
<1>2. PhaseInv'
  BY ONLY TypeOK, PhaseInv, ClearBegin(p), RegistryAssumption DEF TypeOK, PhaseInv, Preparing, ClearBegin, goto
<1>3. WriterInv'
  BY ONLY TypeOK, WriterInv, ClearBegin(p), RegistryAssumption DEF TypeOK, WriterInv, Preparing, Open, CanWrite, ClearBegin, goto
<1>4. RowInv'
  BY ONLY TypeOK, RowInv, ClearBegin(p), RegistryAssumption DEF TypeOK, RowInv, Preparing, Building, ClearBegin, goto
<1>5. OneProcess'
  BY ONLY TypeOK, OneProcess, ClearBegin(p), RegistryAssumption DEF TypeOK, OneProcess, ClearBegin, goto
<1>6. LockInv'
  BY ONLY TypeOK, LockInv, ClearBegin(p), RegistryAssumption DEF TypeOK, LockInv, HoldsOwn, Building, ClearBegin, goto
<1>7. ProbeInv'
  BY ONLY TypeOK, ProbeInv, ClearBegin(p), RegistryAssumption DEF TypeOK, ProbeInv, Building, ClearBegin, goto
<1> QED
  BY <1>1, <1>2, <1>3, <1>4, <1>5, <1>6, <1>7

\* A run grows old.
LEMMA AgeInv ==
  ASSUME RegistryInv, NEW r \in Run, Age(r)
  PROVE  RegistryInv'
<1> USE RegistryAssumption DEF RegistryInv, TypeOK, PhaseInv, WriterInv, RowInv, OneProcess, LockInv, ProbeInv,
     Preparing, HoldsOwn, Building, Open, Run, Phase, CanWrite, goto, NextProbe
<1>1. TypeOK'
  BY ONLY TypeOK, RegistryAssumption, Age(r) DEF TypeOK, Age, procVars
<1>2. PhaseInv'
  BY ONLY TypeOK, PhaseInv, Age(r) DEF TypeOK, PhaseInv, Preparing, Age, procVars
<1>3. WriterInv'
  BY ONLY TypeOK, WriterInv, Age(r) DEF TypeOK, WriterInv, Preparing, Open, Age, procVars
<1>4. RowInv'
  BY ONLY TypeOK, RowInv, Age(r) DEF TypeOK, RowInv, Preparing, Building, Age, procVars
<1>5. OneProcess'
  BY ONLY TypeOK, OneProcess, Age(r) DEF TypeOK, OneProcess, Age, procVars
<1>6. LockInv'
  BY ONLY TypeOK, LockInv, Age(r) DEF TypeOK, LockInv, HoldsOwn, Building, Age, procVars
<1>7. ProbeInv'
  BY ONLY TypeOK, ProbeInv, Age(r) DEF TypeOK, ProbeInv, Building, Age, procVars
<1> QED
  BY <1>1, <1>2, <1>3, <1>4, <1>5, <1>6, <1>7

\* The process ends, in whatever way: its locks and its transaction go with it,
\* and a lock file it created before its row was committed may stay.
LEMMA GoneInv ==
  ASSUME RegistryInv, NEW p \in Proc, Gone(p),
         linked' = linked \/ (pc[p] = "lockfile" /\ linked' = linked \ {me[p]}),
         UNCHANGED <<runs, aged, watermark>>
  PROVE  RegistryInv'
<1> USE RegistryAssumption DEF RegistryInv, TypeOK, PhaseInv, WriterInv, RowInv, OneProcess, LockInv, ProbeInv,
     Preparing, HoldsOwn, Building, Open, Run, Phase, CanWrite, goto, NextProbe
<1>1. TypeOK'
  <2> USE ONLY RegistryAssumption, TypeOK, Gone(p) DEF TypeOK, Gone
  <2>1. pc' \in [Proc -> Phase] /\ writer' \in Proc \cup {None}
    BY DEF Phase
  <2>2. holder' \in [Run -> Proc \cup {None}]
    OBVIOUS
  <2>3. me' \in [Proc -> 0 .. MaxRun] /\ opened' \in [Proc -> 0 .. MaxRun]
    OBVIOUS
  <2>4. listed' \in [Proc -> SUBSET Run] /\ old' \in [Proc -> SUBSET Run]
    OBVIOUS
  <2>5. found' \in [Proc -> SUBSET Run] /\ linked' \in SUBSET Run
    BY linked' = linked \/ (pc[p] = "lockfile" /\ linked' = linked \ {me[p]})
  <2> QED
    BY <2>1, <2>2, <2>3, <2>4, <2>5, UNCHANGED <<runs, aged, watermark>>
<1>2. PhaseInv'
  BY ONLY TypeOK, PhaseInv, UNCHANGED runs, Gone(p), RegistryAssumption DEF TypeOK, PhaseInv, Preparing, Gone
<1>3. WriterInv'
  BY ONLY TypeOK, WriterInv, UNCHANGED runs, Gone(p), RegistryAssumption DEF TypeOK, WriterInv, Preparing, Open, Gone
<1>4. RowInv'
  BY ONLY TypeOK, RowInv, UNCHANGED runs, Gone(p), RegistryAssumption DEF TypeOK, RowInv, Preparing, Building, Gone
<1>5. OneProcess'
  BY ONLY TypeOK, OneProcess, UNCHANGED runs, Gone(p), RegistryAssumption DEF TypeOK, OneProcess, Gone
<1>6. LockInv'
  <2>0. \A q \in Proc : pc[q] = "unlink" => opened[q] \in Run
    BY ONLY TypeOK, PhaseInv DEF TypeOK, PhaseInv
  <2> USE ONLY TypeOK, LockInv, OneProcess, Gone(p), RegistryAssumption,
          linked' = linked \/ (pc[p] = "lockfile" /\ linked' = linked \ {me[p]})
          DEF TypeOK, LockInv, OneProcess, Gone, HoldsOwn, Building
  <2>1. \A q \in Proc : HoldsOwn(q)' => holder'[me'[q]] = q
    OBVIOUS
  <2>2. ASSUME NEW q \in Proc, pc'[q] = "unlink" PROVE holder'[opened'[q]] = q
    <3>1. q # p /\ pc[q] = "unlink" /\ opened'[q] = opened[q]
      BY <2>2
    <3>2. opened[q] \in Run
      BY <2>0, <3>1
    <3> QED
      BY <3>1, <3>2
  <2>3. ASSUME NEW q \in Proc, NEW r \in Run, holder'[r] = q
        PROVE  (me'[q] = r /\ HoldsOwn(q)') \/ (pc'[q] = "unlink" /\ opened'[q] = r)
    <3>1. q # p /\ holder[r] = q
      BY <2>3
    <3>2. me'[q] = me[q] /\ pc'[q] = pc[q] /\ opened'[q] = opened[q]
      BY <3>1
    <3> QED
      BY ONLY LockInv, <3>1, <3>2 DEF LockInv, HoldsOwn
  <2>4. \A q \in Proc : pc'[q] \in {"lockfile", "commit"} \/ Building(q)' => me'[q] \in linked'
    OBVIOUS
  <2> QED
    BY <2>1, <2>2, <2>3, <2>4
<1>7. ProbeInv'
  BY ONLY TypeOK, ProbeInv, UNCHANGED runs, Gone(p), RegistryAssumption DEF TypeOK, ProbeInv, Building, Gone
<1> QED
  BY <1>1, <1>2, <1>3, <1>4, <1>5, <1>6, <1>7

\* Every step of every process keeps the invariant.
LEMMA RegistryNextInv == RegistryInv /\ [Next]_vars => RegistryInv'
<1> SUFFICES ASSUME RegistryInv, [Next]_vars PROVE RegistryInv'
  OBVIOUS
<1>1. CASE UNCHANGED vars
  <2> USE <1>1 DEF RegistryInv, vars, procVars
  <2>1. TypeOK'
    BY DEF TypeOK
  <2>2. PhaseInv' /\ OneProcess'
    BY DEF PhaseInv, OneProcess
  <2>3. WriterInv'
    BY DEF WriterInv, Open
  <2>4. RowInv'
    BY DEF RowInv, Building
  <2>5. LockInv'
    BY DEF LockInv, HoldsOwn, Building
  <2>6. ProbeInv'
    BY DEF ProbeInv, Building
  <2> QED
    BY <2>1, <2>2, <2>3, <2>4, <2>5, <2>6
<1>2. ASSUME NEW p \in Proc, InsertRun(p) \/ StartMaintenance(p) PROVE RegistryInv'
  BY <1>2, InsertRunInv, StartMaintenanceInv
<1>3. ASSUME NEW p \in Proc, Step(p) PROVE RegistryInv'
  <2>1. CASE CreateLock(p) \/ AcquireLock(p) \/ CommitRun(p)
    BY <2>1, CreateLockInv, AcquireLockInv, CommitRunInv
  <2>2. CASE \/ ListIncomplete(p) \/ ProbeLock(p) \/ ProbeHeld(p) \/ ProbeUnlink(p) \/ ReapDead(p)
             \/ \E r \in Run : ProbeMissing(p, r) \/ ProbeOpen(p, r)
    BY <2>2, ListIncompleteInv, ProbeMissingInv, ProbeOpenInv, ProbeLockInv, ProbeHeldInv,
       ProbeUnlinkInv, ReapDeadInv
  <2>3. CASE ComputeWatermark(p) \/ FinishRun(p) \/ UnlinkOwn(p) \/ ClearBegin(p)
    BY <2>3, ComputeWatermarkInv, FinishRunInv, UnlinkOwnInv, ClearBeginInv
  <2>4. CASE Exit(p) \/ ClearRefused(p) \/ ClearEnd(p) \/ BusyExit(p)
    BY <2>4, GoneInv DEF Exit, ClearRefused, ClearEnd, BusyExit
  <2> QED
    BY <1>3, <2>1, <2>2, <2>3, <2>4 DEF Step
<1>4. ASSUME NEW p \in Proc, Fault(p) PROVE RegistryInv'
  <2>1. CASE LockFails(p) \/ Crash(p)
    BY <2>1, GoneInv DEF LockFails, Crash
  <2>2. CASE \E r \in Run : ProbeError(p, r)
    BY <2>2, ProbeErrorInv
  <2> QED
    BY <1>4, <2>1, <2>2 DEF Fault
<1>5. ASSUME NEW r \in Run, Age(r) PROVE RegistryInv'
  BY <1>5, AgeInv
<1> QED
  BY <1>1, <1>2, <1>3, <1>4, <1>5 DEF Next

\* The invariant holds throughout.
LEMMA RegistryAlwaysInv == Spec => []RegistryInv
  BY RegistryInitInv, RegistryNextInv, PTL DEF Spec

-----------------------------------------------------------------------------
(* Safety *)

\* For any number of processes: no reap_dead_runs closes the row of a build that
\* is under way, in whatever order processes list, probe, mark and crash.
THEOREM LiveRunsStayOpen == Spec => []LiveRunStaysOpen
<1>1. RegistryInv => LiveRunStaysOpen
  BY DEF RegistryInv, RowInv, LiveRunStaysOpen
<1> QED
  BY <1>1, RegistryAlwaysInv, PTL

\* create_and_acquire, which waits for its lock inside the transaction of prepare,
\* finds it free, also on a lock file that an earlier process left behind.
THEOREM LocksAreUncontended == Spec => []LockUncontended
<1>1. ASSUME RegistryInv, NEW p \in Proc, pc[p] = "lockfile"
      PROVE  holder[me[p]] = None
  <2>1. me[p] \in Run /\ runs[me[p]] = "absent" /\ LockInv
    BY <1>1, RegistryAssumption DEF RegistryInv, TypeOK, PhaseInv, RowInv, Preparing, Run
  <2>2. ASSUME NEW q \in Proc, holder[me[p]] = q PROVE FALSE
    <3>1. CASE me[q] = me[p] /\ HoldsOwn(q)
      BY <1>1, <2>1, <3>1, RegistryAssumption DEF RegistryInv, OneProcess, HoldsOwn, Run
    <3>2. CASE pc[q] = "unlink" /\ opened[q] = me[p]
      BY <1>1, <2>1, <3>2 DEF RegistryInv, PhaseInv, ProbeInv
    <3> QED
      BY ONLY <2>1, <2>2, <3>1, <3>2 DEF LockInv
  <2> QED
    BY <1>1, <2>1, <2>2 DEF RegistryInv, TypeOK
<1>2. RegistryInv => LockUncontended
  BY <1>1 DEF LockUncontended
<1> QED
  BY <1>2, RegistryAlwaysInv, PTL

\* While clear_jobs_if_safe or prune_to_workspace deletes, no build is under way.
THEOREM ClearingExcludesBuilds == Spec => []ClearExcludesBuilds
<1>1. RegistryInv => ClearExcludesBuilds
  BY RegistryAssumption DEF RegistryInv, TypeOK, WriterInv, RowInv, Open, Run, Building,
     ClearExcludesBuilds
<1> QED
  BY <1>1, RegistryAlwaysInv, PTL

\* The listing of live runs never leaves out a build that is under way.
THEOREM BuildsAreListed == Spec => []LiveBuildsAreListed
<1>1. RegistryInv => LiveBuildsAreListed
  BY RegistryAssumption DEF RegistryInv, LockInv, HoldsOwn, Building, LiveBuildsAreListed, IsLive
<1> QED
  BY <1>1, RegistryAlwaysInv, PTL

-----------------------------------------------------------------------------
(* The protocol implements ActiveRuns *)

\* No row: every run is absent.
LEMMA InitRefines == Init => AR!RunsInit
  BY DEF Init, AR!RunsInit, AR!Run, statusOf, Run

\* The status of a run is a function of its row and of whether it has a process.
LEMMA SameStatus ==
  ASSUME runs' = runs, watermark' = watermark,
         \A r \in Run : runs[r] = "running" => (Owned(r)' <=> Owned(r))
  PROVE  UNCHANGED AR!runVars
<1>1. statusOf' = statusOf
  BY DEF statusOf
<1> QED
  BY <1>1 DEF AR!runVars

\* The commit of prepare starts the run.
LEMMA CommitRefines ==
  ASSUME RegistryInv, NEW p \in Proc, CommitRun(p)
  PROVE  AR!RunsNext
<1> DEFINE r == me[p]
<1>1. r \in Run /\ runs[r] = "absent" /\ \A q \in 1 .. (r - 1) : q \in Run /\ runs[q] # "absent"
  BY RegistryAssumption DEF RegistryInv, TypeOK, PhaseInv, RowInv, Preparing, CommitRun, Run
<1>2. /\ runs' = [runs EXCEPT ![r] = "running"]
      /\ me' = me /\ watermark' = watermark
  BY DEF CommitRun
<1>3. statusOf' = [statusOf EXCEPT ![r] = "live"]
  BY <1>1, <1>2 DEF statusOf, Owned, RegistryInv, TypeOK
<1>4. statusOf[r] = "absent" /\ \A q \in 1 .. (r - 1) : statusOf[q] # "absent"
  BY <1>1 DEF statusOf
<1>5. AR!StartRun(r)
  BY <1>2, <1>3, <1>4 DEF AR!StartRun
<1> QED
  BY <1>1, <1>5 DEF AR!RunsNext, AR!Run, Run

\* reap_dead_runs closes crashed runs; what it found may be over since.
LEMMA ReapRefines ==
  ASSUME RegistryInv, NEW p \in Proc, ReapDead(p)
  PROVE  AR!RunsNext \/ UNCHANGED AR!runVars
<1> DEFINE S == {r \in found[p] : runs[r] = "running"}
<1>1. /\ runs' = [r \in Run |-> IF r \in found[p] THEN "reaped" ELSE runs[r]]
      /\ me' = me /\ watermark' = watermark
      /\ found[p] \subseteq Run /\ \A r \in found[p] : runs[r] # "absent"
  BY DEF RegistryInv, TypeOK, ProbeInv, ReapDead
<1>2. ASSUME NEW r \in S, NEW q \in Proc, me[q] = r PROVE FALSE
  <2>1. me[q] # 0 /\ ~Building(q) /\ pc[q] \in Phase
    BY <1>1, <1>2 DEF RegistryInv, TypeOK, ProbeInv, Run
  <2>2. pc[q] \notin Preparing \cup {"unlock", "exit", "idle", "clear", "clearing"}
    BY <1>2, <2>1 DEF RegistryInv, PhaseInv, RowInv
  <2> QED
    BY <2>1, <2>2 DEF Building, Phase, Preparing
<1>3. \A r \in S : statusOf[r] = "dead"
  BY <1>1, <1>2 DEF statusOf, Owned
<1>4. statusOf' = [r \in Run |-> IF r \in S THEN "over" ELSE statusOf[r]]
  BY <1>1 DEF statusOf, Owned
<1>5. CASE S = {}
  <2>1. statusOf' = statusOf
    BY <1>4, <1>5 DEF statusOf
  <2> QED
    BY <1>1, <2>1 DEF AR!runVars
<1>6. CASE S # {}
  <2>1. AR!ReapRuns(S)
    BY <1>1, <1>3, <1>4, <1>6 DEF AR!ReapRuns, AR!Run, Run
  <2> QED
    BY <1>1, <2>1 DEF AR!RunsNext, AR!Run, Run
<1> QED
  BY <1>5, <1>6

\* select min(run_id) - 1 is the abstract watermark.
LEMMA WatermarkRefines ==
  ASSUME RegistryInv, NEW p \in Proc, ComputeWatermark(p)
  PROVE  AR!RunsNext
<1> DEFINE r == me[p]
<1>1. r \in Run /\ runs[r] = "running" /\ runs' = runs /\ me' = me
  <2>1. r \in Run
    BY RegistryAssumption DEF RegistryInv, TypeOK, PhaseInv, ComputeWatermark, Run
  <2> QED
    BY <2>1, RegistryAssumption DEF RegistryInv, RowInv, Building, ComputeWatermark, Run
<1>2. statusOf[r] = "live" /\ statusOf' = statusOf
  BY <1>1 DEF statusOf, Owned
<1>3. AR!Incomplete = Open
  BY DEF AR!Incomplete, AR!Run, Run, Open, statusOf, RegistryInv, TypeOK
<1> PICK w \in 0 .. MaxRun : IsWatermark(w) /\ watermark' = [watermark EXCEPT ![r] = w]
  BY DEF ComputeWatermark
<1>4. (w + 1) \in Open /\ (\A q \in Open : w + 1 <= q) /\ w = (w + 1) - 1
  BY <1>1, RegistryAssumption DEF IsWatermark, Open, Run
<1>5. AR!SetWatermark(r)
  BY <1>2, <1>3, <1>4 DEF AR!SetWatermark
<1> QED
  BY <1>1, <1>5 DEF AR!RunsNext, AR!Run, Run

\* finish_run closes the run, which is live as its process is there.
LEMMA FinishRefines ==
  ASSUME RegistryInv, NEW p \in Proc, FinishRun(p)
  PROVE  AR!RunsNext
<1> DEFINE r == me[p]
<1>1. r \in Run /\ runs[r] = "running"
  BY RegistryAssumption DEF RegistryInv, TypeOK, PhaseInv, RowInv, Building, FinishRun, Run
<1>2. /\ runs' = [runs EXCEPT ![r] = "done"]
      /\ me' = me /\ watermark' = watermark
  BY DEF FinishRun
<1>3. statusOf[r] = "live" /\ statusOf' = [statusOf EXCEPT ![r] = "over"]
  BY <1>1, <1>2 DEF statusOf, Owned, RegistryInv, TypeOK
<1>4. AR!CloseRun(r)
  BY <1>2, <1>3 DEF AR!CloseRun
<1> QED
  BY <1>1, <1>4 DEF AR!RunsNext, AR!Run, Run

\* The end of a process is a crash of its run if the row is open still.
LEMMA GoneRefines ==
  ASSUME RegistryInv, NEW p \in Proc, Gone(p), UNCHANGED <<runs, watermark>>
  PROVE  AR!RunsNext \/ UNCHANGED AR!runVars
<1>1. me' = [me EXCEPT ![p] = 0] /\ me \in [Proc -> 0 .. MaxRun]
  BY DEF Gone, RegistryInv, TypeOK
<1> PICK r \in 0 .. MaxRun : r = me[p]
  BY <1>1
<1>2. \A s \in Run : s # r => (Owned(s)' <=> Owned(s))
  BY <1>1, RegistryAssumption DEF Owned, Run
<1>3. CASE r \in Run /\ runs[r] = "running"
  <2>1. ~Owned(r)'
    BY <1>1, <1>3, RegistryAssumption DEF Owned, Run, RegistryInv, OneProcess
  <2>2. statusOf[r] = "live"
    BY <1>3 DEF statusOf, Owned
  <2>3. statusOf' = [statusOf EXCEPT ![r] = "dead"]
    BY <1>2, <1>3, <2>1 DEF statusOf
  <2>4. AR!CrashRun(r)
    BY <2>2, <2>3 DEF AR!CrashRun
  <2> QED
    BY <1>3, <2>4 DEF AR!RunsNext, AR!Run, Run
<1>4. CASE ~(r \in Run /\ runs[r] = "running")
  BY <1>2, <1>4, SameStatus
<1> QED
  BY <1>3, <1>4

\* Each step of the protocol is a step of ActiveRuns, or invisible to it.
LEMMA StepRefines ==
  ASSUME RegistryInv, [Next]_vars
  PROVE  [AR!RunsNext]_(AR!runVars)
<1>1. ASSUME UNCHANGED <<runs, me, watermark>> PROVE UNCHANGED AR!runVars
  BY <1>1, SameStatus DEF Owned
<1>2. CASE UNCHANGED vars
  BY <1>1, <1>2 DEF vars, procVars
<1>3. ASSUME NEW p \in Proc, InsertRun(p) PROVE UNCHANGED AR!runVars
  <2>1. PICK r \in Run : runs[r] = "absent" /\ me' = [me EXCEPT ![p] = r]
    BY <1>3 DEF InsertRun
  <2>2. me[p] = 0 /\ me \in [Proc -> 0 .. MaxRun]
    BY <1>3 DEF InsertRun, RegistryInv, TypeOK, PhaseInv
  <2>3. \A s \in Run : runs[s] = "running" => (Owned(s)' <=> Owned(s))
    BY <2>1, <2>2, RegistryAssumption DEF Owned, Run
  <2> QED
    BY <1>3, <2>3, SameStatus DEF InsertRun
<1>4. ASSUME NEW p \in Proc,
             \/ StartMaintenance(p) \/ CreateLock(p) \/ AcquireLock(p) \/ ListIncomplete(p)
             \/ ProbeLock(p) \/ ProbeHeld(p) \/ ProbeUnlink(p) \/ UnlinkOwn(p) \/ ClearBegin(p)
             \/ \E r \in Run : ProbeMissing(p, r) \/ ProbeOpen(p, r) \/ ProbeError(p, r)
      PROVE  UNCHANGED AR!runVars
  <2>1. UNCHANGED <<runs, me, watermark>>
    BY <1>4 DEF StartMaintenance, CreateLock, AcquireLock, ListIncomplete, ProbeLock, ProbeHeld,
       ProbeUnlink, UnlinkOwn, ClearBegin, ProbeMissing, ProbeOpen, ProbeError
  <2> QED
    BY <1>1, <2>1
<1>5. ASSUME NEW p \in Proc,
             CommitRun(p) \/ ReapDead(p) \/ ComputeWatermark(p) \/ FinishRun(p)
      PROVE  AR!RunsNext \/ UNCHANGED AR!runVars
  BY <1>5, CommitRefines, ReapRefines, WatermarkRefines, FinishRefines
<1>6. ASSUME NEW p \in Proc,
             \/ LockFails(p) \/ Exit(p) \/ ClearRefused(p) \/ ClearEnd(p) \/ BusyExit(p) \/ Crash(p)
      PROVE  AR!RunsNext \/ UNCHANGED AR!runVars
  <2>1. Gone(p) /\ UNCHANGED <<runs, watermark>>
    BY <1>6 DEF LockFails, Exit, ClearRefused, ClearEnd, BusyExit, Crash
  <2> QED
    BY <2>1, GoneRefines
<1>7. ASSUME NEW r \in Run, Age(r) PROVE UNCHANGED AR!runVars
  BY <1>1, <1>7 DEF Age, procVars
<1> QED
  BY <1>2, <1>3, <1>4, <1>5, <1>6, <1>7 DEF Next, Step, Fault

\* For any number of processes and runs, the rows, lock files and probes of
\* database.cpp and run_lock.cpp implement the abstract life of a run: a live run is
\* closed only by itself, and only crashed runs are reaped.
THEOREM RegistryImplementsRuns == Spec => ImplementsActiveRuns
<1>1. RegistryInv /\ [Next]_vars => [AR!RunsNext]_(AR!runVars)
  BY StepRefines
<1> QED
  BY <1>1, InitRefines, RegistryAlwaysInv, PTL DEF Spec, ImplementsActiveRuns, AR!RunsSpec

-----------------------------------------------------------------------------
(* The watermark.  That it is below every open run is not inductive: a run *)
(* that starts is open, and its id must lie above every watermark.  Ids    *)
(* are handed out in order, and a watermark lies below its own run.        *)

RunsInv == AR!RunsTypeOK /\ AR!IdsArePrefix /\ AR!WatermarkBelowOwner /\ AR!WatermarkSafe

\* prepare's insert: the new id is above every watermark.
LEMMA StartKeepsRuns == ASSUME RunsInv, NEW r \in AR!Run, AR!StartRun(r) PROVE RunsInv'
<1> USE RegistryAssumption DEF AR!Run, AR!Status, AR!Incomplete
<1>1. AR!RunsTypeOK' /\ AR!IdsArePrefix' /\ AR!WatermarkBelowOwner'
  BY DEF RunsInv, AR!RunsTypeOK, AR!StartRun, AR!IdsArePrefix, AR!WatermarkBelowOwner
<1>2. \A q \in AR!Run : watermark[q] < r
  BY DEF RunsInv, AR!RunsTypeOK, AR!StartRun, AR!IdsArePrefix, AR!WatermarkBelowOwner
<1>3. AR!WatermarkSafe'
  BY <1>2 DEF RunsInv, AR!RunsTypeOK, AR!StartRun, AR!WatermarkSafe
<1> QED
  BY <1>1, <1>3 DEF RunsInv

\* prepare's watermark: one below the oldest open run, which is not after r.
LEMMA WatermarkKeepsRuns == ASSUME RunsInv, NEW r \in AR!Run, AR!SetWatermark(r) PROVE RunsInv'
<1> USE RegistryAssumption DEF AR!Run, AR!Status, AR!Incomplete
<1> PICK m \in AR!Incomplete : /\ \A q \in AR!Incomplete : m <= q
                               /\ watermark' = [watermark EXCEPT ![r] = m - 1]
  BY Zenon DEF AR!SetWatermark
<1>1. statusOf' = statusOf /\ r \in AR!Incomplete
  BY DEF AR!SetWatermark, RunsInv, AR!RunsTypeOK
<1>2. AR!RunsTypeOK' /\ AR!IdsArePrefix' /\ AR!WatermarkBelowOwner'
  BY <1>1 DEF RunsInv, AR!RunsTypeOK, AR!IdsArePrefix, AR!WatermarkBelowOwner
<1>3. AR!WatermarkSafe'
  BY <1>1 DEF RunsInv, AR!RunsTypeOK, AR!WatermarkSafe
<1> QED
  BY <1>2, <1>3 DEF RunsInv

\* finish_run, a crash and reap_dead_runs open no run.
LEMMA EndKeepsRuns ==
  ASSUME RunsInv,
         \/ \E r \in AR!Run : AR!CloseRun(r) \/ AR!CrashRun(r)
         \/ \E S \in SUBSET AR!Run : AR!ReapRuns(S)
  PROVE  RunsInv'
<1> USE RegistryAssumption DEF AR!Run, AR!Status, AR!Incomplete
<1>1. watermark' = watermark
  BY DEF AR!CloseRun, AR!CrashRun, AR!ReapRuns
<1>2. /\ statusOf' \in [AR!Run -> AR!Status]
      /\ \A q \in AR!Run :
           /\ statusOf'[q] = "absent" <=> statusOf[q] = "absent"
           /\ statusOf'[q] \in {"live", "dead"} => statusOf[q] \in {"live", "dead"}
  BY DEF AR!CloseRun, AR!CrashRun, AR!ReapRuns, RunsInv, AR!RunsTypeOK
<1> QED
  BY <1>1, <1>2 DEF RunsInv, AR!RunsTypeOK, AR!IdsArePrefix, AR!WatermarkBelowOwner,
     AR!WatermarkSafe

\* No open run is at or below the watermark any process has cached in prepare.
THEOREM WatermarksStaySafe == Spec => []WatermarkStaysSafe
<1>1. Init => RunsInv
  BY InitRefines, RegistryAssumption DEF AR!RunsInit, RunsInv, AR!RunsTypeOK, AR!IdsArePrefix,
     AR!WatermarkBelowOwner, AR!WatermarkSafe, AR!Run, AR!Status, AR!Incomplete
<1>2. RegistryInv /\ RunsInv /\ [Next]_vars => RunsInv'
  <2> SUFFICES ASSUME RunsInv, [AR!RunsNext]_(AR!runVars) PROVE RunsInv'
    BY StepRefines
  <2>1. CASE UNCHANGED AR!runVars
    BY <2>1 DEF AR!runVars, RunsInv, AR!RunsTypeOK, AR!IdsArePrefix, AR!WatermarkBelowOwner,
       AR!WatermarkSafe, AR!Incomplete
  <2>2. CASE AR!RunsNext
    BY <2>2, StartKeepsRuns, WatermarkKeepsRuns, EndKeepsRuns DEF AR!RunsNext
  <2> QED
    BY <2>1, <2>2
<1>3. RunsInv => WatermarkStaysSafe
  BY DEF RunsInv, WatermarkStaysSafe
<1> QED
  BY <1>1, <1>2, <1>3, RegistryAlwaysInv, PTL DEF Spec
=============================================================================
