-------------------------- MODULE BuildStoreProofs --------------------------
(***************************************************************************)
(* The store keeps what running builds rely on, for any numbers of runs,   *)
(* jobs, paths and contents, any outcomes of the jobs, and any crashes and *)
(* commands beside them.  The first part is about the run table alone, the *)
(* second type correctness, with a fact about outputs that the third needs *)
(* beside it; the third is safety.                                         *)
(***************************************************************************)
EXTENDS BuildStore, TLAPS

-----------------------------------------------------------------------------
(* The run table.  WatermarkSafe alone is not inductive: a run that starts *)
(* is open, so its id must be known to lie above every watermark.  Ids are *)
(* handed out in order, and a watermark lies below a run that has an id.   *)

RunsInv == RunsTypeOK /\ IdsArePrefix /\ WatermarkBelowOwner /\ WatermarkSafe

\* The empty run table satisfies the invariant.
LEMMA RunsInitInv == RunsInit => RunsInv
  BY MaxRunAssumption DEF RunsInit, RunsInv, RunsTypeOK, IdsArePrefix, WatermarkBelowOwner,
     WatermarkSafe, Run, Status, Incomplete

\* prepare's insert: the new id is above every watermark.
LEMMA StartRunInv == ASSUME RunsInv, NEW r \in Run, StartRun(r) PROVE RunsInv'
<1> USE MaxRunAssumption DEF Run, Status, Incomplete
<1>1. RunsTypeOK'
  BY DEF RunsInv, RunsTypeOK, StartRun
<1>2. IdsArePrefix'
  BY DEF RunsInv, RunsTypeOK, StartRun, IdsArePrefix
<1>3. WatermarkBelowOwner'
  BY DEF RunsInv, RunsTypeOK, StartRun, WatermarkBelowOwner
<1>4. WatermarkSafe'
  <2>1. \A q \in Run : watermark[q] < r
    <3> TAKE q \in Run
    <3>1. CASE watermark[q] = 0
      BY <3>1
    <3>2. CASE status[q] # "absent" /\ watermark[q] < q
      BY <3>2 DEF RunsInv, RunsTypeOK, StartRun, IdsArePrefix
    <3> QED
      BY <3>1, <3>2 DEF RunsInv, WatermarkBelowOwner
  <2> QED
    BY <2>1 DEF RunsInv, RunsTypeOK, StartRun, WatermarkSafe
<1> QED
  BY <1>1, <1>2, <1>3, <1>4 DEF RunsInv

\* prepare's watermark: one below the oldest open run, itself at most r.
LEMMA SetWatermarkInv == ASSUME RunsInv, NEW r \in Run, SetWatermark(r) PROVE RunsInv'
<1> USE MaxRunAssumption DEF Run, Status, Incomplete
<1> PICK m \in Incomplete : /\ \A q \in Incomplete : m <= q
                            /\ watermark' = [watermark EXCEPT ![r] = m - 1]
  BY DEF SetWatermark
<1>1. status' = status /\ r \in Incomplete
  BY DEF SetWatermark, RunsInv, RunsTypeOK
<1>2. RunsTypeOK'
  BY <1>1 DEF RunsInv, RunsTypeOK
<1>3. IdsArePrefix'
  BY <1>1 DEF RunsInv, IdsArePrefix
<1>4. WatermarkBelowOwner'
  BY <1>1 DEF RunsInv, RunsTypeOK, WatermarkBelowOwner
<1>5. WatermarkSafe'
  BY <1>1 DEF RunsInv, RunsTypeOK, WatermarkSafe
<1> QED
  BY <1>2, <1>3, <1>4, <1>5 DEF RunsInv

\* finish_run, a crash and reap_dead_runs only make runs leave the open ones or
\* stay in them.
LEMMA EndRunInv ==
  ASSUME RunsInv,
         \/ \E r \in Run : CloseRun(r) \/ CrashRun(r)
         \/ \E S \in SUBSET Run : ReapRuns(S)
  PROVE  RunsInv'
<1> USE MaxRunAssumption DEF Run, Status, Incomplete
<1>1. watermark' = watermark
  BY DEF CloseRun, CrashRun, ReapRuns
<1>2. /\ status' \in [Run -> Status]
      /\ \A q \in Run : /\ status'[q] = "absent" <=> status[q] = "absent"
                        /\ status'[q] \in {"live", "dead"} => status[q] \in {"live", "dead"}
  BY DEF CloseRun, CrashRun, ReapRuns, RunsInv, RunsTypeOK
<1> QED
  BY <1>1, <1>2 DEF RunsInv, RunsTypeOK, IdsArePrefix, WatermarkBelowOwner, WatermarkSafe

\* Every step of the run table, or a step that leaves it alone, keeps the invariant.
LEMMA RunsNextInv == RunsInv /\ [RunsNext]_runVars => RunsInv'
<1> SUFFICES ASSUME RunsInv, [RunsNext]_runVars PROVE RunsInv'
  OBVIOUS
<1>1. CASE UNCHANGED runVars
  BY <1>1 DEF runVars, RunsInv, RunsTypeOK, IdsArePrefix, WatermarkBelowOwner, WatermarkSafe,
     Incomplete
<1>2. CASE RunsNext
  BY <1>2, StartRunInv, SetWatermarkInv, EndRunInv DEF RunsNext
<1> QED
  BY <1>1, <1>2

\* In every behaviour of the run table, with any number of runs, no open run is
\* at or below a watermark some process has cached.
THEOREM WatermarkIsSafe == RunsSpec => []WatermarkSafe
<1>1. RunsInv => WatermarkSafe
  BY DEF RunsInv
<1> QED
  BY RunsInitInv, RunsNextInv, <1>1, PTL DEF RunsSpec

-----------------------------------------------------------------------------
(* Types *)

\* A row of the jobs table, and the outputs a process has in hand, name each
\* path once: the outputs of one job are keyed by their path.
OutputsOnePerPath ==
  /\ \A j \in Job : OnePerPath(info[j].outputs)
  /\ \A r \in Run : OnePerPath(work[r].outs)

TypeInv == TypeOK /\ OutputsOnePerPath

\* An idle process and a fresh row are well formed.
LEMMA IdleIsWork == Idle \in Work /\ NoInfo \in JobInfo
<1>1. AnyKey \in Key
  BY StoreAssumption DEF AnyKey
<1> QED
  BY <1>1, StoreAssumption DEF Idle, Work, NoInfo, JobInfo, At

\* Settle only moves a job on.
LEMMA SettleType ==
  ASSUME NEW w \in Work
  PROVE  /\ Settle(w) \in Work
         /\ Settle(w).outs = w.outs /\ Settle(w).visible = w.visible
  BY DEF Settle, Work, At

\* A step that gives the process of run r the work v.
LEMMA NewWork ==
  ASSUME work \in [Run -> Work], NEW r \in Run, NEW v \in Work, OnePerPath(v.outs),
         \A q \in Run : OnePerPath(work[q].outs),
         work' = [work EXCEPT ![r] = v]
  PROVE  work' \in [Run -> Work] /\ \A q \in Run : OnePerPath(work'[q].outs)
  OBVIOUS

\* A step that gives job j the row v.
LEMMA NewInfo ==
  ASSUME info \in [Job -> JobInfo], NEW j, NEW v \in JobInfo, OnePerPath(v.outputs),
         \A i \in Job : OnePerPath(info[i].outputs),
         info' = [info EXCEPT ![j] = v]
  PROVE  info' \in [Job -> JobInfo] /\ \A i \in Job : OnePerPath(info'[i].outputs)
  OBVIOUS

\* The empty set names no path twice.
LEMMA NoOutputs == OnePerPath({})
  BY DEF OnePerPath

\* The budget of faults is kept.
LEMMA FaultBound ==
  ASSUME faults \in 0 .. MaxFault, faults < MaxFault, faults' = faults + 1
  PROVE  faults' \in 0 .. MaxFault
  BY StoreAssumption

\* The empty store is well typed.
LEMMA InitType == Init => TypeInv
<1> SUFFICES ASSUME Init PROVE TypeInv
  OBVIOUS
<1> USE DEF Init
<1>1. RunsTypeOK
  BY MaxRunAssumption DEF RunsInit, RunsTypeOK, Status, Run
<1>2. DbTypeOK
  BY IdleIsWork, StoreAssumption DEF DbTypeOK
<1>3. DiskTypeOK
  BY DEF DiskTypeOK
<1>4. ProcTypeOK
  BY IdleIsWork DEF ProcTypeOK
<1>5. OutputsOnePerPath
  BY NoOutputs DEF OutputsOnePerPath, Idle, NoInfo
<1> QED
  BY <1>1, <1>2, <1>3, <1>4, <1>5, StoreAssumption DEF TypeInv, TypeOK

\* Steps of the run around the jobs.
LEMMA RunStepType ==
  ASSUME TypeInv, NEW r \in Run,
         BeginRun(r) \/ Prepare(r) \/ FinishRun(r) \/ Clean(r) \/ Crash(r)
  PROVE  TypeInv'
<1> USE StoreAssumption, MaxRunAssumption DEF TypeInv, TypeOK, DbTypeOK, DiskTypeOK, ProcTypeOK,
    dbVars, diskVars, procVars, runVars
<1>0. r \in Proc
  BY DEF Run, Proc
<1>1. CASE BeginRun(r)
  BY <1>0, <1>1 DEF BeginRun, StartRun, RunsTypeOK, Status, OutputsOnePerPath
<1>2. CASE Prepare(r)
  <2>1. RunsTypeOK'
    BY <1>2 DEF Prepare, SetWatermark, Incomplete, RunsTypeOK, Run
  <2> QED
    BY <1>0, <1>2, <2>1 DEF Prepare, OutputsOnePerPath
<1>3. CASE FinishRun(r)
  <2>1. work' \in [Run -> Work] /\ \A q \in Run : OnePerPath(work'[q].outs)
    BY <1>3, IdleIsWork, NoOutputs, NewWork DEF FinishRun, OutputsOnePerPath, Idle
  <2> QED
    BY <1>0, <1>3, <2>1 DEF FinishRun, CloseRun, RunsTypeOK, Status, OutputsOnePerPath
<1>4. CASE Clean(r)
  <2>1. DbTypeOK'
    BY <1>4 DEF Clean, DeleteJobs, WithoutStale
  <2> QED
    BY <1>0, <1>4, <2>1 DEF Clean, RunsTypeOK, OutputsOnePerPath
<1>5. CASE Crash(r)
  <2>1. work' \in [Run -> Work] /\ \A q \in Run : OnePerPath(work'[q].outs)
    BY <1>5, IdleIsWork, NoOutputs, NewWork DEF Crash, Gone, OutputsOnePerPath, Idle
  <2>2. RunsTypeOK'
    BY <1>5 DEF Crash, CrashRun, RunsTypeOK, Status
  <2> QED
    BY <1>0, <1>5, <2>1, <2>2 DEF Crash, Gone, OutputsOnePerPath
<1> QED
  BY <1>1, <1>2, <1>3, <1>4, <1>5

\* Reusing a job.
LEMMA ReuseStepType ==
  ASSUME TypeInv, NEW r \in Run,
         \/ \E k \in Key, V \in SUBSET known[r] : Lookup(r, k, V)
         \/ ClaimJob(r) \/ (\E x \in Row : Fetch(r, x)) \/ Hit(r)
  PROVE  TypeInv'
<1> USE DEF TypeInv, TypeOK, DbTypeOK, DiskTypeOK, ProcTypeOK, dbVars, diskVars, procVars, runVars
<1>0. work[r] \in Work /\ OnePerPath(work[r].outs)
  BY DEF OutputsOnePerPath
<1>1. ASSUME NEW k \in Key, NEW V \in SUBSET known[r], Lookup(r, k, V) PROVE TypeInv'
  <2> DEFINE start == [Idle EXCEPT !.key = k, !.visible = V]
             miss == [start EXCEPT !.at = "insert"]
             hit(j) == [start EXCEPT !.at = "claim", !.job = j, !.outs = info[j].outputs]
  <2>1. V \in SUBSET Row
    OBVIOUS
  <2>2. miss \in Work /\ OnePerPath(miss.outs)
    BY <2>1, IdleIsWork, NoOutputs DEF Work, At, Idle
  <2>3. \A j \in Job : info[j].outputs \in SUBSET Row
    BY DEF JobInfo
  <2>4. ASSUME NEW j \in Job PROVE hit(j) \in Work /\ OnePerPath(hit(j).outs)
    <3>1. j \in 0 .. MaxJob /\ OnePerPath(info[j].outputs)
      BY StoreAssumption DEF Job, OutputsOnePerPath
    <3>2. hit(j) \in Work
      BY <2>1, <2>3, <3>1, IdleIsWork DEF Work, At, Idle
    <3>3. hit(j).outs = info[j].outputs
      BY DEF Idle
    <3> QED
      BY <3>1, <3>2, <3>3
  <2>5. \/ work' = [work EXCEPT ![r] = miss]
        \/ \E j \in Job : work' = [work EXCEPT ![r] = hit(j)]
    BY <1>1 DEF Lookup, Matches
  <2> HIDE DEF miss, hit
  <2>6. work' \in [Run -> Work] /\ \A q \in Run : OnePerPath(work'[q].outs)
    BY <2>2, <2>4, <2>5, NewWork DEF OutputsOnePerPath
  <2> QED
    BY <1>1, <2>6 DEF Lookup, RunsTypeOK, OutputsOnePerPath
<1>2. CASE ClaimJob(r)
  <2> DEFINE fetch == [work[r] EXCEPT !.at = "fetch", !.ready = work[r].outs]
             miss == [work[r] EXCEPT !.at = "insert", !.job = 0, !.outs = {}]
  <2>0. 0 \in 0 .. MaxJob
    BY StoreAssumption
  <2>1. fetch \in Work /\ OnePerPath(fetch.outs) /\ miss \in Work /\ OnePerPath(miss.outs)
    BY <1>0, <2>0, NoOutputs DEF Work, At
  <2>2. work' = [work EXCEPT ![r] = fetch] \/ work' = [work EXCEPT ![r] = miss]
    BY <1>2 DEF ClaimJob
  <2> HIDE DEF fetch, miss
  <2>3. work' \in [Run -> Work] /\ \A q \in Run : OnePerPath(work'[q].outs)
    BY <2>1, <2>2, NewWork DEF OutputsOnePerPath
  <2>4. work[r].outs \in SUBSET Row
    BY <1>0 DEF Work
  <2>5. DbTypeOK' /\ held' \in [Run -> SUBSET Job]
    BY <1>2, <2>4 DEF ClaimJob, Revive
  <2> QED
    BY <1>2, <2>3, <2>5 DEF ClaimJob, RunsTypeOK, OutputsOnePerPath
<1>3. ASSUME NEW x \in Row, Fetch(r, x) PROVE TypeInv'
  <2>1. Unready(work[r], x) \in Work /\ OnePerPath(Unready(work[r], x).outs)
    BY <1>0 DEF Work, Unready
  <2>2. work' = [work EXCEPT ![r] = Unready(work[r], x)]
    BY <1>3 DEF Fetch
  <2>3. work' \in [Run -> Work] /\ \A q \in Run : OnePerPath(work'[q].outs)
    BY <2>1, <2>2, NewWork DEF OutputsOnePerPath
  <2>4. DiskTypeOK'
    BY <1>3 DEF Fetch, Materialize, Row
  <2> QED
    BY <1>3, <2>3, <2>4 DEF Fetch, RunsTypeOK, OutputsOnePerPath
<1>4. CASE Hit(r)
  <2> DEFINE panic == [work[r] EXCEPT !.at = "panic"]
  <2>1. panic \in Work /\ OnePerPath(panic.outs) /\ OnePerPath(Idle.outs)
    BY <1>0, NoOutputs DEF Work, At, Idle
  <2>2. work' = [work EXCEPT ![r] = panic] \/ work' = [work EXCEPT ![r] = Idle]
    BY <1>4 DEF Hit
  <2> HIDE DEF panic
  <2>3. work' \in [Run -> Work] /\ \A q \in Run : OnePerPath(work'[q].outs)
    BY <2>1, <2>2, IdleIsWork, NewWork DEF OutputsOnePerPath
  <2>4. work[r].outs \in SUBSET Row
    BY <1>0 DEF Work
  <2>5. known' \in [Run -> SUBSET Row]
    BY <1>4, <2>4 DEF Hit
  <2> QED
    BY <1>4, <2>3, <2>5 DEF Hit, RunsTypeOK, OutputsOnePerPath
<1> QED
  BY <1>1, <1>2, <1>3, <1>4

\* Running a job, up to its runner status.
LEMMA BuildStepType ==
  ASSUME TypeInv, NEW r \in Run,
         \/ InsertJob(r) \/ Execute(r)
         \/ (\E x \in Row : AddHash(r, x))
         \/ (\E x \in Row : Ingest(r, x)) \/ (\E x \in Row : IngestFails(r, x))
         \/ (\E x \in Row : Publish(r, x))
  PROVE  TypeInv'
<1> USE DEF TypeInv, TypeOK, DbTypeOK, DiskTypeOK, ProcTypeOK, dbVars, diskVars, procVars, runVars
<1>0. work[r] \in Work /\ OnePerPath(work[r].outs)
  BY DEF OutputsOnePerPath
<1>1. CASE InsertJob(r)
  <2> DEFINE w == [work[r] EXCEPT !.at = "execute", !.job = nextJob]
             i == [NoInfo EXCEPT !.key = work[r].key, !.visible = work[r].visible]
  <2>1. nextJob \in Job /\ nextJob \in 0 .. MaxJob /\ nextJob' \in 1 .. (MaxJob + 1)
    BY <1>1, StoreAssumption DEF InsertJob, Job
  <2>2. w \in Work /\ OnePerPath(w.outs)
    BY <1>0, <2>1 DEF Work, At
  <2>3. i \in JobInfo /\ OnePerPath(i.outputs)
    BY <1>0, IdleIsWork, NoOutputs DEF Work, JobInfo, NoInfo
  <2>4. work' = [work EXCEPT ![r] = w] /\ info' = [info EXCEPT ![nextJob] = i]
    BY <1>1 DEF InsertJob
  <2> HIDE DEF w, i
  <2>5. work' \in [Run -> Work] /\ \A q \in Run : OnePerPath(work'[q].outs)
    BY <2>2, <2>4, NewWork DEF OutputsOnePerPath
  <2>6. info' \in [Job -> JobInfo] /\ \A j \in Job : OnePerPath(info'[j].outputs)
    BY <2>3, <2>4, NewInfo DEF OutputsOnePerPath
  <2> QED
    BY <1>1, <2>1, <2>5, <2>6 DEF InsertJob, RunsTypeOK, OutputsOnePerPath
<1>2. CASE Execute(r)
  <2> PICK S \in Outcomes[work[r].key], ok \in BOOLEAN :
        work' = [work EXCEPT ![r] =
          Settle([work[r] EXCEPT !.at = "store", !.outs = S, !.todo = S, !.ok = ok])]
    BY <1>2 DEF Execute
  <2> DEFINE w == [work[r] EXCEPT !.at = "store", !.outs = S, !.todo = S, !.ok = ok]
  <2>0. work[r].key \in Key
    BY <1>0 DEF Work
  <2>1. S \in SUBSET Row /\ OnePerPath(S)
    BY <2>0, StoreAssumption
  <2>2. w \in Work /\ w.outs = S
    BY <1>0, <2>1 DEF Work, At
  <2> HIDE DEF w
  <2>3. Settle(w) \in Work /\ Settle(w).outs = S
    BY <2>2, SettleType
  <2>4. work' = [work EXCEPT ![r] = Settle(w)]
    BY DEF w
  <2>5. work' \in [Run -> Work] /\ \A q \in Run : OnePerPath(work'[q].outs)
    BY <2>1, <2>3, <2>4, NewWork DEF OutputsOnePerPath
  <2> QED
    BY <1>2, <2>5 DEF Execute, RunsTypeOK, OutputsOnePerPath
<1>3. ASSUME NEW x \in Row, AddHash(r, x) PROVE TypeInv'
  <2> DEFINE w == [work[r] EXCEPT !.todo = work[r].todo \ {x}]
  <2>1. w \in Work /\ w.outs = work[r].outs
    BY <1>0 DEF Work
  <2>2. work' = [work EXCEPT ![r] = Settle(w)]
    BY <1>3 DEF AddHash
  <2> HIDE DEF w
  <2>3. work' \in [Run -> Work] /\ \A q \in Run : OnePerPath(work'[q].outs)
    BY <1>0, <2>1, <2>2, SettleType, NewWork DEF OutputsOnePerPath
  <2>4. DbTypeOK'
    BY <1>3 DEF AddHash, Revive
  <2> QED
    BY <1>3, <2>3, <2>4 DEF AddHash, RunsTypeOK, OutputsOnePerPath
<1>4. ASSUME NEW x \in Row, Ingest(r, x) PROVE TypeInv'
  <2> DEFINE w == [work[r] EXCEPT !.todo = work[r].todo \ {x}, !.ready = work[r].ready \cup {x}]
  <2>1. w \in Work /\ w.outs = work[r].outs
    BY <1>0 DEF Work
  <2>2. work' = [work EXCEPT ![r] = Settle(w)]
    BY <1>4 DEF Ingest
  <2> HIDE DEF w
  <2>3. work' \in [Run -> Work] /\ \A q \in Run : OnePerPath(work'[q].outs)
    BY <1>0, <2>1, <2>2, SettleType, NewWork DEF OutputsOnePerPath
  <2>4. DiskTypeOK'
    BY <1>4 DEF Ingest, Row
  <2> QED
    BY <1>4, <2>3, <2>4 DEF Ingest, RunsTypeOK, OutputsOnePerPath
<1>5. ASSUME NEW x \in Row, IngestFails(r, x) PROVE TypeInv'
  <2> DEFINE w == [work[r] EXCEPT !.todo = work[r].todo \ {x}, !.bad = TRUE]
  <2>1. w \in Work /\ w.outs = work[r].outs
    BY <1>0 DEF Work
  <2>2. work' = [work EXCEPT ![r] = Settle(w)]
    BY <1>5 DEF IngestFails
  <2> HIDE DEF w
  <2>3. work' \in [Run -> Work] /\ \A q \in Run : OnePerPath(work'[q].outs)
    BY <1>0, <2>1, <2>2, SettleType, NewWork DEF OutputsOnePerPath
  <2>4. faults' \in 0 .. MaxFault
    BY <1>5, FaultBound DEF IngestFails
  <2> QED
    BY <1>5, <2>3, <2>4 DEF IngestFails, RunsTypeOK, OutputsOnePerPath
<1>6. ASSUME NEW x \in Row, Publish(r, x) PROVE TypeInv'
  <2>1. Unready(work[r], x) \in Work /\ Unready(work[r], x).outs = work[r].outs
    BY <1>0 DEF Work, Unready
  <2>2. work' = [work EXCEPT ![r] = Settle(Unready(work[r], x))]
    BY <1>6 DEF Publish
  <2>3. work' \in [Run -> Work] /\ \A q \in Run : OnePerPath(work'[q].outs)
    BY <1>0, <2>1, <2>2, SettleType, NewWork DEF OutputsOnePerPath
  <2>4. DiskTypeOK'
    BY <1>6 DEF Publish, Materialize, Row
  <2> QED
    BY <1>6, <2>3, <2>4 DEF Publish, RunsTypeOK, OutputsOnePerPath
<1> QED
  BY <1>1, <1>2, <1>3, <1>4, <1>5, <1>6

\* The runner status and finish_job.
LEMMA EndStepType ==
  ASSUME TypeInv, NEW r \in Run, SetRunnerStatus(r) \/ FinishJob(r)
  PROVE  TypeInv'
<1> USE DEF TypeInv, TypeOK, DbTypeOK, DiskTypeOK, ProcTypeOK, dbVars, diskVars, procVars, runVars
<1>0. work[r] \in Work /\ OnePerPath(work[r].outs) /\ OnePerPath(Idle.outs)
  BY NoOutputs DEF OutputsOnePerPath, Idle
<1>1. CASE SetRunnerStatus(r)
  <2> DEFINE w == [work[r] EXCEPT !.at = "finish"]
             i == [info[work[r].job] EXCEPT !.err = work[r].bad]
  <2>1. w \in Work /\ OnePerPath(w.outs)
    BY <1>0 DEF Work, At
  <2>2. ASSUME work[r].job \in Job PROVE i \in JobInfo /\ OnePerPath(i.outputs)
    <3>1. /\ info[work[r].job] \in JobInfo /\ work[r].bad \in BOOLEAN
          /\ OnePerPath(info[work[r].job].outputs)
      BY <1>0, <2>2 DEF Work, OutputsOnePerPath
    <3> QED
      BY <3>1 DEF JobInfo
  <2>3. work' = [work EXCEPT ![r] = w] /\ info' = [info EXCEPT ![work[r].job] = i]
    BY <1>1 DEF SetRunnerStatus
  <2> HIDE DEF w, i
  <2>4. work' \in [Run -> Work] /\ \A q \in Run : OnePerPath(work'[q].outs)
    BY <2>1, <2>3, NewWork DEF OutputsOnePerPath
  <2>5. info' \in [Job -> JobInfo] /\ \A j \in Job : OnePerPath(info'[j].outputs)
    BY <2>2, <2>3, NewInfo DEF OutputsOnePerPath
  <2> QED
    BY <1>1, <2>4, <2>5 DEF SetRunnerStatus, RunsTypeOK, OutputsOnePerPath
<1>2. CASE FinishJob(r)
  <2> DEFINE w == work[r]
             outs == IF w.bad THEN {} ELSE w.outs
             i == [info[w.job] EXCEPT !.done = TRUE, !.keep = w.ok, !.outputs = outs,
                     !.inputs = {x \in w.visible : x[1] \in Reads[w.key]}]
  <2>1. outs \in SUBSET Row /\ OnePerPath(outs)
    BY <1>0, NoOutputs DEF Work
  <2>2. ASSUME w.job \in Job PROVE i \in JobInfo /\ OnePerPath(i.outputs)
    <3>1. info[w.job] \in JobInfo /\ w.ok \in BOOLEAN /\ w.visible \in SUBSET Row
      BY <1>0, <2>2 DEF Work
    <3> QED
      BY <2>1, <3>1 DEF JobInfo
  <2>3. info' = [info EXCEPT ![w.job] = i]
    BY <1>2 DEF FinishJob
  <2>4. work' = [work EXCEPT ![r] = Idle]
    BY <1>2 DEF FinishJob, Gone
  <2>5. known' = [known EXCEPT ![r] = known[r] \cup outs] \/ known' = [known EXCEPT ![r] = {}]
    BY <1>2 DEF FinishJob, Gone
  <2>6. /\ files' = files /\ runFiles' = runFiles /\ nextJob' = nextJob
        /\ UNCHANGED <<blobs, workspace, rmTodo, faults, commands>>
    BY <1>2 DEF FinishJob
  <2>7. jobs' \in SUBSET Job /\ runJobs' \in [Run -> SUBSET Job]
    BY <1>2 DEF FinishJob, DeleteJobs
  <2>8. RunsTypeOK'
    BY <1>2 DEF FinishJob, CrashRun, RunsTypeOK, Status
  <2>9. /\ stage' \in [Proc -> {"none", "prepare", "build", "clean", "scan", "gc", "gone"}]
        /\ held' \in [Run -> SUBSET Job]
        /\ scan' \in [Proc -> SUBSET Hash]
    <3>1. UNCHANGED <<stage, held, scan>> \/ Gone(r)
      BY <1>2 DEF FinishJob
    <3>2. r \in Proc
      BY DEF Run, Proc
    <3> QED
      BY <3>1, <3>2 DEF Gone
  <2> HIDE DEF i, outs, w
  <2>10. work' \in [Run -> Work] /\ \A q \in Run : OnePerPath(work'[q].outs)
    BY <1>0, <2>4, IdleIsWork, NewWork DEF OutputsOnePerPath
  <2>11. info' \in [Job -> JobInfo] /\ \A j \in Job : OnePerPath(info'[j].outputs)
    BY <2>2, <2>3, NewInfo DEF OutputsOnePerPath
  <2>12. known' \in [Run -> SUBSET Row]
    BY <2>1, <2>5
  <2> QED
    BY <2>6, <2>7, <2>8, <2>9, <2>10, <2>11, <2>12 DEF OutputsOnePerPath
<1> QED
  BY <1>1, <1>2

\* Reaping, collection and commands.
LEMMA OtherStepType ==
  ASSUME TypeInv,
         \/ \E r \in Proc : ScanBlobs(r) \/ CollectBlobs(r)
         \/ \E S \in SUBSET Run : Reap(S)
         \/ CommandStep
  PROVE  TypeInv'
<1> USE DEF TypeInv, TypeOK, DbTypeOK, DiskTypeOK, ProcTypeOK, dbVars, diskVars, procVars, runVars,
    OutputsOnePerPath
<1>0. Command_ => commands' \in 0 .. MaxCommand
  <2>1. commands \in 0 .. MaxCommand
    OBVIOUS
  <2> QED
    BY ONLY <2>1, StoreAssumption DEF StoreAssumption, Command_
<1>1. ASSUME NEW r \in Proc, ScanBlobs(r) \/ CollectBlobs(r) PROVE TypeInv'
  BY <1>1 DEF ScanBlobs, CollectBlobs, RunsTypeOK
<1>2. ASSUME NEW S \in SUBSET Run, Reap(S) PROVE TypeInv'
  BY <1>2 DEF Reap, ReapRuns, RunsTypeOK, Status
<1>3. ASSUME NEW P \in SUBSET Path, RmCommit(P) PROVE TypeInv'
  BY <1>0, <1>3 DEF RmCommit, Removable, RunsTypeOK
<1>4. ASSUME NEW P \in SUBSET Path, RmCrash(P) PROVE TypeInv'
  BY <1>0, <1>4, FaultBound DEF RmCrash, RunsTypeOK
<1>5. ASSUME NEW p \in Path, RmUnlink(p) \/ UserRemove(p) PROVE TypeInv'
  BY <1>0, <1>5 DEF RmUnlink, UserRemove, RunsTypeOK
<1>6. CASE ClearJobs
  BY <1>0, <1>6 DEF ClearJobs, DeleteJobs, RunsTypeOK
<1>7. CASE Prune
  BY <1>0, <1>7, MaxRunAssumption DEF Prune, DeleteJobs, RunsTypeOK, Proc
<1> QED
  BY <1>1, <1>2, <1>3, <1>4, <1>5, <1>6, <1>7 DEF CommandStep

\* TypeInv is inductive.
LEMMA NextType == TypeInv /\ [Next]_vars => TypeInv'
<1> SUFFICES ASSUME TypeInv, [Next]_vars PROVE TypeInv'
  OBVIOUS
<1>1. CASE UNCHANGED vars
  BY <1>1 DEF vars, TypeInv, TypeOK, DbTypeOK, DiskTypeOK, ProcTypeOK, OutputsOnePerPath, dbVars,
     diskVars, procVars, runVars, RunsTypeOK
<1>2. CASE Next
  BY <1>2, RunStepType, ReuseStepType, BuildStepType, EndStepType, OtherStepType DEF Next, JobStep
<1> QED
  BY <1>1, <1>2

\* Every variable of the store keeps its type, whatever runs, jobs and
\* commands interleave.
THEOREM StoreTypeCorrect == Spec => []TypeOK
<1>1. TypeInv => TypeOK
  BY DEF TypeInv
<1> QED
  BY InitType, NextType, <1>1, PTL DEF Spec

-----------------------------------------------------------------------------
(* Safety *)

StoreInv ==
  /\ TypeInv /\ RunsInv
  /\ StageInv /\ FreshInv
  /\ UniqueLivePath
  /\ HeldInv
  /\ ClaimInv /\ RunFilesExist /\ JobRowsExist

\* The store changes the run table only in the ways of ActiveRuns.
LEMMA RunTableStep == [Next]_vars => [RunsNext]_runVars
<1> SUFFICES ASSUME [Next]_vars PROVE [RunsNext]_runVars
  OBVIOUS
<1> USE DEF RunsNext
<1>1. CASE UNCHANGED vars
  BY <1>1 DEF vars
<1>2. ASSUME NEW r \in Run,
             BeginRun(r) \/ Prepare(r) \/ FinishRun(r) \/ Clean(r) \/ Crash(r)
      PROVE  [RunsNext]_runVars
  BY <1>2 DEF BeginRun, Prepare, FinishRun, Clean, Crash
<1>3. ASSUME NEW r \in Run, JobStep(r) PROVE [RunsNext]_runVars
  <2>1. CASE FinishJob(r)
    BY <2>1 DEF FinishJob
  <2> QED
    BY <1>3, <2>1 DEF JobStep, Lookup, ClaimJob, Fetch, Hit, InsertJob, Execute, AddHash, Ingest,
       IngestFails, Publish, SetRunnerStatus
<1>4. ASSUME NEW r \in Proc, ScanBlobs(r) \/ CollectBlobs(r) PROVE [RunsNext]_runVars
  BY <1>4 DEF ScanBlobs, CollectBlobs
<1>5. ASSUME NEW S \in SUBSET Run, Reap(S) PROVE [RunsNext]_runVars
  BY <1>5 DEF Reap
<1>6. CASE CommandStep
  BY <1>6 DEF CommandStep, RmCommit, RmCrash, RmUnlink, ClearJobs, Prune, UserRemove
<1> QED
  BY <1>1, <1>2, <1>3, <1>4, <1>5, <1>6 DEF Next

-----------------------------------------------------------------------------
(* One live row per path *)

\* Reviving rows of different paths keeps live rows apart: whenever the scan
\* for stale rows is skipped, the revived row was the live one already.
LEMMA ReviveUnique ==
  ASSUME UniqueLivePath, NEW S \in SUBSET Row, OnePerPath(S), files' = Revive(S)
  PROVE  UniqueLivePath'
<1> SUFFICES ASSUME NEW x \in Row, NEW y \in Row, x[1] = y[1],
                    files'[x] = "live", files'[y] = "live", x # y
             PROVE  FALSE
  BY DEF UniqueLivePath, LiveRow
<1>1. ~(x \in S /\ y \in S)
  BY DEF OnePerPath
<1>2. ASSUME NEW a \in Row, NEW b \in Row, a \in S, b \notin S, a[1] = b[1], a # b,
             files'[b] = "live"
      PROVE  FALSE
  BY <1>2 DEF Revive, UniqueLivePath, LiveRow
<1>3. CASE x \notin S /\ y \notin S
  BY <1>3 DEF Revive, UniqueLivePath, LiveRow
<1> QED
  BY <1>1, <1>2, <1>3

\* Every step revives rows of different paths, or makes no row live.
LEMMA FilesStep ==
  ASSUME TypeInv, [Next]_vars
  PROVE  \/ \E S \in SUBSET Row : OnePerPath(S) /\ files' = Revive(S)
         \/ \A x \in Row : files'[x] = "live" => files[x] = "live"
<1> USE DEF dbVars
<1>1. CASE UNCHANGED vars
  BY <1>1 DEF vars
<1>2. ASSUME NEW r \in Run,
             BeginRun(r) \/ Prepare(r) \/ FinishRun(r) \/ Clean(r) \/ Crash(r)
      PROVE  \A x \in Row : files'[x] = "live" => files[x] = "live"
  BY <1>2 DEF BeginRun, Prepare, FinishRun, Clean, Crash, WithoutStale
<1>3. ASSUME NEW r \in Run, ClaimJob(r)
      PROVE  files' = files \/ \E S \in SUBSET Row : OnePerPath(S) /\ files' = Revive(S)
  <2>1. work[r].outs \in SUBSET Row /\ OnePerPath(work[r].outs)
    BY DEF TypeInv, TypeOK, ProcTypeOK, Work, OutputsOnePerPath
  <2> QED
    BY <1>3, <2>1 DEF ClaimJob
<1>4. ASSUME NEW r \in Run, NEW x \in Row, AddHash(r, x)
      PROVE  \E S \in SUBSET Row : OnePerPath(S) /\ files' = Revive(S)
  <2>1. OnePerPath({x})
    BY DEF OnePerPath
  <2> QED
    BY <1>4, <2>1 DEF AddHash
<1>5. ASSUME NEW r \in Run, JobStep(r)
      PROVE  files' = files \/ ClaimJob(r) \/ \E x \in Row : AddHash(r, x)
  BY <1>5 DEF JobStep, Lookup, Fetch, Hit, InsertJob, Execute, Ingest, IngestFails, Publish,
     SetRunnerStatus, FinishJob
<1>6. ASSUME NEW r \in Proc, ScanBlobs(r) \/ CollectBlobs(r) PROVE files' = files
  BY <1>6 DEF ScanBlobs, CollectBlobs
<1>7. ASSUME NEW S \in SUBSET Run, Reap(S) PROVE files' = files
  BY <1>7 DEF Reap
<1>8. CASE CommandStep
  BY <1>8 DEF CommandStep, RmCommit, RmCrash, RmUnlink, ClearJobs, Prune, UserRemove
<1> QED
  BY <1>1, <1>2, <1>3, <1>4, <1>5, <1>6, <1>7, <1>8 DEF Next

\* UniqueLivePath is inductive, given the types.
LEMMA UniqueStep == TypeInv /\ UniqueLivePath /\ [Next]_vars => UniqueLivePath'
  BY FilesStep, ReviveUnique DEF UniqueLivePath, LiveRow

\* At most one live row per path, in every behaviour and for any numbers of
\* runs, jobs and paths.
THEOREM LivePathsUnique == Spec => []UniqueLivePath
<1>1. Init => UniqueLivePath
  BY DEF Init, UniqueLivePath, LiveRow
<1> QED
  BY InitType, NextType, UniqueStep, <1>1, PTL DEF Spec

-----------------------------------------------------------------------------
(* Processes and their runs *)

\* A job step of run r is taken by the process of a live run.
LEMMA JobStepIsLive ==
  ASSUME StageInv, NEW r \in Run, JobStep(r)
  PROVE  stage[r] = "build" /\ status[r] = "live"
<1>1. stage[r] = "build"
  BY DEF JobStep, Doing, Lookup, ClaimJob, Fetch, Hit, InsertJob, Execute, AddHash, Ingest,
     IngestFails, Publish, SetRunnerStatus, FinishJob
<1> QED
  BY <1>1 DEF StageInv

\* The stage of a process and the status of its run go together.
LEMMA StageStep == TypeInv /\ StageInv /\ [Next]_vars => StageInv'
<1> SUFFICES ASSUME TypeInv, StageInv, [Next]_vars PROVE StageInv'
  OBVIOUS
<1> USE DEF TypeInv, TypeOK, ProcTypeOK, RunsTypeOK, runVars, procVars, StageInv
<1>0. Run \subseteq Proc
  BY MaxRunAssumption DEF Run, Proc
<1>1. CASE UNCHANGED vars
  BY <1>1 DEF vars
<1>2. ASSUME NEW r \in Run,
             BeginRun(r) \/ Prepare(r) \/ FinishRun(r) \/ Clean(r) \/ Crash(r)
      PROVE  StageInv'
  BY <1>0, <1>2 DEF BeginRun, StartRun, Prepare, SetWatermark, FinishRun, CloseRun, Clean, Crash,
     CrashRun, Gone
<1>3. ASSUME NEW r \in Run, JobStep(r) PROVE StageInv'
  <2>1. CASE FinishJob(r)
    BY <1>0, <2>1 DEF FinishJob, CrashRun, Gone
  <2> QED
    BY <1>3, <2>1 DEF JobStep, Lookup, ClaimJob, Fetch, Hit, InsertJob, Execute, AddHash, Ingest,
       IngestFails, Publish, SetRunnerStatus
<1>4. ASSUME NEW r \in Proc, ScanBlobs(r) \/ CollectBlobs(r) PROVE StageInv'
  BY <1>0, <1>4 DEF ScanBlobs, CollectBlobs
<1>5. ASSUME NEW S \in SUBSET Run, Reap(S) PROVE StageInv'
  BY <1>0, <1>5 DEF Reap, ReapRuns
<1>6. CASE CommandStep
  BY <1>0, <1>6 DEF CommandStep, RmCommit, RmCrash, RmUnlink, ClearJobs, Prune, UserRemove, Run
<1> QED
  BY <1>1, <1>2, <1>3, <1>4, <1>5, <1>6 DEF Next

\* What a step leaves alone of the memory of processes other than r's.
LEMMA OthersKeep ==
  ASSUME TypeInv, NEW r \in Run,
         JobStep(r) \/ BeginRun(r) \/ Prepare(r) \/ FinishRun(r) \/ Clean(r) \/ Crash(r)
  PROVE  \A q \in Run \ {r} : /\ status'[q] = status[q]
                              /\ held'[q] = held[q] /\ known'[q] = known[q] /\ work'[q] = work[q]
                              /\ runFiles'[q] = runFiles[q]
<1> USE DEF TypeInv, TypeOK, ProcTypeOK, DbTypeOK, RunsTypeOK, runVars, procVars, dbVars
<1>1. CASE BeginRun(r) \/ Prepare(r) \/ FinishRun(r) \/ Clean(r) \/ Crash(r)
  BY <1>1 DEF BeginRun, StartRun, Prepare, SetWatermark, FinishRun, CloseRun, Clean, Crash,
     CrashRun, Gone
<1>2. CASE FinishJob(r)
  BY <1>2 DEF FinishJob, CrashRun, Gone
<1>3. CASE ClaimJob(r)
  BY <1>3 DEF ClaimJob
<1>4. CASE \/ \E k \in Key, V \in SUBSET known[r] : Lookup(r, k, V)
           \/ (\E x \in Row : Fetch(r, x)) \/ Hit(r) \/ InsertJob(r) \/ Execute(r)
  <2>1. UNCHANGED <<runVars, runFiles>>
    BY ONLY <1>4 DEF Lookup, Fetch, Hit, InsertJob, Execute, dbVars
  <2>2. \A q \in Run \ {r} : held'[q] = held[q] /\ known'[q] = known[q]
    BY <1>4 DEF Lookup, Fetch, Hit, InsertJob, Execute
  <2>3. \E w : work' = [work EXCEPT ![r] = w]
    BY <1>4 DEF Lookup, Fetch, Hit, InsertJob, Execute
  <2> QED
    BY <2>1, <2>2, <2>3
<1>5. CASE \/ \E x \in Row : AddHash(r, x) \/ Ingest(r, x) \/ IngestFails(r, x) \/ Publish(r, x)
           \/ SetRunnerStatus(r)
  BY <1>5 DEF AddHash, Ingest, IngestFails, Publish, SetRunnerStatus
<1> QED
  BY <1>1, <1>2, <1>3, <1>4, <1>5 DEF JobStep

\* Steps that no run's process takes leave the memory of all of them alone.
LEMMA OutsideKeeps ==
  ASSUME TypeInv,
         \/ \E r \in Proc : ScanBlobs(r) \/ CollectBlobs(r)
         \/ \E S \in SUBSET Run : Reap(S)
         \/ CommandStep
  PROVE  /\ held' = held /\ known' = known /\ work' = work
         /\ \A q \in Run : /\ status'[q] = "live" => status[q] = "live"
                           /\ status'[q] = "absent" => status[q] = "absent"
<1> USE DEF TypeInv, TypeOK, RunsTypeOK, runVars, procVars
<1>1. ASSUME NEW r \in Proc, ScanBlobs(r) \/ CollectBlobs(r)
      PROVE  held' = held /\ known' = known /\ work' = work /\ status' = status
  BY <1>1 DEF ScanBlobs, CollectBlobs
<1>2. ASSUME NEW S \in SUBSET Run, Reap(S)
      PROVE  /\ held' = held /\ known' = known /\ work' = work
             /\ \A q \in Run : /\ status'[q] = "live" => status[q] = "live"
                               /\ status'[q] = "absent" => status[q] = "absent"
  BY <1>2 DEF Reap, ReapRuns
<1>3. CASE CommandStep
  BY <1>3 DEF CommandStep, RmCommit, RmCrash, RmUnlink, ClearJobs, Prune, UserRemove
<1> QED
  BY <1>1, <1>2, <1>3

\* A run that has not started has left no trace.
LEMMA FreshStep == TypeInv /\ StageInv /\ FreshInv /\ [Next]_vars => FreshInv'
<1> SUFFICES ASSUME TypeInv, StageInv, FreshInv, [Next]_vars PROVE FreshInv'
  OBVIOUS
<1>1. CASE UNCHANGED vars
  BY <1>1 DEF vars, runVars, procVars, FreshInv
<1>2. ASSUME NEW r \in Run,
             JobStep(r) \/ BeginRun(r) \/ Prepare(r) \/ FinishRun(r) \/ Clean(r) \/ Crash(r)
      PROVE  FreshInv'
  <2>1. status'[r] = "absent" =>
          status[r] = "absent" /\ held'[r] = held[r] /\ known'[r] = known[r] /\ work'[r] = work[r]
    <3> USE DEF TypeInv, TypeOK, RunsTypeOK, runVars, procVars
    <3>1. CASE JobStep(r)
      BY <3>1, JobStepIsLive DEF JobStep, Lookup, ClaimJob, Fetch, Hit, InsertJob, Execute,
         AddHash, Ingest, IngestFails, Publish, SetRunnerStatus, FinishJob, CrashRun
    <3>2. CASE Crash(r)
      BY <3>2, MaxRunAssumption DEF Crash, CrashRun, Gone, Idle, ProcTypeOK, StageInv, FreshInv
    <3> QED
      BY <1>2, <3>1, <3>2 DEF BeginRun, StartRun, Prepare, SetWatermark, FinishRun, CloseRun, Clean
  <2> QED
    BY <1>2, <2>1, OthersKeep DEF FreshInv
<1>3. CASE \/ \E r \in Proc : ScanBlobs(r) \/ CollectBlobs(r)
           \/ \E S \in SUBSET Run : Reap(S)
           \/ CommandStep
  BY <1>3, OutsideKeeps DEF FreshInv
<1> QED
  BY <1>1, <1>2, <1>3 DEF Next

-----------------------------------------------------------------------------
(* Jobs that running programs hold *)

\* A job of a live run is above every watermark that a process cached.
LEMMA WatermarkSpares ==
  ASSUME TypeInv, RunsInv, NEW r \in Run, NEW q \in Run, status[q] = "live",
         NEW j \in runJobs[q], UpToWatermark(j, watermark[r])
  PROVE  FALSE
<1>1. q <= watermark[r]
  BY DEF UpToWatermark
<1>2. watermark[r] < q
  BY DEF RunsInv, WatermarkSafe, Incomplete
<1>3. q \in Int /\ watermark[r] \in Int
  BY MaxRunAssumption DEF RunsInv, RunsTypeOK, Run
<1> QED
  BY <1>1, <1>2, <1>3

\* Deleting jobs that no live run lists spares every held job.
LEMMA DeleteSpares ==
  ASSUME HeldInv, NEW D, DeleteJobs(D), held' = held,
         \A q \in Run : status'[q] = "live" => status[q] = "live",
         \A q \in Run : status[q] = "live" => D \cap runJobs[q] = {}
  PROVE  HeldInv'
  BY DEF HeldInv, DeleteJobs

\* Jobs of live runs survive each job step.
LEMMA HeldJobStep ==
  ASSUME TypeInv, RunsInv, StageInv, HeldInv, NEW r \in Run, JobStep(r)
  PROVE  HeldInv'
<1> USE DEF TypeInv, TypeOK, DbTypeOK, ProcTypeOK, RunsTypeOK, runVars, dbVars
<1>0. status[r] = "live"
  BY JobStepIsLive
<1>1. CASE ClaimJob(r)
  BY <1>1, <1>0 DEF ClaimJob, HeldInv
<1>2. CASE InsertJob(r)
  BY <1>2, <1>0 DEF InsertJob, HeldInv
<1>3. CASE FinishJob(r)
  <2> DEFINE w    == work[r]
             outs == IF w.bad THEN {} ELSE w.outs
             D    == {j \in jobs \ {w.job} :
                        /\ \/ Command[info[j].key] = Command[w.key]
                           \/ SharePath(outs, info[j].outputs)
                        /\ UpToWatermark(j, watermark[r])}
  <2>1. DeleteJobs(D) /\ \A j \in D : UpToWatermark(j, watermark[r])
    BY <1>3, Zenon DEF FinishJob
  <2> HIDE DEF D
  <2>2. \A q \in Run : status[q] = "live" => D \cap runJobs[q] = {}
    BY <2>1, WatermarkSpares
  <2>3. CASE UNCHANGED <<runVars, stage, held, scan>>
    BY <2>1, <2>2, <2>3, DeleteSpares
  <2>4. CASE CrashRun(r) /\ Gone(r)
    BY <2>1, <2>2, <2>4 DEF CrashRun, Gone, HeldInv, DeleteJobs
  <2> QED
    BY <1>3, <2>3, <2>4, Zenon DEF FinishJob
<1>4. CASE \/ \E k \in Key, V \in SUBSET known[r] : Lookup(r, k, V)
           \/ (\E x \in Row : Fetch(r, x)) \/ Hit(r) \/ Execute(r)
  BY <1>4 DEF Lookup, Fetch, Hit, Execute, HeldInv
<1>5. CASE \/ \E x \in Row : AddHash(r, x) \/ Ingest(r, x) \/ IngestFails(r, x) \/ Publish(r, x)
           \/ SetRunnerStatus(r)
  BY <1>5 DEF AddHash, Ingest, IngestFails, Publish, SetRunnerStatus, HeldInv
<1> QED
  BY <1>1, <1>2, <1>3, <1>4, <1>5 DEF JobStep

\* HeldInv is inductive, given what is known of runs and processes.
LEMMA HeldStep ==
  TypeInv /\ RunsInv /\ StageInv /\ FreshInv /\ HeldInv /\ [Next]_vars => HeldInv'
<1> SUFFICES ASSUME TypeInv, RunsInv, StageInv, FreshInv, HeldInv, [Next]_vars PROVE HeldInv'
  OBVIOUS
<1> USE DEF runVars, dbVars, procVars
<1>1. CASE UNCHANGED vars
  BY <1>1 DEF vars, HeldInv
<1>2. ASSUME NEW r \in Run, BeginRun(r) \/ Prepare(r) \/ FinishRun(r) \/ Crash(r) PROVE HeldInv'
  BY <1>2 DEF TypeInv, TypeOK, ProcTypeOK, RunsTypeOK, BeginRun, StartRun, Prepare, SetWatermark,
     FinishRun, CloseRun, Crash, CrashRun, Gone, HeldInv, FreshInv
<1>3. ASSUME NEW r \in Run, Clean(r) PROVE HeldInv'
  <2> DEFINE D == {j \in jobs : /\ ~info[j].keep
                                /\ info[j].outputs = {}
                                /\ UpToWatermark(j, watermark[r])}
  <2>1. DeleteJobs(D) /\ \A j \in D : UpToWatermark(j, watermark[r])
    BY <1>3, Zenon DEF Clean
  <2> HIDE DEF D
  <2>2. held' = held /\ status' = status
    BY <1>3 DEF Clean
  <2> QED
    BY <2>1, <2>2, WatermarkSpares, DeleteSpares
<1>4. ASSUME NEW r \in Run, JobStep(r) PROVE HeldInv'
  BY <1>4, HeldJobStep
<1>5. ASSUME NEW r \in Proc, ScanBlobs(r) \/ CollectBlobs(r) PROVE HeldInv'
  BY <1>5 DEF ScanBlobs, CollectBlobs, HeldInv
<1>6. ASSUME NEW S \in SUBSET Run, Reap(S) PROVE HeldInv'
  BY <1>6, OutsideKeeps DEF Reap, HeldInv
<1>7. CASE CommandStep
  <2>1. CASE ClearJobs \/ Prune
    BY <2>1 DEF ClearJobs, Prune, HeldInv, Incomplete
  <2> QED
    BY <1>7, <2>1 DEF CommandStep, RmCommit, RmCrash, RmUnlink, UserRemove, HeldInv
<1> QED
  BY <1>1, <1>2, <1>3, <1>4, <1>5, <1>6, <1>7 DEF Next

-----------------------------------------------------------------------------
(* File rows that running programs know *)

\* Moving on to the next phase secures nothing that was not secured.
LEMMA SettleSecures ==
  ASSUME NEW w \in Work, w.at \in {"store", "ingest"}
  PROVE  Secured(Settle(w)) = Secured(w) /\ Settle(w).visible = w.visible
<1>1. CASE w.todo # {} \/ w.ready # {}
  BY <1>1 DEF Settle
<1>2. CASE w.todo = {} /\ w.ready = {} /\ w.at = "store" /\ w.outs # {}
  BY <1>2 DEF Settle, Secured, Work
<1>3. CASE w.todo = {} /\ w.ready = {} /\ ~(w.at = "store" /\ w.outs # {})
  BY <1>3 DEF Settle, Secured, Work
<1> QED
  BY <1>1, <1>2, <1>3

\* What the steps that reuse a job know, see and secure is claimed.
LEMMA ClaimReuseStep ==
  ASSUME TypeInv, ClaimInv, NEW r \in Run, status[r] = "live",
         \/ \E k \in Key, V \in SUBSET known[r] : Lookup(r, k, V)
         \/ ClaimJob(r) \/ (\E x \in Row : Fetch(r, x)) \/ Hit(r)
  PROVE  known'[r] \cup work'[r].visible \cup Secured(work'[r]) \subseteq runFiles'[r]
<1> USE DEF TypeInv, TypeOK, DbTypeOK, ProcTypeOK, dbVars
<1>0. /\ work[r] \in Work
      /\ known[r] \cup work[r].visible \cup Secured(work[r]) \subseteq runFiles[r]
  BY DEF ClaimInv
<1>1. ASSUME NEW k \in Key, NEW V \in SUBSET known[r], Lookup(r, k, V)
      PROVE  /\ work'[r].at \in {"insert", "claim"} /\ work'[r].visible = V
             /\ known' = known /\ runFiles' = runFiles
  <2>1. Idle \in Work
    BY IdleIsWork
  <2>2. CASE work' = [work EXCEPT ![r] =
                        [[Idle EXCEPT !.key = k, !.visible = V] EXCEPT !.at = "insert"]]
    BY <1>1, <2>1, <2>2 DEF Lookup, Work
  <2>3. ASSUME NEW j \in jobs,
               work' = [work EXCEPT ![r] = [[Idle EXCEPT !.key = k, !.visible = V]
                          EXCEPT !.at = "claim", !.job = j, !.outs = info[j].outputs]]
        PROVE  work'[r].at \in {"insert", "claim"} /\ work'[r].visible = V
    BY <2>1, <2>3 DEF Work
  <2> QED
    BY <1>1, <2>2, <2>3 DEF Lookup, Matches
<1>2. CASE ClaimJob(r)
  <2>1. CASE work[r].job \in jobs
    <3>1. /\ work'[r].visible = work[r].visible /\ work'[r].at = "fetch"
          /\ work'[r].outs = work[r].outs
      <4>1. work' = [work EXCEPT ![r] = [work[r] EXCEPT !.at = "fetch", !.ready = work[r].outs]]
        BY <1>2, <2>1, Zenon DEF ClaimJob
      <4> QED
        BY <1>0, <4>1 DEF Work
    <3>2. known' = known /\ runFiles'[r] = runFiles[r] \cup work[r].outs
      BY <1>2, <2>1 DEF ClaimJob
    <3> QED
      BY <1>0, <3>1, <3>2 DEF Secured
  <2>2. CASE work[r].job \notin jobs
    <3>1. work'[r].visible = work[r].visible /\ work'[r].at = "insert"
      <4>1. work' = [work EXCEPT ![r] =
                       [work[r] EXCEPT !.at = "insert", !.job = 0, !.outs = {}]]
        BY <1>2, <2>2, Zenon DEF ClaimJob
      <4> QED
        BY <1>0, <4>1 DEF Work
    <3>2. known' = known /\ runFiles' = runFiles
      BY <1>2, <2>2 DEF ClaimJob
    <3> QED
      BY <1>0, <3>1, <3>2 DEF Secured
  <2> QED
    BY <2>1, <2>2
<1>3. ASSUME NEW x \in Row, Fetch(r, x)
      PROVE  /\ known' = known /\ runFiles' = runFiles
             /\ work'[r].visible = work[r].visible /\ Secured(work'[r]) = Secured(work[r])
  BY <1>0, <1>3 DEF Fetch, Unready, Secured, Work
<1>4. CASE Hit(r)
  <2>1. Secured(work[r]) = work[r].outs
    BY <1>4 DEF Hit, Doing, Secured
  <2> QED
    BY <1>0, <1>4, <2>1 DEF Hit, Secured, Idle, Work
<1>5. ASSUME work'[r].at \in {"insert", "claim"} PROVE Secured(work'[r]) = {}
  BY <1>5 DEF Secured
<1> QED
  BY <1>0, <1>1, <1>2, <1>3, <1>4, <1>5

\* The same for the steps that run a job.
LEMMA ClaimBuildStep ==
  ASSUME TypeInv, ClaimInv, NEW r \in Run, status[r] = "live",
         \/ InsertJob(r) \/ Execute(r)
         \/ (\E x \in Row : AddHash(r, x))
         \/ (\E x \in Row : Ingest(r, x)) \/ (\E x \in Row : IngestFails(r, x))
         \/ (\E x \in Row : Publish(r, x))
         \/ SetRunnerStatus(r)
  PROVE  known'[r] \cup work'[r].visible \cup Secured(work'[r]) \subseteq runFiles'[r]
<1> USE DEF TypeInv, TypeOK, DbTypeOK, ProcTypeOK, dbVars
<1>0. /\ work[r] \in Work
      /\ known[r] \cup work[r].visible \cup Secured(work[r]) \subseteq runFiles[r]
  BY DEF ClaimInv
<1> DEFINE Kept == /\ known' = known /\ runFiles' = runFiles
                   /\ work'[r].visible = work[r].visible
                   /\ Secured(work'[r]) \subseteq Secured(work[r])
<1>1. ASSUME InsertJob(r) \/ SetRunnerStatus(r) PROVE Kept
  <2>1. CASE InsertJob(r)
    <3>1. /\ known' = known /\ runFiles' = runFiles
          /\ work'[r].visible = work[r].visible /\ work'[r].at = "execute"
      BY <1>0, <2>1 DEF InsertJob, Work
    <3> QED
      BY <3>1 DEF Secured
  <2>2. CASE SetRunnerStatus(r)
    <3>1. /\ known' = known /\ runFiles' = runFiles
          /\ work'[r].visible = work[r].visible /\ work'[r].outs = work[r].outs
          /\ work[r].at = "status" /\ work'[r].at = "finish"
      BY <1>0, <2>2 DEF SetRunnerStatus, Doing, Work
    <3> QED
      BY <3>1 DEF Secured
  <2> QED
    BY <1>1, <2>1, <2>2
<1>2. CASE Execute(r)
  <2>1. PICK S \in Outcomes[work[r].key], ok \in BOOLEAN :
          work' = [work EXCEPT ![r] =
            Settle([work[r] EXCEPT !.at = "store", !.outs = S, !.todo = S, !.ok = ok])]
    BY <1>2 DEF Execute
  <2> DEFINE w == [work[r] EXCEPT !.at = "store", !.outs = S, !.todo = S, !.ok = ok]
  <2>2. w \in Work /\ w.at = "store" /\ w.visible = work[r].visible /\ Secured(w) = {}
    <3>1. S \in SUBSET Row
      BY <1>0, <2>1, StoreAssumption DEF Work
    <3>2. /\ w \in Work /\ w.at = "store" /\ w.visible = work[r].visible
          /\ w.outs = S /\ w.todo = S
      BY <1>0, <3>1 DEF Work, At
    <3> QED
      BY <3>2 DEF Secured
  <2>3. work' = [work EXCEPT ![r] = Settle(w)]
    BY <2>1
  <2> HIDE DEF w
  <2>4. Kept
    BY <1>2, <2>2, <2>3, SettleSecures DEF Execute
  <2> QED
    BY <1>0, <2>4
<1>3. ASSUME NEW x \in Row, AddHash(r, x)
      PROVE  known'[r] \cup work'[r].visible \cup Secured(work'[r]) \subseteq runFiles'[r]
  <2> DEFINE w == [work[r] EXCEPT !.todo = work[r].todo \ {x}]
  <2>1. /\ w \in Work /\ w.at = "store" /\ w.visible = work[r].visible
        /\ Secured(w) \subseteq Secured(work[r]) \cup {x}
    BY <1>0, <1>3 DEF AddHash, Doing, Work, Secured
  <2>2. work' = [work EXCEPT ![r] = Settle(w)]
    BY <1>3 DEF AddHash
  <2> HIDE DEF w
  <2>3. Secured(work'[r]) \subseteq Secured(work[r]) \cup {x} /\ work'[r].visible = work[r].visible
    BY <2>1, <2>2, SettleSecures
  <2> QED
    BY <1>0, <1>3, <2>3 DEF AddHash
<1>4. ASSUME NEW w \in Work, work[r].at = "ingest", w.at = "ingest", w.outs = work[r].outs,
             w.visible = work[r].visible, work' = [work EXCEPT ![r] = Settle(w)]
      PROVE  /\ Secured(work'[r]) = Secured(work[r])
             /\ work'[r].visible = work[r].visible
  BY <1>4, SettleSecures DEF Secured
<1>5. ASSUME NEW x \in Row, Ingest(r, x) PROVE Kept
  <2> DEFINE w == [work[r] EXCEPT !.todo = work[r].todo \ {x}, !.ready = work[r].ready \cup {x}]
  <2>1. w \in Work /\ w.at = "ingest" /\ w.outs = work[r].outs /\ w.visible = work[r].visible
    BY <1>0, <1>5 DEF Ingest, Doing, Work
  <2>2. work' = [work EXCEPT ![r] = Settle(w)]
    BY <1>5 DEF Ingest
  <2> HIDE DEF w
  <2> QED
    BY <1>4, <1>5, <2>1, <2>2 DEF Ingest, Doing
<1>6. ASSUME NEW x \in Row, IngestFails(r, x) PROVE Kept
  <2> DEFINE w == [work[r] EXCEPT !.todo = work[r].todo \ {x}, !.bad = TRUE]
  <2>1. w \in Work /\ w.at = "ingest" /\ w.outs = work[r].outs /\ w.visible = work[r].visible
    BY <1>0, <1>6 DEF IngestFails, Doing, Work
  <2>2. work' = [work EXCEPT ![r] = Settle(w)]
    BY <1>6 DEF IngestFails
  <2> HIDE DEF w
  <2> QED
    BY <1>4, <1>6, <2>1, <2>2 DEF IngestFails, Doing
<1>7. ASSUME NEW x \in Row, Publish(r, x) PROVE Kept
  <2> DEFINE w == Unready(work[r], x)
  <2>1. w \in Work /\ w.at = "ingest" /\ w.outs = work[r].outs /\ w.visible = work[r].visible
    BY <1>0, <1>7 DEF Publish, Doing, Unready, Work
  <2>2. work' = [work EXCEPT ![r] = Settle(w)]
    BY <1>7 DEF Publish
  <2> HIDE DEF w
  <2> QED
    BY <1>4, <1>7, <2>1, <2>2 DEF Publish, Doing
<1> QED
  BY <1>0, <1>1, <1>2, <1>3, <1>5, <1>6, <1>7

\* finish_job hands the outputs it secured to the program.
LEMMA ClaimFinishStep ==
  ASSUME TypeInv, ClaimInv, NEW r \in Run, status[r] = "live", FinishJob(r), status'[r] = "live"
  PROVE  known'[r] \cup work'[r].visible \cup Secured(work'[r]) \subseteq runFiles'[r]
<1> USE DEF TypeInv, TypeOK, DbTypeOK, ProcTypeOK
<1>0. known[r] \cup work[r].visible \cup Secured(work[r]) \subseteq runFiles[r]
  BY DEF ClaimInv
<1>1. Secured(work[r]) = work[r].outs /\ runFiles' = runFiles
  BY DEF FinishJob, Doing, Secured
<1>2. ~CrashRun(r)
  BY DEF CrashRun, RunsTypeOK
<1>3. /\ work' = [work EXCEPT ![r] = Idle]
      /\ known' = [known EXCEPT ![r] = @ \cup IF work[r].bad THEN {} ELSE work[r].outs]
  BY <1>2, Zenon DEF FinishJob
<1>4. work'[r] = Idle /\ known'[r] \subseteq known[r] \cup work[r].outs
  BY <1>3
<1>5. work'[r].visible = {} /\ Secured(work'[r]) = {}
  <2>1. Idle.visible = {} /\ Idle.at = "idle"
    BY ONLY TRUE DEF Idle
  <2>2. work'[r].visible = {} /\ work'[r].at = "idle"
    BY ONLY <1>4, <2>1
  <2> QED
    BY ONLY <2>2 DEF Secured
<1> QED
  BY ONLY <1>0, <1>1, <1>4, <1>5

\* ClaimInv is inductive, given what is known of runs and processes.
LEMMA ClaimStep ==
  TypeInv /\ StageInv /\ FreshInv /\ ClaimInv /\ [Next]_vars => ClaimInv'
<1> SUFFICES ASSUME TypeInv, StageInv, FreshInv, ClaimInv, [Next]_vars PROVE ClaimInv'
  OBVIOUS
<1>1. CASE UNCHANGED vars
  BY <1>1 DEF vars, runVars, dbVars, procVars, ClaimInv, Secured
<1>2. ASSUME NEW r \in Run,
             JobStep(r) \/ BeginRun(r) \/ Prepare(r) \/ FinishRun(r) \/ Clean(r) \/ Crash(r)
      PROVE  ClaimInv'
  <2>1. status'[r] = "live" =>
          known'[r] \cup work'[r].visible \cup Secured(work'[r]) \subseteq runFiles'[r]
    <3>1. CASE JobStep(r)
      BY <3>1, JobStepIsLive, ClaimReuseStep, ClaimBuildStep, ClaimFinishStep DEF JobStep
    <3>2. CASE BeginRun(r)
      <4>1. known'[r] = {} /\ work'[r] = Idle
        BY <3>2 DEF BeginRun, StartRun, FreshInv
      <4> QED
        BY <4>1 DEF Idle, Secured
    <3>3. CASE FinishRun(r) \/ Crash(r)
      <4>1. known'[r] = {} /\ work'[r] = Idle
        BY <3>3 DEF TypeInv, TypeOK, ProcTypeOK, FinishRun, Crash, Gone
      <4> QED
        BY <4>1 DEF Idle, Secured
    <3>4. CASE Prepare(r) \/ Clean(r)
      BY <3>4 DEF Prepare, SetWatermark, Clean, ClaimInv, Secured, dbVars, runVars
    <3> QED
      BY <1>2, <3>1, <3>2, <3>3, <3>4
  <2>2. ASSUME NEW q \in Run \ {r}, status'[q] = "live"
        PROVE  known'[q] \cup work'[q].visible \cup Secured(work'[q]) \subseteq runFiles'[q]
    <3>1. /\ status'[q] = status[q] /\ known'[q] = known[q] /\ work'[q] = work[q]
          /\ runFiles'[q] = runFiles[q]
      BY <1>2, OthersKeep
    <3> QED
      BY <2>2, <3>1 DEF ClaimInv, Secured
  <2> QED
    BY <2>1, <2>2 DEF ClaimInv
<1>3. CASE \/ \E r \in Proc : ScanBlobs(r) \/ CollectBlobs(r)
           \/ \E S \in SUBSET Run : Reap(S)
           \/ CommandStep
  <2>1. \A q \in Run : status'[q] = "live" => runFiles'[q] = runFiles[q]
    <3>1. ASSUME NEW r \in Proc, ScanBlobs(r) \/ CollectBlobs(r) PROVE runFiles' = runFiles
      BY <3>1 DEF ScanBlobs, CollectBlobs, dbVars
    <3>2. ASSUME NEW S \in SUBSET Run, Reap(S), NEW q \in Run, status'[q] = "live"
          PROVE  runFiles'[q] = runFiles[q]
      BY <3>2 DEF Reap, ReapRuns
    <3>3. ASSUME CommandStep, NEW q \in Run, status'[q] = "live"
          PROVE  runFiles'[q] = runFiles[q]
      BY <3>3 DEF CommandStep, RmCommit, RmCrash, RmUnlink, ClearJobs, Prune, UserRemove, dbVars,
         runVars, Incomplete
    <3> QED
      BY <1>3, <3>1, <3>2, <3>3
  <2> QED
    BY <1>3, <2>1, OutsideKeeps DEF ClaimInv, Secured
<1> QED
  BY <1>1, <1>2, <1>3 DEF Next

-----------------------------------------------------------------------------
(* Rows that run_files and filetree refer to *)

\* Reviving rows removes none and leaves the revived ones live.
LEMMA ReviveKeeps ==
  ASSUME NEW S \in SUBSET Row, files' = Revive(S)
  PROVE  /\ \A x \in Row : files[x] # "none" => files'[x] # "none"
         /\ \A x \in S : files'[x] # "none"
  BY DEF Revive, LiveRow

\* Only Database::clean and clear_jobs remove rows.
LEMMA RowsStay ==
  ASSUME TypeInv, [Next]_vars, ~ClearJobs, \A r \in Run : ~Clean(r)
  PROVE  \A x \in Row : files[x] # "none" => files'[x] # "none"
<1> USE DEF dbVars
<1>1. CASE UNCHANGED vars
  BY <1>1 DEF vars
<1>2. ASSUME NEW r \in Run, BeginRun(r) \/ Prepare(r) \/ FinishRun(r) \/ Crash(r)
      PROVE  files' = files
  BY <1>2 DEF BeginRun, Prepare, FinishRun, Crash
<1>3. ASSUME NEW r \in Run, JobStep(r)
      PROVE  files' = files \/ \E S \in SUBSET Row : files' = Revive(S)
  <2>1. CASE ClaimJob(r)
    BY <2>1 DEF ClaimJob, TypeInv, TypeOK, ProcTypeOK, Work
  <2>2. ASSUME NEW x \in Row, AddHash(r, x) PROVE \E S \in SUBSET Row : files' = Revive(S)
    BY <2>2 DEF AddHash
  <2> QED
    BY <1>3, <2>1, <2>2 DEF JobStep, Lookup, Fetch, Hit, InsertJob, Execute, Ingest, IngestFails,
       Publish, SetRunnerStatus, FinishJob
<1>4. ASSUME NEW r \in Proc, ScanBlobs(r) \/ CollectBlobs(r) PROVE files' = files
  BY <1>4 DEF ScanBlobs, CollectBlobs
<1>5. ASSUME NEW S \in SUBSET Run, Reap(S) PROVE files' = files
  BY <1>5 DEF Reap
<1>6. ASSUME CommandStep PROVE \A x \in Row : files[x] # "none" => files'[x] # "none"
  BY <1>6 DEF CommandStep, RmCommit, RmCrash, RmUnlink, Prune, UserRemove
<1> QED
  BY <1>1, <1>2, <1>3, <1>4, <1>5, <1>6, ReviveKeeps DEF Next

\* RunFilesExist is inductive: delete_stale_files spares what run_files lists.
LEMMA RunFilesStep == TypeInv /\ RunFilesExist /\ [Next]_vars => RunFilesExist'
<1> SUFFICES ASSUME TypeInv, RunFilesExist, [Next]_vars PROVE RunFilesExist'
  OBVIOUS
<1> USE DEF dbVars
<1>1. ASSUME NEW r \in Run, Clean(r) PROVE RunFilesExist'
  BY <1>1 DEF Clean, WithoutStale, RunFilesExist, TypeInv, TypeOK, DbTypeOK
<1>2. CASE ClearJobs
  BY <1>2 DEF ClearJobs, RunFilesExist, LiveRow, TypeInv, TypeOK, DbTypeOK
<1>3. CASE ~ClearJobs /\ \A r \in Run : ~Clean(r)
  <2>1. \A x \in Row : files[x] # "none" => files'[x] # "none"
    BY <1>3, RowsStay
  <2>2. \A q \in Run : runFiles[q] \subseteq Row
    BY DEF TypeInv, TypeOK, DbTypeOK
  <2>3. ASSUME \A q \in Run : runFiles'[q] \subseteq runFiles[q] PROVE RunFilesExist'
    BY <2>1, <2>2, <2>3 DEF RunFilesExist
  <2>4. ASSUME NEW r \in Run, NEW S \in SUBSET Row, files' = Revive(S),
               runFiles' = [runFiles EXCEPT ![r] = @ \cup S]
        PROVE  RunFilesExist'
    <3>1. \A q \in Run : runFiles'[q] \subseteq runFiles[q] \cup S
      BY <2>4 DEF TypeInv, TypeOK, DbTypeOK
    <3> QED
      BY <2>1, <2>2, <2>4, <3>1, ReviveKeeps DEF RunFilesExist
  <2>5. ASSUME NEW r \in Run, JobStep(r) PROVE RunFilesExist'
    <3>1. CASE ClaimJob(r)
      <4>1. work[r].outs \in SUBSET Row
        BY DEF TypeInv, TypeOK, ProcTypeOK, Work
      <4>2. \/ files' = Revive(work[r].outs)
               /\ runFiles' = [runFiles EXCEPT ![r] = @ \cup work[r].outs]
            \/ runFiles' = runFiles
        BY <3>1, Zenon DEF ClaimJob
      <4> QED
        BY <2>3, <2>4, <4>1, <4>2
    <3>2. ASSUME NEW x \in Row, AddHash(r, x) PROVE RunFilesExist'
      BY <2>4, <3>2 DEF AddHash
    <3>3. CASE runFiles' = runFiles
      BY <2>3, <3>3
    <3> QED
      BY <2>5, <3>1, <3>2, <3>3 DEF JobStep, Lookup, Fetch, Hit, InsertJob, Execute, Ingest,
         IngestFails, Publish, SetRunnerStatus, FinishJob
  <2>6. ASSUME NEW r \in Run, BeginRun(r) \/ Prepare(r) \/ FinishRun(r) \/ Crash(r)
        PROVE  \A q \in Run : runFiles'[q] \subseteq runFiles[q]
    BY <2>6 DEF BeginRun, Prepare, FinishRun, Crash, TypeInv, TypeOK, DbTypeOK
  <2>7. ASSUME NEW r \in Proc, ScanBlobs(r) \/ CollectBlobs(r) PROVE runFiles' = runFiles
    BY <2>7 DEF ScanBlobs, CollectBlobs
  <2>8. ASSUME NEW S \in SUBSET Run, Reap(S) PROVE \A q \in Run : runFiles'[q] \subseteq runFiles[q]
    BY <2>8 DEF Reap
  <2>9. CASE CommandStep \/ UNCHANGED vars
    BY <1>3, <2>3, <2>9 DEF CommandStep, RmCommit, RmCrash, RmUnlink, Prune, UserRemove, vars
  <2> QED
    BY <1>3, <2>3, <2>5, <2>6, <2>7, <2>8, <2>9 DEF Next
<1> QED
  BY <1>1, <1>2, <1>3

\* What a step may newly make a job refer to is claimed by its run.
LEMMA NewReferences ==
  ASSUME TypeInv, StageInv, ClaimInv, [Next]_vars, NEW j \in jobs'
  PROVE  \A x \in References(j)' :
           (j \in jobs /\ x \in References(j)) \/ \E r \in Run : x \in runFiles[r]
<1> USE DEF dbVars
<1>1. CASE jobs' \subseteq jobs /\ info' = info
  BY <1>1 DEF References
<1>2. ASSUME NEW r \in Run, InsertJob(r)
      PROVE  \/ j \in jobs /\ References(j)' \subseteq References(j)
             \/ \E q \in Run : References(j)' \subseteq runFiles[q]
  <2>0. status[r] = "live" /\ nextJob \in Job
    <3>1. JobStep(r)
      BY <1>2 DEF JobStep
    <3>2. nextJob \in 1 .. (MaxJob + 1) /\ nextJob <= MaxJob
      BY <1>2 DEF InsertJob, TypeInv, TypeOK, DbTypeOK
    <3>3. MaxJob \in Nat
      BY StoreAssumption
    <3>4. nextJob \in Job
      BY <3>2, <3>3 DEF Job
    <3> QED
      BY <3>1, <3>4, JobStepIsLive
  <2>1. CASE j # nextJob
    BY <1>2, <2>1 DEF InsertJob, References, TypeInv, TypeOK, DbTypeOK
  <2>2. CASE j = nextJob
    <3>1. info'[j] = [NoInfo EXCEPT !.key = work[r].key, !.visible = work[r].visible]
      BY <1>2, <2>0, <2>2 DEF InsertJob, TypeInv, TypeOK, DbTypeOK
    <3>2. info'[j].visible = work[r].visible /\ info'[j].inputs = {} /\ info'[j].outputs = {}
      BY <3>1 DEF NoInfo
    <3> QED
      BY <2>0, <3>2 DEF References, ClaimInv
  <2> QED
    BY <2>1, <2>2
<1>3. ASSUME NEW r \in Run, SetRunnerStatus(r)
      PROVE  j \in jobs /\ References(j)' \subseteq References(j)
  <2>1. info'[j] = info[j] \/ info'[j] = [info[j] EXCEPT !.err = work[r].bad]
    BY <1>3 DEF SetRunnerStatus, TypeInv, TypeOK, DbTypeOK
  <2>2. info[j] \in JobInfo /\ j \in jobs
    BY <1>3 DEF SetRunnerStatus, TypeInv, TypeOK, DbTypeOK
  <2> QED
    BY <2>1, <2>2 DEF References, JobInfo
<1>4. ASSUME NEW r \in Run, FinishJob(r)
      PROVE  \E q \in Run : References(j)' \subseteq runFiles[q] \cup References(j) /\ j \in jobs
  <2>0. /\ status[r] = "live" /\ work[r].visible \cup Secured(work[r]) \subseteq runFiles[r]
        /\ Secured(work[r]) = work[r].outs
    BY <1>4, JobStepIsLive DEF JobStep, ClaimInv, FinishJob, Doing, Secured
  <2>1. j \in jobs /\ j \in Job /\ info[j] \in JobInfo
    BY <1>4 DEF FinishJob, DeleteJobs, TypeInv, TypeOK, DbTypeOK
  <2> DEFINE outs == IF work[r].bad THEN {} ELSE work[r].outs
             ins  == {x \in work[r].visible : x[1] \in Reads[work[r].key]}
             new  == [info[work[r].job] EXCEPT !.done = TRUE, !.keep = work[r].ok,
                                               !.outputs = outs, !.inputs = ins]
  <2>2. info' = [info EXCEPT ![work[r].job] = new]
    BY <1>4, Zenon DEF FinishJob
  <2>3. outs \subseteq runFiles[r] /\ ins \subseteq runFiles[r]
    BY <2>0
  <2> HIDE DEF outs, ins
  <2>4. \/ info'[j] = info[j]
        \/ /\ info'[j].visible = info[j].visible
           /\ info'[j].outputs = outs /\ info'[j].inputs = ins
    BY <2>1, <2>2 DEF TypeInv, TypeOK, DbTypeOK, JobInfo
  <2> QED
    BY <2>1, <2>3, <2>4 DEF References
<1>5. \/ jobs' \subseteq jobs /\ info' = info
      \/ \E r \in Run : InsertJob(r) \/ SetRunnerStatus(r) \/ FinishJob(r)
  <2>1. ASSUME NEW r \in Run, JobStep(r)
        PROVE  \/ jobs' = jobs /\ info' = info
               \/ InsertJob(r) \/ SetRunnerStatus(r) \/ FinishJob(r)
    BY <2>1 DEF JobStep, Lookup, ClaimJob, Fetch, Hit, Execute, AddHash, Ingest, IngestFails, Publish
  <2>2. ASSUME NEW r \in Run,
               BeginRun(r) \/ Prepare(r) \/ FinishRun(r) \/ Clean(r) \/ Crash(r)
        PROVE  jobs' \subseteq jobs /\ info' = info
    BY <2>2 DEF BeginRun, Prepare, FinishRun, Clean, DeleteJobs, Crash
  <2>3. ASSUME NEW r \in Proc, ScanBlobs(r) \/ CollectBlobs(r) PROVE jobs' = jobs /\ info' = info
    BY <2>3 DEF ScanBlobs, CollectBlobs
  <2>4. ASSUME NEW S \in SUBSET Run, Reap(S) PROVE jobs' = jobs /\ info' = info
    BY <2>4 DEF Reap
  <2>5. CASE CommandStep \/ UNCHANGED vars
    BY <2>5 DEF CommandStep, RmCommit, RmCrash, RmUnlink, ClearJobs, Prune, UserRemove, vars,
       DeleteJobs
  <2> QED
    BY <2>1, <2>2, <2>3, <2>4, <2>5 DEF Next
<1> QED
  BY <1>1, <1>2, <1>3, <1>4, <1>5

\* JobRowsExist is inductive, given what is known of claims.
LEMMA JobRowsStep ==
  ASSUME TypeInv, StageInv, ClaimInv, RunFilesExist, JobRowsExist, [Next]_vars
  PROVE  JobRowsExist'
<1> SUFFICES ASSUME NEW j \in jobs', NEW x \in References(j)', files'[x] = "none" PROVE FALSE
  BY DEF JobRowsExist
<1>0. jobs' \subseteq Job /\ References(j)' \subseteq Row
  BY NextType DEF TypeInv, TypeOK, DbTypeOK, JobInfo, References
<1>1. x \in Row /\ files[x] # "none"
  BY <1>0, NewReferences DEF RunFilesExist, JobRowsExist
<1>2. ASSUME NEW r \in Run, Clean(r) PROVE FALSE
  <2> DEFINE D == {i \in jobs : /\ ~info[i].keep
                                /\ info[i].outputs = {}
                                /\ UpToWatermark(i, watermark[r])}
  <2>1. jobs' = jobs \ D /\ files' = WithoutStale(jobs \ D) /\ info' = info
    BY <1>2, Zenon DEF Clean, DeleteJobs
  <2> HIDE DEF D
  <2>2. j \in jobs \ D /\ x \in References(j)
    BY <2>1 DEF References
  <2> QED
    BY <1>1, <2>1, <2>2 DEF WithoutStale
<1>3. ASSUME ClearJobs PROVE FALSE
  BY <1>3 DEF ClearJobs, DeleteJobs
<1> QED
  BY <1>0, <1>1, <1>2, <1>3, RowsStay

-----------------------------------------------------------------------------
(* The invariant, and what follows from it *)

\* The empty store satisfies the invariant.
LEMMA StoreInit == Init => StoreInv
<1> SUFFICES ASSUME Init PROVE StoreInv
  OBVIOUS
<1>1. TypeInv /\ RunsInv
  BY InitType, RunsInitInv DEF Init
<1>2. StageInv /\ FreshInv /\ UniqueLivePath /\ HeldInv /\ ClaimInv
  BY MaxRunAssumption DEF Init, RunsInit, StageInv, FreshInv, UniqueLivePath, LiveRow, HeldInv,
     ClaimInv, Run, Proc
<1>3. RunFilesExist /\ JobRowsExist
  BY DEF Init, RunFilesExist, JobRowsExist
<1> QED
  BY <1>1, <1>2, <1>3 DEF StoreInv

\* Every step preserves it.
LEMMA StoreNext == StoreInv /\ [Next]_vars => StoreInv'
<1> SUFFICES ASSUME StoreInv, [Next]_vars PROVE StoreInv'
  OBVIOUS
<1>1. TypeInv' /\ RunsInv'
  BY NextType, RunTableStep, RunsNextInv DEF StoreInv
<1>2. StageInv' /\ FreshInv' /\ UniqueLivePath'
  BY StageStep, FreshStep, UniqueStep DEF StoreInv
<1>3. HeldInv'
  BY HeldStep DEF StoreInv
<1>4. ClaimInv' /\ RunFilesExist' /\ JobRowsExist'
  BY ClaimStep, RunFilesStep, JobRowsStep DEF StoreInv
<1> QED
  BY <1>1, <1>2, <1>3, <1>4 DEF StoreInv

\* finish_job and clean of other runs, --clean and --prune never delete a job
\* that a running program has as a value.
THEOREM HeldJobsAreKept == Spec => []HeldJobsKept
<1>1. StoreInv => HeldJobsKept
  BY DEF StoreInv, HeldInv, HeldJobsKept
<1> QED
  BY StoreInit, StoreNext, <1>1, PTL DEF Spec

\* The file rows of the Paths a running program has stay, claimed by its run.
THEOREM KnownRowsArePersistent == Spec => []KnownRowsPersist
<1>1. StoreInv => KnownRowsPersist
  BY DEF StoreInv, ClaimInv, RunFilesExist, KnownRowsPersist
<1> QED
  BY StoreInit, StoreNext, <1>1, PTL DEF Spec

\* No filetree row ever dangles.
THEOREM JobRowsAlwaysExist == Spec => []JobRowsExist
<1>1. StoreInv => JobRowsExist
  BY DEF StoreInv
<1> QED
  BY StoreInit, StoreNext, <1>1, PTL DEF Spec

\* The run table of the store behaves as ActiveRuns says.
THEOREM StoreUsesRuns == Spec => RunsSpec
<1>1. Init => RunsInit
  BY DEF Init
<1> QED
  BY <1>1, RunTableStep, PTL DEF Spec, RunsSpec
=============================================================================
