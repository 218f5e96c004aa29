------------------------------ MODULE JobTable ------------------------------
(***************************************************************************)
(* How one wake process runs its jobs: job.cpp.                            *)
(*                                                                         *)
(* The main loop alternates between Runtime::run, in which the wake        *)
(* program hands jobs to the table and waits on their results, and         *)
(* JobTable::wait, which launches pending jobs under the CPU and memory    *)
(* budgets, polls their pipes and collects their exits.  Children write,   *)
(* close and exit whenever they like; SIGCHLD is blocked except while      *)
(* launching and polling.                                                  *)
(*                                                                         *)
(* The priority of pending jobs is left out: any of them may be the front  *)
(* of the heap.  A pipe holds a number of buffers of data, each read at    *)
(* once.                                                                   *)
(***************************************************************************)
EXTENDS Integers, FiniteSets, Functions

CONSTANTS
  Job,
  Std,          \* streams of the job itself: stdout, stderr
  Runner,       \* streams of its runner: runner_out, runner_err
  Threads,      \* Threads[j]: Job::threads, in hundredths
  Memory,       \* Memory[j]: Job::memory
  CpuLimit, MemLimit, MaxChildren,
  Programs      \* the wake programs: jobs, streams their processes write to,
                \* wait queues, and the bound on the buffers a pipe holds

Stream == Std \cup Runner
Queue == Stream \cup {"reality", "report"}

ASSUME JobsAssumption ==
  IsFiniteSet(Job) /\ Threads \in [Job -> Nat \ {0}] /\ Memory \in [Job -> Nat \ {0}]
ASSUME StreamsAssumption ==
  /\ Std \cap Runner = {}
  /\ Stream \cap {"forked", "merged", "finished", "reality", "report"} = {}
ASSUME LimitsAssumption ==
  CpuLimit \in Nat \ {0} /\ MemLimit \in Nat \ {0} /\ MaxChildren \in Nat \ {0}
ASSUME ProgramsAssumption ==
  \A p \in Programs : /\ p.jobs \subseteq Job /\ p.streams \subseteq Stream
                      /\ p.waits \subseteq Queue /\ p.data \in Nat

Bits == Stream \cup {"forked", "merged", "finished"}

VARIABLES
  program,    \* the wake program, one of Programs
  state,      \* state[j]: the bits of Job::state
  failed,     \* jobs with bad_launch
  pending,    \* tasks not yet forked
  queue,      \* queue[j]: wait queues with continuations
  answered,   \* answered[j]: wait queues that were woken
  stack,      \* jobs with a WJob on the runtime's stack
  child,      \* child[j]: the process of the job
  pipes,      \* pipes[j]: streams wake reads from
  writers,    \* writers[j]: streams some process can write to
  data,       \* data[j][s]: buffers written and not read
  lost,       \* lost[j]: streams of which wake dropped data
  numRunning, active, physActive,
  pc,         \* where the main loop is
  ready,      \* ready_fds still to be handled
  done,       \* done > 0
  childReady, \* child_ready
  sigchld,    \* a SIGCHLD is pending
  exitAsap,   \* exit_asap
  abort       \* runtime.abort

jobVars == <<program, state, failed, pending, queue, answered, stack>>
procVars == <<child, pipes, writers, data, lost>>
loadVars == <<numRunning, active, physActive>>
loopVars == <<pc, ready, done, childReady, sigchld, exitAsap, abort>>
vars == <<jobVars, procVars, loadVars, loopVars>>

JobsTyped ==
  /\ program \in Programs
  /\ state \in [Job -> SUBSET Bits]
  /\ failed \in SUBSET Job
  /\ pending \in SUBSET Job
  /\ queue \in [Job -> SUBSET Queue]
  /\ answered \in [Job -> SUBSET Queue]
  /\ stack \in SUBSET Job

ProcessesTyped ==
  /\ child \in [Job -> {"none", "alive", "zombie", "gone"}]
  /\ pipes \in [Job -> SUBSET Stream]
  /\ writers \in [Job -> SUBSET Stream]
  /\ lost \in [Job -> SUBSET Stream]

DataTyped == data \in [Job -> [Stream -> 0 .. program.data]]

LoadTyped == numRunning \in Nat /\ active \in Nat /\ physActive \in Nat

LoopTyped ==
  /\ pc \in {"run", "launch", "poll", "pipes", "reap", "term", "exited", "failed"}
  /\ ready \in SUBSET (Job \X Stream)
  /\ done \in BOOLEAN /\ childReady \in BOOLEAN /\ sigchld \in BOOLEAN /\ exitAsap \in BOOLEAN
  /\ abort \in BOOLEAN

TypeOK == JobsTyped /\ ProcessesTyped /\ DataTyped /\ LoadTyped /\ LoopTyped

Init ==
  /\ program \in Programs
  /\ state = [j \in Job |-> {}]
  /\ failed = {}
  /\ pending = {}
  /\ queue = [j \in Job |-> {}]
  /\ answered = [j \in Job |-> {}]
  /\ stack = {}
  /\ child = [j \in Job |-> "none"]
  /\ pipes = [j \in Job |-> {}]
  /\ writers = [j \in Job |-> {}]
  /\ data = [j \in Job |-> [s \in Stream |-> 0]]
  /\ lost = [j \in Job |-> {}]
  /\ numRunning = 0 /\ active = 0 /\ physActive = 0
  /\ pc = "run"
  /\ ready = {}
  /\ done = FALSE /\ childReady = FALSE /\ sigchld = FALSE /\ exitAsap = FALSE
  /\ abort = FALSE

\* A job whose JobEntry exists: its process is not reaped or a pipe is open.
Entry(j) == child[j] \in {"alive", "zombie"} \/ pipes[j] # {}

-----------------------------------------------------------------------------
(* Runtime::run: the wake program and its jobs *)

\* The job has not entered processing; runner messages may have been reported.
Fresh(j) == pc = "run" /\ state[j] \subseteq Runner /\ j \notin pending

SetState(j, bits) == state' = [state EXCEPT ![j] = bits]

\* prim_job_launch
JobLaunch(j) ==
  /\ Fresh(j)
  /\ pending' = pending \cup {j}
  /\ UNCHANGED <<program, state, failed, queue, answered, stack, procVars, loadVars, loopVars>>

\* prim_job_virtual
JobVirtual(j) ==
  /\ Fresh(j)
  /\ SetState(j, Stream \cup {"forked", "merged"})
  /\ stack' = stack \cup {j}
  /\ UNCHANGED <<program, failed, pending, queue, answered, procVars, loadVars, loopVars>>

\* prim_job_cache: a job that comes from the database is complete from the start.
JobCached(j) ==
  /\ Fresh(j)
  /\ state[j] = {} /\ queue[j] = {}
  /\ SetState(j, Bits)
  /\ UNCHANGED <<program, failed, pending, queue, answered, stack, procVars, loadVars, loopVars>>

\* prim_job_fail_launch
JobFailLaunch(j) ==
  /\ Fresh(j)
  /\ SetState(j, Std \cup {"forked", "merged"})
  /\ failed' = failed \cup {j}
  /\ stack' = stack \cup {j}
  /\ UNCHANGED <<program, pending, queue, answered, procVars, loadVars, loopVars>>

\* prim_job_report_runner_output and prim_job_report_runner_error
JobReportRunner(j, s) ==
  /\ pc = "run"
  /\ s \in Runner \ state[j]
  /\ SetState(j, state[j] \cup {s})
  /\ stack' = stack \cup {j}
  /\ UNCHANGED <<program, failed, pending, queue, answered, procVars, loadVars, loopVars>>

\* prim_job_output, prim_job_runner_output, prim_job_reality, prim_job_report
\* and prim_job_tree: wait on a queue.
JobWait(j, q) ==
  /\ pc = "run"
  /\ q \notin queue[j] \cup answered[j]
  /\ queue' = [queue EXCEPT ![j] = @ \cup {q}]
  /\ stack' = stack \cup {j}
  /\ UNCHANGED <<program, state, failed, pending, answered, procVars, loadVars, loopVars>>

\* The bit that wakes a queue.
WakenBy(q) == IF q = "reality" THEN "merged" ELSE IF q = "report" THEN "finished" ELSE q

\* WJob::execute
Execute(j) ==
  /\ pc = "run"
  /\ j \in stack
  /\ stack' = stack \ {j}
  /\ LET woken == {q \in queue[j] : WakenBy(q) \in state[j]}
     IN /\ queue' = [queue EXCEPT ![j] = @ \ woken]
        /\ answered' = [answered EXCEPT ![j] = @ \cup woken]
  /\ UNCHANGED <<program, state, failed, pending, procVars, loadVars, loopVars>>

\* finalizeJob has waited for the job to be merged.
Finishable(j) == "reality" \in answered[j] /\ "finished" \notin state[j]

\* prim_job_finish
JobFinish(j) ==
  /\ pc = "run"
  /\ Finishable(j)
  /\ SetState(j, state[j] \cup {"finished"})
  /\ stack' = stack \cup {j}
  /\ UNCHANGED <<program, failed, pending, queue, answered, procVars, loadVars, loopVars>>

\* Nothing is left to compute: JobTable::wait.
Wait ==
  /\ pc = "run"
  /\ stack = {}
  /\ \A j \in Job : ~Finishable(j)
  /\ pc' = "launch"
  /\ UNCHANGED <<jobVars, procVars, loadVars, ready, done, childReady, sigchld, exitAsap, abort>>

\* A panic sets runtime.abort and leaves the main loop.
Abort ==
  /\ pc = "run"
  /\ abort' = TRUE
  /\ pc' = "term"
  /\ UNCHANGED <<jobVars, procVars, loadVars, ready, done, childReady, sigchld, exitAsap>>

-----------------------------------------------------------------------------
(* JobTable::wait *)

\* Mutant: memory is not looked at.
CanLaunchAnyMemory(j) == numRunning < MaxChildren /\ active < CpuLimit

\* Mutant: no exception for a job that would run alone.
CanLaunchFitting(j) ==
  numRunning < MaxChildren /\ active < CpuLimit /\ physActive + Memory[j] < MemLimit

\* The condition of launch's loop for the front of the heap.
CanLaunch(j) ==
  /\ numRunning < MaxChildren
  /\ active < CpuLimit
  /\ physActive = 0 \/ physActive + Memory[j] < MemLimit

\* Mutant: child_ready is reset after wake_spawn.
LaunchResets(j) ==
  /\ pc = "launch"
  /\ j \in pending
  /\ CanLaunch(j)
  /\ pending' = pending \ {j}
  /\ SetState(j, state[j] \cup {"forked"})
  /\ child' = [child EXCEPT ![j] = "alive"]
  /\ pipes' = [pipes EXCEPT ![j] = program.streams]
  /\ writers' = [writers EXCEPT ![j] = program.streams]
  /\ numRunning' = numRunning + 1
  /\ active' = active + Threads[j]
  /\ physActive' = physActive + Memory[j]
  /\ childReady' = FALSE
  /\ sigchld' = FALSE
  /\ UNCHANGED <<program, failed, queue, answered, stack, data, lost, pc, ready, done, exitAsap, abort>>

\* One round of launch.  SIGCHLD is unblocked around wake_spawn.
Launch(j) ==
  /\ pc = "launch"
  /\ j \in pending
  /\ CanLaunch(j)
  /\ pending' = pending \ {j}
  /\ SetState(j, state[j] \cup {"forked"})
  /\ child' = [child EXCEPT ![j] = "alive"]
  /\ pipes' = [pipes EXCEPT ![j] = program.streams]
  /\ writers' = [writers EXCEPT ![j] = program.streams]
  /\ numRunning' = numRunning + 1
  /\ active' = active + Threads[j]
  /\ physActive' = physActive + Memory[j]
  /\ childReady' = (childReady \/ sigchld)
  /\ sigchld' = FALSE
  /\ UNCHANGED <<program, failed, queue, answered, stack, data, lost, pc, ready, done, exitAsap, abort>>

\* A pipe cannot be created or the shim cannot be spawned: exit(1).
LaunchFails(j) ==
  /\ pc = "launch"
  /\ j \in pending
  /\ CanLaunch(j)
  /\ pc' = "failed"
  /\ UNCHANGED <<jobVars, procVars, loadVars, ready, done, childReady, sigchld, exitAsap, abort>>

LaunchEnds ==
  /\ pc = "launch"
  /\ pending = {} \/ \E j \in pending : ~CanLaunch(j)
  /\ pc' = "poll"
  /\ UNCHANGED <<jobVars, procVars, loadVars, ready, done, childReady, sigchld, exitAsap, abort>>

\* The loop of wait ends without anything done, and the main loop with it.
WaitEnds ==
  /\ pc = "poll"
  /\ exitAsap \/ numRunning = 0
  /\ pc' = "term"
  /\ UNCHANGED <<jobVars, procVars, loadVars, ready, done, childReady, sigchld, exitAsap, abort>>

\* Pipes with data or at end of file.
Readable ==
  UNION {{j} \X {s \in pipes[j] : data[j][s] > 0 \/ s \notin writers[j]} : j \in Job}

\* poll.wait gets a zero timeout.
NoWait == childReady \/ exitAsap

\* Mutant: signals stay blocked while polling.
PollBlocked ==
  /\ pc = "poll"
  /\ numRunning > 0
  /\ Readable # {}
  /\ ready' = Readable
  /\ pc' = "pipes"
  /\ UNCHANGED <<jobVars, procVars, loadVars, done, childReady, sigchld, exitAsap, abort>>

\* With a file descriptor ready or without a timeout a pending SIGCHLD may stay
\* pending; otherwise it interrupts poll, and its handler runs.
Poll ==
  /\ pc = "poll"
  /\ numRunning > 0
  /\ \/ /\ NoWait \/ Readable # {}
        /\ ready' = Readable
        /\ UNCHANGED <<program, childReady, sigchld>>
     \/ /\ sigchld
        /\ ready' = {}
        /\ childReady' = TRUE
        /\ sigchld' = FALSE
  /\ pc' = "pipes"
  /\ UNCHANGED <<jobVars, procVars, loadVars, done, exitAsap, abort>>

\* ~JobEntry, once neither pidmap nor pipes refers to the entry any more.
Release(j, last) ==
  IF last
  THEN /\ numRunning' = numRunning - 1
       /\ active' = active - Threads[j]
       /\ physActive' = physActive - Memory[j]
  ELSE UNCHANGED loadVars

\* handle_pipe_data: one read, which ends the stream at end of file.
HandlePipe(j, s) ==
  /\ pc = "pipes"
  /\ <<j, s>> \in ready
  /\ ready' = ready \ {<<j, s>>}
  /\ IF data[j][s] > 0
     THEN /\ data' = [data EXCEPT ![j][s] = data[j][s] - 1]
          /\ UNCHANGED <<program, state, stack, pipes, done, loadVars>>
     ELSE /\ pipes' = [pipes EXCEPT ![j] = pipes[j] \ {s}]
          /\ SetState(j, state[j] \cup {s})
          /\ stack' = stack \cup {j}
          /\ done' = TRUE
          /\ Release(j, child[j] = "gone" /\ pipes[j] = {s})
          /\ UNCHANGED data
  /\ UNCHANGED <<program, failed, pending, queue, answered, child, writers, lost, pc, childReady, sigchld,
                 exitAsap, abort>>

PipesHandled ==
  /\ pc = "pipes"
  /\ ready = {}
  /\ childReady' = FALSE
  /\ pc' = "reap"
  /\ UNCHANGED <<jobVars, procVars, loadVars, ready, done, sigchld, exitAsap, abort>>

\* Mutant: every pipe is closed when the child has ended.
ReapClosesAll(j) ==
  /\ pc = "reap"
  /\ child[j] = "zombie"
  /\ child' = [child EXCEPT ![j] = "gone"]
  /\ SetState(j, state[j] \cup {"merged"} \cup pipes[j])
  /\ lost' = [lost EXCEPT ![j] = lost[j] \cup {s \in pipes[j] : data[j][s] > 0}]
  /\ data' = [data EXCEPT ![j] = [s \in Stream |-> 0]]
  /\ pipes' = [pipes EXCEPT ![j] = {}]
  /\ Release(j, TRUE)
  /\ stack' = stack \cup {j}
  /\ done' = TRUE
  /\ UNCHANGED <<program, failed, pending, queue, answered, writers, pc, ready, childReady, sigchld,
                 exitAsap, abort>>

\* waitpid returns the child.  Runner pipes still open are closed as they are.
Reap(j) ==
  /\ pc = "reap"
  /\ child[j] = "zombie"
  /\ child' = [child EXCEPT ![j] = "gone"]
  /\ SetState(j, state[j] \cup {"merged"} \cup (pipes[j] \cap Runner))
  /\ lost' = [lost EXCEPT ![j] = lost[j] \cup {s \in pipes[j] \cap Runner : data[j][s] > 0}]
  /\ data' = [data EXCEPT ![j] = [s \in Stream |-> IF s \in Runner THEN 0 ELSE data[j][s]]]
  /\ pipes' = [pipes EXCEPT ![j] = pipes[j] \ Runner]
  /\ Release(j, pipes[j] \subseteq Runner)
  /\ stack' = stack \cup {j}
  /\ done' = TRUE
  /\ UNCHANGED <<program, failed, pending, queue, answered, writers, pc, ready, childReady, sigchld,
                 exitAsap, abort>>

\* No child is left to collect: compute if anything was done, poll again if not.
ReapEnds ==
  /\ pc = "reap"
  /\ \A j \in Job : child[j] # "zombie"
  /\ pc' = IF done THEN "run" ELSE "poll"
  /\ done' = FALSE
  /\ UNCHANGED <<jobVars, procVars, loadVars, ready, childReady, sigchld, exitAsap, abort>>

-----------------------------------------------------------------------------
(* JobTable::~JobTable *)

\* A child that ended after one of the SIGTERMs.
TermReap(j) ==
  /\ pc = "term"
  /\ child[j] = "zombie"
  /\ child' = [child EXCEPT ![j] = "gone"]
  /\ Release(j, pipes[j] = {})
  /\ UNCHANGED <<jobVars, pipes, writers, data, lost, loopVars>>

\* Mutant: no SIGKILL.
TermGivesUp ==
  /\ pc = "term"
  /\ pc' = "exited"
  /\ UNCHANGED <<jobVars, procVars, loadVars, ready, done, childReady, sigchld, exitAsap, abort>>

\* All have ended, or SIGKILL after the last attempt.
TermEnds ==
  /\ pc = "term"
  /\ child' = [j \in Job |-> IF child[j] = "alive" THEN "zombie" ELSE child[j]]
  /\ pc' = "exited"
  /\ UNCHANGED <<jobVars, pipes, writers, data, lost, loadVars, ready, done, childReady, sigchld,
                 exitAsap, abort>>

-----------------------------------------------------------------------------
(* The children, and signals to wake *)

Going == pc \notin {"exited", "failed"}

\* A job, or a process it left behind, writes to a pipe that wake reads.
Write(j, s) ==
  /\ Going /\ pc # "term"
  /\ s \in writers[j] \cap pipes[j]
  /\ data[j][s] < program.data
  /\ data' = [data EXCEPT ![j][s] = data[j][s] + 1]
  /\ UNCHANGED <<jobVars, child, pipes, writers, lost, loadVars, loopVars>>

\* The last process that could write to the pipe closes it.
Close(j, s) ==
  /\ Going /\ pc # "term"
  /\ s \in writers[j]
  /\ writers' = [writers EXCEPT ![j] = writers[j] \ {s}]
  /\ UNCHANGED <<jobVars, child, pipes, data, lost, loadVars, loopVars>>

\* The child exits; processes it left behind keep the streams in kept.
Exit(j, kept) ==
  /\ Going
  /\ child[j] = "alive"
  /\ child' = [child EXCEPT ![j] = "zombie"]
  /\ writers' = [writers EXCEPT ![j] = kept]
  /\ sigchld' = TRUE
  /\ UNCHANGED <<jobVars, pipes, data, lost, loadVars, pc, ready, done, childReady, exitAsap, abort>>

\* SIGINT, SIGTERM and the like.
Interrupt ==
  /\ Going
  /\ ~exitAsap
  /\ exitAsap' = TRUE
  /\ UNCHANGED <<jobVars, procVars, loadVars, pc, ready, done, childReady, sigchld, abort>>

-----------------------------------------------------------------------------

\* What wake does by itself.
Loop ==
  \/ \E j \in Job : Execute(j) \/ JobFinish(j)
  \/ Wait
  \/ (\E j \in Job : Launch(j)) \/ LaunchEnds
  \/ WaitEnds \/ Poll
  \/ (\E j \in Job, s \in Stream : HandlePipe(j, s)) \/ PipesHandled
  \/ (\E j \in Job : Reap(j)) \/ ReapEnds
  \/ (\E j \in Job : TermReap(j)) \/ TermEnds

\* What the wake program asks for.
Program ==
  \E j \in program.jobs :
    \/ JobLaunch(j) \/ JobVirtual(j) \/ JobCached(j) \/ JobFailLaunch(j)
    \/ \E s \in Runner \cap program.streams : JobReportRunner(j, s)
    \/ \E q \in program.waits : JobWait(j, q)

Environment ==
  \/ \E j \in Job, s \in Stream : Write(j, s)
  \/ \E j \in Job, s \in Stream : Close(j, s)
  \/ \E j \in Job : \E kept \in SUBSET writers[j] : Exit(j, kept)
  \/ Interrupt

Next == Loop \/ Program \/ Environment \/ Abort \/ \E j \in Job : LaunchFails(j)

Spec == Init /\ [][Next]_vars

JobEnds == \E j \in Job : \E kept \in SUBSET writers[j] : Exit(j, kept)
PipeCloses == \E j \in Job, s \in Stream : Close(j, s)

\* wake keeps going; the processes of the jobs, and what they leave behind,
\* end one after the other.  Nothing obliges them to write, the program to
\* wait, or anyone to interrupt.
FairSpec == Spec /\ WF_vars(Loop) /\ WF_vars(JobEnds) /\ WF_vars(PipeCloses)

-----------------------------------------------------------------------------
(* Properties *)

Entries == {j \in Job : Entry(j)}

\* The budgets are those of the jobs that hold a JobEntry: what launch adds,
\* ~JobEntry gives back once, whether the process ends before or after its
\* pipes and whichever of them outlives it.
LoadIsAccounted ==
  /\ numRunning = Cardinality(Entries)
  /\ active = SumFunctionOnSet(Threads, Entries)
  /\ physActive = SumFunctionOnSet(Memory, Entries)

\* "We don't start a job that would oversubscribe RAM": memory is exceeded
\* only by a job that runs alone, and one job fewer leaves a CPU free.
BudgetsRespected ==
  /\ Cardinality(Entries) > 1 => physActive < MemLimit
  /\ Entries # {} => \E j \in Entries : active - Threads[j] < CpuLimit
  /\ Cardinality(Entries) <= MaxChildren

\* The main loop ends by itself only when every job has run and been reaped
\* with its pipes at end of file: launch leaves a job pending only while
\* another one runs.
LoopEndsIdle ==
  pc = "poll" /\ numRunning = 0 /\ ~exitAsap =>
    \A j \in Job : ~Entry(j) /\ j \notin pending \cup stack

\* No exit of a child is slept through: poll does not block on a child that
\* has ended, even when a process it left behind keeps its pipes open.
ExitsAreNoticed == pc = "poll" /\ (\E j \in Job : child[j] = "zombie") => NoWait \/ sigchld

\* "stdout fully in database": who waits for the output of a job gets all that
\* was written to the pipe, also by processes that outlive the job, and nobody
\* is left who could write more.
OutputIsComplete ==
  \A j \in Job : \A s \in Std :
    s \in state[j] =>
      s \notin pipes[j] /\ s \notin writers[j] /\ s \notin lost[j] /\ data[j][s] = 0

\* wake leaves no child of its own running when it ends in order.
NoChildOutlives == pc = "exited" => \A j \in Job : child[j] # "alive"

\* The build was interrupted, panicked or failed to launch a job.
Stopped == exitAsap \/ abort \/ pc = "failed"

\* Every job handed to the table is run to its end, however the budgets and
\* the other jobs' exits interleave: as the program's jobs are finitely many,
\* a time comes when none is pending, running or half reaped.
JobsComplete ==
  (pending # {}) ~> ((pending = {} /\ Entries = {}) \/ Stopped)

\* Continuations that wait for an output or the end of a job that was started
\* (the runner's output of a failed launch apart).
Started(j) == j \in pending \/ "forked" \in state[j]
Waiting ==
  UNION {{j} \X (queue[j] \ ({"report"} \cup IF j \in failed THEN Runner ELSE {})) :
           j \in {i \in Job : Started(i)}}

\* Each of them is resumed: none is left when the program has asked for all
\* it asks for.
WaitersResume == (Waiting # {}) ~> (Waiting = {} \/ Stopped)

\* "runner_out has been closed and in database": the state bit of a runner
\* stream means that all that was written to it was read.
RunnerOutputIsComplete ==
  \A j \in Job : \A s \in Runner : s \in state[j] => s \notin lost[j]

\* "Result returns an empty string if there is no runner output": waiting for
\* the runner output of a job that could not be launched ends.
FailedLaunchResumes ==
  \A j \in Job : \A s \in Runner :
    (j \in failed /\ s \in queue[j]) ~> (s \in answered[j] \/ Stopped)
=============================================================================
