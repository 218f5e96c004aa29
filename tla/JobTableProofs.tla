--------------------------- MODULE JobTableProofs ---------------------------
(***************************************************************************)
(* The safety of JobTable, for any finite set of jobs, any limits and any  *)
(* programs.                                                               *)
(*                                                                         *)
(* The budgets are sums over the jobs that hold an entry.  The first part  *)
(* proves what a sum over a finite set does when an element comes or goes. *)
(* The second shows that every step leaves the entries and the load alone, *)
(* adds one entry and its load, or removes one.  The budgets follow from   *)
(* that; the output and the end of the loop need how far each job has got  *)
(* (ProcInv), what poll promises about ready pipes (ReadyInv), what `done' *)
(* remembers (LoopInv) and who knows of an exit (SignalInv).               *)
(***************************************************************************)
EXTENDS JobTable, FiniteSetTheorems, TLAPS

\* Where a job stands: its process, its pipes and the bits of its state.
ProcInv ==
  \A j \in Job :
    /\ child[j] = "none" =>
         /\ pipes[j] = {} /\ writers[j] = {} /\ lost[j] = {}
         /\ data[j] = [s \in Stream |-> 0]
    /\ child[j] # "none" => "forked" \in state[j]
    /\ j \in pending => "forked" \notin state[j] /\ state[j] \cap Std = {}
    /\ lost[j] \subseteq Runner

\* What poll found ready stays so until it is handled.
ReadyInv ==
  pc = "pipes" =>
    \A j \in Job : \A s \in Stream :
      <<j, s>> \in ready => s \in pipes[j] /\ (data[j][s] > 0 \/ s \notin writers[j])

\* The main loop comes back to poll only when nothing was done: no job was
\* resumed and no entry was released.
LoopInv ==
  /\ pc \in {"run", "launch", "poll"} => ~done
  /\ pc \in {"launch", "poll"} \/ (pc \in {"pipes", "reap"} /\ ~done) => stack = {}
  /\ pc = "poll" /\ numRunning = 0 => pending = {}
  /\ pc \in {"pipes", "reap"} /\ ~done => numRunning > 0

\* A child that has ended is known to wake or about to be.
SignalInv ==
  pc \in {"run", "launch", "poll", "pipes"} /\ (\E j \in Job : child[j] = "zombie") =>
    childReady \/ sigchld

\* The inductive invariant.
JobInv ==
  /\ TypeOK
  /\ LoadIsAccounted
  /\ BudgetsRespected
  /\ ProcInv
  /\ OutputIsComplete
  /\ ReadyInv
  /\ LoopInv
  /\ SignalInv
  /\ NoChildOutlives

-----------------------------------------------------------------------------
(* Sums over finite sets of jobs. *)

\* m[A] is the sum of f over A, for every A \subseteq S.
Additive(m, f, S) ==
  /\ m \in [SUBSET S -> Nat]
  /\ m[{}] = 0
  /\ \A A \in SUBSET S : \A x \in S \ A : m[A \cup {x}] = m[A] + f[x]

\* A set of subsets of a finite set has a smallest member: the form of
\* induction over finite sets the lemmas below use.
LEMMA SmallestSubset ==
  ASSUME NEW S, IsFiniteSet(S), NEW T, T \subseteq SUBSET S, T # {}
  PROVE  \E A \in T : \A x \in A : A \ {x} \notin T
<1>1. IsWellFoundedOn(StrictSubsetOrdering(S), SUBSET S)
  BY FS_StrictSubsetOrderingWellFounded, FS_FiniteSubsetsOfFinite
<1>2. PICK A \in T : \A B \in T : <<B, A>> \notin StrictSubsetOrdering(S)
  BY ONLY <1>1, T \subseteq SUBSET S, T # {}, WFMin
<1>3. ASSUME NEW x \in A, A \ {x} \in T
      PROVE  FALSE
  <2>1. <<A \ {x}, A>> \in StrictSubsetOrdering(S)
    BY <1>3 DEF StrictSubsetOrdering
  <2>2. QED
    BY <1>2, <1>3, <2>1
<1>4. QED
  BY <1>2, <1>3

\* Sums over the subsets of a finite set exist.
LEMMA AdditiveExists ==
  ASSUME NEW S, IsFiniteSet(S), NEW f \in [S -> Nat]
  PROVE  \E m : Additive(m, f, S)
<1> DEFINE T == {A \in SUBSET S : ~ \E m : Additive(m, f, A)}
<1>1. SUFFICES ASSUME T # {}
               PROVE  FALSE
  BY <1>1
<1>2. PICK A \in T : \A x \in A : A \ {x} \notin T
  BY <1>1, SmallestSubset
<1>3. A # {}
  <2>1. SUFFICES ASSUME A = {}
                 PROVE  \E m : Additive(m, f, {})
    BY <1>2
  <2>2. Additive([B \in SUBSET {} |-> 0], f, {})
    BY DEF Additive
  <2>3. QED
    BY <2>2
<1>4. PICK x \in A : TRUE
  BY <1>3
<1>5. PICK m : Additive(m, f, A \ {x})
  BY <1>2, <1>4
<1> DEFINE n == [B \in SUBSET A |-> IF x \in B THEN m[B \ {x}] + f[x] ELSE m[B]]
<1>6. f[x] \in Nat /\ \A B \in SUBSET (A \ {x}) : m[B] \in Nat
  BY <1>4, <1>5, <1>2 DEF Additive
<1>7. n \in [SUBSET A -> Nat]
  <2>1. ASSUME NEW B \in SUBSET A
        PROVE  (IF x \in B THEN m[B \ {x}] + f[x] ELSE m[B]) \in Nat
    <3>1. CASE x \in B
      <4>1. B \ {x} \in SUBSET (A \ {x})
        OBVIOUS
      <4>2. QED
        BY <3>1, <4>1, <1>6
    <3>2. CASE x \notin B
      BY <3>2, <1>6
    <3>3. QED
      BY <3>1, <3>2
  <2>2. QED
    BY <2>1
<1>8. n[{}] = 0
  BY <1>5 DEF Additive
<1>9. ASSUME NEW B \in SUBSET A, NEW y \in A \ B
      PROVE  n[B \cup {y}] = n[B] + f[y]
  <2>1. f[y] \in Nat /\ B \cup {y} \in SUBSET A
    BY <1>2
  <2>2. CASE y = x
    <3>1. (B \cup {y}) \ {x} = B /\ x \in B \cup {y} /\ x \notin B
      BY <2>2
    <3>2. QED
      BY <3>1, <2>1, <2>2
  <2>3. CASE y # x /\ x \in B
    <3>1. (B \cup {y}) \ {x} = (B \ {x}) \cup {y} /\ x \in B \cup {y}
      BY <2>3
    <3>2. /\ B \ {x} \in SUBSET (A \ {x})
          /\ y \in (A \ {x}) \ (B \ {x})
      BY <2>3
    <3>3. m[(B \ {x}) \cup {y}] = m[B \ {x}] + f[y]
      BY <3>2, <1>5 DEF Additive
    <3>4. m[B \ {x}] \in Nat
      BY <3>2, <1>6
    <3>5. n[B \cup {y}] = m[(B \ {x}) \cup {y}] + f[x] /\ n[B] = m[B \ {x}] + f[x]
      BY <2>1, <2>3, <3>1
    <3>6. QED
      BY <3>3, <3>4, <3>5, <2>1, <1>6
  <2>4. CASE y # x /\ x \notin B
    <3>1. x \notin B \cup {y} /\ B \in SUBSET (A \ {x}) /\ y \in (A \ {x}) \ B
      BY <2>4
    <3>2. QED
      BY <3>1, <2>1, <1>5 DEF Additive
  <2>5. QED
    BY <2>2, <2>3, <2>4
<1>10. Additive(n, f, A)
  BY <1>7, <1>8, <1>9 DEF Additive
<1>11. QED
  BY <1>2, <1>10

\* SumFunctionOnSet computes them, whatever element its fold takes next.
LEMMA SumIsAdditive ==
  ASSUME NEW S, IsFiniteSet(S), NEW f \in [S -> Nat], NEW m, Additive(m, f, S),
         NEW A \in SUBSET S
  PROVE  SumFunctionOnSet(f, A) = m[A]
<1> DEFINE Elem(B) == CHOOSE x \in B : TRUE
           Step(g) == [B \in SUBSET A |-> IF B = {} THEN 0 ELSE f[Elem(B)] + g[B \ {Elem(B)}]]
           it == CHOOSE g : g = Step(g)
<1>1. SumFunctionOnSet(f, A) = it[A]
  BY DEF SumFunctionOnSet, FoldFunctionOnSet, MapThenFoldSet
<1>2. ASSUME NEW B \in SUBSET A, B # {}
      PROVE  /\ Elem(B) \in B /\ B \ {Elem(B)} \in SUBSET A
             /\ m[B] = f[Elem(B)] + m[B \ {Elem(B)}]
  <2>1. Elem(B) \in B
    BY <1>2
  <2>2. /\ B \ {Elem(B)} \in SUBSET S /\ Elem(B) \in S \ (B \ {Elem(B)})
        /\ (B \ {Elem(B)}) \cup {Elem(B)} = B
    BY <2>1
  <2>3. f[Elem(B)] \in Nat /\ m[B \ {Elem(B)}] \in Nat
    BY <2>2 DEF Additive
  <2> HIDE DEF Elem
  <2>4. m[B] = m[B \ {Elem(B)}] + f[Elem(B)]
    BY <2>2 DEF Additive
  <2>5. QED
    BY <2>1, <2>3, <2>4
<1>3. it = Step(it)
  <2> DEFINE g == [B \in SUBSET A |-> m[B]]
  <2> HIDE DEF Elem
  <2>1. ASSUME NEW B \in SUBSET A
        PROVE  g[B] = IF B = {} THEN 0 ELSE f[Elem(B)] + g[B \ {Elem(B)}]
    BY <1>2 DEF Additive
  <2>2. g = Step(g)
    BY <2>1
  <2>3. QED
    BY <2>2
<1>4. \A B \in SUBSET A : it[B] = m[B]
  <2> DEFINE T == {B \in SUBSET A : it[B] # m[B]}
  <2> HIDE DEF Elem, it
  <2>1. SUFFICES ASSUME T # {}
                 PROVE  FALSE
    OBVIOUS
  <2>2. IsFiniteSet(A)
    BY FS_Subset
  <2>3. PICK B \in T : \A x \in B : B \ {x} \notin T
    BY <2>1, <2>2, SmallestSubset
  <2>4. it[B] = IF B = {} THEN 0 ELSE f[Elem(B)] + it[B \ {Elem(B)}]
    BY <1>3, <2>3
  <2>5. CASE B = {}
    BY <2>3, <2>4, <2>5 DEF Additive
  <2>6. CASE B # {}
    <3>1. it[B \ {Elem(B)}] = m[B \ {Elem(B)}]
      BY <1>2, <2>3, <2>6
    <3>2. QED
      BY <1>2, <2>3, <2>4, <2>6, <3>1
  <2>7. QED
    BY <2>5, <2>6
<1>5. QED
  BY <1>1, <1>4

\* A sum over no job is zero.
LEMMA SumOfNone ==
  ASSUME NEW S, IsFiniteSet(S), NEW f \in [S -> Nat]
  PROVE  SumFunctionOnSet(f, {}) = 0
<1>1. PICK m : Additive(m, f, S)
  BY AdditiveExists
<1>2. {} \in SUBSET S
  OBVIOUS
<1>3. SumFunctionOnSet(f, {}) = m[{}]
  BY <1>1, <1>2, SumIsAdditive
<1>4. QED
  BY <1>1, <1>3 DEF Additive

\* One element more adds its value to the sum.
LEMMA SumAdds ==
  ASSUME NEW S, IsFiniteSet(S), NEW f \in [S -> Nat], NEW A \in SUBSET S, NEW x \in S \ A
  PROVE  /\ SumFunctionOnSet(f, A) \in Nat
         /\ SumFunctionOnSet(f, A \cup {x}) = SumFunctionOnSet(f, A) + f[x]
<1>1. PICK m : Additive(m, f, S)
  BY AdditiveExists
<1>2. A \cup {x} \in SUBSET S
  OBVIOUS
<1>3. SumFunctionOnSet(f, A) = m[A] /\ SumFunctionOnSet(f, A \cup {x}) = m[A \cup {x}]
  BY <1>1, <1>2, SumIsAdditive
<1>4. QED
  BY <1>1, <1>3 DEF Additive

\* Every sum is a natural number, and one element less takes its value away.
LEMMA SumRemoves ==
  ASSUME NEW S, IsFiniteSet(S), NEW f \in [S -> Nat], NEW A \in SUBSET S
  PROVE  /\ SumFunctionOnSet(f, A) \in Nat
         /\ \A x \in A : /\ SumFunctionOnSet(f, A \ {x}) = SumFunctionOnSet(f, A) - f[x]
                         /\ SumFunctionOnSet(f, A) >= f[x]
<1>1. PICK m : Additive(m, f, S)
  BY AdditiveExists
<1>2. SumFunctionOnSet(f, A) = m[A]
  BY <1>1, SumIsAdditive
<1>3. m[A] \in Nat
  BY <1>1 DEF Additive
<1>4. ASSUME NEW x \in A
      PROVE  /\ SumFunctionOnSet(f, A \ {x}) = SumFunctionOnSet(f, A) - f[x]
             /\ SumFunctionOnSet(f, A) >= f[x]
  <2>1. A \ {x} \in SUBSET S /\ x \in S \ (A \ {x}) /\ (A \ {x}) \cup {x} = A
    OBVIOUS
  <2>2. /\ SumFunctionOnSet(f, A \ {x}) \in Nat
        /\ SumFunctionOnSet(f, (A \ {x}) \cup {x}) = SumFunctionOnSet(f, A \ {x}) + f[x]
    BY <2>1, SumAdds
  <2>3. f[x] \in Nat
    OBVIOUS
  <2>4. PICK a \in Nat : a = SumFunctionOnSet(f, A \ {x})
    BY <2>2
  <2>5. SumFunctionOnSet(f, A) = a + f[x]
    BY <2>1, <2>2, <2>4
  <2>6. QED
    BY ONLY <2>3, <2>4, <2>5
<1>5. QED
  BY <1>2, <1>3, <1>4

-----------------------------------------------------------------------------
(* The load: entries come and go one at a time. *)

\* The entry of j is new, and its load is added.
EntryAdded(j) ==
  /\ pc = "launch" /\ pc' = "launch"
  /\ j \notin Entries /\ Entries' = Entries \cup {j}
  /\ CanLaunch(j)
  /\ numRunning' = numRunning + 1
  /\ active' = active + Threads[j]
  /\ physActive' = physActive + Memory[j]

\* The entry of j goes, and its load is given back.
EntryRemoved(j) ==
  /\ j \in Entries /\ Entries' = Entries \ {j}
  /\ numRunning' = numRunning - 1
  /\ active' = active - Threads[j]
  /\ physActive' = physActive - Memory[j]

\* launch forks a job that had no process: its entry is new.
LEMMA LaunchAdds ==
  ASSUME TypeOK, ProcInv, NEW j \in Job, Launch(j)
  PROVE  EntryAdded(j)
<1>1. child[j] = "none" /\ pipes[j] = {}
  BY DEF Launch, ProcInv
<1>2. child' = [child EXCEPT ![j] = "alive"] /\ pipes' = [pipes EXCEPT ![j] = program.streams]
  BY DEF Launch
<1>3. Entries' = Entries \cup {j}
  BY <1>1, <1>2 DEF Entries, Entry, TypeOK, ProcessesTyped
<1>4. QED
  BY <1>1, <1>3 DEF EntryAdded, Launch, Entries, Entry

\* The last pipe of a job that was reaped takes its entry along.
LEMMA HandlePipeEntries ==
  ASSUME TypeOK, ProcInv, ReadyInv, NEW j \in Job, NEW s \in Stream, HandlePipe(j, s)
  PROVE  (Entries' = Entries /\ UNCHANGED loadVars) \/ EntryRemoved(j)
<1>1. s \in pipes[j] /\ child[j] # "none" /\ UNCHANGED child
  BY DEF HandlePipe, ReadyInv, ProcInv
<1>2. CASE data[j][s] > 0
  BY <1>1, <1>2 DEF HandlePipe, Entries, Entry, loadVars
<1>3. CASE ~(data[j][s] > 0)
  <2>1. /\ pipes' = [pipes EXCEPT ![j] = pipes[j] \ {s}]
        /\ Release(j, child[j] = "gone" /\ pipes[j] = {s})
    BY <1>3 DEF HandlePipe
  <2>2. CASE child[j] = "gone" /\ pipes[j] = {s}
    <3>1. Entries' = Entries \ {j} /\ j \in Entries
      BY <1>1, <2>1, <2>2 DEF Entries, Entry, TypeOK, ProcessesTyped
    <3>2. QED
      BY <3>1, <2>1, <2>2 DEF Release, EntryRemoved
  <2>3. CASE ~(child[j] = "gone" /\ pipes[j] = {s})
    <3>1. child[j] \in {"alive", "zombie"} \/ pipes[j] \ {s} # {}
      BY <1>1, <2>3 DEF TypeOK, ProcessesTyped
    <3>2. Entries' = Entries
      BY <1>1, <2>1, <3>1 DEF Entries, Entry, TypeOK, ProcessesTyped
    <3>3. QED
      BY <3>2, <2>1, <2>3 DEF Release
  <2>4. QED
    BY <2>2, <2>3
<1>4. QED
  BY <1>2, <1>3

\* waitpid takes the entry of a job that has no pipe left but its runner's.
LEMMA ReapEntries ==
  ASSUME TypeOK, NEW j \in Job, Reap(j)
  PROVE  (Entries' = Entries /\ UNCHANGED loadVars) \/ EntryRemoved(j)
<1>1. /\ child[j] = "zombie" /\ child' = [child EXCEPT ![j] = "gone"]
      /\ pipes' = [pipes EXCEPT ![j] = pipes[j] \ Runner]
      /\ Release(j, pipes[j] \subseteq Runner)
  BY DEF Reap
<1>2. CASE pipes[j] \subseteq Runner
  <2>1. Entries' = Entries \ {j} /\ j \in Entries
    BY <1>1, <1>2 DEF Entries, Entry, TypeOK, ProcessesTyped
  <2>2. QED
    BY <2>1, <1>1, <1>2 DEF Release, EntryRemoved
<1>3. CASE ~(pipes[j] \subseteq Runner)
  <2>1. Entries' = Entries
    BY <1>1, <1>3 DEF Entries, Entry, TypeOK, ProcessesTyped
  <2>2. QED
    BY <2>1, <1>1, <1>3 DEF Release
<1>4. QED
  BY <1>2, <1>3

\* So does the destructor's, of a job that has no pipe left.
LEMMA TermReapEntries ==
  ASSUME TypeOK, NEW j \in Job, TermReap(j)
  PROVE  (Entries' = Entries /\ UNCHANGED loadVars) \/ EntryRemoved(j)
<1>1. /\ child[j] = "zombie" /\ child' = [child EXCEPT ![j] = "gone"]
      /\ UNCHANGED pipes /\ Release(j, pipes[j] = {})
  BY DEF TermReap
<1>2. CASE pipes[j] = {}
  <2>1. Entries' = Entries \ {j} /\ j \in Entries
    BY <1>1, <1>2 DEF Entries, Entry, TypeOK, ProcessesTyped
  <2>2. QED
    BY <2>1, <1>1, <1>2 DEF Release, EntryRemoved
<1>3. CASE pipes[j] # {}
  <2>1. Entries' = Entries
    BY <1>1, <1>3 DEF Entries, Entry, TypeOK, ProcessesTyped
  <2>2. QED
    BY <2>1, <1>1, <1>3 DEF Release
<1>4. QED
  BY <1>2, <1>3

-----------------------------------------------------------------------------
(* The steps, by what they change. *)

\* prim.cpp and WJob::execute: the processes and the load are left alone.
JobStep(j) ==
  \/ JobLaunch(j) \/ JobVirtual(j) \/ JobCached(j) \/ JobFailLaunch(j)
  \/ \E s \in Runner : JobReportRunner(j, s)
  \/ \E q \in Queue : JobWait(j, q)
  \/ Execute(j) \/ JobFinish(j)

\* Steps of the main loop that touch neither jobs nor processes, and signals.
LoopStep ==
  \/ Wait \/ Abort \/ (\E j \in Job : LaunchFails(j)) \/ LaunchEnds \/ WaitEnds
  \/ Poll \/ PipesHandled \/ ReapEnds \/ Interrupt

\* These are all the steps.
LEMMA StepCases ==
  ASSUME TypeOK, Next
  PROVE  \/ LoopStep \/ TermEnds
         \/ \E j \in Job :
              \/ JobStep(j) \/ Launch(j) \/ Reap(j) \/ TermReap(j)
              \/ \E s \in Stream : HandlePipe(j, s) \/ Write(j, s) \/ Close(j, s)
              \/ \E kept \in SUBSET writers[j] : Exit(j, kept)
<1>1. program.jobs \subseteq Job /\ program.waits \subseteq Queue
  BY ProgramsAssumption DEF TypeOK, JobsTyped
<1>2. CASE Loop
  BY <1>2 DEF Loop, LoopStep, JobStep
<1>3. CASE Program
  BY <1>1, <1>3 DEF Program, JobStep
<1>4. CASE Environment
  BY <1>4 DEF Environment, LoopStep
<1>5. QED
  BY <1>2, <1>3, <1>4 DEF Next, LoopStep

\* What a step of a job leaves alone.
LEMMA JobStepFrame ==
  ASSUME NEW j \in Job, JobStep(j)
  PROVE  UNCHANGED <<program, procVars, loadVars, loopVars>> /\ pc = "run"
BY DEF JobStep, Fresh, JobLaunch, JobVirtual, JobCached, JobFailLaunch, JobReportRunner, JobWait,
       Execute, JobFinish, procVars, loadVars, loopVars

\* What a step of the loop leaves alone.
LEMMA LoopStepFrame ==
  ASSUME LoopStep
  PROVE  UNCHANGED <<jobVars, procVars, loadVars>>
BY DEF LoopStep, Wait, Abort, LaunchFails, LaunchEnds, WaitEnds, Poll, PipesHandled, ReapEnds,
       Interrupt, jobVars, procVars, loadVars

\* What a step of a job does to its state and to the pending jobs: it hands a
\* fresh job to the table, takes a fresh job past forking, or adds a bit.
LEMMA JobStepState ==
  ASSUME TypeOK, NEW j \in Job, JobStep(j)
  PROVE  \/ UNCHANGED <<state, pending>>
         \/ Fresh(j) /\ UNCHANGED state /\ pending' = pending \cup {j}
         \/ /\ UNCHANGED pending
            /\ \E b \in SUBSET Bits :
                 /\ state' = [state EXCEPT ![j] = b]
                 /\ \/ Fresh(j) /\ "forked" \in b
                    \/ \E x \in Runner \cup {"finished"} : b = state[j] \cup {x}
<1>1. CASE JobLaunch(j)
  BY <1>1 DEF JobLaunch
<1>2. CASE JobVirtual(j)
  BY <1>2 DEF JobVirtual, SetState, Bits
<1>3. CASE JobCached(j)
  <2>1. Fresh(j) /\ state' = [state EXCEPT ![j] = Bits] /\ UNCHANGED pending
    BY <1>3 DEF JobCached, SetState
  <2>2. "forked" \in Bits /\ Bits \in SUBSET Bits
    BY DEF Bits
  <2>3. QED
    BY <2>1, <2>2
<1>4. CASE JobFailLaunch(j)
  BY <1>4 DEF JobFailLaunch, SetState, Bits, Stream
<1>5. ASSUME NEW x \in Runner \cup {"finished"}
      PROVE  state[j] \cup {x} \in SUBSET Bits
  BY DEF TypeOK, JobsTyped, Bits, Stream
<1>6. CASE \E s \in Runner : JobReportRunner(j, s)
  <2>1. PICK s \in Runner : state' = [state EXCEPT ![j] = state[j] \cup {s}] /\ UNCHANGED pending
    BY <1>6 DEF JobReportRunner, SetState
  <2>2. QED
    BY <1>5, <2>1
<1>7. CASE (\E q \in Queue : JobWait(j, q)) \/ Execute(j)
  BY <1>7 DEF JobWait, Execute
<1>8. CASE JobFinish(j)
  <2>1. state' = [state EXCEPT ![j] = state[j] \cup {"finished"}] /\ UNCHANGED pending
    BY <1>8 DEF JobFinish, SetState
  <2>2. QED
    BY <1>5, <2>1
<1>9. QED
  BY <1>1, <1>2, <1>3, <1>4, <1>6, <1>7, <1>8 DEF JobStep

\* Every step leaves the entries alone, adds one or removes one, and changes
\* the load to match.
LEMMA EntrySteps ==
  ASSUME TypeOK, ProcInv, ReadyInv, Next
  PROVE  \/ Entries' = Entries /\ UNCHANGED loadVars
         \/ \E j \in Job : EntryAdded(j) \/ EntryRemoved(j)
<1>1. ASSUME UNCHANGED <<child, pipes, loadVars>>
      PROVE  Entries' = Entries /\ UNCHANGED loadVars
  BY <1>1 DEF Entries, Entry
<1>2. CASE LoopStep
  BY <1>1, <1>2, LoopStepFrame DEF procVars
<1>3. CASE TermEnds
  <2>1. \A j \in Job : Entry(j)' <=> Entry(j)
    BY <1>3 DEF TermEnds, Entry, TypeOK, ProcessesTyped
  <2>2. QED
    BY <1>3, <2>1 DEF TermEnds, Entries
<1>4. ASSUME NEW j \in Job, JobStep(j)
      PROVE  Entries' = Entries /\ UNCHANGED loadVars
  BY <1>1, <1>4, JobStepFrame DEF procVars
<1>5. ASSUME NEW j \in Job, NEW s \in Stream, Write(j, s) \/ Close(j, s)
      PROVE  Entries' = Entries /\ UNCHANGED loadVars
  BY <1>1, <1>5 DEF Write, Close
<1>6. ASSUME NEW j \in Job, NEW kept \in SUBSET writers[j], Exit(j, kept)
      PROVE  Entries' = Entries /\ UNCHANGED loadVars
  <2>1. \A i \in Job : Entry(i)' <=> Entry(i)
    BY <1>6 DEF Exit, Entry, TypeOK, ProcessesTyped
  <2>2. QED
    BY <1>6, <2>1 DEF Exit, Entries
<1>7. QED
  BY <1>2, <1>3, <1>4, <1>5, <1>6, StepCases, LaunchAdds, HandlePipeEntries, ReapEntries,
     TermReapEntries

\* The budgets are those of the entries.
LEMMA LoadStep ==
  ASSUME TypeOK, ProcInv, ReadyInv, LoadIsAccounted, Next
  PROVE  LoadIsAccounted' /\ LoadTyped'
<1> USE JobsAssumption
<1>1. IsFiniteSet(Entries) /\ Entries \in SUBSET Job
  BY FS_Subset DEF Entries
<1>2. LoadIsAccounted'
  <2>1. CASE Entries' = Entries /\ UNCHANGED loadVars
    BY <2>1 DEF LoadIsAccounted, loadVars
  <2>2. ASSUME NEW j \in Job, EntryAdded(j)
        PROVE  LoadIsAccounted'
    <3>1. Cardinality(Entries') = Cardinality(Entries) + 1
      BY <1>1, <2>2, FS_AddElement DEF EntryAdded
    <3>2. /\ SumFunctionOnSet(Threads, Entries') = SumFunctionOnSet(Threads, Entries) + Threads[j]
          /\ SumFunctionOnSet(Memory, Entries') = SumFunctionOnSet(Memory, Entries) + Memory[j]
      BY <1>1, <2>2, SumAdds DEF EntryAdded
    <3>3. QED
      BY <2>2, <3>1, <3>2 DEF EntryAdded, LoadIsAccounted
  <2>3. ASSUME NEW j \in Job, EntryRemoved(j)
        PROVE  LoadIsAccounted'
    <3>1. Cardinality(Entries') = Cardinality(Entries) - 1
      BY <1>1, <2>3, FS_RemoveElement DEF EntryRemoved
    <3>2. /\ SumFunctionOnSet(Threads, Entries') = SumFunctionOnSet(Threads, Entries) - Threads[j]
          /\ SumFunctionOnSet(Memory, Entries') = SumFunctionOnSet(Memory, Entries) - Memory[j]
      BY <1>1, <2>3, SumRemoves DEF EntryRemoved
    <3>3. QED
      BY <2>3, <3>1, <3>2 DEF EntryRemoved, LoadIsAccounted
  <2>4. QED
    BY <2>1, <2>2, <2>3, EntrySteps
<1>3. IsFiniteSet(Entries') /\ Entries' \in SUBSET Job
  BY FS_Subset DEF Entries
<1>4. numRunning' \in Nat
  BY <1>2, <1>3, FS_CardinalityType DEF LoadIsAccounted
<1>5. active' \in Nat /\ physActive' \in Nat
  <2>1. Threads \in [Job -> Nat] /\ Memory \in [Job -> Nat]
    OBVIOUS
  <2>2. QED
    BY <1>2, <1>3, <2>1, SumRemoves DEF LoadIsAccounted
<1>6. QED
  BY <1>2, <1>4, <1>5 DEF LoadTyped

\* launch respects the budgets, and giving a load back keeps them.
LEMMA BudgetStep ==
  ASSUME TypeOK, ProcInv, ReadyInv, LoadIsAccounted, BudgetsRespected, Next
  PROVE  BudgetsRespected'
<1> USE JobsAssumption, LimitsAssumption
<1>1. IsFiniteSet(Entries) /\ Entries \in SUBSET Job /\ Cardinality(Entries) \in Nat
  BY FS_Subset, FS_CardinalityType DEF Entries
<1>2. Threads \in [Job -> Nat] /\ Memory \in [Job -> Nat]
  OBVIOUS
<1>3. \A j \in Entries : physActive >= Memory[j] /\ Memory[j] > 0
  <2>1. ASSUME NEW j \in Entries
        PROVE  SumFunctionOnSet(Memory, Entries) >= Memory[j]
    BY <1>1, <1>2, SumRemoves
  <2>2. QED
    BY <1>1, <2>1 DEF LoadIsAccounted
<1>4. CASE Entries' = Entries /\ UNCHANGED loadVars
  BY <1>4 DEF BudgetsRespected, loadVars
<1>5. ASSUME NEW j \in Job, EntryAdded(j)
      PROVE  BudgetsRespected'
  <2>1. Cardinality(Entries') = Cardinality(Entries) + 1
    BY <1>1, <1>5, FS_AddElement DEF EntryAdded
  <2>2. Cardinality(Entries') <= MaxChildren
    BY <1>1, <1>5, <2>1 DEF EntryAdded, CanLaunch, LoadIsAccounted
  <2>3. j \in Entries' /\ active' - Threads[j] < CpuLimit
    <3>1. j \in Entries' /\ active' = active + Threads[j] /\ active < CpuLimit
      BY <1>5 DEF EntryAdded, CanLaunch
    <3>2. active \in Nat /\ Threads[j] \in Nat
      BY DEF TypeOK, LoadTyped
    <3>3. QED
      BY ONLY <3>1, <3>2, LimitsAssumption
  <2>4. ASSUME Cardinality(Entries') > 1
        PROVE  physActive' < MemLimit
    <3>1. Entries # {}
      BY <1>1, <2>1, <2>4, FS_EmptySet
    <3>2. physActive # 0
      BY <1>1, <1>2, <1>3, <3>1 DEF TypeOK, LoadTyped
    <3>3. QED
      BY <1>5, <3>2 DEF EntryAdded, CanLaunch
  <2>5. QED
    BY <2>2, <2>3, <2>4 DEF BudgetsRespected
<1>6. ASSUME NEW j \in Job, EntryRemoved(j)
      PROVE  BudgetsRespected'
  <2>1. Cardinality(Entries') = Cardinality(Entries) - 1 /\ j \in Entries
    BY <1>1, <1>6, FS_RemoveElement DEF EntryRemoved
  <2>2. Cardinality(Entries') <= MaxChildren
    BY <1>1, <2>1 DEF BudgetsRespected
  <2>3. Cardinality(Entries') > 1 => physActive' < MemLimit
    <3>1. physActive' = physActive - Memory[j] /\ physActive \in Nat /\ Memory[j] \in Nat
      BY <1>6 DEF EntryRemoved, TypeOK, LoadTyped
    <3>2. Cardinality(Entries) > 1 => physActive < MemLimit
      BY DEF BudgetsRespected
    <3>3. QED
      BY ONLY <1>1, <2>1, <3>1, <3>2, LimitsAssumption
  <2>4. ASSUME NEW k \in Entries'
        PROVE  \E i \in Entries' : active' - Threads[i] < CpuLimit
    <3>1. PICK w \in Entries : active - Threads[w] < CpuLimit
      BY <2>1 DEF BudgetsRespected
    <3>2. k \in Job /\ w \in Job /\ Entries' = Entries \ {j} /\ active' = active - Threads[j]
      BY <1>1, <1>6, <2>4 DEF EntryRemoved
    <3>3. /\ active \in Nat /\ Threads[j] \in Nat /\ Threads[w] \in Nat /\ Threads[k] \in Nat
      BY <3>2 DEF TypeOK, LoadTyped
    <3>4. CASE w = j
      <4>1. active' - Threads[k] < CpuLimit
        BY ONLY <3>1, <3>2, <3>3, <3>4, LimitsAssumption
      <4>2. QED
        BY <4>1
    <3>5. CASE w # j
      <4>1. w \in Entries'
        BY <3>1, <3>2, <3>5
      <4>2. active' - Threads[w] < CpuLimit
        BY ONLY <3>1, <3>2, <3>3, LimitsAssumption
      <4>3. QED
        BY <4>1, <4>2
    <3>6. QED
      BY <3>4, <3>5
  <2>5. QED
    BY <2>2, <2>3, <2>4 DEF BudgetsRespected
<1>7. QED
  BY <1>4, <1>5, <1>6, EntrySteps

-----------------------------------------------------------------------------
(* The other parts of the invariant. *)

\* A job that was not forked has no process, and a pending one is not forked.
LEMMA ProcStep ==
  ASSUME TypeOK, ProcInv, ReadyInv, Next
  PROVE  ProcInv'
<1>1. CASE LoopStep
  BY <1>1, LoopStepFrame DEF jobVars, procVars, ProcInv
<1>2. CASE TermEnds
  BY <1>2 DEF TermEnds, jobVars, ProcInv, TypeOK, ProcessesTyped
<1>3. ASSUME NEW j \in Job, JobStep(j)
      PROVE  ProcInv'
  <2> USE DEF TypeOK, JobsTyped
  <2>1. UNCHANGED procVars
    BY <1>3, JobStepFrame
  <2>2. "forked" \notin Runner /\ "finished" # "forked" /\ {"finished"} \cap Std = {}
        /\ Runner \cap Std = {}
    BY StreamsAssumption DEF Stream
  <2>3. CASE UNCHANGED <<state, pending>>
    BY <2>1, <2>3 DEF ProcInv, procVars
  <2>4. CASE Fresh(j) /\ UNCHANGED state /\ pending' = pending \cup {j}
    BY <2>1, <2>2, <2>4 DEF ProcInv, procVars, Fresh
  <2>5. ASSUME NEW b \in SUBSET Bits, UNCHANGED pending, state' = [state EXCEPT ![j] = b],
               Fresh(j), "forked" \in b
        PROVE  ProcInv'
    BY <2>1, <2>5 DEF ProcInv, procVars, Fresh
  <2>6. ASSUME NEW b \in SUBSET Bits, UNCHANGED pending, state' = [state EXCEPT ![j] = b],
               NEW x \in Runner \cup {"finished"}, b = state[j] \cup {x}
        PROVE  ProcInv'
    BY <2>1, <2>2, <2>6 DEF ProcInv, procVars
  <2>7. QED
    BY <1>3, <2>3, <2>4, <2>5, <2>6, JobStepState
<1>4. ASSUME NEW j \in Job, Launch(j)
      PROVE  ProcInv'
  BY <1>4 DEF Launch, SetState, ProcInv, TypeOK, JobsTyped, ProcessesTyped
<1>5. ASSUME NEW j \in Job, Reap(j)
      PROVE  ProcInv'
  <2>1. /\ child[j] = "zombie" /\ child' = [child EXCEPT ![j] = "gone"]
        /\ state' = [state EXCEPT ![j] = state[j] \cup {"merged"} \cup (pipes[j] \cap Runner)]
        /\ \A i \in Job \ {j} : /\ pipes'[i] = pipes[i] /\ data'[i] = data[i]
                                /\ lost'[i] = lost[i]
        /\ lost'[j] \subseteq lost[j] \cup Runner
        /\ UNCHANGED <<pending, writers>>
    BY <1>5 DEF Reap, SetState, TypeOK, ProcessesTyped, DataTyped
  <2>2. j \notin pending
    BY <2>1 DEF ProcInv
  <2>3. QED
    BY <2>1, <2>2 DEF ProcInv, TypeOK, JobsTyped, ProcessesTyped
<1>6. ASSUME NEW j \in Job, TermReap(j)
      PROVE  ProcInv'
  BY <1>6 DEF TermReap, jobVars, ProcInv, TypeOK, ProcessesTyped
<1>7. ASSUME NEW j \in Job, NEW s \in Stream, HandlePipe(j, s)
      PROVE  ProcInv'
  <2>1. child[j] # "none" /\ UNCHANGED <<child, writers, lost, pending>>
    BY <1>7 DEF HandlePipe, ReadyInv, ProcInv
  <2>2. /\ \A i \in Job \ {j} : data'[i] = data[i] /\ pipes'[i] = pipes[i] /\ state'[i] = state[i]
        /\ state[j] \subseteq state'[j]
    BY <1>7 DEF HandlePipe, SetState, TypeOK, JobsTyped, ProcessesTyped, DataTyped
  <2>3. j \notin pending
    BY <2>1 DEF ProcInv
  <2>4. QED
    BY <2>1, <2>2, <2>3 DEF ProcInv
<1>8. ASSUME NEW j \in Job, NEW s \in Stream, Write(j, s) \/ Close(j, s)
      PROVE  ProcInv'
  <2>1. child[j] # "none" /\ UNCHANGED <<state, pending, child, pipes, lost>>
    BY <1>8 DEF Write, Close, jobVars, ProcInv
  <2>2. \A i \in Job \ {j} : data'[i] = data[i] /\ writers'[i] = writers[i]
    BY <1>8 DEF Write, Close, TypeOK, ProcessesTyped, DataTyped
  <2>3. QED
    BY <2>1, <2>2 DEF ProcInv
<1>9. ASSUME NEW j \in Job, NEW kept \in SUBSET writers[j], Exit(j, kept)
      PROVE  ProcInv'
  BY <1>9 DEF Exit, jobVars, ProcInv, TypeOK, ProcessesTyped
<1>10. QED
  BY <1>1, <1>2, <1>3, <1>4, <1>5, <1>6, <1>7, <1>8, <1>9, StepCases

\* A stream of the job is closed only at end of file, when no process can
\* write to it any more.
LEMMA OutputStep ==
  ASSUME TypeOK, ProcInv, ReadyInv, OutputIsComplete, Next
  PROVE  OutputIsComplete'
<1>1. CASE LoopStep
  BY <1>1, LoopStepFrame DEF jobVars, procVars, OutputIsComplete
<1>2. CASE TermEnds
  BY <1>2 DEF TermEnds, jobVars, OutputIsComplete
<1>3. ASSUME NEW j \in Job, JobStep(j)
      PROVE  OutputIsComplete'
  <2> USE DEF TypeOK, JobsTyped
  <2>1. UNCHANGED procVars
    BY <1>3, JobStepFrame
  <2>2. "forked" \notin Runner /\ (Runner \cup {"finished"}) \cap Std = {} /\ Std \subseteq Stream
    BY StreamsAssumption DEF Stream
  <2>3. CASE UNCHANGED state
    BY <2>1, <2>3 DEF OutputIsComplete, procVars
  <2>4. ASSUME NEW b \in SUBSET Bits, state' = [state EXCEPT ![j] = b], Fresh(j)
        PROVE  OutputIsComplete'
    <3>1. child[j] = "none"
      BY <2>2, <2>4 DEF ProcInv, Fresh
    <3>2. /\ pipes[j] = {} /\ writers[j] = {} /\ lost[j] = {}
          /\ \A s \in Std : data[j][s] = 0
      BY <2>2, <3>1 DEF ProcInv
    <3>3. QED
      BY <2>1, <2>4, <3>2 DEF OutputIsComplete, procVars
  <2>5. ASSUME NEW b \in SUBSET Bits, state' = [state EXCEPT ![j] = b],
               NEW x \in Runner \cup {"finished"}, b = state[j] \cup {x}
        PROVE  OutputIsComplete'
    BY <2>1, <2>2, <2>5 DEF OutputIsComplete, procVars
  <2>6. QED
    BY <1>3, <2>3, <2>4, <2>5, JobStepState
<1>4. ASSUME NEW j \in Job, Launch(j)
      PROVE  OutputIsComplete'
  <2>1. /\ state' = [state EXCEPT ![j] = state[j] \cup {"forked"}] /\ state[j] \cap Std = {}
        /\ pipes' = [pipes EXCEPT ![j] = program.streams]
        /\ writers' = [writers EXCEPT ![j] = program.streams]
        /\ UNCHANGED <<lost, data>>
    BY <1>4 DEF Launch, SetState, ProcInv
  <2>2. "forked" \notin Std
    BY StreamsAssumption DEF Stream
  <2>3. QED
    BY <2>1, <2>2 DEF OutputIsComplete, TypeOK, JobsTyped, ProcessesTyped
<1>5. ASSUME NEW j \in Job, Reap(j)
      PROVE  OutputIsComplete'
  <2>1. Std \cap (Runner \cup {"merged"}) = {} /\ Std \subseteq Stream
    BY StreamsAssumption DEF Stream
  <2>2. /\ state' = [state EXCEPT ![j] = state[j] \cup {"merged"} \cup (pipes[j] \cap Runner)]
        /\ pipes' = [pipes EXCEPT ![j] = pipes[j] \ Runner]
        /\ UNCHANGED writers
    BY <1>5 DEF Reap, SetState
  <2>3. \A i \in Job : lost'[i] \subseteq lost[i] \cup Runner
    BY <1>5 DEF Reap, TypeOK, ProcessesTyped
  <2>4. \A i \in Job : \A s \in Std : data'[i][s] = data[i][s]
    BY <1>5, <2>1 DEF Reap, TypeOK, DataTyped
  <2>5. QED
    BY <2>1, <2>2, <2>3, <2>4 DEF OutputIsComplete, TypeOK, JobsTyped, ProcessesTyped
<1>6. ASSUME NEW j \in Job, TermReap(j)
      PROVE  OutputIsComplete'
  BY <1>6 DEF TermReap, jobVars, OutputIsComplete
<1>7. ASSUME NEW j \in Job, NEW s \in Stream, HandlePipe(j, s)
      PROVE  OutputIsComplete'
  <2>1. s \in pipes[j] /\ UNCHANGED <<writers, lost>> /\ Std \subseteq Stream
    BY <1>7 DEF HandlePipe, ReadyInv, Stream
  <2>2. CASE data[j][s] > 0
    <3>1. UNCHANGED <<state, pipes>> /\ data' = [data EXCEPT ![j][s] = data[j][s] - 1]
      BY <1>7, <2>2 DEF HandlePipe
    <3>2. \A i \in Job : \A t \in Stream : i # j \/ t # s => data'[i][t] = data[i][t]
      BY <3>1 DEF TypeOK, DataTyped
    <3>3. QED
      BY <2>1, <3>1, <3>2 DEF OutputIsComplete
  <2>3. CASE ~(data[j][s] > 0)
    <3>1. /\ pipes' = [pipes EXCEPT ![j] = pipes[j] \ {s}]
          /\ state' = [state EXCEPT ![j] = state[j] \cup {s}] /\ UNCHANGED data
          /\ s \notin writers[j]
      BY <1>7, <2>3 DEF HandlePipe, SetState, ReadyInv
    <3>2. data[j][s] = 0
      <4>1. data[j][s] \in 0 .. program.data /\ program.data \in Nat
        BY ProgramsAssumption DEF TypeOK, DataTyped, JobsTyped
      <4>2. QED
        BY ONLY <2>3, <4>1
    <3>3. \A t \in Std : t \notin lost[j]
      BY StreamsAssumption DEF ProcInv
    <3>4. QED
      BY <2>1, <3>1, <3>2, <3>3 DEF OutputIsComplete, TypeOK, JobsTyped, ProcessesTyped
  <2>4. QED
    BY <2>2, <2>3
<1>8. ASSUME NEW j \in Job, NEW s \in Stream, Write(j, s)
      PROVE  OutputIsComplete'
  <2>1. /\ UNCHANGED <<state, pipes, lost, writers>> /\ s \in pipes[j]
        /\ data' = [data EXCEPT ![j][s] = data[j][s] + 1]
    BY <1>8 DEF Write, jobVars
  <2>2. \A i \in Job : \A t \in Stream : i # j \/ t # s => data'[i][t] = data[i][t]
    BY <2>1 DEF TypeOK, DataTyped
  <2>3. QED
    BY <2>1, <2>2 DEF OutputIsComplete, Stream
<1>9. ASSUME NEW j \in Job, NEW s \in Stream, Close(j, s)
      PROVE  OutputIsComplete'
  BY <1>9 DEF Close, jobVars, OutputIsComplete, TypeOK, ProcessesTyped
<1>10. ASSUME NEW j \in Job, NEW kept \in SUBSET writers[j], Exit(j, kept)
       PROVE  OutputIsComplete'
  BY <1>10 DEF Exit, jobVars, OutputIsComplete, TypeOK, ProcessesTyped
<1>11. QED
  BY <1>1, <1>2, <1>3, <1>4, <1>5, <1>6, <1>7, <1>8, <1>9, <1>10, StepCases

\* Between poll and its handling a ready pipe keeps its data, and a pipe at end
\* of file gets no new writer.
LEMMA ReadyStep ==
  ASSUME TypeOK, ProcInv, ReadyInv, Next
  PROVE  ReadyInv'
<1>1. CASE LoopStep
  <2>1. UNCHANGED <<pipes, writers, data>>
    BY <1>1, LoopStepFrame DEF procVars
  <2>2. CASE Poll
    <3>1. ready' \subseteq Readable
      BY <2>2 DEF Poll
    <3>2. \A j \in Job : \A s \in Stream :
            <<j, s>> \in Readable => s \in pipes[j] /\ (data[j][s] > 0 \/ s \notin writers[j])
      BY DEF Readable
    <3>3. QED
      BY <2>1, <3>1, <3>2 DEF ReadyInv
  <2>3. CASE Interrupt
    BY <2>1, <2>3 DEF Interrupt, ReadyInv
  <2>4. CASE ~Poll /\ ~Interrupt
    <3>1. pc' # "pipes"
      BY <1>1, <2>4 DEF LoopStep, Wait, Abort, LaunchFails, LaunchEnds, WaitEnds, PipesHandled,
                        ReapEnds
    <3>2. QED
      BY <3>1 DEF ReadyInv
  <2>5. QED
    BY <2>2, <2>3, <2>4
<1>2. CASE TermEnds
  BY <1>2 DEF TermEnds, ReadyInv
<1>3. ASSUME NEW j \in Job, JobStep(j)
      PROVE  ReadyInv'
  BY <1>3, JobStepFrame DEF ReadyInv, loopVars
<1>4. ASSUME NEW j \in Job, Launch(j) \/ Reap(j) \/ TermReap(j)
      PROVE  ReadyInv'
  BY <1>4 DEF Launch, Reap, TermReap, loopVars, ReadyInv
<1>5. ASSUME NEW j \in Job, NEW s \in Stream, HandlePipe(j, s)
      PROVE  ReadyInv'
  <2>1. ready' = ready \ {<<j, s>>} /\ UNCHANGED <<pc, writers>>
    BY <1>5 DEF HandlePipe
  <2>2. \A i \in Job : \A t \in Stream :
          i # j \/ t # s => data'[i][t] = data[i][t] /\ (t \in pipes'[i] <=> t \in pipes[i])
    <3>1. CASE data[j][s] > 0
      <4>1. data' = [data EXCEPT ![j][s] = data[j][s] - 1] /\ UNCHANGED pipes
        BY <1>5, <3>1 DEF HandlePipe
      <4>2. QED
        BY <4>1 DEF TypeOK, DataTyped
    <3>2. CASE ~(data[j][s] > 0)
      <4>1. UNCHANGED data /\ pipes' = [pipes EXCEPT ![j] = pipes[j] \ {s}]
        BY <1>5, <3>2 DEF HandlePipe
      <4>2. QED
        BY <4>1 DEF TypeOK, ProcessesTyped
    <3>3. QED
      BY <3>1, <3>2
  <2>3. QED
    BY <2>1, <2>2 DEF ReadyInv
<1>6. ASSUME NEW j \in Job, NEW s \in Stream, Write(j, s)
      PROVE  ReadyInv'
  <2>1. /\ UNCHANGED <<pc, ready, pipes, writers>>
        /\ data' = [data EXCEPT ![j][s] = data[j][s] + 1]
    BY <1>6 DEF Write, loopVars
  <2>2. /\ \A i \in Job : \A t \in Stream : i # j \/ t # s => data'[i][t] = data[i][t]
        /\ data'[j][s] = data[j][s] + 1
    BY <2>1 DEF TypeOK, DataTyped
  <2>3. data[j][s] > 0 => data'[j][s] > 0
    <3>1. data[j][s] \in 0 .. program.data /\ program.data \in Nat
      BY ProgramsAssumption DEF TypeOK, DataTyped, JobsTyped
    <3>2. QED
      BY ONLY <2>2, <3>1
  <2>4. QED
    BY <2>1, <2>2, <2>3 DEF ReadyInv
<1>7. ASSUME NEW j \in Job, NEW s \in Stream, Close(j, s)
      PROVE  ReadyInv'
  BY <1>7 DEF Close, loopVars, ReadyInv, TypeOK, ProcessesTyped
<1>8. ASSUME NEW j \in Job, NEW kept \in SUBSET writers[j], Exit(j, kept)
      PROVE  ReadyInv'
  BY <1>8 DEF Exit, ReadyInv, TypeOK, ProcessesTyped
<1>9. QED
  BY <1>1, <1>2, <1>3, <1>4, <1>5, <1>6, <1>7, <1>8, StepCases

\* wake polls again only when nothing was done, and leaves a job pending only
\* while another one runs.
LEMMA LoopInvStep ==
  ASSUME TypeOK, ProcInv, ReadyInv, LoadIsAccounted, LoopInv, Next
  PROVE  LoopInv'
<1>1. CASE LoopStep
  <2>1. UNCHANGED <<pending, stack, numRunning, active, physActive>>
    BY <1>1, LoopStepFrame DEF jobVars, loadVars
  <2>2. CASE LaunchEnds
    <3>1. ASSUME numRunning = 0, NEW j \in pending
          PROVE  CanLaunch(j)
      <4>1. Entries = {}
        BY <3>1, JobsAssumption, FS_Subset, FS_EmptySet DEF LoadIsAccounted, Entries
      <4>2. active = 0 /\ physActive = 0
        <5>1. IsFiniteSet(Job) /\ Threads \in [Job -> Nat] /\ Memory \in [Job -> Nat]
          BY JobsAssumption
        <5>2. QED
          BY <4>1, <5>1, SumOfNone DEF LoadIsAccounted
      <4>3. QED
        BY <3>1, <4>2, LimitsAssumption DEF CanLaunch
    <3>2. numRunning = 0 => pending = {}
      BY <2>2, <3>1 DEF LaunchEnds
    <3>3. QED
      BY <2>1, <2>2, <3>2 DEF LaunchEnds, LoopInv
  <2>3. CASE Poll
    BY <2>1, <2>3 DEF Poll, LoopInv
  <2>4. CASE ReapEnds
    BY <2>1, <2>4 DEF ReapEnds, LoopInv, TypeOK, LoadTyped, LoopTyped
  <2>5. CASE Wait
    BY <2>1, <2>5 DEF Wait, LoopInv
  <2>6. CASE Abort \/ (\E j \in Job : LaunchFails(j)) \/ WaitEnds
    <3>1. pc' \in {"term", "failed"}
      BY <2>6 DEF Abort, LaunchFails, WaitEnds
    <3>2. QED
      BY <3>1 DEF LoopInv
  <2>7. CASE PipesHandled \/ Interrupt
    BY <2>1, <2>7 DEF PipesHandled, Interrupt, LoopInv
  <2>8. QED
    BY <1>1, <2>2, <2>3, <2>4, <2>5, <2>6, <2>7 DEF LoopStep
<1>2. CASE TermEnds
  BY <1>2 DEF TermEnds, LoopInv
<1>3. ASSUME NEW j \in Job, JobStep(j)
      PROVE  LoopInv'
  BY <1>3, JobStepFrame DEF loopVars, LoopInv
<1>4. ASSUME NEW j \in Job, Launch(j) \/ Reap(j) \/ TermReap(j)
      PROVE  LoopInv'
  <2>1. CASE Launch(j)
    BY <2>1 DEF Launch, LoopInv
  <2>2. CASE Reap(j)
    <3>1. pc' = "reap" /\ done'
      BY <2>2 DEF Reap
    <3>2. QED
      BY <3>1 DEF LoopInv
  <2>3. CASE TermReap(j)
    <3>1. pc' = "term"
      BY <2>3 DEF TermReap, loopVars
    <3>2. QED
      BY <3>1 DEF LoopInv
  <2>4. QED
    BY <1>4, <2>1, <2>2, <2>3
<1>5. ASSUME NEW j \in Job, NEW s \in Stream, HandlePipe(j, s)
      PROVE  LoopInv'
  BY <1>5 DEF HandlePipe, LoopInv, loadVars
<1>6. ASSUME NEW j \in Job, NEW s \in Stream, Write(j, s) \/ Close(j, s)
      PROVE  LoopInv'
  <2>1. UNCHANGED <<jobVars, loadVars, loopVars>>
    BY <1>6 DEF Write, Close
  <2>2. QED
    BY <2>1 DEF jobVars, loadVars, loopVars, LoopInv
<1>7. ASSUME NEW j \in Job, NEW kept \in SUBSET writers[j], Exit(j, kept)
      PROVE  LoopInv'
  BY <1>7 DEF Exit, jobVars, loadVars, LoopInv
<1>8. QED
  BY <1>1, <1>2, <1>3, <1>4, <1>5, <1>6, <1>7, StepCases

\* The exit of a child raises SIGCHLD, which is forgotten only when wake is
\* about to collect every child that has ended.
LEMMA SignalStep ==
  ASSUME TypeOK, SignalInv, NoChildOutlives, Next
  PROVE  SignalInv' /\ NoChildOutlives'
<1>1. CASE LoopStep
  <2>1. UNCHANGED child
    BY <1>1, LoopStepFrame DEF procVars
  <2>2. SignalInv'
    BY <1>1, <2>1 DEF LoopStep, Wait, Abort, LaunchFails, LaunchEnds, WaitEnds, Poll,
                      PipesHandled, ReapEnds, Interrupt, SignalInv
  <2>3. NoChildOutlives'
    BY <1>1, <2>1 DEF LoopStep, Wait, Abort, LaunchFails, LaunchEnds, WaitEnds, Poll,
                      PipesHandled, ReapEnds, Interrupt, NoChildOutlives
  <2>4. QED
    BY <2>2, <2>3
<1>2. CASE TermEnds
  BY <1>2 DEF TermEnds, SignalInv, NoChildOutlives, TypeOK, ProcessesTyped
<1>3. ASSUME NEW j \in Job, JobStep(j)
      PROVE  SignalInv' /\ NoChildOutlives'
  BY <1>3, JobStepFrame DEF procVars, loopVars, SignalInv, NoChildOutlives
<1>4. ASSUME NEW j \in Job, Launch(j) \/ Reap(j) \/ TermReap(j)
      PROVE  SignalInv' /\ NoChildOutlives'
  BY <1>4 DEF Launch, Reap, TermReap, loopVars, SignalInv, NoChildOutlives, TypeOK, ProcessesTyped
<1>5. ASSUME NEW j \in Job, NEW s \in Stream, HandlePipe(j, s) \/ Write(j, s) \/ Close(j, s)
      PROVE  SignalInv' /\ NoChildOutlives'
  BY <1>5 DEF HandlePipe, Write, Close, loopVars, SignalInv, NoChildOutlives
<1>6. ASSUME NEW j \in Job, NEW kept \in SUBSET writers[j], Exit(j, kept)
      PROVE  SignalInv' /\ NoChildOutlives'
  BY <1>6 DEF Exit, Going, SignalInv, NoChildOutlives, TypeOK, ProcessesTyped
<1>7. QED
  BY <1>1, <1>2, <1>3, <1>4, <1>5, <1>6, StepCases

\* Types, given those of the load.
LEMMA TypeStep ==
  ASSUME TypeOK, Next, LoadTyped'
  PROVE  TypeOK'
<1> USE DEF TypeOK
<1>1. program.data \in Nat /\ program.streams \subseteq Stream
  BY ProgramsAssumption DEF JobsTyped
<1>2. CASE LoopStep
  <2>1. UNCHANGED <<jobVars, procVars>>
    BY <1>2, LoopStepFrame
  <2>2. ready' = ready \/ ready' = {} \/ ready' = Readable
    BY <1>2 DEF LoopStep, Wait, Abort, LaunchFails, LaunchEnds, WaitEnds, Poll,
                PipesHandled, ReapEnds, Interrupt
  <2>3. Readable \in SUBSET (Job \X Stream)
    <3>1. \A j \in Job : {s \in pipes[j] : data[j][s] > 0 \/ s \notin writers[j]} \subseteq Stream
      BY DEF ProcessesTyped
    <3>2. QED
      BY ONLY <3>1 DEF Readable
  <2>4. /\ pc' \in {"run", "launch", "poll", "pipes", "reap", "term", "exited", "failed"}
        /\ done' \in BOOLEAN /\ childReady' \in BOOLEAN /\ sigchld' \in BOOLEAN
        /\ exitAsap' \in BOOLEAN /\ abort' \in BOOLEAN
    BY <1>2 DEF LoopStep, Wait, Abort, LaunchFails, LaunchEnds, WaitEnds, Poll,
                PipesHandled, ReapEnds, Interrupt, LoopTyped
  <2>5. LoopTyped'
    BY <2>2, <2>3, <2>4 DEF LoopTyped
  <2>6. QED
    BY <2>1, <2>5 DEF JobsTyped, ProcessesTyped, DataTyped, jobVars, procVars
<1>3. CASE TermEnds
  <2>1. ProcessesTyped' /\ LoopTyped'
    BY <1>3 DEF TermEnds, ProcessesTyped, LoopTyped
  <2>2. QED
    BY <1>3, <2>1 DEF TermEnds, jobVars, JobsTyped, DataTyped
<1>4. ASSUME NEW j \in Job, JobStep(j)
      PROVE  TypeOK'
  <2>1. UNCHANGED <<program, procVars, loopVars>>
    BY <1>4, JobStepFrame
  <2>2. state' \in [Job -> SUBSET Bits] /\ pending' \in SUBSET Job
    BY <1>4, JobStepState DEF JobsTyped
  <2>3. failed' \in SUBSET Job /\ stack' \in SUBSET Job
    BY <1>4 DEF JobStep, JobLaunch, JobVirtual, JobCached, JobFailLaunch, JobReportRunner,
                JobWait, Execute, JobFinish, JobsTyped
  <2>4. queue' \in [Job -> SUBSET Queue] /\ answered' \in [Job -> SUBSET Queue]
    <3>1. CASE Execute(j)
      <4>1. PICK woken \in SUBSET queue[j] :
              /\ queue' = [queue EXCEPT ![j] = @ \ woken]
              /\ answered' = [answered EXCEPT ![j] = @ \cup woken]
        BY <3>1 DEF Execute
      <4>2. QED
        BY <4>1 DEF JobsTyped
    <3>2. ASSUME NEW q \in Queue, JobWait(j, q)
          PROVE  queue' \in [Job -> SUBSET Queue] /\ answered' \in [Job -> SUBSET Queue]
      BY <3>2 DEF JobWait, JobsTyped
    <3>3. UNCHANGED <<queue, answered>> \/ Execute(j) \/ \E q \in Queue : JobWait(j, q)
      BY <1>4 DEF JobStep, JobLaunch, JobVirtual, JobCached, JobFailLaunch, JobReportRunner,
                  JobFinish
    <3>4. QED
      BY <3>1, <3>2, <3>3 DEF JobsTyped
  <2>5. JobsTyped'
    BY <2>1, <2>2, <2>3, <2>4 DEF JobsTyped
  <2>6. QED
    BY <2>1, <2>5 DEF ProcessesTyped, DataTyped, LoopTyped, procVars, loopVars
<1>5. ASSUME NEW j \in Job, Launch(j)
      PROVE  TypeOK'
  <2>1. JobsTyped'
    BY <1>5 DEF Launch, SetState, JobsTyped, Bits
  <2>2. ProcessesTyped'
    BY <1>1, <1>5 DEF Launch, ProcessesTyped
  <2>3. QED
    BY <1>5, <2>1, <2>2 DEF Launch, DataTyped, LoopTyped
<1>6. ASSUME NEW j \in Job, Reap(j)
      PROVE  TypeOK'
  <2>1. JobsTyped'
    <3>1. state[j] \cup {"merged"} \cup (pipes[j] \cap Runner) \in SUBSET Bits
      BY DEF JobsTyped, Bits, Stream
    <3>2. QED
      BY <1>6, <3>1 DEF Reap, SetState, JobsTyped
  <2>2. ProcessesTyped'
    BY <1>6 DEF Reap, ProcessesTyped
  <2>3. DataTyped'
    <3>1. [s \in Stream |-> IF s \in Runner THEN 0 ELSE data[j][s]] \in [Stream -> 0 .. program.data]
      <4>1. \A s \in Stream : data[j][s] \in 0 .. program.data
        BY DEF DataTyped
      <4>2. 0 \in 0 .. program.data
        BY ONLY <1>1
      <4>3. QED
        BY ONLY <4>1, <4>2
    <3>2. program' = program
      BY <1>6 DEF Reap
    <3>3. data' = [data EXCEPT ![j] = [s \in Stream |-> IF s \in Runner THEN 0 ELSE data[j][s]]]
      BY <1>6 DEF Reap
    <3>4. QED
      BY <3>1, <3>2, <3>3 DEF DataTyped
  <2>4. QED
    BY <1>6, <2>1, <2>2, <2>3 DEF Reap, LoopTyped
<1>7. ASSUME NEW j \in Job, TermReap(j)
      PROVE  TypeOK'
  <2>1. ProcessesTyped'
    BY <1>7 DEF TermReap, ProcessesTyped
  <2>2. QED
    BY <1>7, <2>1 DEF TermReap, jobVars, loopVars, JobsTyped, DataTyped, LoopTyped
<1>8. ASSUME NEW j \in Job, NEW s \in Stream, HandlePipe(j, s)
      PROVE  TypeOK'
  <2>1. /\ program' = program /\ UNCHANGED <<failed, pending, queue, answered, child, writers, lost>>
        /\ UNCHANGED <<pc, childReady, sigchld, exitAsap, abort>>
        /\ ready' = ready \ {<<j, s>>}
    BY <1>8 DEF HandlePipe
  <2>2. CASE data[j][s] > 0
    <3>1. /\ data' = [data EXCEPT ![j] = [data[j] EXCEPT ![s] = data[j][s] - 1]]
          /\ UNCHANGED <<state, stack, pipes, done>>
      BY <1>8, <2>2 DEF HandlePipe
    <3>2. data[j] \in [Stream -> 0 .. program.data] /\ data[j][s] \in 0 .. program.data
      BY DEF DataTyped
    <3>3. data[j][s] - 1 \in 0 .. program.data
      BY ONLY <1>1, <2>2, <3>2
    <3>4. DataTyped'
      BY <2>1, <3>1, <3>2, <3>3 DEF DataTyped
    <3>5. QED
      BY <2>1, <3>1, <3>4 DEF JobsTyped, ProcessesTyped, LoopTyped
  <2>3. CASE ~(data[j][s] > 0)
    <3>1. /\ pipes' = [pipes EXCEPT ![j] = pipes[j] \ {s}]
          /\ state' = [state EXCEPT ![j] = state[j] \cup {s}]
          /\ stack' = stack \cup {j} /\ done' = TRUE /\ UNCHANGED data
      BY <1>8, <2>3 DEF HandlePipe, SetState
    <3>2. JobsTyped'
      BY <2>1, <3>1 DEF JobsTyped, Bits
    <3>3. ProcessesTyped'
      BY <2>1, <3>1 DEF ProcessesTyped
    <3>4. QED
      BY <2>1, <3>1, <3>2, <3>3 DEF DataTyped, LoopTyped
  <2>4. QED
    BY <2>2, <2>3
<1>9. ASSUME NEW j \in Job, NEW s \in Stream, Write(j, s)
      PROVE  TypeOK'
  <2>1. /\ data' = [data EXCEPT ![j] = [data[j] EXCEPT ![s] = data[j][s] + 1]]
        /\ data[j][s] < program.data /\ program' = program
    BY <1>9 DEF Write, jobVars
  <2>2. data[j] \in [Stream -> 0 .. program.data] /\ data[j][s] \in 0 .. program.data
    BY DEF DataTyped
  <2>3. data[j][s] + 1 \in 0 .. program.data
    BY ONLY <1>1, <2>1, <2>2
  <2>4. DataTyped'
    BY <2>1, <2>2, <2>3 DEF DataTyped
  <2>5. QED
    BY <1>9, <2>4 DEF Write, jobVars, loopVars, JobsTyped, ProcessesTyped, LoopTyped
<1>10. ASSUME NEW j \in Job, NEW s \in Stream, Close(j, s)
       PROVE  TypeOK'
  <2>1. ProcessesTyped'
    BY <1>10 DEF Close, ProcessesTyped
  <2>2. QED
    BY <1>10, <2>1 DEF Close, jobVars, loopVars, JobsTyped, DataTyped, LoopTyped
<1>11. ASSUME NEW j \in Job, NEW kept \in SUBSET writers[j], Exit(j, kept)
       PROVE  TypeOK'
  <2>1. ProcessesTyped'
    BY <1>11 DEF Exit, ProcessesTyped
  <2>2. QED
    BY <1>11, <2>1 DEF Exit, jobVars, JobsTyped, DataTyped, LoopTyped
<1>12. QED
  BY <1>2, <1>3, <1>4, <1>5, <1>6, <1>7, <1>8, <1>9, <1>10, <1>11, StepCases

-----------------------------------------------------------------------------
(* The theorems. *)

\* An empty table satisfies the invariant.
LEMMA JobInitInv == Init => JobInv
<1> SUFFICES ASSUME Init
             PROVE  JobInv
  OBVIOUS
<1> USE DEF Init
<1>1. TypeOK
  <2>1. 0 \in 0 .. program.data
    <3>1. program \in Programs
      OBVIOUS
    <3> QED
      BY ONLY <3>1, ProgramsAssumption
  <2>2. DataTyped
    BY <2>1 DEF DataTyped
  <2>3. JobsTyped /\ ProcessesTyped
    BY DEF JobsTyped, ProcessesTyped
  <2>4. LoadTyped /\ LoopTyped
    BY DEF LoadTyped, LoopTyped
  <2>5. QED
    BY <2>2, <2>3, <2>4 DEF TypeOK
<1>2. Entries = {}
  BY DEF Entries, Entry
<1>3. LoadIsAccounted
  <2>1. IsFiniteSet(Job) /\ Threads \in [Job -> Nat] /\ Memory \in [Job -> Nat]
    BY JobsAssumption
  <2>2. SumFunctionOnSet(Threads, {}) = 0 /\ SumFunctionOnSet(Memory, {}) = 0
    BY <2>1, SumOfNone
  <2>3. QED
    BY <1>2, <2>2, FS_EmptySet DEF LoadIsAccounted
<1>4. BudgetsRespected
  <2>1. Cardinality(Entries) = 0
    BY ONLY <1>2, FS_EmptySet
  <2>2. QED
    BY ONLY <1>2, <2>1, LimitsAssumption DEF BudgetsRespected
<1>5. ProcInv /\ OutputIsComplete
  BY DEF ProcInv, OutputIsComplete
<1>6. ReadyInv /\ LoopInv /\ SignalInv /\ NoChildOutlives
  BY DEF ReadyInv, LoopInv, SignalInv, NoChildOutlives
<1>7. QED
  BY <1>1, <1>3, <1>4, <1>5, <1>6 DEF JobInv

\* Every step preserves it.
LEMMA JobNextInv == JobInv /\ [Next]_vars => JobInv'
<1>1. ASSUME JobInv, Next
      PROVE  JobInv'
  <2> USE <1>1 DEF JobInv
  <2>1. LoadIsAccounted' /\ BudgetsRespected' /\ TypeOK'
    BY LoadStep, BudgetStep, TypeStep
  <2>2. ProcInv' /\ OutputIsComplete' /\ ReadyInv'
    BY ProcStep, OutputStep, ReadyStep
  <2>3. LoopInv' /\ SignalInv' /\ NoChildOutlives'
    BY LoopInvStep, SignalStep
  <2>4. QED
    BY <2>1, <2>2, <2>3
<1>2. ASSUME JobInv, UNCHANGED vars
      PROVE  JobInv'
  <2> USE <1>2 DEF JobInv, vars, jobVars, procVars, loadVars, loopVars
  <2>1. TypeOK'
    BY DEF TypeOK, JobsTyped, ProcessesTyped, DataTyped, LoadTyped, LoopTyped
  <2>2. Entries' = Entries
    BY DEF Entries, Entry
  <2>3. LoadIsAccounted' /\ BudgetsRespected'
    BY <2>2 DEF LoadIsAccounted, BudgetsRespected
  <2>4. ProcInv' /\ OutputIsComplete' /\ ReadyInv'
    BY DEF ProcInv, OutputIsComplete, ReadyInv
  <2>5. LoopInv' /\ SignalInv' /\ NoChildOutlives'
    BY DEF LoopInv, SignalInv, NoChildOutlives
  <2>6. QED
    BY <2>1, <2>3, <2>4, <2>5
<1>3. QED
  BY <1>1, <1>2

\* So it holds in every state of every behaviour.
LEMMA JobAlwaysInv == Spec => []JobInv
BY JobInitInv, JobNextInv, PTL DEF Spec

\* For any jobs, limits and programs: what launch adds to the load is given
\* back once, when process and pipes of the job are gone.
THEOREM LoadAlwaysAccounted == Spec => []LoadIsAccounted
BY JobAlwaysInv, PTL DEF JobInv

\* The limits on CPU, memory and children hold, the documented exceptions for
\* a job that runs alone included.
THEOREM BudgetsAlwaysRespected == Spec => []BudgetsRespected
BY JobAlwaysInv, PTL DEF JobInv

\* A stream that is reported complete was read to its end, and no process can
\* write to it any more.
THEOREM OutputsAreComplete == Spec => []OutputIsComplete
BY JobAlwaysInv, PTL DEF JobInv

\* wake does not leave a child of its own running.
THEOREM NoChildEverOutlives == Spec => []NoChildOutlives
BY JobAlwaysInv, PTL DEF JobInv

\* poll never sleeps through the exit of a child.
THEOREM ExitsAreAlwaysNoticed == Spec => []ExitsAreNoticed
<1>1. JobInv => ExitsAreNoticed
  BY DEF JobInv, SignalInv, ExitsAreNoticed, NoWait
<1>2. QED
  BY <1>1, JobAlwaysInv, PTL

\* When the main loop ends by itself, every job has run to its end.
THEOREM LoopAlwaysEndsIdle == Spec => []LoopEndsIdle
<1>1. JobInv => LoopEndsIdle
  <2> SUFFICES ASSUME JobInv, pc = "poll", numRunning = 0
               PROVE  \A j \in Job : ~Entry(j) /\ j \notin pending \cup stack
    BY DEF LoopEndsIdle
  <2>1. Entries = {}
    BY JobsAssumption, FS_Subset, FS_EmptySet DEF JobInv, LoadIsAccounted, Entries
  <2>2. pending = {} /\ stack = {}
    BY DEF JobInv, LoopInv
  <2>3. QED
    BY <2>1, <2>2 DEF Entries
<1>2. QED
  BY <1>1, JobAlwaysInv, PTL
=============================================================================
