-------------------------- MODULE BackgroundProofs --------------------------
(***************************************************************************)
(* What runs in the background of the process.                             *)
(*                                                                         *)
(* Analysis jobs, for any number of requests, pollers, threads, jobs and   *)
(* restarts: a second worker is at a request, and an outcome changes, only *)
(* after a live worker went half an hour without touching its row.         *)
(*                                                                         *)
(* The in-process pipeline, for any number of workers, any capacity and    *)
(* any bounds, with the file watcher in front of it or not: the buffer is  *)
(* a bounded first-in first-out channel, at most one worker of a process   *)
(* ends in task_done, and with three workers or more (one, when there is   *)
(* no watcher) nobody sleeps next to work.                                 *)
(***************************************************************************)
EXTENDS SynthesisJobs, TailedPipeline, SequenceTheorems, TLAPS

-----------------------------------------------------------------------------
(* Analysis jobs *)

(* A task that has not ended works for a job that is still open, unless it *)
(* has been overdue,                                                       *)
LiveIsActive == \A j \in JobIds : worker[j] # "gone" => Active(j) \/ j \in overdue

(* a job whose row went untouched for half an hour has no task left, *)
OldIsDead == \A j \in old : worker[j] = "gone" \/ j \in overdue

(* nor has one a read is about to fail, which did not complete either, *)
ReapedIsDead ==
    \A p \in Pollers : \A j \in reaping[p] :
        j \in overdue \/ (worker[j] = "gone" /\ job[j].status # "completed")

(* and where a request has two jobs the first has ended. *)
OneActive ==
    \A i, j \in JobIds :
        i < j /\ job[i].drift = job[j].drift /\ Active(i) => i \in overdue

IInv == JobsTypeOK /\ LiveIsActive /\ OldIsDead /\ ReapedIsDead /\ OneActive

-----------------------------------------------------------------------------
(* Sequences *)

LEMMA TypeFacts ==
    ASSUME JobsTypeOK
    PROVE  /\ Len(job) \in Nat /\ Len(worker) = Len(job) /\ JobIds = 1 .. Len(job)
           /\ DOMAIN job = JobIds /\ DOMAIN worker = JobIds
           /\ \A j \in JobIds : job[j] \in JobRow /\ worker[j] \in WorkerSteps
           /\ old \subseteq JobIds /\ \A p \in Pollers : reaping[p] \subseteq JobIds
  BY DEF JobsTypeOK, JobIds

(* One row gets another status, the others stay as they are. *)
LEMMA StatusFacts ==
    ASSUME JobsTypeOK, NEW j \in JobIds, NEW s \in _ACTIVE_STATUSES \cup Terminal,
           job' = [job EXCEPT ![j].status = s]
    PROVE  /\ job' \in Seq(JobRow) /\ Len(job') = Len(job) /\ JobIds' = JobIds
           /\ job'[j].status = s /\ job'[j].drift = job[j].drift
           /\ \A i \in JobIds : i # j => job'[i] = job[i]
  <1>1. job[j] \in JobRow /\ j \in 1 .. Len(job) /\ job \in Seq(JobRow)
    BY TypeFacts DEF JobIds, JobsTypeOK
  <1> DEFINE row == [job[j] EXCEPT !.status = s]
  <1>2. row \in JobRow /\ row.status = s /\ row.drift = job[j].drift
    BY <1>1 DEF JobRow
  <1>3. job' = [job EXCEPT ![j] = row]
    OBVIOUS
  <1> HIDE DEF row
  <1>4. job' \in Seq(JobRow) /\ Len(job') = Len(job)
    BY <1>1, <1>2, <1>3, ExceptSeq
  <1>5. job'[j] = row /\ \A i \in JobIds : i # j => job'[i] = job[i]
    BY <1>1, <1>3 DEF JobIds
  <1>6. QED
    BY <1>2, <1>4, <1>5 DEF JobIds

(* One task goes on. *)
LEMMA GoesFacts ==
    ASSUME JobsTypeOK, NEW j \in JobIds, NEW goal \in WorkerSteps, Goes(j, goal)
    PROVE  /\ worker' \in Seq(WorkerSteps) /\ Len(worker') = Len(worker)
           /\ worker'[j] = goal
           /\ \A i \in JobIds : i # j => worker'[i] = worker[i]
  <1>1. worker \in Seq(WorkerSteps) /\ j \in 1 .. Len(worker)
    BY TypeFacts DEF JobIds, JobsTypeOK
  <1>2. worker' = [worker EXCEPT ![j] = goal]
    BY DEF Goes
  <1>3. worker' \in Seq(WorkerSteps) /\ Len(worker') = Len(worker)
    BY <1>1, <1>2, ExceptSeq
  <1>4. QED
    BY <1>1, <1>2, <1>3, TypeFacts DEF JobIds

-----------------------------------------------------------------------------
(* Steps *)

LEMMA InitIInv == JobsInit => IInv
  <1> SUFFICES ASSUME JobsInit PROVE IInv
    OBVIOUS
  <1>1. JobIds = {} /\ Len(job) = 0
    BY DEF JobsInit, JobIds
  <1>2. JobsTypeOK
    BY <1>1, BoundsAssumption DEF JobsInit, JobsTypeOK
  <1>3. QED
    BY <1>1, <1>2 DEF JobsInit, IInv, LiveIsActive, OldIsDead, ReapedIsDead, OneActive

LEMMA CreateStep ==
    ASSUME IInv, NEW d \in Drifts, create_synthesis_job(d) PROVE IInv'
  <1> DEFINE row == [drift |-> d, status |-> "queued"]
             n == Len(job) + 1
  <1>1. /\ job' = Append(job, row) /\ worker' = Append(worker, "waiting")
        /\ ActiveJobs(d) = {} /\ UNCHANGED <<drift, old, overdue, reaping, jobRestarts>>
    BY DEF create_synthesis_job
  <1>2. JobsTypeOK
    BY DEF IInv
  <1>3. row \in JobRow /\ row.status = "queued" /\ row.drift = d
    BY DEF JobRow, _ACTIVE_STATUSES
  <1> HIDE DEF row
  <1>4. /\ job' \in Seq(JobRow) /\ Len(job') = n /\ job'[n] = row
        /\ \A i \in JobIds : job'[i] = job[i]
    BY <1>1, <1>2, <1>3, AppendProperties DEF JobsTypeOK, JobIds
  <1>5. /\ worker' \in Seq(WorkerSteps) /\ Len(worker') = n /\ worker'[n] = "waiting"
        /\ \A i \in JobIds : worker'[i] = worker[i]
    BY <1>1, <1>2, AppendProperties DEF JobsTypeOK, JobIds, WorkerSteps
  <1>6. JobIds' = JobIds \cup {n} /\ n \notin JobIds
    BY <1>2, <1>4, TypeFacts DEF JobIds
  <1>7. JobsTypeOK'
    BY <1>1, <1>2, <1>4, <1>5, <1>6 DEF JobsTypeOK
  <1> HIDE DEF n
  <1>8. \A i \in JobIds : Active(i)' <=> Active(i)
    BY <1>4 DEF Active
  <1>9. job'[n].status \in _ACTIVE_STATUSES
    BY <1>3, <1>4 DEF _ACTIVE_STATUSES
  <1>10. LiveIsActive'
    BY <1>1, <1>5, <1>6, <1>8, <1>9 DEF IInv, LiveIsActive, Active
  <1>11. OldIsDead' /\ ReapedIsDead'
    BY <1>1, <1>2, <1>4, <1>5, TypeFacts DEF IInv, OldIsDead, ReapedIsDead
  <1>12. OneActive'
    <2>1. \A i \in JobIds : Active(i) => job[i].drift # d
      BY <1>1 DEF ActiveJobs
    <2>2. \A i \in JobIds : ~(n < i)
      BY <1>2, TypeFacts DEF n, JobIds
    <2>3. n \in Nat /\ ~(n < n)
      BY <1>2, TypeFacts DEF n
    <2>4. SUFFICES ASSUME NEW i \in JobIds', NEW k \in JobIds', i < k,
                          job'[i].drift = job'[k].drift, Active(i)'
                   PROVE  i \in overdue
      BY <1>1 DEF OneActive
    <2>5. i # n
      BY <1>6, <2>2, <2>3, <2>4
    <2>6. i \in JobIds /\ Active(i) /\ job'[i] = job[i]
      BY <1>4, <1>6, <1>8, <2>4, <2>5
    <2>7. CASE k = n
      BY <1>3, <1>4, <2>1, <2>4, <2>6, <2>7
    <2>8. CASE k # n
      BY <1>4, <1>6, <2>4, <2>6, <2>8 DEF IInv, OneActive
    <2>9. QED
      BY <2>7, <2>8
  <1>13. QED
    BY <1>7, <1>10, <1>11, <1>12 DEF IInv

(* A task that goes on, with its row as it is. *)
LEMMA QuietStep ==
    ASSUME IInv, NEW j \in JobIds, NEW goal \in WorkerSteps, Goes(j, goal),
           worker[j] # "gone", goal # "gone" => Active(j) \/ j \in overdue,
           UNCHANGED <<job, drift, old, overdue, reaping, jobRestarts>>
    PROVE  IInv'
  <1>1. JobsTypeOK
    BY DEF IInv
  <1>2. /\ worker' \in Seq(WorkerSteps) /\ Len(worker') = Len(worker) /\ worker'[j] = goal
        /\ \A i \in JobIds : i # j => worker'[i] = worker[i]
    BY <1>1, GoesFacts
  <1>3. JobIds' = JobIds /\ \A i \in JobIds : Active(i)' <=> Active(i)
    BY DEF JobIds, Active
  <1>4. JobsTypeOK'
    BY <1>1, <1>2, <1>3 DEF JobsTypeOK
  <1>5. LiveIsActive'
    BY <1>2, <1>3 DEF IInv, LiveIsActive
  <1>6. OldIsDead' /\ ReapedIsDead'
    BY <1>1, <1>2, TypeFacts DEF IInv, OldIsDead, ReapedIsDead
  <1>7. OneActive'
    BY <1>3 DEF IInv, OneActive
  <1>8. QED
    BY <1>4, <1>5, <1>6, <1>7 DEF IInv

(* A task that goes on and touches its row. *)
LEMMA TouchStep ==
    ASSUME IInv, NEW j \in JobIds, NEW goal \in WorkerSteps, Goes(j, goal),
           worker[j] # "gone",
           NEW s \in _ACTIVE_STATUSES \cup Terminal, Touch(j, s),
           goal # "gone" => s \in _ACTIVE_STATUSES \/ j \in overdue,
           drift' \in [Drifts -> {"open", "resolved"}],
           UNCHANGED <<overdue, reaping, jobRestarts>>
    PROVE  IInv'
  <1>1. JobsTypeOK /\ (Active(j) \/ j \in overdue)
    BY DEF IInv, LiveIsActive
  <1>2. /\ worker' \in Seq(WorkerSteps) /\ Len(worker') = Len(worker) /\ worker'[j] = goal
        /\ \A i \in JobIds : i # j => worker'[i] = worker[i]
    BY <1>1, GoesFacts
  <1>3. job' = [job EXCEPT ![j].status = s] /\ old' = old \ {j}
    BY DEF Touch
  <1>4. /\ job' \in Seq(JobRow) /\ Len(job') = Len(job) /\ JobIds' = JobIds
        /\ job'[j].status = s /\ job'[j].drift = job[j].drift
        /\ \A i \in JobIds : i # j => job'[i] = job[i]
    BY <1>1, <1>3, StatusFacts
  <1>5. JobsTypeOK'
    BY <1>1, <1>2, <1>3, <1>4 DEF JobsTypeOK
  <1>6. LiveIsActive'
    BY <1>2, <1>4 DEF IInv, LiveIsActive, Active
  <1>7. OldIsDead' /\ ReapedIsDead'
    <2>1. j \in overdue \/ (j \notin old /\ \A p \in Pollers : j \notin reaping[p])
      BY DEF IInv, OldIsDead, ReapedIsDead
    <2>2. QED
      BY <1>1, <1>2, <1>3, <1>4, <2>1, TypeFacts DEF IInv, OldIsDead, ReapedIsDead
  <1>8. OneActive'
    BY <1>1, <1>4 DEF IInv, OneActive, Active
  <1>9. QED
    BY <1>5, <1>6, <1>7, <1>8 DEF IInv

LEMMA WorkStep == ASSUME IInv, NEW j \in JobIds, Work(j) PROVE IInv'
  <1>1. /\ JobsTypeOK /\ job[j] \in JobRow
        /\ worker[j] # "gone" => Active(j) \/ j \in overdue
        /\ job[j].status \in _ACTIVE_STATUSES \cup Terminal
        /\ Active(j) <=> job[j].status \in _ACTIVE_STATUSES
    BY TypeFacts DEF IInv, LiveIsActive, Active, JobRow
  <1>2. drift \in [Drifts -> {"open", "resolved"}]
    BY <1>1 DEF JobsTypeOK
  <1>3. CASE TakeSlot(j)
    BY <1>1, <1>3, QuietStep DEF TakeSlot, WorkerSteps, Running
  <1>4. CASE LoadJob(j)
    BY <1>1, <1>4, QuietStep DEF LoadJob, WorkerSteps, Running
  <1>5. CASE BeginJob(j)
    BY <1>2, <1>5, TouchStep DEF BeginJob, WorkerSteps, Running, _ACTIVE_STATUSES
  <1>6. CASE ResolveStep(j)
    <2>1. CASE drift[job[j].drift] = "resolved"
      BY <1>1, <1>6, <2>1, QuietStep DEF ResolveStep, WorkerSteps, Running
    <2>2. CASE drift[job[j].drift] # "resolved"
      BY <1>1, <1>2, <1>6, <2>2, TouchStep DEF ResolveStep, WorkerSteps, Running
    <2>3. QED
      BY <2>1, <2>2
  <1>7. CASE Analyze(j)
    <2>1. CASE Goes(j, "fail") /\ UNCHANGED <<job, old, drift>>
      BY <1>1, <1>7, <2>1, QuietStep DEF Analyze, WorkerSteps, Running
    <2>2. CASE /\ \E s \in {"open", "resolved"} : drift' = [drift EXCEPT ![job[j].drift] = s]
               /\ Touch(j, job[j].status) /\ Goes(j, "complete")
      <3>1. drift' \in [Drifts -> {"open", "resolved"}]
        BY <1>2, <2>2
      <3>2. QED
        BY <1>1, <1>7, <2>2, <3>1, TouchStep DEF Analyze, WorkerSteps, Running
    <2>3. QED
      BY <1>7, <2>1, <2>2 DEF Analyze
  <1>8. CASE CompleteJob(j)
    BY <1>2, <1>8, TouchStep DEF CompleteJob, WorkerSteps, Terminal
  <1>9. CASE FailJob(j)
    BY <1>2, <1>9, TouchStep DEF FailJob, WorkerSteps, Terminal
  <1>10. QED
    BY <1>3, <1>4, <1>5, <1>6, <1>7, <1>8, <1>9 DEF Work

LEMMA SelectStep ==
    ASSUME IInv, NEW p \in Pollers, SelectStale(p) PROVE IInv'
  <1>1. /\ reaping' = [reaping EXCEPT ![p] = Stale]
        /\ UNCHANGED <<job, worker, drift, old, overdue, jobRestarts>>
    BY DEF SelectStale
  <1>2. /\ Stale \subseteq JobIds
        /\ \A j \in Stale :
              j \in overdue \/ (worker[j] = "gone" /\ job[j].status # "completed")
    BY TypeFacts DEF IInv, OldIsDead, Stale, Active, _ACTIVE_STATUSES
  <1> HIDE DEF Stale
  <1>3. JobIds' = JobIds /\ \A i \in JobIds : Active(i)' <=> Active(i)
    BY <1>1 DEF JobIds, Active
  <1>4. JobsTypeOK'
    BY <1>1, <1>2, <1>3 DEF IInv, JobsTypeOK
  <1>5. ReapedIsDead'
    BY <1>1, <1>2 DEF IInv, JobsTypeOK, ReapedIsDead
  <1>6. QED
    BY <1>1, <1>3, <1>4, <1>5 DEF IInv, LiveIsActive, OldIsDead, OneActive

LEMMA ReapStep ==
    ASSUME IInv, NEW p \in Pollers, ReapOne(p) PROVE IInv'
  <1>1. PICK j \in reaping[p] :
          /\ job' = [job EXCEPT ![j].status = "failed"]
          /\ old' = old \ {j}
          /\ reaping' = [reaping EXCEPT ![p] = @ \ {j}]
    BY DEF ReapOne
  <1>2. UNCHANGED <<worker, drift, overdue, jobRestarts>>
    BY DEF ReapOne
  <1>3. JobsTypeOK /\ j \in JobIds /\ (worker[j] = "gone" \/ j \in overdue)
    BY TypeFacts DEF IInv, ReapedIsDead
  <1>4. /\ job' \in Seq(JobRow) /\ Len(job') = Len(job) /\ JobIds' = JobIds
        /\ job'[j].status = "failed" /\ job'[j].drift = job[j].drift
        /\ \A i \in JobIds : i # j => job'[i] = job[i]
    BY <1>1, <1>3, StatusFacts DEF Terminal
  <1>5. /\ reaping' \in [Pollers -> SUBSET JobIds]
        /\ \A q \in Pollers : reaping'[q] \subseteq reaping[q]
    BY <1>1, <1>3 DEF JobsTypeOK
  <1>6. JobsTypeOK'
    BY <1>1, <1>2, <1>3, <1>4, <1>5 DEF JobsTypeOK
  <1>7. LiveIsActive'
    BY <1>2, <1>3, <1>4 DEF IInv, LiveIsActive, Active
  <1>8. OldIsDead'
    BY <1>1, <1>2 DEF IInv, OldIsDead
  <1>9. ReapedIsDead'
    BY <1>2, <1>3, <1>4, <1>5, TypeFacts DEF IInv, ReapedIsDead
  <1>10. OneActive'
    BY <1>2, <1>4 DEF IInv, OneActive, Active, _ACTIVE_STATUSES
  <1>11. QED
    BY <1>6, <1>7, <1>8, <1>9, <1>10 DEF IInv

(* The step that takes a live worker for dead. *)
LEMMA AgeStep ==
    ASSUME IInv, NEW j \in JobIds, Age(j) PROVE IInv'
  <1>1. /\ old' = old \cup {j} /\ overdue \subseteq overdue' /\ overdue' \subseteq JobIds
        /\ worker[j] = "gone" \/ j \in overdue'
        /\ UNCHANGED <<job, worker, drift, reaping, jobRestarts>>
    BY DEF Age, IInv, JobsTypeOK
  <1>2. JobIds' = JobIds /\ \A i \in JobIds : Active(i)' <=> Active(i)
    BY <1>1 DEF JobIds, Active
  <1>3. JobsTypeOK'
    BY <1>1, <1>2 DEF IInv, JobsTypeOK
  <1>4. QED
    BY <1>1, <1>2, <1>3 DEF IInv, LiveIsActive, OldIsDead, ReapedIsDead, OneActive

LEMMA RestartStep == ASSUME IInv, RestartJobs PROVE IInv'
  <1>1. /\ jobRestarts < MaxJobRestarts /\ jobRestarts' = jobRestarts + 1
        /\ worker' = [j \in JobIds |-> "gone"]
        /\ reaping' = [p \in Pollers |-> {}]
        /\ UNCHANGED <<job, drift, old, overdue>>
    BY DEF RestartJobs
  <1>2. JobsTypeOK /\ Len(job) \in Nat
    BY TypeFacts DEF IInv
  <1>3. worker' \in Seq(WorkerSteps) /\ Len(worker') = Len(job)
    BY <1>1, <1>2 DEF JobIds, WorkerSteps
  <1>4. JobIds' = JobIds /\ \A i \in JobIds : Active(i)' <=> Active(i)
    BY <1>1 DEF JobIds, Active
  <1>5. jobRestarts' \in 0 .. MaxJobRestarts
    BY <1>1, <1>2, BoundsAssumption DEF JobsTypeOK
  <1>6. JobsTypeOK'
    BY <1>1, <1>2, <1>3, <1>4, <1>5 DEF JobsTypeOK
  <1>7. QED
    BY <1>1, <1>2, <1>4, <1>6, TypeFacts
       DEF IInv, LiveIsActive, OldIsDead, ReapedIsDead, OneActive

LEMMA RestStep ==
    ASSUME IInv, drift' \in [Drifts -> {"open", "resolved"}],
           UNCHANGED <<job, worker, old, overdue, reaping, jobRestarts>>
    PROVE  IInv'
  <1>1. JobIds' = JobIds /\ \A i \in JobIds : Active(i)' <=> Active(i)
    BY DEF JobIds, Active
  <1>2. JobsTypeOK'
    BY <1>1 DEF IInv, JobsTypeOK
  <1>3. QED
    BY <1>1, <1>2 DEF IInv, LiveIsActive, OldIsDead, ReapedIsDead, OneActive

LEMMA NextIInv == IInv /\ [JobsNext]_jobsVars => IInv'
  <1> SUFFICES ASSUME IInv, [JobsNext]_jobsVars PROVE IInv'
    OBVIOUS
  <1>1. drift \in [Drifts -> {"open", "resolved"}]
    BY DEF IInv, JobsTypeOK
  <1>2. ASSUME NEW d \in Drifts, create_synthesis_job(d) \/ ResolveDrift(d) PROVE IInv'
    <2>1. CASE create_synthesis_job(d)
      BY <2>1, CreateStep
    <2>2. CASE ResolveDrift(d)
      BY <1>1, <2>2, RestStep DEF ResolveDrift
    <2>3. QED
      BY <1>2, <2>1, <2>2
  <1>3. ASSUME NEW p \in Pollers, Poll(p) PROVE IInv'
    BY <1>3, SelectStep, ReapStep DEF Poll
  <1>4. ASSUME NEW j \in JobIds, Work(j) \/ Age(j) PROVE IInv'
    BY <1>4, WorkStep, AgeStep
  <1>5. CASE RestartJobs
    BY <1>5, RestartStep
  <1>6. CASE UNCHANGED jobsVars
    BY <1>1, <1>6, RestStep DEF jobsVars
  <1>7. QED
    BY <1>2, <1>3, <1>4, <1>5, <1>6 DEF JobsNext

-----------------------------------------------------------------------------
(* What follows *)

LEMMA SpecIInv == JobsSpec => []IInv
  BY InitIInv, NextIInv, PTL DEF JobsSpec

(* However often a request is submitted, whoever polls, and whenever the   *)
(* process restarts: while a worker is at it that was not overdue, no job  *)
(* is created beside it, so no later one has a worker.                     *)
THEOREM OneAnalysisTheorem == JobsSpec => []OneAnalysisPerDrift
  <1>1. IInv => OneAnalysisPerDrift
    <2> SUFFICES ASSUME IInv PROVE OneAnalysisPerDrift
      OBVIOUS
    <2>1. \A j \in Busy \cup {k \in JobIds : worker[k] = "waiting"} :
              j \in JobIds /\ (Active(j) \/ j \in overdue)
      BY DEF IInv, LiveIsActive, Busy, Running
    <2>2. QED
      BY <2>1 DEF IInv, OneActive, OneAnalysisPerDrift
  <1>2. QED
    BY <1>1, SpecIInv, PTL

(* A worker and a read overwrite what a job came to only if it was overdue. *)
LEMMA StepKeepsOutcome ==
    ASSUME IInv, [JobsNext]_jobsVars, NEW j \in JobIds, ~Active(j), j \notin overdue
    PROVE  job'[j].status = job[j].status
  <1>1. JobsTypeOK /\ job[j] \in JobRow /\ worker[j] = "gone"
    BY TypeFacts DEF IInv, LiveIsActive
  <1>2. ASSUME NEW d \in Drifts, create_synthesis_job(d)
        PROVE  job'[j].status = job[j].status
    BY <1>1, <1>2, AppendProperties DEF create_synthesis_job, JobsTypeOK, JobIds
  <1>3. ASSUME NEW p \in Pollers, Poll(p) PROVE job'[j].status = job[j].status
    <2>1. CASE SelectStale(p)
      BY <2>1 DEF SelectStale
    <2>2. CASE ReapOne(p)
      <3>1. PICK i \in reaping[p] : job' = [job EXCEPT ![i].status = "failed"]
        BY <2>2 DEF ReapOne
      <3>2. i \in JobIds
        BY <1>1, TypeFacts
      <3>3. i = j => job[j].status = "failed"
        BY <1>1 DEF IInv, ReapedIsDead, Active, JobRow, _ACTIVE_STATUSES, Terminal
      <3>4. QED
        BY <1>1, <3>1, <3>2, <3>3, StatusFacts DEF Terminal
    <2>3. QED
      BY <1>3, <2>1, <2>2 DEF Poll
  <1>4. ASSUME NEW i \in JobIds, Work(i) PROVE job'[j].status = job[j].status
    <2>1. worker[i] # "gone"
      BY <1>4 DEF Work, TakeSlot, LoadJob, BeginJob, ResolveStep, Analyze, CompleteJob, FailJob
    <2>2. i # j
      BY <1>1, <2>1
    <2>3. \/ job' = job
          \/ \E s : job' = [job EXCEPT ![i].status = s]
      BY <1>4 DEF Work, TakeSlot, LoadJob, BeginJob, ResolveStep, Analyze, CompleteJob, FailJob, Touch
    <2>4. QED
      BY <1>1, <2>2, <2>3, TypeFacts
  <1>5. CASE UNCHANGED job
    BY <1>5
  <1>6. QED
    BY <1>2, <1>3, <1>4, <1>5 DEF JobsNext, ResolveDrift, Age, RestartJobs, jobsVars

(* A job that completed or failed keeps its outcome, against any read that *)
(* fails stale jobs and any late worker, unless its own worker was still   *)
(* alive when half an hour without a touch had passed.                     *)
THEOREM OutcomeTheorem == JobsSpec => OutcomeIsFinal
  <1>1. IInv /\ [JobsNext]_jobsVars
          => [\A j \in JobIds : ~Active(j) /\ job'[j].status # job[j].status => j \in overdue]_jobsVars
    BY StepKeepsOutcome
  <1>2. QED
    BY <1>1, SpecIInv, PTL DEF JobsSpec, OutcomeIsFinal

-----------------------------------------------------------------------------
(* The pipeline *)

(* The item the watcher holds fits: at most one listener took a place      *)
(* since it looked.                                                        *)
RoomForLateItem ==
    /\ watcher.pc = "put" <=> watcher.item # 0
    /\ watcher.pc = "put" => Len(queue) <= MaxQueue
    /\ watcher.pc # "idle" => Watching

(* Only the worker that has the loop holds an item, and works on it. *)
HandIsWorkedOn ==
    \A w \in Workers : hand[w] # 0 <=> turn = w /\ step[w] = "process"

SafeInv == TypeOK /\ HandIsWorkedOn /\ RoomForLateItem /\ WithinBound /\ Accounted

(* A worker has the loop, is about to, or waits for an item: one of them,  *)
(* once.                                                                   *)
Distinct(s) == \A i, j \in 1 .. Len(s) : s[i] = s[j] => i = j
PlacedOnce ==
    /\ Distinct(ready) /\ Distinct(getters)
    /\ Range(ready) \cap Range(getters) = {}
    /\ turn \notin Range(ready) \cup Range(getters)

(* One that has ended is nowhere any more; it takes the watcher for that.  *)
EndedIsOut ==
    \A w \in Workers :
        step[w] = "ended" =>
            Watching /\ turn # w /\ w \notin Range(ready) \cup Range(getters)

(* The queue's count is of what waits and what is worked on, less the item *)
(* the watcher has not counted yet, and one more for good after a worker   *)
(* ended without taking its item off the count.                            *)
One(b) == IF b THEN 1 ELSE 0
AtWork == \E w \in Workers : turn = w /\ step[w] = "process"
HasEnded == \E w \in Workers : step[w] = "ended"
CountAgrees ==
    unfinished + One(watcher.pc = "count") = Len(queue) + One(AtWork) + One(HasEnded)

EndInv == PlacedOnce /\ EndedIsOut /\ CountAgrees /\ AtMostOneEnds

(* Every worker has the loop, is about to, waits for an item, or ended. *)
NobodyIsLost ==
    \A w \in Workers :
        turn = w \/ w \in Range(ready) \/ w \in Range(getters) \/ step[w] = "ended"

(* A worker that found the queue empty and is about to park leaves another *)
(* one ready if something was put, and its wake-up done, since it looked.  *)
ParkIsCovered ==
    \A w \in Workers :
        turn = w /\ step[w] = "park" /\ queue # <<>> =>
            Watching /\ (ready # <<>> \/ watcher.pc \in {"count", "wake"})

AwakeInv == NobodyIsLost /\ ParkIsCovered /\ WorkGoesOn

EnoughWorkers == Watching => PipelineWorkers > 2

-----------------------------------------------------------------------------
(* Sequences *)

LEMMA AppendFacts ==
    ASSUME NEW S, NEW s \in Seq(S), NEW x \in S
    PROVE  /\ Append(s, x) \in Seq(S)
           /\ Len(Append(s, x)) = Len(s) + 1
           /\ Append(s, x) # <<>>
           /\ Range(Append(s, x)) = Range(s) \cup {x}
  <1>1. /\ Append(s, x) \in Seq(S)
        /\ Len(Append(s, x)) = Len(s) + 1
        /\ \A i \in 1 .. Len(s) : Append(s, x)[i] = s[i]
        /\ Append(s, x)[Len(s) + 1] = x
        /\ Len(s) \in Nat
    OBVIOUS
  <1>2. DOMAIN Append(s, x) = 1 .. (Len(s) + 1) /\ DOMAIN s = 1 .. Len(s)
    BY <1>1
  <1>3. Range(Append(s, x)) = Range(s) \cup {x}
    BY <1>1, <1>2 DEF Range
  <1>4. QED
    BY <1>1, <1>3

LEMMA TailFacts ==
    ASSUME NEW S, NEW s \in Seq(S), s # <<>>
    PROVE  /\ Head(s) \in S
           /\ Tail(s) \in Seq(S)
           /\ Len(Tail(s)) = Len(s) - 1
           /\ Range(s) = Range(Tail(s)) \cup {Head(s)}
  <1>1. /\ Len(s) \in Nat \ {0} /\ Head(s) = s[1] /\ Head(s) \in S
        /\ Tail(s) \in Seq(S) /\ Len(Tail(s)) = Len(s) - 1
        /\ \A i \in 1 .. Len(s) - 1 : Tail(s)[i] = s[i + 1]
    OBVIOUS
  <1>2. DOMAIN s = 1 .. Len(s) /\ DOMAIN Tail(s) = 1 .. Len(s) - 1
    BY <1>1
  <1>3. ASSUME NEW y \in Range(s) PROVE y \in Range(Tail(s)) \cup {Head(s)}
    <2>1. PICK i \in 1 .. Len(s) : y = s[i]
      BY <1>2, <1>3 DEF Range
    <2>2. CASE i = 1
      BY <2>1, <2>2, <1>1
    <2>3. CASE i # 1
      <3>1. i - 1 \in 1 .. Len(s) - 1 /\ Tail(s)[i - 1] = s[i]
        BY <2>3, <1>1
      <3>2. QED
        BY <3>1, <2>1, <1>2 DEF Range
    <2>4. QED
      BY <2>2, <2>3
  <1>4. ASSUME NEW y \in Range(Tail(s)) \cup {Head(s)} PROVE y \in Range(s)
    <2>1. CASE y = Head(s)
      BY <2>1, <1>1, <1>2 DEF Range
    <2>2. CASE y \in Range(Tail(s))
      <3>1. PICK i \in 1 .. Len(s) - 1 : y = Tail(s)[i]
        BY <2>2, <1>2 DEF Range
      <3>2. i + 1 \in 1 .. Len(s) /\ y = s[i + 1]
        BY <3>1, <1>1
      <3>3. QED
        BY <3>2, <1>2 DEF Range
    <2>3. QED
      BY <2>1, <2>2, <1>4
  <1>5. QED
    BY <1>1, <1>3, <1>4

(* The first parked worker is resumed, if there is one; nobody vanishes. *)
LEMMA WakeFacts ==
    ASSUME TypeOK, WakeNext
    PROVE  /\ getters' \in Seq(Workers) /\ ready' \in Seq(Workers)
           /\ Range(getters') \cup Range(ready') = Range(getters) \cup Range(ready)
           /\ getters = <<>> => ready' = ready /\ getters' = getters
           /\ getters # <<>> => ready' # <<>>
  <1>1. CASE getters = <<>>
    BY <1>1 DEF WakeNext, TypeOK
  <1>2. CASE getters # <<>>
    <2>1. getters' = Tail(getters) /\ ready' = Append(ready, Head(getters))
      BY <1>2 DEF WakeNext
    <2>2. Head(getters) \in Workers /\ Tail(getters) \in Seq(Workers)
          /\ Range(getters) = Range(Tail(getters)) \cup {Head(getters)}
      BY <1>2, TailFacts DEF TypeOK
    <2>3. ready \in Seq(Workers)
      BY DEF TypeOK
    <2>4. /\ Append(ready, Head(getters)) \in Seq(Workers)
          /\ Append(ready, Head(getters)) # <<>>
          /\ Range(Append(ready, Head(getters))) = Range(ready) \cup {Head(getters)}
      BY <2>2, <2>3, AppendFacts
    <2>5. QED
      BY <1>2, <2>1, <2>2, <2>4
  <1>3. QED
    BY <1>1, <1>2

LEMMA OrderFacts ==
    WorkerOrder \in Seq(Workers) /\ Range(WorkerOrder) = Workers
  <1>1. WorkerOrder \in [1 .. PipelineWorkers -> Workers] /\ PipelineWorkers \in Nat
    BY WorkerAssumption DEF WorkerOrder, Workers
  <1>2. QED
    BY <1>1 DEF WorkerOrder, Workers, Range

LEMMA ConstantFacts ==
    /\ MaxQueue \in Nat \ {0} /\ MaxItems \in Nat /\ MaxRestarts \in Nat
    /\ Watching \in BOOLEAN /\ LateProducers \in {0, 1}
    /\ NoWorker \notin Workers /\ 1 \in Workers /\ NoWorker = 0
  BY QueueAssumption, ItemsAssumption, WatchingAssumption, WorkerAssumption
     DEF LateProducers, NoWorker, Workers

-----------------------------------------------------------------------------
(* The items: typed, within the bound, all accounted for *)

LEMMA SafeInit == Init => SafeInv
  <1> SUFFICES ASSUME Init PROVE SafeInv
    OBVIOUS
  <1>1. TypeOK
    BY OrderFacts, ConstantFacts DEF Init, TypeOK
  <1>2. HandIsWorkedOn /\ RoomForLateItem /\ WithinBound
    BY ConstantFacts DEF Init, HandIsWorkedOn, RoomForLateItem, WithinBound
  <1>3. Range(queue) = {} /\ InHand = {}
    BY DEF Init, InHand, Range
  <1>4. Accounted
    BY <1>3 DEF Init, Accounted
  <1>5. QED
    BY <1>1, <1>2, <1>4 DEF SafeInv

LEMMA EnqueueSafe == ASSUME SafeInv, enqueue PROVE SafeInv'
  <1> USE ConstantFacts
  <1>1. TypeOK /\ HandIsWorkedOn /\ RoomForLateItem /\ WithinBound /\ Accounted
    BY DEF SafeInv
  <1>2. offered + 1 \in Items /\ offered' = offered + 1 /\ offered \in Nat
    BY <1>1 DEF enqueue, TypeOK, Items
  <1>3. UNCHANGED <<turn, step, hand, watcher, taken, done, lost, restarts, InHand>>
    BY DEF enqueue, InHand
  <1>4. CASE Full
    <2>1. shed' = shed \cup {offered + 1} /\ UNCHANGED <<queue, getters, ready, unfinished>>
      BY <1>4 DEF enqueue
    <2>2. TypeOK'
      BY <1>1, <1>2, <1>3, <2>1 DEF TypeOK, Items
    <2>3. Accounted'
      BY <1>1, <1>2, <1>3, <2>1 DEF Accounted
    <2>4. QED
      BY <1>1, <1>3, <2>1, <2>2, <2>3
         DEF SafeInv, HandIsWorkedOn, RoomForLateItem, WithinBound
  <1>5. CASE ~Full
    <2>1. /\ queue' = Append(queue, offered + 1) /\ WakeNext /\ shed' = shed
          /\ unfinished' = unfinished + 1
      BY <1>5 DEF enqueue, Put
    <2>2. /\ queue' \in Seq(Items) /\ Len(queue') = Len(queue) + 1
          /\ Range(queue') = Range(queue) \cup {offered + 1}
      BY <1>1, <1>2, <2>1, AppendFacts DEF TypeOK
    <2>3. Len(queue) \in Nat /\ Len(queue) < MaxQueue
      BY <1>1, <1>5 DEF Full, TypeOK
    <2>4. TypeOK'
      BY <1>1, <1>2, <1>3, <2>1, <2>2, WakeFacts DEF TypeOK, Items
    <2>5. RoomForLateItem' /\ WithinBound'
      BY <1>1, <1>3, <2>2, <2>3 DEF RoomForLateItem, WithinBound, LateProducers
    <2>6. Accounted'
      BY <1>1, <1>2, <1>3, <2>1, <2>2 DEF Accounted
    <2>7. QED
      BY <1>1, <1>3, <2>4, <2>5, <2>6 DEF SafeInv, HandIsWorkedOn
  <1>6. QED
    BY <1>4, <1>5

LEMMA CheckSafe == ASSUME SafeInv, WatcherChecksFull PROVE SafeInv'
  <1> USE ConstantFacts
  <1>1. TypeOK /\ HandIsWorkedOn /\ RoomForLateItem /\ WithinBound /\ Accounted
    BY DEF SafeInv
  <1>2. /\ Watching /\ watcher.pc = "idle" /\ watcher.item = 0
        /\ offered + 1 \in Items /\ offered' = offered + 1 /\ offered \in Nat
    BY <1>1 DEF WatcherChecksFull, TypeOK, RoomForLateItem, Items
  <1>3. UNCHANGED <<queue, getters, ready, turn, step, hand, unfinished, taken, done, lost, restarts>>
    BY DEF WatcherChecksFull
  <1>4. CASE Full
    <2>1. shed' = shed \cup {offered + 1} /\ UNCHANGED <<watcher, InHand>>
      BY <1>3, <1>4 DEF WatcherChecksFull, InHand
    <2>2. TypeOK'
      BY <1>1, <1>2, <1>3, <2>1 DEF TypeOK, Items
    <2>3. Accounted'
      BY <1>1, <1>2, <1>3, <2>1 DEF Accounted
    <2>4. QED
      BY <1>1, <1>3, <2>1, <2>2, <2>3
         DEF SafeInv, HandIsWorkedOn, RoomForLateItem, WithinBound
  <1>5. CASE ~Full
    <2>1. watcher' = [pc |-> "put", item |-> offered + 1] /\ shed' = shed
      BY <1>5 DEF WatcherChecksFull
    <2>2. InHand' = InHand \cup {offered + 1}
      BY <1>2, <1>3, <2>1 DEF InHand
    <2>3. TypeOK'
      BY <1>1, <1>2, <1>3, <2>1 DEF TypeOK, Items
    <2>4. Accounted'
      BY <1>1, <1>2, <1>3, <2>1, <2>2 DEF Accounted
    <2>5. Len(queue) \in Nat /\ Len(queue) <= MaxQueue
      BY <1>1, <1>5 DEF Full, TypeOK
    <2>6. QED
      BY <1>1, <1>2, <1>3, <2>1, <2>3, <2>4, <2>5
         DEF SafeInv, HandIsWorkedOn, RoomForLateItem, WithinBound
  <1>6. QED
    BY <1>4, <1>5

LEMMA PutSafe == ASSUME SafeInv, WatcherPuts PROVE SafeInv'
  <1> USE ConstantFacts
  <1>1. TypeOK /\ HandIsWorkedOn /\ RoomForLateItem /\ WithinBound /\ Accounted
    BY DEF SafeInv
  <1>2. /\ watcher.pc = "put" /\ watcher.item # 0 /\ watcher.item \in Items
        /\ Watching /\ Len(queue) <= MaxQueue /\ Len(queue) \in Nat
    BY <1>1 DEF WatcherPuts, RoomForLateItem, TypeOK, Items
  <1>3. /\ queue' = Append(queue, watcher.item) /\ watcher' = [pc |-> "count", item |-> 0]
        /\ UNCHANGED <<getters, ready, turn, step, hand, unfinished, offered, taken, done, shed, lost, restarts>>
    BY DEF WatcherPuts
  <1>4. /\ queue' \in Seq(Items) /\ Len(queue') = Len(queue) + 1
        /\ Range(queue') = Range(queue) \cup {watcher.item}
    BY <1>1, <1>2, <1>3, AppendFacts DEF TypeOK
  <1>5. TypeOK'
    BY <1>1, <1>3, <1>4 DEF TypeOK
  <1>6. InHand' \cup {watcher.item} = InHand
    BY <1>2, <1>3 DEF InHand
  <1>7. Accounted'
    BY <1>1, <1>3, <1>4, <1>6 DEF Accounted
  <1>8. RoomForLateItem' /\ WithinBound' /\ HandIsWorkedOn'
    BY <1>1, <1>2, <1>3, <1>4
       DEF RoomForLateItem, WithinBound, HandIsWorkedOn, LateProducers
  <1>9. QED
    BY <1>5, <1>7, <1>8 DEF SafeInv

LEMMA WakeSafe == ASSUME SafeInv, WatcherWakes PROVE SafeInv'
  <1>1. TypeOK /\ HandIsWorkedOn /\ RoomForLateItem /\ WithinBound /\ Accounted
    BY DEF SafeInv
  <1>2. /\ watcher.pc = "wake" /\ WakeNext /\ watcher' = [pc |-> "idle", item |-> 0]
        /\ UNCHANGED <<queue, turn, step, hand, unfinished, offered, taken, done, shed, lost, restarts>>
    BY DEF WatcherWakes
  <1>3. watcher.item = 0
    BY <1>1, <1>2 DEF RoomForLateItem
  <1>4. InHand' = InHand
    BY <1>2, <1>3 DEF InHand
  <1>5. TypeOK'
    BY <1>1, <1>2, WakeFacts, ConstantFacts DEF TypeOK
  <1>6. QED
    BY <1>1, <1>2, <1>4, <1>5
       DEF SafeInv, HandIsWorkedOn, RoomForLateItem, WithinBound, Accounted

LEMMA CountSafe == ASSUME SafeInv, WatcherCounts PROVE SafeInv'
  <1>1. TypeOK /\ HandIsWorkedOn /\ RoomForLateItem /\ WithinBound /\ Accounted
    BY DEF SafeInv
  <1>2. /\ watcher.pc = "count" /\ unfinished' = unfinished + 1
        /\ watcher' = [pc |-> "wake", item |-> 0]
        /\ UNCHANGED <<queue, getters, ready, turn, step, hand, offered, taken, done, shed, lost, restarts>>
    BY DEF WatcherCounts
  <1>3. watcher.item = 0
    BY <1>1, <1>2 DEF RoomForLateItem
  <1>4. InHand' = InHand
    BY <1>2, <1>3 DEF InHand
  <1>5. TypeOK'
    BY <1>1, <1>2, ConstantFacts DEF TypeOK
  <1>6. QED
    BY <1>1, <1>2, <1>4, <1>5
       DEF SafeInv, HandIsWorkedOn, RoomForLateItem, WithinBound, Accounted

LEMMA RunSafe == ASSUME SafeInv, RunReady PROVE SafeInv'
  <1> USE ConstantFacts
  <1>1. TypeOK /\ HandIsWorkedOn /\ RoomForLateItem /\ WithinBound /\ Accounted
    BY DEF SafeInv
  <1>2. /\ turn = NoWorker /\ ready # <<>> /\ turn' = Head(ready) /\ ready' = Tail(ready)
        /\ step' = [step EXCEPT ![Head(ready)] = "get"]
        /\ UNCHANGED <<queue, getters, hand, unfinished, watcher, offered, taken, done, shed, lost, restarts>>
    BY DEF RunReady
  <1>3. Head(ready) \in Workers /\ Tail(ready) \in Seq(Workers)
    BY <1>1, <1>2, TailFacts DEF TypeOK
  <1>4. TypeOK'
    BY <1>1, <1>2, <1>3 DEF TypeOK
  <1>5. HandIsWorkedOn'
    BY <1>1, <1>2, <1>3 DEF HandIsWorkedOn, TypeOK
  <1>6. QED
    BY <1>1, <1>2, <1>4, <1>5 DEF SafeInv, RoomForLateItem, WithinBound, Accounted, InHand

LEMMA GetSafe == ASSUME SafeInv, NEW w \in Workers, Get(w) PROVE SafeInv'
  <1> USE ConstantFacts
  <1>1. TypeOK /\ HandIsWorkedOn /\ RoomForLateItem /\ WithinBound /\ Accounted
    BY DEF SafeInv
  <1>2. /\ turn = w /\ step[w] = "get" /\ hand[w] = 0
        /\ UNCHANGED <<getters, ready, turn, unfinished, watcher, offered, done, shed, lost, restarts>>
    BY <1>1 DEF Get, HandIsWorkedOn
  <1>3. CASE queue = <<>>
    <2>1. step' = [step EXCEPT ![w] = "park"] /\ UNCHANGED <<queue, hand, taken>>
      BY <1>3 DEF Get
    <2>2. TypeOK' /\ HandIsWorkedOn'
      BY <1>1, <1>2, <2>1 DEF TypeOK, HandIsWorkedOn
    <2>3. QED
      BY <1>1, <1>2, <2>1, <2>2 DEF SafeInv, RoomForLateItem, WithinBound, Accounted, InHand
  <1>4. CASE queue # <<>>
    <2>1. /\ queue' = Tail(queue) /\ hand' = [hand EXCEPT ![w] = Head(queue)]
          /\ taken' = Append(taken, Head(queue)) /\ step' = [step EXCEPT ![w] = "process"]
      BY <1>4 DEF Get
    <2>2. /\ Head(queue) \in Items /\ queue' \in Seq(Items) /\ Len(queue') = Len(queue) - 1
          /\ Range(queue) = Range(queue') \cup {Head(queue)} /\ Len(queue) \in Nat
      BY <1>1, <1>4, <2>1, TailFacts DEF TypeOK
    <2>3. TypeOK'
      <3>1. taken' \in Seq(Items)
        BY <1>1, <2>1, <2>2, AppendFacts DEF TypeOK
      <3>2. QED
        BY <1>1, <1>2, <2>1, <2>2, <3>1 DEF TypeOK, Items
    <2>4. HandIsWorkedOn'
      BY <1>1, <1>2, <2>1, <2>2 DEF HandIsWorkedOn, TypeOK, Items
    <2>5. RoomForLateItem' /\ WithinBound'
      BY <1>1, <1>2, <2>2 DEF RoomForLateItem, WithinBound
    <2>6. InHand' = InHand \cup {Head(queue)}
      <3>1. {hand'[v] : v \in Workers} \ {0} = ({hand[v] : v \in Workers} \cup {Head(queue)}) \ {0}
        <4>1. hand[w] = 0 /\ hand'[w] = Head(queue) /\ \A v \in Workers \ {w} : hand'[v] = hand[v]
          BY <1>1, <1>2, <2>1 DEF TypeOK
        <4>2. /\ {hand'[v] : v \in Workers} = {hand'[v] : v \in Workers \ {w}} \cup {hand'[w]}
              /\ {hand[v] : v \in Workers} = {hand[v] : v \in Workers \ {w}} \cup {hand[w]}
              /\ {hand'[v] : v \in Workers \ {w}} = {hand[v] : v \in Workers \ {w}}
          BY <4>1
        <4>3. QED
          BY <4>1, <4>2
      <3>2. Head(queue) # 0
        BY <2>2 DEF Items
      <3>3. /\ InHand' = ({hand'[v] : v \in Workers} \ {0}) \cup ({watcher.item} \ {0})
            /\ InHand = ({hand[v] : v \in Workers} \ {0}) \cup ({watcher.item} \ {0})
        BY <1>2 DEF InHand
      <3>4. QED
        BY <3>1, <3>2, <3>3
    <2>7. Accounted'
      BY <1>1, <1>2, <2>2, <2>6 DEF Accounted
    <2>8. QED
      BY <2>3, <2>4, <2>5, <2>7 DEF SafeInv
  <1>5. QED
    BY <1>3, <1>4

LEMMA ParkSafe == ASSUME SafeInv, NEW w \in Workers, Park(w) PROVE SafeInv'
  <1>1. TypeOK /\ HandIsWorkedOn /\ RoomForLateItem /\ WithinBound /\ Accounted
    BY DEF SafeInv
  <1>2. /\ turn = w /\ step[w] = "park" /\ getters' = Append(getters, w)
        /\ step' = [step EXCEPT ![w] = "parked"] /\ turn' = NoWorker
        /\ UNCHANGED <<queue, ready, hand, unfinished, watcher, offered, taken, done, shed, lost, restarts>>
    BY DEF Park
  <1>3. getters' \in Seq(Workers)
    BY <1>1, <1>2, AppendFacts DEF TypeOK
  <1>4. TypeOK' /\ HandIsWorkedOn'
    BY <1>1, <1>2, <1>3, ConstantFacts DEF TypeOK, HandIsWorkedOn
  <1>5. QED
    BY <1>1, <1>2, <1>4 DEF SafeInv, RoomForLateItem, WithinBound, Accounted, InHand

LEMMA ProcessSafe == ASSUME SafeInv, NEW w \in Workers, Process(w) PROVE SafeInv'
  <1>1. TypeOK /\ HandIsWorkedOn /\ RoomForLateItem /\ WithinBound /\ Accounted
    BY DEF SafeInv
  <1>2. /\ turn = w /\ step[w] = "process" /\ done' = done \cup {hand[w]}
        /\ hand' = [hand EXCEPT ![w] = 0] /\ task_done(w)
        /\ UNCHANGED <<queue, getters, ready, watcher, offered, taken, shed, lost, restarts>>
    BY DEF Process
  <1>3. hand[w] # 0 /\ hand[w] \in InHand
    BY <1>1, <1>2 DEF HandIsWorkedOn, InHand
  <1>4. InHand = (InHand \ {hand[w]}) \cup {hand[w]}
    BY <1>3
  <1>5. {hand'[v] : v \in Workers} \cup {hand[w]} \cup {0} = {hand[v] : v \in Workers} \cup {0}
    BY <1>1, <1>2 DEF TypeOK
  <1>6. InHand' \cup {hand[w]} = InHand
    BY <1>2, <1>3, <1>5 DEF InHand
  <1>7. Accounted'
    BY <1>1, <1>2, <1>6 DEF Accounted
  <1>8. \/ unfinished = 0 /\ step' = [step EXCEPT ![w] = "ended"] /\ turn' = NoWorker
           /\ unfinished' = unfinished
        \/ unfinished # 0 /\ step' = [step EXCEPT ![w] = "get"] /\ turn' = turn
           /\ unfinished' = unfinished - 1
    BY <1>2 DEF task_done
  <1>9. TypeOK' /\ HandIsWorkedOn'
    <2>1. /\ step' \in [Workers -> {"get", "park", "parked", "process", "ended"}]
          /\ turn' \in Workers \cup {NoWorker} /\ unfinished' \in Nat
      <3>1. /\ step \in [Workers -> {"get", "park", "parked", "process", "ended"}]
            /\ turn \in Workers \cup {NoWorker} /\ unfinished \in Nat
        BY <1>1 DEF TypeOK
      <3>2. CASE unfinished = 0 /\ step' = [step EXCEPT ![w] = "ended"] /\ turn' = NoWorker
                 /\ unfinished' = unfinished
        BY <3>1, <3>2
      <3>3. CASE unfinished # 0 /\ step' = [step EXCEPT ![w] = "get"] /\ turn' = turn
                 /\ unfinished' = unfinished - 1
        BY <3>1, <3>3
      <3>4. QED
        BY <1>8, <3>2, <3>3
    <2>2. hand' \in [Workers -> 0 .. MaxItems]
      BY <1>1, <1>2, ConstantFacts DEF TypeOK
    <2>3. done' \cup shed' \cup lost' \subseteq 1 .. offered'
      BY <1>2, <1>7 DEF Accounted
    <2>4. TypeOK'
      BY <1>1, <1>2, <2>1, <2>2, <2>3 DEF TypeOK
    <2>5. HandIsWorkedOn'
      BY <1>1, <1>2, <1>8, ConstantFacts DEF HandIsWorkedOn, TypeOK
    <2>6. QED
      BY <2>4, <2>5
  <1>10. QED
    BY <1>1, <1>2, <1>7, <1>9 DEF SafeInv, RoomForLateItem, WithinBound

LEMMA RestartSafe == ASSUME SafeInv, Restart PROVE SafeInv'
  <1> USE ConstantFacts
  <1>1. TypeOK /\ HandIsWorkedOn /\ RoomForLateItem /\ WithinBound /\ Accounted
    BY DEF SafeInv
  <1>2. /\ lost' = lost \cup Range(queue) \cup InHand
        /\ queue' = <<>> /\ getters' = <<>> /\ ready' = WorkerOrder /\ turn' = NoWorker
        /\ step' = [w \in Workers |-> "get"] /\ hand' = [w \in Workers |-> 0]
        /\ unfinished' = 0 /\ watcher' = [pc |-> "idle", item |-> 0]
        /\ restarts < MaxRestarts /\ restarts' = restarts + 1
        /\ UNCHANGED <<offered, taken, done, shed>>
    BY DEF Restart
  <1>3. Range(queue') = {} /\ InHand' = {}
    BY <1>2 DEF Range, InHand
  <1>4. Accounted'
    BY <1>1, <1>2, <1>3 DEF Accounted
  <1>5. TypeOK'
    BY <1>1, <1>2, <1>4, OrderFacts DEF TypeOK, Accounted
  <1>6. HandIsWorkedOn' /\ RoomForLateItem' /\ WithinBound'
    BY <1>2 DEF HandIsWorkedOn, RoomForLateItem, WithinBound
  <1>7. QED
    BY <1>4, <1>5, <1>6 DEF SafeInv

LEMMA SafeStep == SafeInv /\ [Next]_vars => SafeInv'
  <1> SUFFICES ASSUME SafeInv, [Next]_vars PROVE SafeInv'
    OBVIOUS
  <1>1. CASE enqueue
    BY <1>1, EnqueueSafe
  <1>2. CASE WatcherChecksFull
    BY <1>2, CheckSafe
  <1>3. CASE WatcherPuts
    BY <1>3, PutSafe
  <1>4. CASE WatcherCounts \/ WatcherWakes
    BY <1>4, CountSafe, WakeSafe
  <1>5. CASE RunReady
    BY <1>5, RunSafe
  <1>6. CASE \E w \in Workers : worker_loop(w)
    BY <1>6, GetSafe, ParkSafe, ProcessSafe DEF worker_loop
  <1>7. CASE Restart
    BY <1>7, RestartSafe
  <1>8. CASE UNCHANGED vars
    BY <1>8 DEF vars, SafeInv, TypeOK, HandIsWorkedOn, RoomForLateItem, WithinBound,
                Accounted, InHand
  <1>9. QED
    BY <1>1, <1>2, <1>3, <1>4, <1>5, <1>6, <1>7, <1>8
       DEF Next, Loop, WatcherGoesOn

LEMMA SafeAlways == Spec => []SafeInv
  <1>1. QED
    BY SafeInit, SafeStep, PTL DEF Spec

(* Every variable keeps its type. *)
THEOREM QueueTypeCorrect == Spec => []TypeOK
  <1>1. SafeInv => TypeOK
    BY DEF SafeInv
  <1>2. QED
    BY <1>1, SafeAlways, PTL

(* The queue never outgrows its capacity by more than the watcher's item. *)
THEOREM BoundTheorem == Spec => []WithinBound
  <1>1. SafeInv => WithinBound
    BY DEF SafeInv
  <1>2. QED
    BY <1>1, SafeAlways, PTL

(* No item vanishes: it waits, is in hand, done, counted as shed, or lost  *)
(* to a restart.                                                           *)
THEOREM AccountTheorem == Spec => []Accounted
  <1>1. SafeInv => Accounted
    BY DEF SafeInv
  <1>2. QED
    BY <1>1, SafeAlways, PTL

-----------------------------------------------------------------------------
(* One worker ends at most *)

LEMMA DistinctAppend ==
    ASSUME NEW S, NEW s \in Seq(S), NEW x \in S, Distinct(s), x \notin Range(s)
    PROVE  Distinct(Append(s, x))
  <1>1. /\ Len(Append(s, x)) = Len(s) + 1 /\ Len(s) \in Nat
        /\ \A i \in 1 .. Len(s) : Append(s, x)[i] = s[i]
        /\ Append(s, x)[Len(s) + 1] = x
    OBVIOUS
  <1>2. \A i \in 1 .. Len(s) : s[i] # x
    BY DEF Range
  <1>3. SUFFICES ASSUME NEW i \in 1 .. Len(s) + 1, NEW j \in 1 .. Len(s) + 1,
                        Append(s, x)[i] = Append(s, x)[j]
                 PROVE  i = j
    BY <1>1 DEF Distinct
  <1>4. CASE i = Len(s) + 1 \/ j = Len(s) + 1
    BY <1>1, <1>2, <1>3, <1>4
  <1>5. CASE i \in 1 .. Len(s) /\ j \in 1 .. Len(s)
    BY <1>1, <1>3, <1>5 DEF Distinct
  <1>6. QED
    BY <1>1, <1>4, <1>5

LEMMA DistinctTail ==
    ASSUME NEW S, NEW s \in Seq(S), s # <<>>, Distinct(s)
    PROVE  Distinct(Tail(s)) /\ Head(s) \notin Range(Tail(s))
  <1>1. /\ Len(s) \in Nat \ {0} /\ Head(s) = s[1] /\ Len(Tail(s)) = Len(s) - 1
        /\ Tail(s) \in Seq(S)
        /\ \A i \in 1 .. Len(s) - 1 : Tail(s)[i] = s[i + 1]
    OBVIOUS
  <1>2. DOMAIN Tail(s) = 1 .. Len(s) - 1
    BY <1>1
  <1>3. Distinct(Tail(s))
    <2>1. ASSUME NEW i \in 1 .. Len(s) - 1, NEW j \in 1 .. Len(s) - 1, Tail(s)[i] = Tail(s)[j]
          PROVE  i = j
      <3>1. i + 1 \in 1 .. Len(s) /\ j + 1 \in 1 .. Len(s) /\ s[i + 1] = s[j + 1]
        BY <1>1, <2>1
      <3>2. i + 1 = j + 1
        BY <3>1 DEF Distinct
      <3>3. QED
        BY <3>2
    <2>2. QED
      BY <1>1, <2>1 DEF Distinct
  <1>4. ASSUME NEW i \in 1 .. Len(s) - 1 PROVE Tail(s)[i] # Head(s)
    <2>1. i + 1 \in 1 .. Len(s) /\ 1 \in 1 .. Len(s) /\ i + 1 # 1
      BY <1>1
    <2>2. s[i + 1] # s[1]
      BY <2>1 DEF Distinct
    <2>3. QED
      BY <1>1, <2>2
  <1>5. QED
    BY <1>2, <1>3, <1>4 DEF Range

(* A wake-up moves one worker, and leaves each in one place. *)
LEMMA WakeMoves ==
    ASSUME TypeOK, PlacedOnce, WakeNext, turn' = turn
    PROVE  PlacedOnce'
  <1>1. CASE getters = <<>>
    BY <1>1 DEF WakeNext, PlacedOnce
  <1>2. CASE getters # <<>>
    <2> DEFINE w == Head(getters)
    <2>1. getters' = Tail(getters) /\ ready' = Append(ready, w)
      BY <1>2 DEF WakeNext
    <2>2. /\ getters \in Seq(Workers) /\ ready \in Seq(Workers) /\ w \in Workers
          /\ Range(getters) = Range(Tail(getters)) \cup {w}
      BY <1>2, TailFacts DEF TypeOK
    <2>3. /\ Distinct(ready) /\ Distinct(getters)
          /\ Range(ready) \cap Range(getters) = {}
          /\ turn \notin Range(ready) \cup Range(getters)
      BY DEF PlacedOnce
    <2>4. Distinct(Tail(getters)) /\ w \notin Range(Tail(getters))
      BY <1>2, <2>2, <2>3, DistinctTail
    <2>5. w \notin Range(ready)
      BY <2>2, <2>3
    <2>6. Distinct(Append(ready, w)) /\ Range(Append(ready, w)) = Range(ready) \cup {w}
      BY <2>2, <2>3, <2>5, DistinctAppend, AppendFacts
    <2> HIDE DEF w
    <2>7. /\ Range(ready') = Range(ready) \cup {w} /\ Range(getters') = Range(getters) \ {w}
          /\ Distinct(ready') /\ Distinct(getters')
      BY <2>1, <2>2, <2>4, <2>6
    <2>8. QED
      BY <2>2, <2>3, <2>5, <2>7 DEF PlacedOnce
  <1>3. QED
    BY <1>1, <1>2

(* worker_factories: every worker once, nobody parked. *)
LEMMA StartPlaces ==
    Distinct(WorkerOrder) /\ Distinct(<<>>) /\ NoWorker \notin Range(WorkerOrder)
    /\ Range(<<>>) = {}
  <1>1. Len(WorkerOrder) = PipelineWorkers /\ \A i \in Workers : WorkerOrder[i] = i
    BY WorkerAssumption DEF WorkerOrder, Workers
  <1>2. Distinct(WorkerOrder)
    BY <1>1 DEF Distinct, Workers
  <1>3. Distinct(<<>>) /\ Range(<<>>) = {}
    BY DEF Distinct, Range
  <1>4. QED
    BY <1>2, <1>3, OrderFacts, ConstantFacts

LEMMA EndInit == Init => EndInv
  <1> SUFFICES ASSUME Init PROVE EndInv
    OBVIOUS
  <1>1. /\ queue = <<>> /\ getters = <<>> /\ ready = WorkerOrder /\ turn = NoWorker
        /\ step = [w \in Workers |-> "get"] /\ unfinished = 0 /\ watcher.pc = "idle"
    BY DEF Init
  <1>2. PlacedOnce
    BY <1>1, StartPlaces DEF PlacedOnce
  <1>3. ~AtWork /\ ~HasEnded /\ EndedIsOut /\ AtMostOneEnds
    BY <1>1 DEF AtWork, HasEnded, EndedIsOut, AtMostOneEnds
  <1>4. CountAgrees
    BY <1>1, <1>3 DEF CountAgrees, One
  <1>5. QED
    BY <1>2, <1>3, <1>4 DEF EndInv

(* A step that neither moves a worker nor ends one. *)
LEMMA EndQuiet ==
    ASSUME EndInv, UNCHANGED <<getters, ready, turn, step>>, CountAgrees'
    PROVE  EndInv'
  BY DEF EndInv, PlacedOnce, EndedIsOut, AtMostOneEnds

(* A wake-up on the loop or from the thread. *)
LEMMA EndWake ==
    ASSUME TypeOK, EndInv, WakeNext, UNCHANGED <<turn, step>>, CountAgrees'
    PROVE  EndInv'
  <1>1. PlacedOnce'
    BY WakeMoves DEF EndInv
  <1>2. Range(getters') \cup Range(ready') = Range(getters) \cup Range(ready)
    BY WakeFacts
  <1>3. EndedIsOut'
    BY <1>2 DEF EndInv, EndedIsOut
  <1>4. QED
    BY <1>1, <1>3 DEF EndInv, AtMostOneEnds

LEMMA ProducerEnds ==
    ASSUME SafeInv, EndInv, enqueue \/ WatcherChecksFull \/ WatcherGoesOn
    PROVE  EndInv'
  <1> USE ConstantFacts
  <1>1. TypeOK /\ CountAgrees /\ unfinished \in Nat /\ Len(queue) \in Nat
    BY DEF SafeInv, EndInv, TypeOK
  <1>2. One(AtWork') = One(AtWork) /\ One(HasEnded') = One(HasEnded)
    BY DEF enqueue, WatcherChecksFull, WatcherGoesOn, WatcherPuts, WatcherCounts,
           WatcherWakes, AtWork, HasEnded
  <1>3. One(AtWork) \in Nat /\ One(HasEnded) \in Nat /\ One(watcher.pc = "count") \in Nat
    BY DEF One
  <1>4. CASE enqueue
    <2>1. UNCHANGED <<turn, step, watcher>>
      BY <1>4 DEF enqueue
    <2>2. CASE Full
      <3>1. UNCHANGED <<queue, getters, ready, unfinished>>
        BY <1>4, <2>2 DEF enqueue
      <3>2. QED
        BY <1>1, <1>2, <2>1, <3>1, EndQuiet DEF CountAgrees
    <2>3. CASE ~Full
      <3>1. /\ WakeNext /\ unfinished' = unfinished + 1
            /\ queue' = Append(queue, offered + 1) /\ offered + 1 \in Items
        BY <1>1, <1>4, <2>3 DEF enqueue, Put, TypeOK, Items
      <3>2. Len(queue') = Len(queue) + 1
        BY <1>1, <3>1, AppendFacts DEF TypeOK
      <3>3. One(watcher'.pc = "count") = One(watcher.pc = "count")
        BY <2>1
      <3>4. CountAgrees'
        <4>1. unfinished' + One(watcher.pc = "count") = Len(queue') + One(AtWork) + One(HasEnded)
          <5>1. unfinished + One(watcher.pc = "count") = Len(queue) + One(AtWork) + One(HasEnded)
            BY <1>1 DEF CountAgrees
          <5>2. \A u, c, l, a, e \in Nat : u + c = l + a + e => (u + 1) + c = (l + 1) + a + e
            OBVIOUS
          <5>3. (unfinished + 1) + One(watcher.pc = "count")
                    = (Len(queue) + 1) + One(AtWork) + One(HasEnded)
            BY <1>1, <1>3, <5>1, <5>2
          <5>4. QED
            BY <3>1, <3>2, <5>3
        <4>2. QED
          BY <1>2, <3>3, <4>1 DEF CountAgrees
      <3>5. QED
        BY <1>1, <2>1, <3>1, <3>4, EndWake
    <2>4. QED
      BY <2>2, <2>3
  <1>5. CASE WatcherChecksFull
    <2>1. /\ UNCHANGED <<queue, getters, ready, turn, step, unfinished>>
          /\ watcher.pc # "count" /\ watcher'.pc # "count"
      BY <1>5 DEF WatcherChecksFull
    <2>2. One(watcher'.pc = "count") = One(watcher.pc = "count")
      BY <2>1 DEF One
    <2>3. QED
      BY <1>1, <1>2, <2>1, <2>2, EndQuiet DEF CountAgrees
  <1>6. CASE WatcherPuts
    <2>1. /\ UNCHANGED <<getters, ready, turn, step, unfinished>>
          /\ watcher.pc = "put" /\ watcher'.pc = "count"
          /\ queue' = Append(queue, watcher.item)
      BY <1>6 DEF WatcherPuts
    <2>2. watcher.item \in Items
      BY <2>1 DEF SafeInv, RoomForLateItem, TypeOK, Items
    <2>3. Len(queue') = Len(queue) + 1
      BY <1>1, <2>1, <2>2, AppendFacts DEF TypeOK
    <2>4. One(watcher.pc = "count") = 0 /\ One(watcher'.pc = "count") = 1
      BY <2>1 DEF One
    <2>5. CountAgrees'
      BY <1>1, <1>2, <1>3, <2>1, <2>3, <2>4 DEF CountAgrees
    <2>6. QED
      BY <2>1, <2>5, EndQuiet
  <1>7. CASE WatcherCounts
    <2>1. /\ UNCHANGED <<queue, getters, ready, turn, step>> /\ unfinished' = unfinished + 1
          /\ watcher.pc = "count" /\ watcher'.pc = "wake"
      BY <1>7 DEF WatcherCounts
    <2>2. One(watcher.pc = "count") = 1 /\ One(watcher'.pc = "count") = 0
      BY <2>1 DEF One
    <2>3. CountAgrees'
      BY <1>1, <1>2, <1>3, <2>1, <2>2 DEF CountAgrees
    <2>4. QED
      BY <2>1, <2>3, EndQuiet
  <1>8. CASE WatcherWakes
    <2>1. /\ UNCHANGED <<queue, turn, step, unfinished>> /\ WakeNext
          /\ watcher.pc = "wake" /\ watcher'.pc = "idle"
      BY <1>8 DEF WatcherWakes
    <2>2. One(watcher.pc = "count") = 0 /\ One(watcher'.pc = "count") = 0
      BY <2>1 DEF One
    <2>3. CountAgrees'
      BY <1>1, <1>2, <2>1, <2>2 DEF CountAgrees
    <2>4. QED
      BY <1>1, <2>1, <2>3, EndWake
  <1>9. QED
    BY <1>4, <1>5, <1>6, <1>7, <1>8 DEF WatcherGoesOn

LEMMA RunEnds == ASSUME SafeInv, EndInv, RunReady PROVE EndInv'
  <1> USE ConstantFacts
  <1> DEFINE w == Head(ready)
  <1>1. TypeOK /\ PlacedOnce /\ EndedIsOut /\ CountAgrees /\ AtMostOneEnds
    BY DEF SafeInv, EndInv
  <1>2. /\ turn = NoWorker /\ ready # <<>> /\ turn' = w /\ ready' = Tail(ready)
        /\ step' = [step EXCEPT ![w] = "get"]
        /\ UNCHANGED <<queue, getters, unfinished, watcher>>
    BY DEF RunReady
  <1>3. /\ ready \in Seq(Workers) /\ w \in Workers
        /\ Range(ready) = Range(Tail(ready)) \cup {w}
    BY <1>1, <1>2, TailFacts DEF TypeOK
  <1>4. Distinct(Tail(ready)) /\ w \notin Range(Tail(ready))
    BY <1>1, <1>2, <1>3, DistinctTail DEF PlacedOnce
  <1>5. step[w] # "ended"
    BY <1>1, <1>3 DEF EndedIsOut
  <1>6. step'[w] = "get" /\ \A v \in Workers \ {w} : step'[v] = step[v]
    BY <1>1, <1>2, <1>3 DEF TypeOK
  <1> HIDE DEF w
  <1>7. PlacedOnce'
    BY <1>1, <1>2, <1>3, <1>4 DEF PlacedOnce
  <1>8. EndedIsOut'
    BY <1>1, <1>2, <1>3, <1>4, <1>6 DEF EndedIsOut
  <1>9. AtMostOneEnds'
    BY <1>1, <1>5, <1>6 DEF AtMostOneEnds
  <1>10. ~AtWork /\ ~AtWork' /\ HasEnded' = HasEnded
    <2>1. ~AtWork
      BY <1>2 DEF AtWork
    <2>2. ~AtWork'
      BY <1>2, <1>6 DEF AtWork
    <2>3. HasEnded' <=> HasEnded
      BY <1>3, <1>5, <1>6 DEF HasEnded
    <2>4. QED
      BY <2>1, <2>2, <2>3 DEF HasEnded
  <1>11. CountAgrees'
    BY <1>1, <1>2, <1>10 DEF CountAgrees, One
  <1>12. QED
    BY <1>7, <1>8, <1>9, <1>11 DEF EndInv

LEMMA GetEnds == ASSUME SafeInv, EndInv, NEW w \in Workers, Get(w) PROVE EndInv'
  <1> USE ConstantFacts
  <1>1. /\ TypeOK /\ PlacedOnce /\ EndedIsOut /\ CountAgrees /\ AtMostOneEnds
        /\ unfinished \in Nat /\ Len(queue) \in Nat
    BY DEF SafeInv, EndInv, TypeOK
  <1>2. turn = w /\ step[w] = "get" /\ UNCHANGED <<getters, ready, turn, unfinished, watcher>>
    BY DEF Get
  <1>3. /\ step'[w] = IF queue = <<>> THEN "park" ELSE "process"
        /\ \A v \in Workers \ {w} : step'[v] = step[v]
    BY <1>1 DEF Get, TypeOK
  <1>4. PlacedOnce' /\ EndedIsOut' /\ AtMostOneEnds'
    BY <1>1, <1>2, <1>3 DEF PlacedOnce, EndedIsOut, AtMostOneEnds
  <1>5. One(HasEnded') = One(HasEnded) /\ One(HasEnded) \in Nat
    BY <1>2, <1>3 DEF HasEnded, One
  <1>6. ~AtWork /\ (AtWork' <=> queue # <<>>)
    BY <1>2, <1>3 DEF AtWork
  <1>7. Len(queue') = Len(queue) - One(AtWork')
    <2>1. CASE queue = <<>>
      BY <1>1, <1>6, <2>1 DEF Get, One
    <2>2. CASE queue # <<>>
      BY <1>1, <1>6, <2>2, TailFacts DEF Get, One, TypeOK
    <2>3. QED
      BY <2>1, <2>2
  <1>8. CountAgrees'
    <2>1. One(AtWork) = 0 /\ One(AtWork') \in Nat
      BY <1>6 DEF One
    <2>2. One(watcher'.pc = "count") = One(watcher.pc = "count")
      BY <1>2
    <2>3. QED
      BY <1>1, <1>2, <1>5, <1>7, <2>1, <2>2 DEF CountAgrees
  <1>9. QED
    BY <1>4, <1>8 DEF EndInv

LEMMA ParkEnds == ASSUME SafeInv, EndInv, NEW w \in Workers, Park(w) PROVE EndInv'
  <1> USE ConstantFacts
  <1>1. TypeOK /\ PlacedOnce /\ EndedIsOut /\ CountAgrees /\ AtMostOneEnds
    BY DEF SafeInv, EndInv
  <1>2. /\ turn = w /\ step[w] = "park" /\ getters' = Append(getters, w) /\ turn' = NoWorker
        /\ UNCHANGED <<queue, ready, unfinished, watcher>>
    BY DEF Park
  <1>3. step'[w] = "parked" /\ \A v \in Workers \ {w} : step'[v] = step[v]
    BY <1>1 DEF Park, TypeOK
  <1>4. /\ getters \in Seq(Workers) /\ ready \in Seq(Workers)
        /\ w \notin Range(ready) \cup Range(getters)
    BY <1>1, <1>2 DEF TypeOK, PlacedOnce
  <1>5. Distinct(getters') /\ Range(getters') = Range(getters) \cup {w}
    BY <1>1, <1>2, <1>4, DistinctAppend, AppendFacts DEF PlacedOnce
  <1>6. NoWorker \notin Range(ready') \cup Range(getters')
    BY <1>2, <1>4, <1>5 DEF Range
  <1>7. PlacedOnce'
    BY <1>1, <1>2, <1>4, <1>5, <1>6 DEF PlacedOnce
  <1>8. EndedIsOut' /\ AtMostOneEnds'
    BY <1>1, <1>2, <1>3, <1>5 DEF EndedIsOut, AtMostOneEnds
  <1>9. CountAgrees'
    <2>1. ~AtWork /\ ~AtWork'
      BY <1>2 DEF AtWork
    <2>2. One(HasEnded') = One(HasEnded)
      BY <1>2, <1>3 DEF HasEnded, One
    <2>3. QED
      BY <1>1, <1>2, <2>1, <2>2 DEF CountAgrees, One
  <1>10. QED
    BY <1>7, <1>8, <1>9 DEF EndInv

(* task_done raises: the item was not counted, it was the only one, and    *)
(* nobody had ended before.                                                *)
LEMMA RaiseFacts ==
    ASSUME SafeInv, EndInv, NEW w \in Workers, Process(w), unfinished = 0
    PROVE  watcher.pc = "count" /\ Len(queue) = 0 /\ ~HasEnded
  <1>1. CountAgrees /\ Len(queue) \in Nat
    BY DEF SafeInv, EndInv, TypeOK
  <1>2. One(AtWork) = 1
    BY DEF Process, AtWork, One
  <1>3. One(HasEnded) \in {0, 1} /\ One(watcher.pc = "count") \in {0, 1}
    BY DEF One
  <1>4. One(watcher.pc = "count") = Len(queue) + 1 + One(HasEnded)
    <2>1. One(watcher.pc = "count") \in Nat
      BY <1>3
    <2>2. QED
      BY <1>1, <1>2, <2>1 DEF CountAgrees
  <1>5. One(watcher.pc = "count") = 1 /\ Len(queue) = 0 /\ One(HasEnded) = 0
    BY <1>1, <1>3, <1>4
  <1>6. QED
    BY <1>5 DEF One

LEMMA ProcessEnds == ASSUME SafeInv, EndInv, NEW w \in Workers, Process(w) PROVE EndInv'
  <1> USE ConstantFacts
  <1>1. /\ TypeOK /\ PlacedOnce /\ EndedIsOut /\ CountAgrees /\ AtMostOneEnds
        /\ unfinished \in Nat /\ Len(queue) \in Nat
    BY DEF SafeInv, EndInv, TypeOK
  <1>2. /\ turn = w /\ step[w] = "process" /\ UNCHANGED <<queue, getters, ready, watcher>>
        /\ task_done(w) /\ w \notin Range(ready) \cup Range(getters)
    BY <1>1 DEF Process, PlacedOnce
  <1>3. One(AtWork) = 1
    BY <1>2 DEF AtWork, One
  <1>4. CASE unfinished = 0
    <2>1. watcher.pc = "count" /\ Len(queue) = 0 /\ ~HasEnded /\ Watching
      BY <1>4, RaiseFacts DEF SafeInv, RoomForLateItem
    <2>2. /\ step' = [step EXCEPT ![w] = "ended"] /\ turn' = NoWorker
          /\ unfinished' = unfinished
      BY <1>2, <1>4 DEF task_done
    <2>3. step'[w] = "ended" /\ \A v \in Workers \ {w} : step'[v] = step[v] /\ step[v] # "ended"
      BY <1>1, <2>1, <2>2 DEF TypeOK, HasEnded
    <2>4. AtMostOneEnds'
      BY <2>3 DEF AtMostOneEnds
    <2>5. EndedIsOut'
      BY <1>2, <2>1, <2>2, <2>3 DEF EndedIsOut
    <2>6. NoWorker \notin Range(ready) \cup Range(getters)
      BY <1>1 DEF TypeOK, Range
    <2>7. PlacedOnce'
      BY <1>1, <1>2, <2>2, <2>6 DEF PlacedOnce
    <2>8. HasEnded' /\ ~AtWork'
      BY <2>2, <2>3 DEF HasEnded, AtWork
    <2>9. CountAgrees'
      BY <1>2, <1>4, <2>1, <2>2, <2>8 DEF CountAgrees, One
    <2>10. QED
      BY <2>4, <2>5, <2>7, <2>9 DEF EndInv
  <1>5. CASE unfinished # 0
    <2>1. /\ step' = [step EXCEPT ![w] = "get"] /\ turn' = turn
          /\ unfinished' = unfinished - 1
      BY <1>2, <1>5 DEF task_done
    <2>2. step'[w] = "get" /\ \A v \in Workers \ {w} : step'[v] = step[v]
      BY <1>1, <2>1 DEF TypeOK
    <2>3. PlacedOnce' /\ EndedIsOut' /\ AtMostOneEnds'
      BY <1>1, <1>2, <2>1, <2>2 DEF PlacedOnce, EndedIsOut, AtMostOneEnds
    <2>4. ~AtWork'
      BY <1>2, <2>1, <2>2 DEF AtWork
    <2>5. One(HasEnded') = One(HasEnded) /\ One(HasEnded) \in Nat
      BY <1>2, <2>2 DEF HasEnded, One
    <2>6. One(watcher'.pc = "count") = One(watcher.pc = "count")
          /\ One(watcher.pc = "count") \in Nat
      BY <1>2 DEF One
    <2>7. CountAgrees'
      <3>1. One(AtWork') = 0
        BY <2>4 DEF One
      <3>2. QED
        BY <1>1, <1>2, <1>3, <2>1, <2>5, <2>6, <3>1 DEF CountAgrees
    <2>8. QED
      BY <2>3, <2>7 DEF EndInv
  <1>6. QED
    BY <1>4, <1>5

LEMMA RestartEnds == ASSUME Restart PROVE EndInv'
  <1>1. /\ queue' = <<>> /\ getters' = <<>> /\ ready' = WorkerOrder /\ turn' = NoWorker
        /\ step' = [w \in Workers |-> "get"] /\ unfinished' = 0 /\ watcher'.pc = "idle"
    BY DEF Restart
  <1>2. PlacedOnce'
    BY <1>1, StartPlaces DEF PlacedOnce
  <1>3. ~AtWork' /\ ~HasEnded' /\ EndedIsOut' /\ AtMostOneEnds'
    BY <1>1 DEF AtWork, HasEnded, EndedIsOut, AtMostOneEnds
  <1>4. CountAgrees'
    BY <1>1, <1>3 DEF CountAgrees, One
  <1>5. QED
    BY <1>2, <1>3, <1>4 DEF EndInv

LEMMA EndAlways == Spec => []EndInv
  <1>1. ASSUME SafeInv, EndInv, [Next]_vars PROVE EndInv'
    <2>1. CASE UNCHANGED vars
      <3>1. CountAgrees'
        BY <1>1, <2>1 DEF vars, EndInv, CountAgrees, AtWork, HasEnded
      <3>2. QED
        BY <1>1, <2>1, <3>1, EndQuiet DEF vars
    <2>2. CASE Next
      BY <1>1, <2>2, ProducerEnds, RunEnds, GetEnds, ParkEnds, ProcessEnds, RestartEnds
         DEF Next, Loop, worker_loop
    <2>3. QED
      BY <1>1, <2>1, <2>2
  <1>2. QED
    BY EndInit, <1>1, SafeAlways, PTL DEF Spec

(* In the life of a process one worker at most is ended by task_done, for  *)
(* any number of workers and any timing of the watcher's thread.           *)
THEOREM OneEndsTheorem == Spec => []AtMostOneEnds
  <1>1. EndInv => AtMostOneEnds
    BY DEF EndInv
  <1>2. QED
    BY <1>1, EndAlways, PTL

-----------------------------------------------------------------------------
(* Nobody sleeps next to work *)

(* With a watcher and three workers, one that has not ended and does not   *)
(* have the loop; without a watcher, any, while nobody has the loop.       *)
LEMMA AnotherWorker ==
    ASSUME TypeOK, EndInv, EnoughWorkers, ~Watching => turn = NoWorker
    PROVE  \E v \in Workers : v # turn /\ step[v] # "ended"
  <1>1. CASE Watching
    <2>1. 1 \in Workers /\ 2 \in Workers /\ 3 \in Workers
      BY <1>1, WorkerAssumption DEF Workers, EnoughWorkers
    <2>2. QED
      BY <2>1 DEF EndInv, AtMostOneEnds
  <1>2. CASE ~Watching
    BY <1>2, ConstantFacts DEF EndInv, EndedIsOut
  <1>3. QED
    BY <1>1, <1>2

(* So a wake-up always leaves somebody ready. *)
LEMMA WakeCovers ==
    ASSUME TypeOK, EndInv, NobodyIsLost, EnoughWorkers, WakeNext, UNCHANGED <<turn, step>>,
           ~Watching => turn = NoWorker
    PROVE  ready' # <<>> /\ NobodyIsLost'
  <1>1. NobodyIsLost'
    BY WakeFacts DEF NobodyIsLost
  <1>2. CASE getters # <<>>
    BY <1>1, <1>2, WakeFacts
  <1>3. CASE getters = <<>>
    <2>1. PICK v \in Workers : v # turn /\ step[v] # "ended"
      BY AnotherWorker
    <2>2. Range(getters) = {}
      BY <1>3 DEF Range
    <2>3. v \in Range(ready)
      BY <2>1, <2>2 DEF NobodyIsLost
    <2>4. ready # <<>>
      BY <2>3 DEF Range
    <2>5. QED
      BY <1>1, <1>3, <2>4, WakeFacts
  <1>4. QED
    BY <1>2, <1>3

LEMMA AwakeInit == Init => AwakeInv
  BY OrderFacts, ConstantFacts DEF Init, AwakeInv, NobodyIsLost, ParkIsCovered, WorkGoesOn

LEMMA AwakeStep ==
    ASSUME EnoughWorkers, SafeInv, EndInv, AwakeInv, [Next]_vars
    PROVE  AwakeInv'
  <1> USE ConstantFacts
  <1>1. TypeOK /\ NobodyIsLost /\ ParkIsCovered /\ WorkGoesOn /\ RoomForLateItem
    BY DEF SafeInv, AwakeInv
  <1>2. CASE enqueue
    <2>1. turn = NoWorker /\ UNCHANGED <<turn, step, watcher>>
      BY <1>2 DEF enqueue
    <2>2. CASE Full
      BY <1>1, <1>2, <2>1, <2>2
         DEF enqueue, AwakeInv, NobodyIsLost, ParkIsCovered, WorkGoesOn
    <2>3. CASE ~Full
      <3>1. ready' # <<>> /\ NobodyIsLost'
        BY <1>1, <1>2, <2>1, <2>3, WakeCovers DEF enqueue, Put
      <3>2. QED
        BY <2>1, <3>1 DEF AwakeInv, ParkIsCovered, WorkGoesOn
    <2>4. QED
      BY <2>2, <2>3
  <1>3. CASE WatcherChecksFull
    <2>1. /\ UNCHANGED <<queue, getters, ready, turn, step>>
          /\ watcher.pc \notin {"count", "wake"}
      BY <1>3 DEF WatcherChecksFull
    <2>2. QED
      BY <1>1, <2>1 DEF AwakeInv, NobodyIsLost, ParkIsCovered, WorkGoesOn
  <1>4. CASE WatcherPuts \/ WatcherCounts
    <2>1. /\ watcher'.pc \in {"count", "wake"} /\ Watching
          /\ UNCHANGED <<getters, ready, turn, step>>
      BY <1>1, <1>4 DEF WatcherPuts, WatcherCounts, RoomForLateItem
    <2>2. QED
      BY <1>1, <2>1 DEF AwakeInv, NobodyIsLost, ParkIsCovered, WorkGoesOn
  <1>5. CASE WatcherWakes
    <2>1. Watching
      BY <1>1, <1>5 DEF WatcherWakes, RoomForLateItem
    <2>2. ready' # <<>> /\ NobodyIsLost'
      BY <1>1, <1>5, <2>1, WakeCovers DEF WatcherWakes
    <2>3. QED
      BY <2>1, <2>2 DEF AwakeInv, ParkIsCovered, WorkGoesOn
  <1>6. CASE RunReady
    <2>1. /\ ready # <<>> /\ turn = NoWorker /\ turn' = Head(ready) /\ ready' = Tail(ready)
          /\ step' = [step EXCEPT ![Head(ready)] = "get"]
          /\ UNCHANGED <<queue, getters, watcher>>
      BY <1>6 DEF RunReady
    <2>2. /\ Head(ready) \in Workers
          /\ Range(ready) = Range(Tail(ready)) \cup {Head(ready)}
      BY <1>1, <2>1, TailFacts DEF TypeOK
    <2>3. step'[turn'] = "get" /\ turn' # NoWorker
          /\ \A v \in Workers \ {turn'} : step'[v] = step[v]
      BY <1>1, <2>1, <2>2 DEF TypeOK
    <2>4. NobodyIsLost'
      BY <1>1, <2>1, <2>2, <2>3 DEF NobodyIsLost
    <2>5. QED
      BY <2>3, <2>4 DEF AwakeInv, ParkIsCovered, WorkGoesOn
  <1>7. ASSUME NEW w \in Workers, Get(w) PROVE AwakeInv'
    <2>1. turn = w /\ w # NoWorker /\ step[w] # "ended" /\ UNCHANGED <<getters, ready, turn, watcher>>
      BY <1>7 DEF Get
    <2>2. /\ queue' # <<>> => step'[w] # "park"
          /\ \A v \in Workers \ {w} : step'[v] = step[v]
      BY <1>1, <1>7 DEF Get, TypeOK
    <2>3. QED
      BY <1>1, <2>1, <2>2 DEF AwakeInv, NobodyIsLost, ParkIsCovered, WorkGoesOn
  <1>8. ASSUME NEW w \in Workers, Park(w) PROVE AwakeInv'
    <2>1. /\ turn = w /\ step[w] = "park" /\ getters' = Append(getters, w)
          /\ turn' = NoWorker /\ UNCHANGED <<queue, ready, watcher>>
          /\ \A v \in Workers \ {w} : step'[v] = step[v]
      BY <1>1, <1>8 DEF Park, TypeOK
    <2>2. Range(getters') = Range(getters) \cup {w}
      BY <1>1, <2>1, AppendFacts DEF TypeOK
    <2>3. NobodyIsLost'
      BY <1>1, <2>1, <2>2 DEF NobodyIsLost
    <2>4. ParkIsCovered' /\ WorkGoesOn'
      BY <1>1, <2>1 DEF ParkIsCovered, WorkGoesOn
    <2>5. QED
      BY <2>3, <2>4 DEF AwakeInv
  <1>9. ASSUME NEW w \in Workers, Process(w) PROVE AwakeInv'
    <2>1. /\ turn = w /\ w # NoWorker /\ step[w] = "process" /\ task_done(w)
          /\ UNCHANGED <<queue, getters, ready, watcher>>
      BY <1>9 DEF Process
    <2>2. step'[w] \in {"get", "ended"} /\ \A v \in Workers \ {w} : step'[v] = step[v]
      BY <1>1, <2>1 DEF task_done, TypeOK
    <2>3. CASE unfinished = 0
      <3>1. watcher.pc = "count" /\ turn' = NoWorker /\ step'[w] = "ended"
        BY <1>1, <1>9, <2>1, <2>3, RaiseFacts DEF task_done, TypeOK
      <3>2. QED
        BY <1>1, <2>1, <2>2, <3>1 DEF AwakeInv, NobodyIsLost, ParkIsCovered, WorkGoesOn
    <2>4. CASE unfinished # 0
      <3>1. turn' = turn
        BY <2>1, <2>4 DEF task_done
      <3>2. QED
        BY <1>1, <2>1, <2>2, <3>1 DEF AwakeInv, NobodyIsLost, ParkIsCovered, WorkGoesOn
    <2>5. QED
      BY <2>3, <2>4
  <1>10. CASE Restart
    BY <1>10, OrderFacts DEF Restart, AwakeInv, NobodyIsLost, ParkIsCovered, WorkGoesOn
  <1>11. CASE UNCHANGED vars
    BY <1>1, <1>11 DEF vars, AwakeInv, NobodyIsLost, ParkIsCovered, WorkGoesOn
  <1>12. QED
    BY <1>2, <1>3, <1>4, <1>5, <1>6, <1>7, <1>8, <1>9, <1>10, <1>11
       DEF Next, Loop, worker_loop, WatcherGoesOn

(* With three workers or more, or no watcher, no item waits while all of   *)
(* them sleep, in whatever order the loop and the watcher's thread         *)
(* interleave, and although task_done may end one of them.                 *)
THEOREM AwakeTheorem ==
    ASSUME EnoughWorkers
    PROVE  Spec => []WorkGoesOn
  <1>1. SafeInv /\ EndInv /\ AwakeInv /\ [Next]_vars => AwakeInv'
    BY AwakeStep
  <1>2. AwakeInv => WorkGoesOn
    BY DEF AwakeInv
  <1>3. QED
    BY AwakeInit, <1>1, <1>2, SafeAlways, EndAlways, PTL DEF Spec

-----------------------------------------------------------------------------
(* The refinement *)

LEMMA ChannelStep ==
    ASSUME SafeInv, [Next]_vars
    PROVE  [Channel!Next]_<<queue, taken, shed>>
  <1> USE ConstantFacts
  <1>1. TypeOK /\ RoomForLateItem
    BY DEF SafeInv
  <1>2. CASE enqueue
    <2>1. offered + 1 \in Items /\ Len(queue) \in Nat
      BY <1>1, <1>2 DEF enqueue, TypeOK, Items
    <2>2. Channel!Accept(offered + 1) \/ Channel!Shed(offered + 1)
      BY <1>2, <2>1 DEF enqueue, Put, Full, Channel!Accept, Channel!Shed
    <2>3. QED
      BY <2>1, <2>2 DEF Channel!Next
  <1>3. CASE WatcherChecksFull
    <2>1. CASE Full
      <3>1. offered + 1 \in Items
        BY <1>1, <1>3 DEF WatcherChecksFull, TypeOK, Items
      <3>2. Channel!Shed(offered + 1)
        BY <1>3, <2>1 DEF WatcherChecksFull, Full, Channel!Shed
      <3>3. QED
        BY <3>1, <3>2 DEF Channel!Next
    <2>2. CASE ~Full
      BY <1>3, <2>2 DEF WatcherChecksFull
    <2>3. QED
      BY <2>1, <2>2
  <1>4. CASE WatcherPuts
    <2>1. watcher.item \in Items /\ Len(queue) < MaxQueue + LateProducers
      BY <1>1, <1>4 DEF WatcherPuts, RoomForLateItem, TypeOK, Items, LateProducers
    <2>2. Channel!Accept(watcher.item)
      BY <1>4, <2>1 DEF WatcherPuts, Channel!Accept
    <2>3. QED
      BY <2>1, <2>2 DEF Channel!Next
  <1>5. CASE WatcherCounts \/ WatcherWakes
    BY <1>5 DEF WatcherCounts, WatcherWakes
  <1>6. CASE RunReady
    BY <1>6 DEF RunReady
  <1>7. ASSUME NEW w \in Workers, worker_loop(w) PROVE Channel!Take \/ UNCHANGED <<queue, taken, shed>>
    BY <1>7 DEF worker_loop, Get, Park, Process, Channel!Take
  <1>8. CASE Restart
    BY <1>8 DEF Restart, Channel!Next, Channel!Forget
  <1>9. CASE UNCHANGED vars
    BY <1>9 DEF vars
  <1>10. QED
    BY <1>2, <1>3, <1>4, <1>5, <1>6, <1>7, <1>8, <1>9
       DEF Next, Loop, WatcherGoesOn, Channel!Next

(* The pipeline implements the bounded first-in first-out channel. *)
THEOREM ChannelTheorem == Spec => ChannelSpec
  <1>1. Init => Channel!Init
    BY DEF Init, Channel!Init
  <1>2. SafeInv /\ [Next]_vars => [Channel!Next]_<<queue, taken, shed>>
    BY ChannelStep
  <1>3. QED
    BY <1>1, <1>2, SafeAlways, PTL DEF Spec, ChannelSpec, Channel!Spec

(* The watcher only adds to the pipeline: what holds of it holds with a    *)
(* file in front of it.                                                    *)
THEOREM TailTheorem == TailSpec => Spec
  <1>1. TailInit => Init
    BY DEF TailInit
  <1>2. [TailNext]_allVars => [Next]_vars
    BY DEF TailNext, allVars, Next, Write, Rotate, Tailing, _poll, ReadLine, EndOfFile,
           PutOn, Datagram, WorkOn, RestartAll
  <1>3. QED
    BY <1>1, <1>2, PTL DEF TailSpec, Spec
=============================================================================
