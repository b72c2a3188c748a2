--------------------------- MODULE SynthesisJobs ---------------------------
(***************************************************************************)
(* Background analysis jobs for drift requests: a row per job that pages   *)
(* poll, a worker thread per job that touches the row as it goes, and the  *)
(* reads that fail the jobs whose worker is taken for dead because the row *)
(* was not touched for half an hour (_STALE_AFTER).                        *)
(*                                                                         *)
(* Time is the set `old`: the jobs not touched for that long.              *)
(***************************************************************************)
EXTENDS Naturals, Sequences, FiniteSets

CONSTANTS
    Drifts,         \* drift requests
    Pollers,        \* clients that follow jobs
    Slots,          \* threads of the executor that runs the workers
    Slow,           \* the steps of a live worker that may last half an hour
    MaxJobs,        \* bound on job rows
    MaxJobRestarts  \* bound on process restarts

ASSUME SlotsAssumption == Slots \in Nat \ {0}
ASSUME SlowAssumption == Slow \subseteq {"waiting", "analyze"}
ASSUME BoundsAssumption == MaxJobs \in Nat /\ MaxJobRestarts \in Nat

VARIABLES
    job,        \* the SynthesisJob rows, in id order
    worker,     \* worker[j]: the next step of job j's background task
    drift,      \* whether a drift request is open or resolved
    old,        \* jobs whose updated_at is before the cutoff
    overdue,    \* history: jobs that became old while their worker lived
    reaping,    \* reaping[p]: stale jobs client p's read has still to fail
    jobRestarts

jobsVars == <<job, worker, drift, old, overdue, reaping, jobRestarts>>

_ACTIVE_STATUSES == {"queued", "running"}
Terminal == {"completed", "failed"}

JobIds == 1 .. Len(job)
JobRow == [drift : Drifts, status : _ACTIVE_STATUSES \cup Terminal]

(* "waiting": the task waits for a thread of the executor; "gone": it      *)
(* ended or died with its process.                                         *)
Running == {"load", "begin", "resolve", "analyze", "complete", "fail"}
WorkerSteps == Running \cup {"waiting", "gone"}

Active(j) == job[j].status \in _ACTIVE_STATUSES

JobsInit ==
    /\ job = <<>>
    /\ worker = <<>>
    /\ drift = [d \in Drifts |-> "open"]
    /\ old = {}
    /\ overdue = {}
    /\ reaping = [p \in Pollers |-> {}]
    /\ jobRestarts = 0

-----------------------------------------------------------------------------
(* Requests *)

(* Mutant: a job that is still queued is not found. *)
RunningJobs(d) == {j \in JobIds : job[j].drift = d /\ job[j].status = "running"}

ActiveJobs(d) == {j \in JobIds : job[j].drift = d /\ Active(j)}

(* A resolved request is refused, an active job is returned as it is; else *)
(* a job is queued and its task started.  The handler runs on the event    *)
(* loop without a pause, so no other creation falls in between.            *)
create_synthesis_job(d) ==
    /\ drift[d] = "open"
    /\ ActiveJobs(d) = {}
    /\ Len(job) < MaxJobs
    /\ job' = Append(job, [drift |-> d, status |-> "queued"])
    /\ worker' = Append(worker, "waiting")
    /\ UNCHANGED <<drift, old, overdue, reaping, jobRestarts>>

(* Mutant: whatever is active is taken for stale. *)
StaleOrNot == {j \in JobIds : Active(j)}

(* Mutant: only jobs that began are looked at. *)
StaleRunning == {j \in old : job[j].status = "running"}

Stale == {j \in old : Active(j)}

(* _reap_stale, the SELECT; with nothing stale the read is answered. *)
SelectStale(p) ==
    /\ reaping[p] = {}
    /\ Stale # {}
    /\ reaping' = [reaping EXCEPT ![p] = Stale]
    /\ UNCHANGED <<job, worker, drift, old, overdue, jobRestarts>>

(* Every job found stale is failed in a commit of its own, without another *)
(* look at what it has become.                                             *)
ReapOne(p) ==
    /\ \E j \in reaping[p] :
         /\ job' = [job EXCEPT ![j].status = "failed"]
         /\ old' = old \ {j}
         /\ reaping' = [reaping EXCEPT ![p] = @ \ {j}]
    /\ UNCHANGED <<worker, drift, overdue, jobRestarts>>

(* An operator approves or rejects the request (DriftLifecycle). *)
ResolveDrift(d) ==
    /\ drift[d] = "open"
    /\ drift' = [drift EXCEPT ![d] = "resolved"]
    /\ UNCHANGED <<job, worker, old, overdue, reaping, jobRestarts>>

-----------------------------------------------------------------------------
(* The worker of job j, _run_job_sync *)

Goes(j, step) == worker' = [worker EXCEPT ![j] = step]

Busy == {j \in JobIds : worker[j] \in Running}

(* _touch: the row is committed with a fresh updated_at. *)
Touch(j, status) ==
    /\ job' = [job EXCEPT ![j].status = status]
    /\ old' = old \ {j}

TakeSlot(j) ==
    /\ worker[j] = "waiting"
    /\ Cardinality(Busy) < Slots
    /\ Goes(j, "load")
    /\ UNCHANGED <<job, drift, old, overdue, reaping, jobRestarts>>

(* A job that is no longer active is left alone. *)
LoadJob(j) ==
    /\ worker[j] = "load"
    /\ Goes(j, IF Active(j) THEN "begin" ELSE "gone")
    /\ UNCHANGED <<job, drift, old, overdue, reaping, jobRestarts>>

BeginJob(j) ==
    /\ worker[j] = "begin"
    /\ Touch(j, "running")
    /\ Goes(j, "resolve")
    /\ UNCHANGED <<drift, overdue, reaping, jobRestarts>>

(* A request resolved meanwhile fails the job; the touches in between      *)
(* write the stage and leave the status.                                   *)
ResolveStep(j) ==
    /\ worker[j] = "resolve"
    /\ IF drift[job[j].drift] = "resolved"
       THEN Goes(j, "fail") /\ UNCHANGED <<job, old>>
       ELSE Goes(j, "analyze") /\ Touch(j, job[j].status)
    /\ UNCHANGED <<drift, overdue, reaping, jobRestarts>>

(* The analysis leaves the request flagged (open), approves it by itself,  *)
(* or raises.                                                              *)
Analyze(j) ==
    /\ worker[j] = "analyze"
    /\ \/ /\ \E s \in {"open", "resolved"} : drift' = [drift EXCEPT ![job[j].drift] = s]
          /\ Touch(j, job[j].status)
          /\ Goes(j, "complete")
       \/ Goes(j, "fail") /\ UNCHANGED <<job, old, drift>>
    /\ UNCHANGED <<overdue, reaping, jobRestarts>>

CompleteJob(j) ==
    /\ worker[j] = "complete"
    /\ Touch(j, "completed")
    /\ Goes(j, "gone")
    /\ UNCHANGED <<drift, overdue, reaping, jobRestarts>>

FailJob(j) ==
    /\ worker[j] = "fail"
    /\ Touch(j, "failed")
    /\ Goes(j, "gone")
    /\ UNCHANGED <<drift, overdue, reaping, jobRestarts>>

-----------------------------------------------------------------------------
(* Half an hour goes by without a touch of job j: a worker whose process   *)
(* died never touches its row, one that waits for a thread does not while  *)
(* all are busy, and one may be at the AI provider for that long.          *)
Age(j) ==
    /\ Active(j)
    /\ j \notin old
    /\ worker[j] \in {"gone"} \cup Slow
    /\ worker[j] = "waiting" => Cardinality(Busy) = Slots
    /\ old' = old \cup {j}
    /\ overdue' = IF worker[j] = "gone" THEN overdue ELSE overdue \cup {j}
    /\ UNCHANGED <<job, worker, drift, reaping, jobRestarts>>

(* The process is restarted: tasks and reads die, rows stay. *)
RestartJobs ==
    /\ jobRestarts < MaxJobRestarts
    /\ jobRestarts' = jobRestarts + 1
    /\ worker' = [j \in JobIds |-> "gone"]
    /\ reaping' = [p \in Pollers |-> {}]
    /\ UNCHANGED <<job, drift, old, overdue>>

Work(j) ==
    \/ TakeSlot(j) \/ LoadJob(j) \/ BeginJob(j) \/ ResolveStep(j) \/ Analyze(j)
    \/ CompleteJob(j) \/ FailJob(j)

Poll(p) == SelectStale(p) \/ ReapOne(p)

JobsNext ==
    \/ \E d \in Drifts : create_synthesis_job(d) \/ ResolveDrift(d)
    \/ \E p \in Pollers : Poll(p)
    \/ \E j \in JobIds : Work(j) \/ Age(j)
    \/ RestartJobs

JobsSpec == JobsInit /\ [][JobsNext]_jobsVars

(* Workers run when there is a thread for them, the row of a dead one      *)
(* grows old, and pages poll the jobs they follow every two seconds.       *)
FairJobsSpec ==
    /\ JobsSpec
    /\ \A j \in 1 .. MaxJobs : WF_jobsVars(j \in JobIds /\ Work(j))
    /\ \A j \in 1 .. MaxJobs : WF_jobsVars(j \in JobIds /\ worker[j] = "gone" /\ Age(j))
    /\ \A p \in Pollers : WF_jobsVars(Poll(p))

-----------------------------------------------------------------------------
(* Properties *)

(* Every variable keeps its type; every job has its task. *)
JobsTypeOK ==
    /\ job \in Seq(JobRow)
    /\ worker \in Seq(WorkerSteps) /\ Len(worker) = Len(job)
    /\ drift \in [Drifts -> {"open", "resolved"}]
    /\ old \subseteq JobIds /\ overdue \subseteq JobIds
    /\ reaping \in [Pollers -> SUBSET JobIds]
    /\ jobRestarts \in 0 .. MaxJobRestarts

(* Clicking twice or coming back to the page never forks an analysis       *)
(* (create_synthesis_job): a second worker is at a request only when the   *)
(* first went half an hour without a touch, so that a read could take it   *)
(* for dead (_STALE_AFTER) and end its job.                                *)
OneAnalysisPerDrift ==
    \A i, j \in Busy \cup {k \in JobIds : worker[k] = "waiting"} :
        i < j /\ job[i].drift = job[j].drift => i \in overdue

(* A job that completed or failed stays that way, whether a worker or a    *)
(* read wrote it: what a page was told is the outcome changes only for a   *)
(* job whose worker lived on past the half hour, by the worker's late      *)
(* outcome or by a read that had found the row stale before.               *)
OutcomeIsFinal ==
    [][\A j \in JobIds : ~Active(j) /\ job'[j].status # job[j].status => j \in overdue]_jobsVars

(* Every job ends in a terminal state, also when the process died with its *)
(* worker, as long as somebody polls.                                      *)
EveryJobEnds ==
    \A j \in 1 .. MaxJobs : (j \in JobIds) ~> (j \in JobIds /\ ~Active(j))
=============================================================================
