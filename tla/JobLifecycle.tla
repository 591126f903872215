---------------------------- MODULE JobLifecycle ----------------------------
(***************************************************************************)
(* What the scheduler promises of runs and jobs, with leases, runners,     *)
(* artifacts and transactions out of sight: the transitions of             *)
(* pipeline_runs.status and job_runs.status that a committed transaction   *)
(* may make.  JobScheduler (whole transactions) and SchedulerTransactions  *)
(* (their statements, interleaved) implement this specification.           *)
(***************************************************************************)
EXTENDS PipelineRun

VARIABLES runStatus, jobStatus

lifecycleVars == <<runStatus, jobStatus>>

Init ==
  /\ runStatus \in [Run -> {"NONE", "QUEUED"}]
  /\ jobStatus = [j \in Job |-> "PENDING"]

Submit(r) ==
  /\ runStatus[r] = "NONE"
  /\ runStatus' = [runStatus EXCEPT ![r] = "QUEUED"]
  /\ UNCHANGED jobStatus

\* A runner gets a job whose predecessors all passed.
Start(j) ==
  /\ runStatus[RunOf[j]] \in RunActive
  /\ jobStatus[j] = "PENDING"
  /\ \A d \in Needs[j] : jobStatus[d] = "PASSED"
  /\ jobStatus' = [jobStatus EXCEPT ![j] = "RUNNING"]
  /\ runStatus' = [runStatus EXCEPT ![RunOf[j]] = "RUNNING"]

\* How a job may end: reported or aborted when it runs; canceled, or blocked
\* by a predecessor that did not pass, when it does not.
EndsLegally(j) ==
  \/ jobStatus'[j] = jobStatus[j]
  \/ jobStatus[j] = "RUNNING" /\ jobStatus'[j] \in Reportable \cup {"ABORTED"}
  \/ jobStatus[j] = "PENDING" /\ jobStatus'[j] = "CANCELED"
  \/ /\ jobStatus[j] = "PENDING" /\ jobStatus'[j] = "BLOCKED"
     /\ \E d \in Needs[j] : jobStatus'[d] \in JobDidNotPass

\* How a run may end: with its last job, and as its jobs say.
DecidedLegally(r) ==
  \/ runStatus'[r] = runStatus[r]
  \/ /\ runStatus[r] \in RunActive
     /\ \A j \in JobsOf(r) : jobStatus'[j] \in JobTerminal
     /\ \E cancel \in BOOLEAN : runStatus'[r] = Outcome(jobStatus', cancel, r)

\* One transaction ends any number of jobs, and the runs that are over.
Settle ==
  /\ jobStatus' \in [Job -> JobStatus]
  /\ runStatus' \in [Run -> RunStatus]
  /\ \A j \in Job : EndsLegally(j)
  /\ \A r \in Run : DecidedLegally(r)

\* Queued runs that a newer revision supersedes end without their jobs.
Supersede ==
  /\ runStatus' \in [Run -> RunStatus]
  /\ \A r \in Run : \/ runStatus'[r] = runStatus[r]
                    \/ runStatus[r] = "QUEUED" /\ runStatus'[r] = "CANCELED"
  /\ UNCHANGED jobStatus

Next ==
  \/ \E r \in Run : Submit(r)
  \/ \E j \in Job : Start(j)
  \/ Settle
  \/ Supersede

Spec == Init /\ [][Next]_lifecycleVars

-----------------------------------------------------------------------------
\* A job that was handed to a runner had all its predecessors PASSED, and
\* they stay so.
StartedInOrder ==
  \A j \in Job : jobStatus[j] \notin {"PENDING", "BLOCKED", "CANCELED"} =>
    \A d \in Needs[j] : jobStatus[d] = "PASSED"

\* A run with a verdict other than CANCELED has no job left to do, and PASSED
\* means that no job failed, was blocked or was lost.
VerdictIsEarned ==
  \A j \in Job :
    /\ runStatus[RunOf[j]] \in RunTerminal \ {"CANCELED"} => jobStatus[j] \in JobTerminal
    /\ runStatus[RunOf[j]] = "PASSED" => jobStatus[j] \in {"PASSED", "CANCELED"}
=============================================================================
