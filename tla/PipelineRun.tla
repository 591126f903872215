----------------------------- MODULE PipelineRun -----------------------------
(***************************************************************************)
(* What the modules of the scheduler share: the runs, their jobs and       *)
(* dependency graph, the statuses of store.go, and the two computations    *)
(* that every transaction that ends a job performs on the statuses of the  *)
(* jobs of a run: blockDependents and the verdict of finalizeRun.          *)
(*                                                                         *)
(* A member of Job is one row of job_runs, so a job belongs to one run.    *)
(***************************************************************************)
EXTENDS Integers, FiniteSets

CONSTANTS
  Run,           \* the rows of pipeline_runs
  Job,           \* the rows of job_runs
  RunOf,         \* RunOf[j]: the run of job j
  Needs          \* Needs[j]: the predecessors of j in job_dependencies

\* A run has at least one job.  What the pipeline compiler guarantees of the
\* dependency graph: it stays within a run and has no cycle (every set of
\* jobs has a first one).
ASSUME GraphAssumption ==
  /\ IsFiniteSet(Job)
  /\ RunOf \in [Job -> Run]
  /\ \A r \in Run : \E j \in Job : RunOf[j] = r
  /\ Needs \in [Job -> SUBSET Job]
  /\ \A j \in Job : \A d \in Needs[j] : RunOf[d] = RunOf[j]
  /\ \A S \in SUBSET Job : S # {} => \E j \in S : Needs[j] \cap S = {}

-----------------------------------------------------------------------------
RunActive     == {"QUEUED", "RUNNING"}
RunTerminal   == {"PASSED", "FAILED", "ERROR", "CANCELED", "ABORTED"}
\* "NONE": the row does not exist yet.
RunStatus     == RunActive \cup RunTerminal \cup {"NONE"}

JobUnfinished == {"PENDING", "RUNNING"}
\* The statuses of which blockDependents says "did not pass".
JobDidNotPass == {"FAILED", "ERROR", "BLOCKED", "CANCELED", "ABORTED"}
JobTerminal   == JobDidNotPass \cup {"PASSED"}
JobStatus     == JobUnfinished \cup JobTerminal

\* The statuses CompleteJob accepts from a runner.
Reportable == {"PASSED", "FAILED", "ERROR", "CANCELED"}

JobsOf(r) == {j \in Job : RunOf[j] = r}

-----------------------------------------------------------------------------
(***************************************************************************)
(* js is the status of every job as the transaction sees it.               *)
(***************************************************************************)

\* B holds every pending job of the runs R with a predecessor that did not
\* pass or is in B.
BlockClosed(js, R, B) ==
  \A j \in Job :
    /\ RunOf[j] \in R /\ js[j] = "PENDING"
    /\ \E d \in Needs[j] : js[d] \in JobDidNotPass \/ d \in B
    => j \in B

\* The loop of UPDATEs reaches the least such set.
BlockedDirect(js, R) ==
  {j \in Job : /\ RunOf[j] \in R /\ js[j] = "PENDING"
               /\ \E d \in Needs[j] : js[d] \in JobDidNotPass}
Blocked(js, R) ==
  {j \in Job : /\ RunOf[j] \in R /\ js[j] = "PENDING"
               /\ \A B \in SUBSET Job : BlockClosed(js, R, B) => j \in B}

blockDependents(js, R) ==
  [j \in Job |-> IF j \in Blocked(js, R) THEN "BLOCKED" ELSE js[j]]

\* The switch of finalizeRun.
OutcomeFailureFirst(js, cancel, r) ==
  LET has(S) == \E j \in JobsOf(r) : js[j] \in S
  IN  IF has({"FAILED", "BLOCKED"}) THEN "FAILED"
      ELSE IF has({"ERROR"}) THEN "ERROR"
      ELSE IF has({"ABORTED"}) THEN "ABORTED"
      ELSE IF cancel THEN "CANCELED"
      ELSE "PASSED"
Outcome(js, cancel, r) ==
  LET has(S) == \E j \in JobsOf(r) : js[j] \in S
  IN  IF has({"ERROR"}) THEN "ERROR"
      ELSE IF has({"ABORTED"}) THEN "ABORTED"
      ELSE IF cancel THEN "CANCELED"
      ELSE IF has({"FAILED", "BLOCKED"}) THEN "FAILED"
      ELSE "PASSED"

=============================================================================
