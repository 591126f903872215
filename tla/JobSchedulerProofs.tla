------------------------- MODULE JobSchedulerProofs -------------------------
(***************************************************************************)
(* JobScheduler keeps its safety invariants, and implements JobLifecycle,  *)
(* for every set of runs, jobs and runners, every dependency graph, every  *)
(* parallel limit and every lease duration.                                *)
(*                                                                         *)
(* The inductive invariant and the proof that it is one come first, and in *)
(* them what the transactions that end jobs have in common: CompleteJob,   *)
(* ExpireJobLeases, CancelQueued, RecoverRemoteJobs and RequestCancel are  *)
(* EndSteps.  The invariant is preserved by an EndStep, by a claim, and by *)
(* the few actions that remain.                                            *)
(***************************************************************************)
EXTENDS JobScheduler, TLAPS, FiniteSetTheorems

-----------------------------------------------------------------------------
(***************************************************************************)
(* blockDependents and the verdict.                                        *)
(***************************************************************************)

\* The jobs that blockDependents blocks: a fixed point of its UPDATE, in
\* which every job has a predecessor that did not pass.
LEMMA BlockedFacts ==
  ASSUME NEW js, NEW R
  PROVE  /\ \A j \in Blocked(js, R) : j \in Job /\ RunOf[j] \in R /\ js[j] = "PENDING"
         /\ BlockClosed(js, R, Blocked(js, R))
         /\ \A j \in Blocked(js, R) : \E d \in Needs[j] :
              js[d] \in JobDidNotPass \/ d \in Blocked(js, R)
<1> DEFINE B == Blocked(js, R)
<1>1. \A j \in B : j \in Job /\ RunOf[j] \in R /\ js[j] = "PENDING"
  BY Zenon DEF Blocked
<1>2. BlockClosed(js, R, B)
  <2> SUFFICES ASSUME NEW j \in Job, RunOf[j] \in R, js[j] = "PENDING",
                      NEW d \in Needs[j], js[d] \in JobDidNotPass \/ d \in B,
                      NEW C \in SUBSET Job, BlockClosed(js, R, C)
               PROVE  j \in C
    BY Zenon DEF BlockClosed, Blocked
  <2>1. d \in B => d \in C
    BY Zenon DEF Blocked
  <2> QED
    BY Zenon, <2>1 DEF BlockClosed
<1>3. ASSUME NEW j \in B, \A d \in Needs[j] : js[d] \notin JobDidNotPass /\ d \notin B
      PROVE  FALSE
  <2>1. BlockClosed(js, R, B \ {j})
    BY Zenon, <1>2, <1>3 DEF BlockClosed
  <2>2. B \ {j} \in SUBSET Job
    BY Zenon, <1>1
  <2> QED
    BY Zenon, <2>1, <2>2 DEF Blocked
<1> QED
  BY Zenon, <1>1, <1>2, <1>3

\* finalizeRun only writes terminal statuses.
LEMMA OutcomeTerminal ==
  ASSUME NEW js, NEW cancel, NEW r
  PROVE  Outcome(js, cancel, r) \in RunTerminal
BY Zenon DEF Outcome, RunTerminal

\* The definitions that JobLifecycle takes from PipelineRun are those of
\* JobScheduler.
LEMMA LifecycleDefs ==
  /\ Lifecycle!RunActive = RunActive
  /\ Lifecycle!RunStatus = RunStatus
  /\ Lifecycle!JobStatus = JobStatus
  /\ Lifecycle!JobTerminal = JobTerminal
  /\ Lifecycle!JobDidNotPass = JobDidNotPass
  /\ Lifecycle!Reportable = Reportable
  /\ \A r : Lifecycle!JobsOf(r) = JobsOf(r)
  /\ \A js, cancel, r : Lifecycle!Outcome(js, cancel, r) = Outcome(js, cancel, r)
<1>1. \A r : Lifecycle!JobsOf(r) = JobsOf(r)
  BY Zenon DEF Lifecycle!JobsOf, JobsOf
<1>2. \A js, cancel, r : Lifecycle!Outcome(js, cancel, r) = Outcome(js, cancel, r)
  BY Zenon, <1>1 DEF Lifecycle!Outcome, Outcome
<1> QED
  BY Zenon, <1>1, <1>2
     DEF Lifecycle!RunActive, RunActive, Lifecycle!RunStatus, RunStatus,
         Lifecycle!RunTerminal, RunTerminal, Lifecycle!JobStatus, JobStatus,
         Lifecycle!JobUnfinished, JobUnfinished, Lifecycle!JobTerminal, JobTerminal,
         Lifecycle!JobDidNotPass, JobDidNotPass, Lifecycle!Reportable, Reportable

-----------------------------------------------------------------------------
(***************************************************************************)
(* The inductive invariant.                                                *)
(***************************************************************************)

\* No job of a run that has not left QUEUED was ever claimed or ended.
QueuedIsFresh ==
  \A j \in Job : runStatus[RunOf[j]] \in {"NONE", "QUEUED"} => jobStatus[j] = "PENDING"

\* A PASSED job has committed the artifacts it declares.
PassedIsPublished ==
  \A j \in UploadJob : jobStatus[j] = "PASSED" => artifacts[j] # "none"

Inv ==
  /\ TypeOK
  /\ LeaseConsistent
  /\ NeverReassigned
  /\ DependencyOrder
  /\ QueuedIsFresh
  /\ TerminalRunIsQuiet
  /\ PassedIsPublished
  /\ RetentionFollowsRun
  /\ InputsAvailable

\* What the transactions that end jobs have in common.
EndStep ==
  /\ Lifecycle!Settle
  /\ leased' \in [Job -> BOOLEAN]
  /\ leaseLeft' \in [Job -> 0 .. LeaseTTL]
  /\ artifacts' \in [Job -> ArtifactStates]
  /\ \A j \in Job :
       IF jobStatus[j] = "RUNNING" /\ jobStatus'[j] # "RUNNING"
       THEN /\ ~leased'[j] /\ leaseLeft'[j] = 0
            /\ jobStatus'[j] = "PASSED" /\ j \in UploadJob => artifacts[j] # "none"
       ELSE leased'[j] = leased[j] /\ leaseLeft'[j] = leaseLeft[j]
  /\ \A j \in Job : jobStatus'[j] # jobStatus[j] =>
       \/ runStatus[RunOf[j]] = "RUNNING"
       \/ runStatus'[RunOf[j]] \in RunTerminal
  /\ \A j \in Job :
       artifacts'[j] = IF runStatus'[RunOf[j]] # runStatus[RunOf[j]] /\ artifacts[j] = "kept"
                       THEN "expiring" ELSE artifacts[j]
  /\ UNCHANGED <<owner, generation>>

-----------------------------------------------------------------------------
(***************************************************************************)
(* The transactions that end jobs are EndSteps.                            *)
(***************************************************************************)

\* What blockDependents leaves behind.
LEMMA BlockDependentsFacts ==
  ASSUME NEW js \in [Job -> JobStatus], NEW R
  PROVE  /\ blockDependents(js, R) \in [Job -> JobStatus]
         /\ \A j \in Job : \/ blockDependents(js, R)[j] = js[j]
                           \/ /\ js[j] = "PENDING" /\ RunOf[j] \in R
                              /\ blockDependents(js, R)[j] = "BLOCKED"
                              /\ \E d \in Needs[j] : blockDependents(js, R)[d] \in JobDidNotPass
<1> DEFINE B == Blocked(js, R)
           bd == blockDependents(js, R)
<1>1. bd = [j \in Job |-> IF j \in B THEN "BLOCKED" ELSE js[j]]
  BY Zenon DEF blockDependents
<1>2. \A d \in Job : js[d] \in JobDidNotPass \/ d \in B => bd[d] \in JobDidNotPass
  BY Zenon, <1>1 DEF JobDidNotPass
<1>3. bd \in [Job -> JobStatus]
  BY Zenon, <1>1 DEF JobStatus, JobTerminal, JobDidNotPass
<1>4. ASSUME NEW j \in B
      PROVE  /\ js[j] = "PENDING" /\ RunOf[j] \in R /\ bd[j] = "BLOCKED"
             /\ \E d \in Needs[j] : bd[d] \in JobDidNotPass
  <2>1. j \in Job /\ js[j] = "PENDING" /\ RunOf[j] \in R /\ bd[j] = "BLOCKED"
    BY Zenon, <1>1, BlockedFacts
  <2>2. PICK d \in Needs[j] : js[d] \in JobDidNotPass \/ d \in B
    BY Zenon, BlockedFacts
  <2>3. d \in Job
    BY Zenon, <2>1, GraphAssumption
  <2> QED
    BY Zenon, <2>1, <2>2, <2>3, <1>2
<1> QED
  BY <1>1, <1>3, <1>4, Zenon

\* What finalizeRun leaves behind: the verdicts are legal, and the artifacts
\* of exactly the runs that end get their expiry.
LEMMA FinalizeFacts ==
  ASSUME TypeOK, NEW js \in [Job -> JobStatus], NEW cancel \in [Run -> BOOLEAN],
         NEW R \in SUBSET Run, jobStatus' = js, finalizeRun(js, cancel, R)
  PROVE  /\ runStatus' \in [Run -> RunStatus]
         /\ \A r \in Run : Lifecycle!DecidedLegally(r)
         /\ artifacts' \in [Job -> ArtifactStates]
         /\ \A j \in Job :
              artifacts'[j] = IF runStatus'[RunOf[j]] # runStatus[RunOf[j]] /\ artifacts[j] = "kept"
                              THEN "expiring" ELSE artifacts[j]
<1> DEFINE F == Finalized(js, R)
<1>1. runStatus' = [r \in Run |-> IF r \in F THEN Outcome(js, cancel[r], r) ELSE runStatus[r]]
  BY Zenon DEF finalizeRun
<1>2. artifacts' = [j \in Job |-> IF RunOf[j] \in F /\ artifacts[j] = "kept"
                                  THEN "expiring" ELSE artifacts[j]]
  BY Zenon DEF finalizeRun, ExpiryAfter
<1>3. \A r \in F : /\ r \in Run /\ runStatus[r] \in RunActive
                   /\ \A j \in JobsOf(r) : js[j] \in JobTerminal
  BY Zenon DEF Finalized, JobsOf, JobStatus, JobUnfinished
<1>4. \A r \in F : runStatus'[r] \in RunTerminal /\ runStatus'[r] # runStatus[r]
  BY Zenon, <1>1, <1>3, OutcomeTerminal DEF RunActive, RunTerminal
<1>5. runStatus' \in [Run -> RunStatus]
  BY <1>1, <1>4, <1>3, Zenon DEF TypeOK, RunStatus
<1>6. \A r \in Run : Lifecycle!DecidedLegally(r)
  <2> SUFFICES ASSUME NEW r \in F PROVE Lifecycle!DecidedLegally(r)
    BY Zenon, <1>1 DEF Lifecycle!DecidedLegally
  <2>1. cancel[r] \in BOOLEAN /\ runStatus'[r] = Outcome(jobStatus', cancel[r], r)
    BY Zenon, <1>1, <1>3
  <2>2. runStatus[r] \in RunActive /\ \A j \in JobsOf(r) : jobStatus'[j] \in JobTerminal
    BY Zenon, <1>3
  <2> QED
    BY Zenon, <2>1, <2>2, LifecycleDefs DEF Lifecycle!DecidedLegally
<1>7. artifacts' \in [Job -> ArtifactStates]
  BY Zenon, <1>2 DEF TypeOK, ArtifactStates
<1>8. \A j \in Job :
        artifacts'[j] = IF runStatus'[RunOf[j]] # runStatus[RunOf[j]] /\ artifacts[j] = "kept"
                        THEN "expiring" ELSE artifacts[j]
  BY <1>1, <1>2, <1>4, GraphAssumption, Zenon
<1> QED
  BY Zenon, <1>5, <1>6, <1>7, <1>8

\* A job that runs belongs to a run that is RUNNING.
LEMMA RunningRun ==
  ASSUME Inv, NEW j \in Job, jobStatus[j] = "RUNNING"
  PROVE  runStatus[RunOf[j]] = "RUNNING"
<1>1. runStatus[RunOf[j]] \in RunStatus
  BY GraphAssumption DEF Inv, TypeOK
<1>2. runStatus[RunOf[j]] \notin {"NONE", "QUEUED"}
  BY Zenon DEF Inv, QueuedIsFresh
<1>3. runStatus[RunOf[j]] \notin RunTerminal
  BY Zenon DEF Inv, TerminalRunIsQuiet, JobTerminal, JobDidNotPass
<1> QED
  BY Zenon, <1>1, <1>2, <1>3 DEF RunStatus, RunActive

\* The jobs in E end with the statuses of ended, their dependents are blocked
\* or not, and the runs R are finalized: CompleteJob and AbortJobs.
LEMMA EndsAndBlocks ==
  ASSUME Inv, NEW E \in SUBSET Job, NEW R \in SUBSET Run,
         NEW ended \in [Job -> JobStatus], NEW js \in {ended, blockDependents(ended, R)},
         \A j \in E : /\ RunOf[j] \in R
                      /\ jobStatus[j] = "RUNNING"
                      /\ ended[j] \in Reportable \cup {"ABORTED"}
                      /\ ended[j] = "PASSED" /\ j \in UploadJob => artifacts[j] # "none",
         \A j \in Job \ E : ended[j] = jobStatus[j],
         \A r \in R : runStatus[r] = "RUNNING",
         jobStatus' = js,
         ClearLeases(E),
         finalizeRun(js, cancelRequested, R),
         UNCHANGED <<owner, generation>>
  PROVE  EndStep
<1> USE GraphAssumption, LifecycleDefs
<1> TypeOK
  BY Zenon DEF Inv
<1>1. /\ js \in [Job -> JobStatus]
      /\ \A j \in Job : \/ js[j] = ended[j]
                        \/ /\ ended[j] = "PENDING" /\ RunOf[j] \in R /\ js[j] = "BLOCKED"
                           /\ \E d \in Needs[j] : js[d] \in JobDidNotPass
  BY BlockDependentsFacts
<1>2. \A j \in E : jobStatus[j] = "RUNNING" /\ js[j] = ended[j] /\ js[j] # "RUNNING"
  BY Zenon, <1>1 DEF Reportable
<1>3. \A j \in Job \ E : \/ js[j] = jobStatus[j]
                         \/ /\ jobStatus[j] = "PENDING" /\ RunOf[j] \in R /\ js[j] = "BLOCKED"
                            /\ \E d \in Needs[j] : js[d] \in JobDidNotPass
  BY Zenon, <1>1
<1>4. \A j \in Job : Lifecycle!EndsLegally(j)
  BY Zenon, <1>2, <1>3 DEF Lifecycle!EndsLegally
<1>5. cancelRequested \in [Run -> BOOLEAN]
  BY Zenon DEF TypeOK
<1>6. /\ runStatus' \in [Run -> RunStatus]
      /\ \A r \in Run : Lifecycle!DecidedLegally(r)
      /\ artifacts' \in [Job -> ArtifactStates]
      /\ \A j \in Job :
           artifacts'[j] = IF runStatus'[RunOf[j]] # runStatus[RunOf[j]] /\ artifacts[j] = "kept"
                           THEN "expiring" ELSE artifacts[j]
  BY Zenon, <1>1, <1>5, FinalizeFacts
<1>7. Lifecycle!Settle
  BY Zenon, <1>1, <1>4, <1>6 DEF Lifecycle!Settle
<1>8. leased' \in [Job -> BOOLEAN] /\ leaseLeft' \in [Job -> 0 .. LeaseTTL]
  BY SchedulerAssumption DEF ClearLeases, TypeOK
<1>9. \A j \in Job :
        IF jobStatus[j] = "RUNNING" /\ jobStatus'[j] # "RUNNING"
        THEN /\ ~leased'[j] /\ leaseLeft'[j] = 0
             /\ jobStatus'[j] = "PASSED" /\ j \in UploadJob => artifacts[j] # "none"
        ELSE leased'[j] = leased[j] /\ leaseLeft'[j] = leaseLeft[j]
  <2> TAKE j \in Job
  <2>1. CASE j \in E
    BY <1>2, <2>1, Zenon DEF ClearLeases
  <2>2. CASE j \notin E
    <3>1. leased'[j] = leased[j] /\ leaseLeft'[j] = leaseLeft[j]
      BY <2>2 DEF ClearLeases, TypeOK
    <3>2. ~(jobStatus[j] = "RUNNING" /\ jobStatus'[j] # "RUNNING")
      BY Zenon, <1>3, <2>2
    <3> QED
      BY Zenon, <3>1, <3>2
  <2> QED
    BY Zenon, <2>1, <2>2
<1>10. \A j \in Job : jobStatus'[j] # jobStatus[j] => runStatus[RunOf[j]] = "RUNNING"
  BY Zenon, <1>3
<1> QED
  BY Zenon, <1>6, <1>7, <1>8, <1>9, <1>10 DEF EndStep

\* A report that counts ends its job.
LEMMA CompleteJobEnds ==
  ASSUME Inv, NEW n \in Runner, NEW j \in Job, NEW g \in Nat,
         NEW status \in Reportable, CompleteJob(n, j, g, status)
  PROVE  EndStep
<1> DEFINE reported == [jobStatus EXCEPT ![j] = status]
           js == IF status = "PASSED" THEN reported ELSE blockDependents(reported, {RunOf[j]})
<1>1. /\ jobStatus' = js
      /\ ClearLeases({j})
      /\ finalizeRun(js, cancelRequested, {RunOf[j]})
      /\ UNCHANGED <<owner, generation>>
      /\ jobStatus[j] = "RUNNING"
      /\ status = "PASSED" => artifactSetCommittedTx(j)
  BY Zenon DEF CompleteJob, HoldsLease
<1>2. status = "PASSED" /\ j \in UploadJob => artifacts[j] # "none"
  BY Zenon, <1>1 DEF artifactSetCommittedTx
<1>3. /\ reported \in [Job -> JobStatus]
      /\ reported[j] = status
      /\ \A k \in Job \ {j} : reported[k] = jobStatus[k]
  BY Zenon DEF Inv, TypeOK, Reportable, JobStatus, JobTerminal, JobDidNotPass
<1>4. {j} \in SUBSET Job /\ {RunOf[j]} \in SUBSET Run
  BY GraphAssumption
<1>5. runStatus[RunOf[j]] = "RUNNING"
  BY Zenon, <1>1, RunningRun
<1>6. js \in {reported, blockDependents(reported, {RunOf[j]})}
  BY Zenon
<1> HIDE DEF reported, js
<1> QED
  BY <1>1, <1>2, <1>3, <1>4, <1>5, <1>6, EndsAndBlocks

\* So does the sweeper and the recovery at start-up, for the jobs they abort.
LEMMA AbortJobsEnds ==
  ASSUME Inv, NEW lost \in SUBSET Job, \A j \in lost : jobStatus[j] = "RUNNING",
         AbortJobs(lost)
  PROVE  EndStep
<1> DEFINE aborted == [j \in Job |-> IF j \in lost THEN LostStatus ELSE jobStatus[j]]
           affected == {RunOf[j] : j \in lost}
           js == blockDependents(aborted, affected)
<1>1. /\ jobStatus' = js
      /\ ClearLeases(lost)
      /\ finalizeRun(js, cancelRequested, affected)
      /\ UNCHANGED <<owner, generation>>
  BY Zenon DEF AbortJobs
<1>2. /\ aborted \in [Job -> JobStatus]
      /\ \A j \in lost : aborted[j] = "ABORTED"
      /\ \A j \in Job \ lost : aborted[j] = jobStatus[j]
  BY Zenon DEF Inv, TypeOK, LostStatus, JobStatus, JobTerminal, JobDidNotPass
<1>3. affected \in SUBSET Run /\ \A j \in lost : RunOf[j] \in affected
  BY GraphAssumption
<1>4. \A r \in affected : runStatus[r] = "RUNNING"
  BY Zenon, RunningRun
<1>5. js \in {aborted, blockDependents(aborted, affected)}
  BY Zenon
<1> HIDE DEF aborted, affected, js
<1> QED
  BY <1>1, <1>2, <1>3, <1>4, <1>5, EndsAndBlocks

\* Canceling a queued run: all its jobs are PENDING and become CANCELED.
LEMMA CancelQueuedEnds ==
  ASSUME Inv, NEW r \in Run, CancelQueued(r)
  PROVE  EndStep
<1> USE GraphAssumption, LifecycleDefs
<1>1. /\ runStatus[r] = "QUEUED"
      /\ runStatus' = [runStatus EXCEPT ![r] = "CANCELED"]
      /\ jobStatus' = CancelPending(r)
      /\ UNCHANGED <<owner, generation, leased, leaseLeft, artifacts>>
  BY Zenon DEF CancelQueued, leaseVars
<1>2. \A j \in JobsOf(r) : jobStatus[j] = "PENDING" /\ jobStatus'[j] = "CANCELED"
  BY Zenon, <1>1 DEF Inv, QueuedIsFresh, JobsOf, CancelPending
<1>3. \A j \in Job \ JobsOf(r) : jobStatus'[j] = jobStatus[j]
  BY Zenon, <1>1 DEF JobsOf, CancelPending
<1>4. jobStatus' \in [Job -> JobStatus] /\ runStatus' \in [Run -> RunStatus]
  BY Zenon, <1>1 DEF Inv, TypeOK, CancelPending, JobStatus, JobTerminal, JobDidNotPass, RunStatus,
              RunTerminal
<1>5. \A j \in Job : Lifecycle!EndsLegally(j)
  BY Zenon, <1>2, <1>3 DEF Lifecycle!EndsLegally
<1>6. \A x \in Run : Lifecycle!DecidedLegally(x)
  <2>1. runStatus'[r] = Outcome(jobStatus', TRUE, r)
    BY <1>1, <1>2 DEF Outcome, Inv, TypeOK
  <2>2. Lifecycle!DecidedLegally(r)
    BY <1>1, <1>2, <2>1, Zenon DEF Lifecycle!DecidedLegally, RunActive, JobTerminal, JobDidNotPass
  <2>3. \A x \in Run \ {r} : Lifecycle!DecidedLegally(x)
    BY <1>1 DEF Lifecycle!DecidedLegally, Inv, TypeOK
  <2> QED
    BY Zenon, <2>2, <2>3
<1>7. \A j \in Job : runStatus'[RunOf[j]] # runStatus[RunOf[j]] => artifacts[j] # "kept"
  BY Zenon, <1>1 DEF Inv, TypeOK, RetentionFollowsRun
<1>8. \A j \in Job : jobStatus'[j] # jobStatus[j] => runStatus'[RunOf[j]] \in RunTerminal
  BY Zenon, <1>1, <1>3 DEF Inv, TypeOK, JobsOf, RunTerminal
<1>9. \A j \in Job : ~(jobStatus[j] = "RUNNING" /\ jobStatus'[j] # "RUNNING")
  BY Zenon, <1>2, <1>3
<1>10. Lifecycle!Settle
  BY Zenon, <1>4, <1>5, <1>6 DEF Lifecycle!Settle
<1> QED
  BY Zenon, <1>1, <1>7, <1>8, <1>9, <1>10 DEF EndStep, Inv, TypeOK

\* Canceling a running run: its PENDING jobs become CANCELED, its RUNNING jobs
\* are left to their runners.
LEMMA RequestCancelEnds ==
  ASSUME Inv, NEW r \in Run, RequestCancel(r)
  PROVE  EndStep
<1> USE GraphAssumption, LifecycleDefs
<1> DEFINE cancel == [cancelRequested EXCEPT ![r] = TRUE]
           js == CancelPending(r)
<1>1. /\ runStatus[r] = "RUNNING"
      /\ jobStatus' = js
      /\ finalizeRun(js, cancel, {r})
      /\ UNCHANGED <<owner, generation, leased, leaseLeft>>
  BY Zenon DEF RequestCancel, leaseVars
<1>2. js \in [Job -> JobStatus] /\ cancel \in [Run -> BOOLEAN] /\ TypeOK
  BY Zenon DEF Inv, TypeOK, CancelPending, JobStatus, JobTerminal, JobDidNotPass
<1>3. \A j \in Job : \/ js[j] = jobStatus[j]
                     \/ jobStatus[j] = "PENDING" /\ js[j] = "CANCELED" /\ RunOf[j] = r
  BY Zenon DEF CancelPending
<1> HIDE DEF cancel, js
<1>4. \A j \in Job : Lifecycle!EndsLegally(j)
  BY <1>1, <1>3, Zenon DEF Lifecycle!EndsLegally
<1>5. /\ runStatus' \in [Run -> RunStatus]
      /\ \A x \in Run : Lifecycle!DecidedLegally(x)
      /\ artifacts' \in [Job -> ArtifactStates]
      /\ \A j \in Job :
           artifacts'[j] = IF runStatus'[RunOf[j]] # runStatus[RunOf[j]] /\ artifacts[j] = "kept"
                           THEN "expiring" ELSE artifacts[j]
  BY <1>1, <1>2, FinalizeFacts
<1>6. Lifecycle!Settle
  BY Zenon, <1>1, <1>2, <1>4, <1>5 DEF Lifecycle!Settle
<1>7. \A j \in Job : ~(jobStatus[j] = "RUNNING" /\ jobStatus'[j] # "RUNNING")
  BY Zenon, <1>1, <1>3
<1>8. \A j \in Job : jobStatus'[j] # jobStatus[j] => runStatus[RunOf[j]] = "RUNNING"
  BY Zenon, <1>1, <1>3
<1> QED
  BY Zenon, <1>1, <1>2, <1>5, <1>6, <1>7, <1>8 DEF EndStep, TypeOK

-----------------------------------------------------------------------------
(***************************************************************************)
(* The steps preserve the invariant.                                       *)
(***************************************************************************)

\* What an EndStep does to one job and to the verdict of its run.
LEMMA EndStepFacts ==
  ASSUME Inv, EndStep, NEW j \in Job
  PROVE  /\ \/ jobStatus'[j] = jobStatus[j]
            \/ jobStatus[j] = "RUNNING" /\ jobStatus'[j] \in Reportable \cup {"ABORTED"}
            \/ jobStatus[j] = "PENDING" /\ jobStatus'[j] \in {"CANCELED", "BLOCKED"}
         /\ \/ runStatus'[RunOf[j]] = runStatus[RunOf[j]]
            \/ /\ runStatus[RunOf[j]] \in RunActive
               /\ runStatus'[RunOf[j]] \in RunTerminal
               /\ jobStatus'[j] \in JobTerminal
<1> USE LifecycleDefs
<1>1. Lifecycle!EndsLegally(j)
  BY Zenon DEF EndStep, Lifecycle!Settle
<1>2. RunOf[j] \in Run /\ j \in JobsOf(RunOf[j])
  BY Zenon, GraphAssumption DEF JobsOf
<1>3. Lifecycle!DecidedLegally(RunOf[j])
  BY Zenon, <1>2 DEF EndStep, Lifecycle!Settle
<1>4. \/ runStatus'[RunOf[j]] = runStatus[RunOf[j]]
      \/ /\ runStatus[RunOf[j]] \in RunActive
         /\ runStatus'[RunOf[j]] \in RunTerminal
         /\ jobStatus'[j] \in JobTerminal
  BY Zenon, <1>2, <1>3, OutcomeTerminal DEF Lifecycle!DecidedLegally
<1> QED
  BY Zenon, <1>1, <1>4 DEF Lifecycle!EndsLegally

\* The transactions that end jobs preserve the invariant.
LEMMA EndStepInv ==
  ASSUME Inv, EndStep,
         cancelRequested' \in [Run -> BOOLEAN],
         runnerStatus' \in [Runner -> RunnerStates],
         UNCHANGED <<registered, idle>>
  PROVE  Inv'
<1> USE GraphAssumption
<1>1. TypeOK'
  BY Zenon, LifecycleDefs DEF EndStep, Lifecycle!Settle, Inv, TypeOK
<1>2. LeaseConsistent'
  <2> SUFFICES ASSUME NEW j \in Job
               PROVE  /\ leased'[j] <=> jobStatus'[j] = "RUNNING"
                      /\ leased'[j] => owner'[j] \in Runner /\ generation'[j] > 0
                      /\ ~leased'[j] => leaseLeft'[j] = 0
    BY Zenon DEF LeaseConsistent
  <2>1. /\ leased[j] <=> jobStatus[j] = "RUNNING"
        /\ leased[j] => owner[j] \in Runner /\ generation[j] > 0
        /\ ~leased[j] => leaseLeft[j] = 0
    BY Zenon DEF Inv, LeaseConsistent
  <2>2. owner'[j] = owner[j] /\ generation'[j] = generation[j]
    BY Zenon DEF EndStep
  <2>3. CASE jobStatus[j] = "RUNNING" /\ jobStatus'[j] # "RUNNING"
    BY Zenon, <2>3 DEF EndStep
  <2>4. CASE ~(jobStatus[j] = "RUNNING" /\ jobStatus'[j] # "RUNNING")
    <3>1. leased'[j] = leased[j] /\ leaseLeft'[j] = leaseLeft[j]
      BY Zenon, <2>4 DEF EndStep
    <3>2. jobStatus'[j] = "RUNNING" <=> jobStatus[j] = "RUNNING"
      BY Zenon, <2>4, EndStepFacts DEF Reportable
    <3> QED
      BY Zenon, <2>1, <2>2, <3>1, <3>2
  <2> QED
    BY Zenon, <2>3, <2>4
<1>3. NeverReassigned'
  BY EndStepFacts, Zenon DEF Inv, NeverReassigned, EndStep, Reportable, LeaseConsistent
<1>4. \A j \in Job : jobStatus[j] = "PASSED" => jobStatus'[j] = "PASSED"
  BY Zenon, EndStepFacts
<1>5. DependencyOrder'
  BY <1>4, Zenon DEF Inv, DependencyOrder, EndStep
<1>6. QueuedIsFresh'
  <2> SUFFICES ASSUME NEW j \in Job, runStatus'[RunOf[j]] \in {"NONE", "QUEUED"}
               PROVE  jobStatus'[j] = "PENDING"
    BY Zenon DEF QueuedIsFresh
  <2>1. runStatus'[RunOf[j]] = runStatus[RunOf[j]]
    BY Zenon, EndStepFacts DEF RunTerminal
  <2>2. jobStatus'[j] = jobStatus[j]
    BY Zenon, <2>1 DEF EndStep, RunTerminal
  <2> QED
    BY <2>1, <2>2, Zenon DEF Inv, QueuedIsFresh
<1>7. TerminalRunIsQuiet'
  <2> SUFFICES ASSUME NEW j \in Job, runStatus'[RunOf[j]] \in RunTerminal
               PROVE  \/ jobStatus'[j] \in JobTerminal
                      \/ jobStatus'[j] = "PENDING" /\ RunOf[j] \in PullRequestRun
    BY Zenon DEF TerminalRunIsQuiet
  <2>1. CASE runStatus'[RunOf[j]] = runStatus[RunOf[j]]
    <3>1. \/ jobStatus[j] \in JobTerminal
          \/ jobStatus[j] = "PENDING" /\ RunOf[j] \in PullRequestRun
      BY Zenon, <2>1 DEF Inv, TerminalRunIsQuiet
    <3> QED
      BY Zenon, <3>1, EndStepFacts DEF JobTerminal, JobDidNotPass
  <2> QED
    BY Zenon, <2>1, EndStepFacts
<1>8. \A j \in Job : artifacts[j] # "none" => artifacts'[j] # "none"
  <2> TAKE j \in Job
  <2>1. artifacts'[j] = IF runStatus'[RunOf[j]] # runStatus[RunOf[j]] /\ artifacts[j] = "kept"
                        THEN "expiring" ELSE artifacts[j]
    BY Zenon DEF EndStep
  <2> QED
    BY Zenon, <2>1
<1>9. PassedIsPublished'
  <2> SUFFICES ASSUME NEW j \in UploadJob, jobStatus'[j] = "PASSED" PROVE artifacts'[j] # "none"
    BY Zenon DEF PassedIsPublished
  <2>1. j \in Job
    BY Zenon, SchedulerAssumption
  <2>2. artifacts[j] # "none"
    BY Zenon, <2>1, EndStepFacts DEF EndStep, Inv, PassedIsPublished
  <2> QED
    BY Zenon, <1>8, <2>1, <2>2
<1>10. RetentionFollowsRun'
  <2> SUFFICES ASSUME NEW j \in Job
               PROVE  /\ artifacts'[j] = "kept" => runStatus'[RunOf[j]] = "RUNNING"
                      /\ artifacts'[j] \in {"expiring", "deleted"} =>
                           runStatus'[RunOf[j]] \in RunTerminal
    BY Zenon DEF RetentionFollowsRun
  <2>1. /\ artifacts[j] = "kept" => runStatus[RunOf[j]] = "RUNNING"
        /\ artifacts[j] \in {"expiring", "deleted"} => runStatus[RunOf[j]] \in RunTerminal
    BY Zenon DEF Inv, RetentionFollowsRun
  <2>2. artifacts'[j] = IF runStatus'[RunOf[j]] # runStatus[RunOf[j]] /\ artifacts[j] = "kept"
                        THEN "expiring" ELSE artifacts[j]
    BY Zenon DEF EndStep
  <2> QED
    BY Zenon, <2>1, <2>2, EndStepFacts DEF RunActive, RunTerminal
<1>11. InputsAvailable'
  <2> SUFFICES ASSUME NEW j \in Job, jobStatus'[j] = "RUNNING", NEW d \in Needs[j] \cap UploadJob
               PROVE  artifacts'[d] = "kept"
    BY Zenon DEF InputsAvailable
  <2>1. d \in Job /\ RunOf[d] = RunOf[j]
    BY Zenon
  <2>2. jobStatus[j] = "RUNNING"
    BY Zenon, EndStepFacts DEF Reportable
  <2>3. artifacts[d] = "kept"
    BY Zenon, <2>2 DEF Inv, InputsAvailable
  <2>4. runStatus'[RunOf[j]] = runStatus[RunOf[j]]
    BY Zenon, EndStepFacts DEF JobTerminal, JobDidNotPass
  <2>5. artifacts'[d] = IF runStatus'[RunOf[d]] # runStatus[RunOf[d]] /\ artifacts[d] = "kept"
                        THEN "expiring" ELSE artifacts[d]
    BY <2>1, Zenon DEF EndStep
  <2> QED
    BY Zenon, <2>1, <2>3, <2>4, <2>5
<1> QED
  BY Zenon, <1>1, <1>2, <1>3, <1>5, <1>6, <1>7, <1>9, <1>10, <1>11 DEF Inv

\* A claimed job is new, its predecessors passed and its run is active.
LEMMA LeaseJobInv ==
  ASSUME Inv, NEW n \in Runner, NEW j \in Job, LeaseJob(n, j)
  PROVE  Inv'
<1> USE GraphAssumption, SchedulerAssumption
<1> DEFINE r == RunOf[j]
<1>1. /\ runStatus[r] \in RunActive
      /\ jobStatus[j] = "PENDING"
      /\ \A d \in Needs[j] : jobStatus[d] = "PASSED"
      /\ r \in Run
  BY Zenon DEF LeaseJob, LeaseCandidate, OpenForClaims, Ready
<1>2. /\ jobStatus' = [jobStatus EXCEPT ![j] = "RUNNING"]
      /\ owner' = [owner EXCEPT ![j] = n]
      /\ leased' = [leased EXCEPT ![j] = TRUE]
      /\ generation' = [generation EXCEPT ![j] = @ + 1]
      /\ leaseLeft' = [leaseLeft EXCEPT ![j] = LeaseTTL]
      /\ UNCHANGED <<cancelRequested, artifacts, runnerStatus, registered, idle>>
  BY Zenon DEF LeaseJob, runnerVars
<1>3. runStatus' = [runStatus EXCEPT ![r] = "RUNNING"]
  BY <1>1, Zenon DEF LeaseJob, RunActive, Inv, TypeOK
<1> HIDE DEF r
<1>4. TypeOK'
  BY <1>1, <1>2, <1>3 DEF Inv, TypeOK, RunStatus, RunActive, JobStatus, JobUnfinished
<1>5. LeaseConsistent'
  BY <1>2 DEF Inv, TypeOK, LeaseConsistent
<1>6. NeverReassigned'
  BY <1>1, <1>2 DEF Inv, TypeOK, NeverReassigned
<1>7. DependencyOrder'
  BY <1>1, <1>2 DEF Inv, TypeOK, DependencyOrder
<1>8. \A k \in Job : runStatus'[RunOf[k]] # "RUNNING" =>
        k # j /\ RunOf[k] # r /\ runStatus'[RunOf[k]] = runStatus[RunOf[k]]
  BY Zenon, <1>1, <1>3 DEF Inv, TypeOK, r
<1>9. QueuedIsFresh'
  BY <1>2, <1>8 DEF Inv, TypeOK, QueuedIsFresh
<1>10. TerminalRunIsQuiet'
  BY <1>2, <1>8 DEF Inv, TypeOK, TerminalRunIsQuiet, RunTerminal
<1>11. PassedIsPublished'
  BY <1>2 DEF Inv, TypeOK, PassedIsPublished
<1>12. RetentionFollowsRun'
  BY <1>1, <1>2, <1>3 DEF Inv, TypeOK, RetentionFollowsRun, RunActive, RunTerminal
<1>13. InputsAvailable'
  <2> SUFFICES ASSUME NEW k \in Job, jobStatus'[k] = "RUNNING", NEW d \in Needs[k] \cap UploadJob
               PROVE  artifacts[d] = "kept"
    BY Zenon, <1>2 DEF InputsAvailable
  <2>1. CASE k = j
    <3>1. artifacts[d] \in ArtifactStates \ {"none"}
      BY Zenon, <1>1, <2>1 DEF Inv, TypeOK, PassedIsPublished
    <3>2. d \in Job /\ RunOf[d] = RunOf[j]
      BY Zenon, <2>1
    <3>3. runStatus[RunOf[d]] \in RunActive
      BY <1>1, <3>2, Zenon DEF r
    <3> QED
      BY <3>1, <3>2, <3>3, Zenon DEF Inv, RetentionFollowsRun, ArtifactStates, RunActive, RunTerminal
  <2>2. CASE k # j
    BY <1>2, <2>2 DEF Inv, TypeOK, InputsAvailable
  <2> QED
    BY <2>1, <2>2, Zenon
<1> QED
  BY Zenon, <1>4, <1>5, <1>6, <1>7, <1>9, <1>10, <1>11, <1>12, <1>13 DEF Inv

\* The transactions that touch no job status: a new run, a heartbeat,
\* registration and the passing of time.
LEMMA QuietStepInv ==
  ASSUME Inv,
         \/ \E r \in Run : CreateRun(r)
         \/ \E n \in Runner : RegisterRunner(n)
         \/ \E n \in Runner, L \in SUBSET (Job \X Nat) : HeartbeatJobLeases(n, L)
         \/ Tick
  PROVE  Inv'
<1> USE GraphAssumption, SchedulerAssumption
<1>1. CASE \E r \in Run : CreateRun(r)
  <2> PICK r \in Run : CreateRun(r)
    BY Zenon, <1>1
  <2>1. /\ runStatus[r] = "NONE"
        /\ runStatus' = [runStatus EXCEPT ![r] = "QUEUED"]
        /\ UNCHANGED <<cancelRequested, jobStatus, owner, leased, generation, leaseLeft,
                       artifacts, runnerStatus, registered, idle>>
    BY Zenon DEF CreateRun, leaseVars, runnerVars
  <2>2. TypeOK' /\ LeaseConsistent' /\ NeverReassigned' /\ DependencyOrder'
        /\ PassedIsPublished' /\ InputsAvailable'
    BY <2>1 DEF Inv, TypeOK, LeaseConsistent, NeverReassigned, DependencyOrder,
                PassedIsPublished, InputsAvailable, RunStatus, RunActive
  <2>3. QueuedIsFresh' /\ TerminalRunIsQuiet' /\ RetentionFollowsRun'
    BY <2>1 DEF Inv, TypeOK, QueuedIsFresh, TerminalRunIsQuiet, RetentionFollowsRun, RunTerminal
  <2> QED
    BY Zenon, <2>2, <2>3 DEF Inv
<1>2. ASSUME UNCHANGED <<runStatus, cancelRequested, jobStatus, owner, leased, generation,
                         artifacts>>,
             TypeOK', \A j \in Job : ~leased[j] => leaseLeft'[j] = leaseLeft[j]
      PROVE  Inv'
  <2>1. LeaseConsistent' /\ NeverReassigned' /\ DependencyOrder'
        /\ PassedIsPublished' /\ InputsAvailable'
    BY Zenon, <1>2 DEF Inv, LeaseConsistent, NeverReassigned, DependencyOrder, PassedIsPublished,
                InputsAvailable
  <2>2. QueuedIsFresh' /\ TerminalRunIsQuiet' /\ RetentionFollowsRun'
    BY <1>2, Zenon DEF Inv, QueuedIsFresh, TerminalRunIsQuiet, RetentionFollowsRun
  <2> QED
    BY <1>2, <2>1, <2>2, Zenon DEF Inv
<1>3. CASE \E n \in Runner : RegisterRunner(n)
  <2> PICK n \in Runner : RegisterRunner(n)
    BY Zenon, <1>3
  <2> PICK config \in Registration[n] :
             /\ registered' = [registered EXCEPT ![n] = config]
             /\ runnerStatus' = [runnerStatus EXCEPT ![n] = "ONLINE"]
             /\ idle' = [idle EXCEPT ![n] = 0]
             /\ UNCHANGED <<runVars, jobStatus, leaseVars, artifacts>>
    BY Zenon DEF RegisterRunner
  <2>1. TypeOK'
    BY DEF Inv, TypeOK, RunnerStates, runVars, leaseVars
  <2> QED
    BY Zenon, <1>2, <2>1 DEF runVars, leaseVars
<1>4. CASE \E n \in Runner, L \in SUBSET (Job \X Nat) : HeartbeatJobLeases(n, L)
  <2> PICK n \in Runner, L \in SUBSET (Job \X Nat) : HeartbeatJobLeases(n, L)
    BY Zenon, <1>4
  <2>1. TypeOK'
    BY DEF HeartbeatJobLeases, Inv, TypeOK, RunnerStates, runVars
  <2>2. \A j \in Job : ~leased[j] => leaseLeft'[j] = leaseLeft[j]
    BY Zenon DEF HeartbeatJobLeases, HoldsLease
  <2> QED
    BY Zenon, <1>2, <2>1, <2>2 DEF HeartbeatJobLeases, runVars
<1>5. CASE Tick
  <2>1. TypeOK'
    BY <1>5 DEF Tick, Inv, TypeOK, runVars
  <2>2. \A j \in Job : ~leased[j] => leaseLeft'[j] = leaseLeft[j]
    <3> SUFFICES ASSUME NEW j \in Job, ~leased[j]
                 PROVE  leaseLeft'[j] = leaseLeft[j]
      BY Zenon
    <3>1. leaseLeft[j] = 0
      BY Zenon DEF Inv, LeaseConsistent
    <3>2. leaseLeft'[j] = IF leaseLeft[j] > 0 THEN leaseLeft[j] - 1 ELSE 0
      BY <1>5, Zenon DEF Tick
    <3> QED
      BY <3>1, <3>2
  <2> QED
    BY Zenon, <1>2, <1>5, <2>1, <2>2 DEF Tick, runVars
<1> QED
  BY Zenon, <1>1, <1>3, <1>4, <1>5

\* The artifacts a runner commits have no expiry, and their run is RUNNING.
LEMMA CommitArtifactsInv ==
  ASSUME Inv, NEW n \in Runner, NEW j \in Job, NEW g \in Nat, CommitArtifacts(n, j, g)
  PROVE  Inv'
<1>1. /\ runStatus[RunOf[j]] = "RUNNING"
      /\ artifacts[j] = "none"
      /\ artifacts' = [artifacts EXCEPT ![j] = "kept"]
      /\ UNCHANGED <<runStatus, cancelRequested, jobStatus, owner, leased, generation,
                     leaseLeft, runnerStatus, registered, idle>>
  BY Zenon DEF CommitArtifacts, runVars, leaseVars, runnerVars
<1>2. TypeOK' /\ LeaseConsistent' /\ NeverReassigned' /\ DependencyOrder'
      /\ QueuedIsFresh' /\ TerminalRunIsQuiet'
  BY <1>1, Zenon
     DEF Inv, TypeOK, LeaseConsistent, NeverReassigned, DependencyOrder, QueuedIsFresh,
              TerminalRunIsQuiet, ArtifactStates
<1>3. PassedIsPublished' /\ RetentionFollowsRun'
  BY <1>1 DEF Inv, TypeOK, PassedIsPublished, RetentionFollowsRun
<1>4. InputsAvailable'
  BY Zenon, <1>1, GraphAssumption DEF Inv, TypeOK, InputsAvailable
<1> QED
  BY Zenon, <1>2, <1>3, <1>4 DEF Inv

\* Superseding runs: a queued run ends with its jobs PENDING, a running one
\* is asked to stop.
LEMMA SupersedeRunsInv ==
  ASSUME Inv, NEW R \in SUBSET Run, SupersedeRuns(R)
  PROVE  Inv'
<1> USE GraphAssumption
<1>1. /\ R \subseteq PullRequestRun
      /\ runStatus' = [r \in Run |-> IF r \in R /\ runStatus[r] = "QUEUED"
                                     THEN "CANCELED" ELSE runStatus[r]]
      /\ cancelRequested' = [r \in Run |->
                          cancelRequested[r] \/ (r \in R /\ runStatus[r] = "RUNNING")]
      /\ UNCHANGED <<jobStatus, owner, leased, generation, leaseLeft, artifacts,
                     runnerStatus, registered, idle>>
  BY Zenon DEF SupersedeRuns, leaseVars, runnerVars
<1>2. runStatus' \in [Run -> RunStatus]
  BY <1>1 DEF Inv, TypeOK, RunStatus, RunTerminal
<1>3. cancelRequested' \in [Run -> BOOLEAN]
  BY Zenon, <1>1 DEF Inv, TypeOK
<1>4. TypeOK'
  BY Zenon, <1>1, <1>2, <1>3 DEF Inv, TypeOK
<1>5. LeaseConsistent' /\ NeverReassigned' /\ DependencyOrder'
      /\ PassedIsPublished' /\ InputsAvailable'
  BY <1>1, Zenon DEF Inv, LeaseConsistent, NeverReassigned, DependencyOrder, PassedIsPublished,
              InputsAvailable
<1>6. \A j \in Job : \/ runStatus'[RunOf[j]] = runStatus[RunOf[j]]
                     \/ /\ RunOf[j] \in PullRequestRun
                        /\ runStatus[RunOf[j]] = "QUEUED" /\ runStatus'[RunOf[j]] = "CANCELED"
  BY <1>1, Zenon
<1>7. QueuedIsFresh' /\ TerminalRunIsQuiet' /\ RetentionFollowsRun'
  BY <1>1, <1>6, Zenon DEF Inv, QueuedIsFresh, TerminalRunIsQuiet, RetentionFollowsRun, RunTerminal
<1> QED
  BY Zenon, <1>4, <1>5, <1>7 DEF Inv

\* Only artifacts of terminal runs are deleted, and no job of those runs.
LEMMA ExpireArtifactsInv ==
  ASSUME Inv, NEW R \in SUBSET Run, ExpireArtifacts(R)
  PROVE  Inv'
<1> USE GraphAssumption, SchedulerAssumption
<1>1. /\ artifacts' = [j \in Job |-> IF RunOf[j] \in R /\ artifacts[j] = "expiring"
                                     THEN "deleted" ELSE artifacts[j]]
      /\ UNCHANGED <<runStatus, cancelRequested, jobStatus, owner, leased, generation,
                     leaseLeft, runnerStatus, registered, idle>>
  BY Zenon DEF ExpireArtifacts, runVars, leaseVars, runnerVars
<1>2. TypeOK' /\ LeaseConsistent' /\ NeverReassigned' /\ DependencyOrder'
      /\ QueuedIsFresh' /\ TerminalRunIsQuiet'
  BY Zenon, <1>1
     DEF Inv, TypeOK, LeaseConsistent, NeverReassigned, DependencyOrder, QueuedIsFresh,
              TerminalRunIsQuiet, ArtifactStates
<1>3. PassedIsPublished' /\ RetentionFollowsRun' /\ InputsAvailable'
  BY <1>1, Zenon DEF Inv, PassedIsPublished, RetentionFollowsRun, InputsAvailable
<1> QED
  BY Zenon, <1>2, <1>3 DEF Inv

\* The transactions that end jobs, with what they do to the rest of the state.
EndingAction ==
  \/ \E r \in Run : CancelQueued(r) \/ RequestCancel(r)
  \/ \E n \in Runner, j \in Job, g \in Nat, status \in Reportable :
       CompleteJob(n, j, g, status)
  \/ ExpireJobLeases
  \/ RecoverRemoteJobs

\* The transactions of Next, for requests that carry any generation.
Transaction ==
  \/ EndingAction
  \/ \E r \in Run : CreateRun(r)
  \/ \E n \in Runner : RegisterRunner(n)
  \/ \E n \in Runner, j \in Job : LeaseJob(n, j)
  \/ \E n \in Runner, L \in SUBSET (Job \X Nat) : HeartbeatJobLeases(n, L)
  \/ \E n \in Runner, j \in Job, g \in Nat : CommitArtifacts(n, j, g)
  \/ \E R \in SUBSET Run : SupersedeRuns(R)
  \/ \E R \in SUBSET Run : ExpireArtifacts(R)
  \/ Tick

\* A step of the scheduler is one of its transactions.
LEMMA NextIsTransaction == [Next]_vars => [Transaction]_vars
<1>1. Generation \subseteq Nat /\ SUBSET (Job \X Generation) \subseteq SUBSET (Job \X Nat)
  BY Zenon, SchedulerAssumption
<1> QED
  BY <1>1, Zenon DEF Next, Transaction, EndingAction

\* They are EndSteps that leave the registrations alone.
LEMMA EndingActionEnds ==
  ASSUME Inv, EndingAction
  PROVE  /\ EndStep
         /\ cancelRequested' \in [Run -> BOOLEAN]
         /\ runnerStatus' \in [Runner -> RunnerStates]
         /\ UNCHANGED <<registered, idle>>
<1>1. CASE \E r \in Run : CancelQueued(r)
  BY <1>1, CancelQueuedEnds, Zenon DEF CancelQueued, runnerVars, Inv, TypeOK
<1>2. CASE \E r \in Run : RequestCancel(r)
  BY <1>2, RequestCancelEnds, Zenon DEF RequestCancel, runnerVars, Inv, TypeOK
<1>3. CASE \E n \in Runner, j \in Job, g \in Nat, status \in Reportable :
             CompleteJob(n, j, g, status)
  BY <1>3, CompleteJobEnds, Zenon DEF CompleteJob, runnerVars, Inv, TypeOK
<1>4. CASE ExpireJobLeases
  <2> DEFINE lost == {j \in Job : jobStatus[j] = "RUNNING" /\ leased[j] /\ leaseLeft[j] = 0}
  <2>1. AbortJobs(lost)
    BY <1>4, Zenon DEF ExpireJobLeases
  <2>2. EndStep
    BY <2>1, AbortJobsEnds, Zenon
  <2> QED
    BY <1>4, <2>1, <2>2, Zenon DEF ExpireJobLeases, AbortJobs, Inv, TypeOK, RunnerStates
<1>5. CASE RecoverRemoteJobs
  <2> DEFINE lost == {j \in Job : jobStatus[j] = "RUNNING"}
  <2>1. AbortJobs(lost)
    BY Zenon, <1>5 DEF RecoverRemoteJobs
  <2>2. EndStep
    BY Zenon, <2>1, AbortJobsEnds
  <2> QED
    BY <1>5, <2>1, <2>2, Zenon DEF RecoverRemoteJobs, AbortJobs, runnerVars, Inv, TypeOK
<1> QED
  BY Zenon, <1>1, <1>2, <1>3, <1>4, <1>5 DEF EndingAction

\* No run exists at first.
LEMMA InvInit == Init => Inv
<1> SUFFICES ASSUME Init PROVE Inv
  BY Zenon
<1> USE GraphAssumption, SchedulerAssumption
<1>1. TypeOK
  BY DEF Init, TypeOK, RunStatus, JobStatus, JobUnfinished, ArtifactStates, RunnerStates
<1>2. LeaseConsistent /\ NeverReassigned /\ DependencyOrder /\ QueuedIsFresh
      /\ TerminalRunIsQuiet /\ PassedIsPublished /\ RetentionFollowsRun /\ InputsAvailable
  BY DEF Init, LeaseConsistent, NeverReassigned, DependencyOrder, QueuedIsFresh,
         TerminalRunIsQuiet, PassedIsPublished, RetentionFollowsRun, InputsAvailable, RunTerminal
<1> QED
  BY Zenon, <1>1, <1>2 DEF Inv

\* No transaction breaks the invariant.
LEMMA InvStep == Inv /\ [Transaction]_vars => Inv'
<1> SUFFICES ASSUME Inv, [Transaction]_vars PROVE Inv'
  BY Zenon
<1>1. CASE EndingAction
  BY Zenon, <1>1, EndingActionEnds, EndStepInv
<1>2. CASE \E n \in Runner, j \in Job : LeaseJob(n, j)
  BY Zenon, <1>2, LeaseJobInv
<1>3. CASE \/ \E r \in Run : CreateRun(r)
           \/ \E n \in Runner : RegisterRunner(n)
           \/ \E n \in Runner, L \in SUBSET (Job \X Nat) : HeartbeatJobLeases(n, L)
           \/ Tick
  BY Zenon, <1>3, QuietStepInv
<1>4. CASE \E n \in Runner, j \in Job, g \in Nat : CommitArtifacts(n, j, g)
  BY Zenon, <1>4, CommitArtifactsInv
<1>5. CASE \E R \in SUBSET Run : SupersedeRuns(R)
  BY Zenon, <1>5, SupersedeRunsInv
<1>6. CASE \E R \in SUBSET Run : ExpireArtifacts(R)
  BY Zenon, <1>6, ExpireArtifactsInv
<1>7. CASE UNCHANGED vars
  <2>1. TypeOK' /\ LeaseConsistent' /\ NeverReassigned' /\ DependencyOrder' /\ QueuedIsFresh'
    BY <1>7, Zenon DEF vars, runVars, leaseVars, runnerVars, Inv, TypeOK, LeaseConsistent,
                NeverReassigned, DependencyOrder, QueuedIsFresh
  <2>2. TerminalRunIsQuiet' /\ PassedIsPublished' /\ RetentionFollowsRun' /\ InputsAvailable'
    BY <1>7, Zenon DEF vars, runVars, Inv, TerminalRunIsQuiet, PassedIsPublished,
                RetentionFollowsRun, InputsAvailable
  <2> QED
    BY Zenon, <2>1, <2>2 DEF Inv
<1> QED
  BY Zenon, <1>1, <1>2, <1>3, <1>4, <1>5, <1>6, <1>7 DEF Transaction

\* The inductive invariant holds in every reachable state.
LEMMA Invariance == Spec => []Inv
BY InvInit, InvStep, NextIsTransaction, PTL DEF Spec
-----------------------------------------------------------------------------
(***************************************************************************)
(* Who starts a job and who ends it.                                       *)
(***************************************************************************)

\* Only a claim makes a job RUNNING.
LEMMA OnlyClaimsStart ==
  ASSUME Inv, [Transaction]_vars, NEW j \in Job, jobStatus[j] # "RUNNING", jobStatus'[j] = "RUNNING"
  PROVE  \E n \in Runner : LeaseJob(n, j)
<1>1. CASE EndingAction
  BY <1>1, EndingActionEnds, EndStepFacts, Zenon DEF Reportable
<1>2. CASE \E n \in Runner, k \in Job : LeaseJob(n, k)
  <2> PICK n \in Runner, k \in Job : LeaseJob(n, k)
    BY Zenon, <1>2
  <2>1. jobStatus' = [jobStatus EXCEPT ![k] = "RUNNING"]
    BY Zenon DEF LeaseJob
  <2>2. k = j
    BY Zenon, <2>1 DEF Inv, TypeOK
  <2> QED
    BY Zenon, <2>2
<1>3. CASE UNCHANGED jobStatus
  BY Zenon, <1>3
<1> QED
  BY <1>1, <1>2, <1>3, Zenon
     DEF Transaction, CreateRun, RegisterRunner, HeartbeatJobLeases, CommitArtifacts,
         SupersedeRuns, ExpireArtifacts, Tick, vars

\* The step ends j, if at all, by giving it up.
Spares(j) ==
  jobStatus[j] \in {"RUNNING", "ABORTED"} => jobStatus'[j] \in {"RUNNING", "ABORTED"}

\* The report of one job does not end another that runs.
LEMMA CompleteJobSpares ==
  ASSUME Inv, NEW n \in Runner, NEW k \in Job, NEW g, NEW status \in Reportable,
         CompleteJob(n, k, g, status), NEW j \in Job, j # k
  PROVE  Spares(j)
<1> DEFINE reported == [jobStatus EXCEPT ![k] = status]
<1>1. reported \in [Job -> JobStatus] /\ reported[j] = jobStatus[j]
  BY Zenon DEF Inv, TypeOK, Reportable, JobStatus, JobTerminal, JobDidNotPass
<1>2. \/ jobStatus' = reported
      \/ jobStatus' = blockDependents(reported, {RunOf[k]})
  BY Zenon DEF CompleteJob
<1> HIDE DEF reported
<1>3. jobStatus'[j] = reported[j] \/ reported[j] = "PENDING"
  BY <1>1, <1>2, BlockDependentsFacts
<1> QED
  BY Zenon, <1>1, <1>3 DEF Spares

\* The sweeper and the recovery at start-up give up, and do nothing else.
LEMMA AbortJobsSpares ==
  ASSUME Inv, NEW lost \in SUBSET Job, AbortJobs(lost), NEW j \in Job
  PROVE  Spares(j)
<1> DEFINE aborted == [k \in Job |-> IF k \in lost THEN LostStatus ELSE jobStatus[k]]
           affected == {RunOf[k] : k \in lost}
<1>1. aborted \in [Job -> JobStatus] /\ aborted[j] \in {jobStatus[j], "ABORTED"}
  BY Zenon DEF Inv, TypeOK, LostStatus, JobStatus, JobTerminal, JobDidNotPass
<1>2. jobStatus' = blockDependents(aborted, affected)
  BY Zenon DEF AbortJobs
<1> HIDE DEF aborted, affected
<1>3. jobStatus'[j] = aborted[j] \/ aborted[j] = "PENDING"
  BY Zenon, <1>1, <1>2, BlockDependentsFacts
<1> QED
  BY Zenon, <1>1, <1>3 DEF Spares

\* Cancellation leaves the jobs that run to their runners.
LEMMA CancelSpares ==
  ASSUME Inv, NEW r \in Run, CancelQueued(r) \/ RequestCancel(r), NEW j \in Job
  PROVE  Spares(j)
BY Zenon DEF CancelQueued, RequestCancel, CancelPending, Spares

-----------------------------------------------------------------------------
(***************************************************************************)
(* The theorems.                                                           *)
(***************************************************************************)

\* Every column keeps a value its CHECK constraint admits.
THEOREM TypeCorrect == Spec => []TypeOK
<1>1. Inv => TypeOK
  BY Zenon DEF Inv
<1> QED
  BY <1>1, Invariance, PTL

\* job_lease_consistent never refuses a transaction: a job has a lease
\* exactly while it is RUNNING.
THEOREM LeasesAreConsistent == Spec => []LeaseConsistent
<1>1. Inv => LeaseConsistent
  BY Zenon DEF Inv
<1> QED
  BY <1>1, Invariance, PTL

\* No job is ever claimed twice, whatever leases expire and restarts happen.
THEOREM JobsAreNotReassigned == Spec => []NeverReassigned
<1>1. Inv => NeverReassigned
  BY Zenon DEF Inv
<1> QED
  BY <1>1, Invariance, PTL

\* A claimed job has all its predecessors PASSED, for every graph.
THEOREM JobsStartInOrder == Spec => []DependencyOrder
<1>1. Inv => DependencyOrder
  BY Zenon DEF Inv
<1> QED
  BY <1>1, Invariance, PTL

\* The inputs of a running job are committed and not about to be deleted.
THEOREM InputsStayAvailable == Spec => []InputsAvailable
<1>1. Inv => InputsAvailable
  BY Zenon DEF Inv
<1> QED
  BY <1>1, Invariance, PTL

\* Artifacts expire exactly when their run is over.
THEOREM RetentionIsTiedToRun == Spec => []RetentionFollowsRun
<1>1. Inv => RetentionFollowsRun
  BY Zenon DEF Inv
<1> QED
  BY <1>1, Invariance, PTL

\* No runner executes a job of a terminal run.
THEOREM TerminalRunsAreQuiet == Spec => []TerminalRunIsQuiet
<1>1. Inv => TerminalRunIsQuiet
  BY Zenon DEF Inv
<1> QED
  BY <1>1, Invariance, PTL

\* Every transaction is a step of the job lifecycle, or does not concern it.
LEMMA LifecycleStep ==
  Inv /\ [Transaction]_vars => [Lifecycle!Next]_(Lifecycle!lifecycleVars)
<1> SUFFICES ASSUME Inv, [Transaction]_vars
             PROVE  Lifecycle!Next \/ UNCHANGED <<runStatus, jobStatus>>
  BY Zenon DEF Lifecycle!lifecycleVars
<1> USE GraphAssumption, LifecycleDefs
<1>1. CASE EndingAction
  BY <1>1, EndingActionEnds, Zenon DEF EndStep, Lifecycle!Next
<1>2. CASE \E n \in Runner, j \in Job : LeaseJob(n, j)
  <2> PICK n \in Runner, j \in Job : LeaseJob(n, j)
    BY Zenon, <1>2
  <2>1. runStatus' = [runStatus EXCEPT ![RunOf[j]] = "RUNNING"]
    BY Zenon DEF LeaseJob, LeaseCandidate, OpenForClaims, RunActive, Inv, TypeOK
  <2>2. Lifecycle!Start(j)
    BY <2>1, Zenon DEF LeaseJob, LeaseCandidate, OpenForClaims, Ready, Lifecycle!Start
  <2> QED
    BY Zenon, <2>2 DEF Lifecycle!Next
<1>3. CASE \E r \in Run : CreateRun(r)
  <2> PICK r \in Run : CreateRun(r)
    BY Zenon, <1>3
  <2>1. Lifecycle!Submit(r)
    BY Zenon DEF CreateRun, Lifecycle!Submit
  <2> QED
    BY Zenon, <2>1 DEF Lifecycle!Next
<1>4. CASE \E R \in SUBSET Run : SupersedeRuns(R)
  <2> PICK R \in SUBSET Run : SupersedeRuns(R)
    BY Zenon, <1>4
  <2>1. runStatus' \in [Run -> RunStatus]
    BY Zenon, SupersedeRunsInv DEF Inv, TypeOK
  <2>2. Lifecycle!Supersede
    BY <2>1, Zenon DEF SupersedeRuns, Lifecycle!Supersede
  <2> QED
    BY Zenon, <2>2 DEF Lifecycle!Next
<1>5. CASE UNCHANGED <<runStatus, jobStatus>>
  BY Zenon, <1>5
<1> QED
  BY <1>1, <1>2, <1>3, <1>4, <1>5, Zenon
     DEF Transaction, RegisterRunner, HeartbeatJobLeases, CommitArtifacts,
         ExpireArtifacts, Tick, vars, runVars

\* The scheduler implements the job lifecycle.
THEOREM SchedulerImplementsLifecycle == Spec => ImplementsLifecycle
<1>1. Init => Lifecycle!Init
  BY DEF Init, Lifecycle!Init
<1>2. Spec => Lifecycle!Spec
  BY <1>1, LifecycleStep, NextIsTransaction, Invariance, PTL DEF Spec, Lifecycle!Spec
<1> QED
  BY Zenon, <1>2 DEF ImplementsLifecycle

\* No transaction changes a finished job or a finished run.
THEOREM FinishedIsFinal == Spec => TerminalIsFinal
<1>1. ASSUME Inv, [Next]_vars
      PROVE  /\ \A j \in Job : jobStatus[j] \in JobTerminal => jobStatus'[j] = jobStatus[j]
             /\ \A r \in Run : runStatus[r] \in RunTerminal => runStatus'[r] = runStatus[r]
  <2> USE LifecycleDefs DEF JobTerminal, JobDidNotPass, RunTerminal
  <2>1. Lifecycle!Next \/ UNCHANGED <<runStatus, jobStatus>>
    BY Zenon, <1>1, LifecycleStep, NextIsTransaction DEF Lifecycle!lifecycleVars
  <2>2. CASE Lifecycle!Settle
    <3>1. \A j \in Job : Lifecycle!EndsLegally(j)
      BY Zenon, <2>2 DEF Lifecycle!Settle
    <3>2. \A r \in Run : Lifecycle!DecidedLegally(r)
      BY Zenon, <2>2 DEF Lifecycle!Settle
    <3>3. \A j \in Job : jobStatus[j] \in JobTerminal => jobStatus'[j] = jobStatus[j]
      BY Zenon, <3>1 DEF Lifecycle!EndsLegally
    <3>4. \A r \in Run : runStatus[r] \in RunTerminal => runStatus'[r] = runStatus[r]
      BY Zenon, <3>2 DEF Lifecycle!DecidedLegally, RunActive
    <3> QED
      BY Zenon, <3>3, <3>4
  <2>3. CASE \E j \in Job : Lifecycle!Start(j)
    BY <1>1, <2>3, GraphAssumption DEF Lifecycle!Start, RunActive, Inv, TypeOK
  <2>4. CASE \E r \in Run : Lifecycle!Submit(r)
    BY Zenon, <1>1, <2>4 DEF Lifecycle!Submit, Inv, TypeOK
  <2>5. CASE Lifecycle!Supersede
    BY Zenon, <2>5 DEF Lifecycle!Supersede
  <2> QED
    BY Zenon, <2>1, <2>2, <2>3, <2>4, <2>5 DEF Lifecycle!Next
<1> QED
  BY <1>1, Invariance, PTL DEF Spec, TerminalIsFinal

\* No job starts once the cancellation of its run is requested.
THEOREM CanceledRunsStartNothing == Spec => NoClaimAfterCancel
<1>1. ASSUME Inv, [Next]_vars
      PROVE  \A j \in Job : jobStatus[j] # "RUNNING" /\ jobStatus'[j] = "RUNNING" =>
               ~cancelRequested'[RunOf[j]]
  BY <1>1, OnlyClaimsStart, NextIsTransaction, Zenon DEF LeaseJob, LeaseCandidate, OpenForClaims
<1> QED
  BY <1>1, Invariance, PTL DEF Spec, NoClaimAfterCancel

\* A lease that has run out stays so, and its job can only be aborted.
THEOREM ExpiredLeasesOnlyAbort == Spec => ExpiredLeaseOnlyAborts
<1>1. ASSUME Inv, [Next]_vars, NEW j \in Job, jobStatus[j] = "RUNNING", leaseLeft[j] = 0
      PROVE  leaseLeft'[j] = 0 /\ jobStatus'[j] \in {"RUNNING", "ABORTED"}
  <2> USE <1>1
  <2>1. CASE \E n \in Runner, k \in Job, g \in Generation, status \in Reportable :
               CompleteJob(n, k, g, status)
    <3> PICK n \in Runner, k \in Job, g \in Generation, status \in Reportable :
               CompleteJob(n, k, g, status)
      BY Zenon, <2>1
    <3>1. k # j
      BY DEF CompleteJob, HoldsLease, Inv, TypeOK
    <3>2. leaseLeft'[j] = 0
      BY Zenon DEF CompleteJob, ClearLeases
    <3> QED
      BY Zenon, <3>1, <3>2, CompleteJobSpares DEF Spares
  <2>2. ASSUME NEW lost \in SUBSET Job, AbortJobs(lost)
        PROVE  leaseLeft'[j] = 0 /\ jobStatus'[j] \in {"RUNNING", "ABORTED"}
    <3>1. leaseLeft'[j] = 0
      BY <2>2, Zenon DEF AbortJobs, ClearLeases
    <3> QED
      BY Zenon, <2>2, <3>1, AbortJobsSpares DEF Spares
  <2>3. CASE ExpireJobLeases \/ RecoverRemoteJobs
    BY Zenon, <2>2, <2>3 DEF ExpireJobLeases, RecoverRemoteJobs
  <2>4. CASE \E r \in Run : CancelQueued(r) \/ RequestCancel(r)
    BY Zenon, <2>4 DEF CancelQueued, RequestCancel, CancelPending, leaseVars
  <2>5. CASE \E n \in Runner, k \in Job : LeaseJob(n, k)
    BY <2>5 DEF LeaseJob, LeaseCandidate, Inv, TypeOK
  <2>6. CASE \E n \in Runner, L \in SUBSET (Job \X Generation) : HeartbeatJobLeases(n, L)
    BY <2>6 DEF HeartbeatJobLeases, HoldsLease, Inv, TypeOK
  <2>7. CASE Tick
    BY <2>7 DEF Tick
  <2>8. CASE UNCHANGED <<jobStatus, leaseLeft>>
    BY Zenon, <2>8
  <2> QED
    BY <2>1, <2>3, <2>4, <2>5, <2>6, <2>7, <2>8, Zenon
       DEF Next, CreateRun, RegisterRunner, CommitArtifacts, SupersedeRuns, ExpireArtifacts,
           vars, leaseVars
<1>2. ASSUME Inv, [Next]_vars
      PROVE  \A j \in Job : jobStatus[j] = "RUNNING" /\ leaseLeft[j] = 0 =>
               /\ leaseLeft'[j] = 0
               /\ jobStatus'[j] \in {"RUNNING", "ABORTED"}
  BY Zenon, <1>1, <1>2
<1> QED
  BY <1>2, Invariance, PTL DEF Spec, ExpiredLeaseOnlyAborts

-----------------------------------------------------------------------------
(***************************************************************************)
(* The two limits that a claim enforces by counting: the max_parallel of a *)
(* run and the capacity of a runner.                                       *)
(***************************************************************************)

\* Fewer jobs running keep within the limit.
LEMMA FewerRunning ==
  ASSUME RunParallelLimit, NEW r \in Run, RunningIn(r)' \subseteq RunningIn(r)
  PROVE  Cardinality(RunningIn(r)') <= MaxParallel[r]
<1>1. IsFiniteSet(RunningIn(r))
  BY GraphAssumption, FS_Subset, Zenon DEF RunningIn, JobsOf
<1>2. Cardinality(RunningIn(r)') <= Cardinality(RunningIn(r)) /\ IsFiniteSet(RunningIn(r)')
  BY Zenon, <1>1, FS_Subset
<1>3. Cardinality(RunningIn(r)') \in Nat /\ Cardinality(RunningIn(r)) \in Nat
  BY Zenon, <1>1, <1>2, FS_CardinalityType
<1>4. Cardinality(RunningIn(r)) <= MaxParallel[r] /\ MaxParallel[r] \in Nat
  BY Zenon, SchedulerAssumption DEF RunParallelLimit
<1> QED
  BY <1>2, <1>3, <1>4

\* A claim adds one running job to a run that had room for it.
LEMMA OneMoreRunning ==
  ASSUME Inv, NEW n \in Runner, NEW j \in Job, LeaseJob(n, j)
  PROVE  Cardinality(RunningIn(RunOf[j])') <= MaxParallel[RunOf[j]]
<1> DEFINE r == RunOf[j]
<1>1. /\ jobStatus[j] = "PENDING" /\ jobStatus' = [jobStatus EXCEPT ![j] = "RUNNING"]
      /\ Cardinality(RunningIn(r)) < MaxParallel[r]
  BY Zenon DEF LeaseJob, LeaseCandidate, Ready, HasRoom
<1>2. RunningIn(r)' = RunningIn(r) \cup {j} /\ j \notin RunningIn(r)
  <2>1. jobStatus \in [Job -> JobStatus]
    BY Zenon DEF Inv, TypeOK
  <2>2. \A k \in Job : jobStatus'[k] = IF k = j THEN "RUNNING" ELSE jobStatus[k]
    BY Zenon, <1>1, <2>1
  <2> QED
    BY Zenon, <1>1, <2>2 DEF RunningIn, JobsOf
<1>3. IsFiniteSet(RunningIn(r))
  BY GraphAssumption, FS_Subset, Zenon DEF RunningIn, JobsOf
<1>4. Cardinality(RunningIn(r)') = Cardinality(RunningIn(r)) + 1
  BY <1>2, <1>3, FS_AddElement, Zenon
<1>5. Cardinality(RunningIn(r)) \in Nat /\ MaxParallel[r] \in Nat
  BY Zenon, <1>3, FS_CardinalityType, GraphAssumption, SchedulerAssumption
<1> HIDE DEF r
<1>6. Cardinality(RunningIn(r)') <= MaxParallel[r]
  BY <1>1, <1>4, <1>5
<1> QED
  BY Zenon, <1>6 DEF r

\* As long as claims are atomic, the run's max_parallel is never exceeded.
THEOREM ParallelLimitHolds == Spec => []RunParallelLimit
<1>1. Init => RunParallelLimit
  <2> SUFFICES ASSUME Init, NEW r \in Run PROVE Cardinality(RunningIn(r)) <= MaxParallel[r]
    BY Zenon DEF RunParallelLimit
  <2>1. RunningIn(r) = {}
    BY Zenon, GraphAssumption DEF Init, RunningIn, JobsOf
  <2>2. Cardinality(RunningIn(r)) = 0
    BY <2>1, FS_EmptySet, Zenon
  <2>3. MaxParallel[r] \in Nat
    BY Zenon, SchedulerAssumption
  <2> QED
    BY <2>2, <2>3
<1>2. Inv /\ RunParallelLimit /\ [Next]_vars => RunParallelLimit'
  <2> SUFFICES ASSUME Inv, RunParallelLimit, [Next]_vars, NEW r \in Run
               PROVE  Cardinality(RunningIn(r)') <= MaxParallel[r]
    BY Zenon DEF RunParallelLimit
  <2>1. CASE RunningIn(r)' \subseteq RunningIn(r)
    BY Zenon, <2>1, FewerRunning
  <2>2. CASE \E j \in JobsOf(r) : jobStatus[j] # "RUNNING" /\ jobStatus'[j] = "RUNNING"
    <3> PICK j \in JobsOf(r) : jobStatus[j] # "RUNNING" /\ jobStatus'[j] = "RUNNING"
      BY Zenon, <2>2
    <3>1. j \in Job /\ RunOf[j] = r
      BY Zenon DEF JobsOf
    <3>2. PICK n \in Runner : LeaseJob(n, j)
      BY Zenon, <3>1, OnlyClaimsStart, NextIsTransaction
    <3> QED
      BY Zenon, <3>1, <3>2, OneMoreRunning
  <2> QED
    BY Zenon, <2>1, <2>2 DEF RunningIn, JobsOf
<1> QED
  BY <1>1, <1>2, Invariance, PTL DEF Spec

\* A claim leaves its runner within the capacity it registered.
THEOREM ClaimsRespectCapacity == Spec => ClaimWithinCapacity
<1> DEFINE Busy(n) == {j \in Job : jobStatus'[j] = "RUNNING" /\ owner'[j] = n}
<1>1. ASSUME Inv, [Next]_vars, NEW n \in Runner,
             NEW j \in Job, jobStatus[j] # "RUNNING", jobStatus'[j] = "RUNNING", owner'[j] = n
      PROVE  Cardinality(Busy(n)) <= registered[n].capacity
  <2> USE <1>1
  <2>1. PICK m \in Runner : LeaseJob(m, j)
    BY Zenon, OnlyClaimsStart, NextIsTransaction
  <2>2. m = n
    BY Zenon, <2>1 DEF LeaseJob, Inv, TypeOK
  <2>3. Busy(n) = RunningOn(n) \cup {j} /\ j \notin RunningOn(n)
    BY Zenon, <2>1, <2>2 DEF LeaseJob, RunningOn, Inv, TypeOK
  <2>4. IsFiniteSet(RunningOn(n))
    BY Zenon, GraphAssumption, FS_Subset DEF RunningOn
  <2>5. Cardinality(Busy(n)) = Cardinality(RunningOn(n)) + 1
    BY <2>3, <2>4, FS_AddElement, Zenon
  <2>6. Cardinality(RunningOn(n)) \in Nat /\ registered[n].capacity \in Nat
    BY Zenon, <2>4, FS_CardinalityType DEF Inv, TypeOK
  <2>7. Cardinality(RunningOn(n)) < registered[n].capacity
    BY Zenon, <2>1, <2>2 DEF LeaseJob
  <2> HIDE <1>1 DEF Busy
  <2> QED
    BY <2>5, <2>6, <2>7
<1>2. ASSUME Inv, [Next]_vars
      PROVE  \A n \in Runner :
               (\E j \in Job : jobStatus[j] # "RUNNING" /\ jobStatus'[j] = "RUNNING" /\ owner'[j] = n)
               => Cardinality({j \in Job : jobStatus'[j] = "RUNNING" /\ owner'[j] = n})
                    <= registered[n].capacity
  BY Zenon, <1>1, <1>2
<1> QED
  BY <1>2, Invariance, PTL DEF Spec, ClaimWithinCapacity

-----------------------------------------------------------------------------
(***************************************************************************)
(* The two promises of the job lifecycle hold for every set of runs and    *)
(* every dependency graph.  Whatever implements JobLifecycle has them.     *)
(***************************************************************************)
PromiseTypeOK == /\ runStatus \in [Run -> Lifecycle!RunStatus]
            /\ jobStatus \in [Job -> Lifecycle!JobStatus]

PromiseInv == PromiseTypeOK /\ Lifecycle!StartedInOrder /\ Lifecycle!VerdictIsEarned

\* A verdict of finalizeRun is a terminal status, and PASSED only when no
\* job ended in one of the four bad ways.
LEMMA PromisedVerdict ==
  ASSUME NEW js, NEW cancel \in BOOLEAN, NEW r \in Run
  PROVE  /\ Lifecycle!Outcome(js, cancel, r) \in Lifecycle!RunTerminal
         /\ Lifecycle!Outcome(js, cancel, r) = "PASSED" =>
              \A j \in Lifecycle!JobsOf(r) : js[j] \notin {"ERROR", "ABORTED", "FAILED", "BLOCKED"}
BY Zenon DEF Lifecycle!Outcome, Lifecycle!RunTerminal

\* In an initial state nothing has started and no run has a verdict.
LEMMA PromiseInit == Lifecycle!Init => PromiseInv
BY Zenon, GraphAssumption
   DEF Lifecycle!Init, PromiseInv, PromiseTypeOK, Lifecycle!StartedInOrder, Lifecycle!VerdictIsEarned,
       Lifecycle!RunStatus, Lifecycle!RunActive, Lifecycle!RunTerminal, Lifecycle!JobStatus, Lifecycle!JobUnfinished

\* A finished job keeps its status in every step.
LEMMA PromiseFinal ==
  ASSUME PromiseTypeOK, [Lifecycle!Next]_(Lifecycle!lifecycleVars), NEW j \in Job, jobStatus[j] \in Lifecycle!JobTerminal
  PROVE  jobStatus'[j] = jobStatus[j]
<1>1. CASE \E k \in Job : Lifecycle!Start(k)
  BY Zenon, <1>1 DEF Lifecycle!Start, PromiseTypeOK, Lifecycle!JobTerminal, Lifecycle!JobDidNotPass
<1>2. CASE Lifecycle!Settle
  BY Zenon, <1>2 DEF Lifecycle!Settle, Lifecycle!EndsLegally, Lifecycle!JobTerminal, Lifecycle!JobDidNotPass
<1>3. CASE UNCHANGED jobStatus
  BY Zenon, <1>3
<1> QED
  BY Zenon, <1>1, <1>2, <1>3 DEF Lifecycle!Next, Lifecycle!Submit, Lifecycle!Supersede, Lifecycle!lifecycleVars

\* No step breaks the invariant.
LEMMA PromiseStep == PromiseInv /\ [Lifecycle!Next]_(Lifecycle!lifecycleVars) => PromiseInv'
<1> SUFFICES ASSUME PromiseInv, [Lifecycle!Next]_(Lifecycle!lifecycleVars) PROVE PromiseInv'
  BY Zenon
<1> USE GraphAssumption DEF PromiseInv, PromiseTypeOK
<1>1. CASE \E r \in Run : Lifecycle!Submit(r)
  <2> PICK r \in Run : Lifecycle!Submit(r)
    BY Zenon, <1>1
  <2> QED
    BY Zenon DEF Lifecycle!Submit, Lifecycle!StartedInOrder, Lifecycle!VerdictIsEarned,
       Lifecycle!RunStatus, Lifecycle!RunActive, Lifecycle!RunTerminal
<1>2. CASE \E j \in Job : Lifecycle!Start(j)
  <2> PICK k \in Job : Lifecycle!Start(k)
    BY Zenon, <1>2
  <2>1. PromiseTypeOK'
    BY Zenon DEF Lifecycle!Start, Lifecycle!RunStatus, Lifecycle!RunActive, Lifecycle!JobStatus, Lifecycle!JobUnfinished
  <2>2. Lifecycle!StartedInOrder'
    <3> SUFFICES ASSUME NEW j \in Job, jobStatus'[j] \notin {"PENDING", "BLOCKED", "CANCELED"},
                        NEW d \in Needs[j]
                 PROVE  jobStatus'[d] = "PASSED"
      BY Zenon DEF Lifecycle!StartedInOrder
    <3>1. /\ jobStatus[k] = "PENDING" /\ jobStatus' = [jobStatus EXCEPT ![k] = "RUNNING"]
          /\ \A e \in Needs[k] : jobStatus[e] = "PASSED"
      BY Zenon DEF Lifecycle!Start
    <3>2. jobStatus[d] = "PASSED"
      <4>1. CASE j = k
        BY Zenon, <3>1, <4>1
      <4>2. CASE j # k
        BY Zenon, <3>1, <4>2 DEF Lifecycle!StartedInOrder
      <4> QED
        BY Zenon, <4>1, <4>2
    <3>3. d \in Job /\ d # k
      BY Zenon, <3>1, <3>2
    <3> QED
      BY Zenon, <3>1, <3>2, <3>3
  <2>3. Lifecycle!VerdictIsEarned'
    BY Zenon DEF Lifecycle!Start, Lifecycle!VerdictIsEarned, Lifecycle!RunTerminal, Lifecycle!RunActive
  <2> QED
    BY Zenon, <2>1, <2>2, <2>3
<1>3. CASE Lifecycle!Settle
  <2>1. PromiseTypeOK'
    BY Zenon, <1>3 DEF Lifecycle!Settle
  <2>2. Lifecycle!StartedInOrder'
    <3> SUFFICES ASSUME NEW j \in Job, jobStatus'[j] \notin {"PENDING", "BLOCKED", "CANCELED"},
                        NEW d \in Needs[j]
                 PROVE  jobStatus'[d] = "PASSED"
      BY Zenon DEF Lifecycle!StartedInOrder
    <3>1. Lifecycle!EndsLegally(j) /\ Lifecycle!EndsLegally(d)
      BY Zenon, <1>3 DEF Lifecycle!Settle
    <3>2. jobStatus[j] \notin {"PENDING", "BLOCKED", "CANCELED"}
      BY Zenon, <3>1 DEF Lifecycle!EndsLegally
    <3>3. jobStatus[d] = "PASSED"
      BY Zenon, <3>2 DEF Lifecycle!StartedInOrder
    <3> QED
      BY Zenon, <3>1, <3>3 DEF Lifecycle!EndsLegally
  <2>3. Lifecycle!VerdictIsEarned'
    <3> SUFFICES ASSUME NEW j \in Job
                 PROVE  /\ runStatus'[RunOf[j]] \in Lifecycle!RunTerminal \ {"CANCELED"} =>
                             jobStatus'[j] \in Lifecycle!JobTerminal
                        /\ runStatus'[RunOf[j]] = "PASSED" =>
                             jobStatus'[j] \in {"PASSED", "CANCELED"}
      BY Zenon DEF Lifecycle!VerdictIsEarned
    <3> DEFINE r == RunOf[j]
    <3>1. r \in Run /\ j \in Lifecycle!JobsOf(r)
      BY Zenon DEF Lifecycle!JobsOf
    <3>2. CASE runStatus'[r] = runStatus[r]
      BY Zenon, <1>3, <3>2, PromiseFinal
         DEF Lifecycle!VerdictIsEarned, Lifecycle!JobTerminal, Lifecycle!JobDidNotPass, Lifecycle!RunTerminal
    <3>3. CASE /\ \A k \in Lifecycle!JobsOf(r) : jobStatus'[k] \in Lifecycle!JobTerminal
               /\ \E cancel \in BOOLEAN : runStatus'[r] = Lifecycle!Outcome(jobStatus', cancel, r)
      <4>1. jobStatus'[j] \in Lifecycle!JobTerminal
        BY Zenon, <3>1, <3>3
      <4>2. runStatus'[r] = "PASSED" =>
              jobStatus'[j] \notin {"ERROR", "ABORTED", "FAILED", "BLOCKED"}
        <5>1. PICK cancel \in BOOLEAN : runStatus'[r] = Lifecycle!Outcome(jobStatus', cancel, r)
          BY Zenon, <3>3
        <5>2. Lifecycle!Outcome(jobStatus', cancel, r) = "PASSED" =>
                \A k \in Lifecycle!JobsOf(r) :
                  jobStatus'[k] \notin {"ERROR", "ABORTED", "FAILED", "BLOCKED"}
          BY Zenon, <3>1, PromisedVerdict
        <5> QED
          BY Zenon, <3>1, <5>1, <5>2
      <4> QED
        BY Zenon, <4>1, <4>2 DEF Lifecycle!JobTerminal, Lifecycle!JobDidNotPass
    <3> QED
      BY Zenon, <1>3, <3>1, <3>2, <3>3 DEF Lifecycle!Settle, Lifecycle!DecidedLegally
  <2> QED
    BY Zenon, <2>1, <2>2, <2>3
<1>4. CASE Lifecycle!Supersede
  BY <1>4 DEF Lifecycle!Supersede, Lifecycle!StartedInOrder, Lifecycle!VerdictIsEarned, Lifecycle!RunTerminal
<1>5. CASE UNCHANGED Lifecycle!lifecycleVars
  BY Zenon, <1>5 DEF Lifecycle!lifecycleVars, Lifecycle!StartedInOrder, Lifecycle!VerdictIsEarned
<1> QED
  BY Zenon, <1>1, <1>2, <1>3, <1>4, <1>5 DEF Lifecycle!Next

\* For every dependency graph, a job that was handed to a runner had all its
\* predecessors PASSED (the NOT EXISTS of the claim query).
THEOREM LifecycleOrder == Lifecycle!Spec => []Lifecycle!StartedInOrder
<1>1. PromiseInv => Lifecycle!StartedInOrder
  BY Zenon DEF PromiseInv
<1> QED
  BY <1>1, PromiseInit, PromiseStep, PTL DEF Lifecycle!Spec

\* For every dependency graph, no run has a verdict other than CANCELED before
\* its jobs ended, and PASSED hides no failed, blocked or lost job.
THEOREM LifecycleVerdict == Lifecycle!Spec => []Lifecycle!VerdictIsEarned
<1>1. PromiseInv => Lifecycle!VerdictIsEarned
  BY Zenon DEF PromiseInv
<1> QED
  BY <1>1, PromiseInit, PromiseStep, PTL DEF Lifecycle!Spec
=============================================================================
