---------------------------- MODULE JobScheduler ----------------------------
(***************************************************************************)
(* The control plane of ForgeCI in remote execution mode: the durable      *)
(* tables pipeline_runs, job_runs, runners and artifacts, and every        *)
(* transaction that writes them.  One action is one committed transaction; *)
(* a transaction that returns an error rolls back and is a stuttering      *)
(* step.  Module SchedulerTransactions opens the transactions up.          *)
(*                                                                         *)
(* Time is relative: leaseLeft[j] is how long the lease of j still lasts   *)
(* and idle[n] how long ago runner n was last seen, both in units of which *)
(* LeaseTTL make up jobLeaseTTL.                                           *)
(***************************************************************************)
EXTENDS PipelineRun

CONSTANTS
  Runner,        \* runner ids
  NoRunner,      \* the NULL of job_runs.runner_id
  MaxParallel,   \* MaxParallel[r]: pipeline_runs.max_parallel
  ImageJob,      \* jobs with a container image (image IS NOT NULL)
  UploadJob,     \* jobs that declare artifacts to upload
  PullRequestRun,\* runs with a scm_run_triggers row of a pull request
  Generation,    \* the lease generations a request may carry
  Registration,  \* Registration[n]: what runner n may register with
  LeaseTTL       \* jobLeaseTTL

ASSUME SchedulerAssumption ==
  /\ MaxParallel \in [Run -> Nat \ {0}]
  /\ ImageJob \subseteq Job
  /\ UploadJob \subseteq Job
  /\ PullRequestRun \subseteq Run
  /\ NoRunner \notin Runner
  /\ Registration \in [Runner -> SUBSET [capacity : Nat \ {0}, docker : BOOLEAN]]
  /\ LeaseTTL \in Nat \ {0}
  /\ Generation \subseteq Nat \ {0}

VARIABLES
  runStatus,       \* pipeline_runs.status, "NONE" before the row exists
  cancelRequested, \* pipeline_runs.cancel_requested_at IS NOT NULL
  jobStatus,       \* job_runs.status
  owner,           \* job_runs.runner_id
  leased,          \* job_runs.lease_id IS NOT NULL
  generation,      \* job_runs.lease_generation; lease ids and generations
                   \* of a job are in one-to-one correspondence
  leaseLeft,       \* job_runs.lease_expires_at - now, 0 once it has passed
  artifacts,       \* the artifact set of the job: see ArtifactStates
  runnerStatus,    \* runners.status, "NONE" before the row exists
  registered,      \* runners.max_parallel and runners.docker_available
  idle             \* now - runners.last_seen_at

runVars    == <<runStatus, cancelRequested>>
leaseVars  == <<owner, leased, generation, leaseLeft>>
runnerVars == <<runnerStatus, registered, idle>>
vars == <<runVars, jobStatus, leaseVars, artifacts, runnerVars>>

-----------------------------------------------------------------------------
\* "kept": rows without expires_at; "expiring": expires_at set;
\* "deleted": deleted_at set.
ArtifactStates == {"none", "kept", "expiring", "deleted"}
RunnerStates   == {"NONE", "ONLINE", "OFFLINE"}

\* What count(*) of the claim counts: the jobs runner n executes.
RunningOn(n) == {j \in Job : owner[j] = n /\ jobStatus[j] = "RUNNING"}

RunningIn(r) == {j \in JobsOf(r) : jobStatus[j] = "RUNNING"}

-----------------------------------------------------------------------------
(***************************************************************************)
(* The helpers the transactions share.  js is the status of every job at   *)
(* that point of the transaction.                                          *)
(***************************************************************************)

\* The runs among R that the transaction turns terminal.
FinalizedNonePending(js, R) ==
  {r \in R : /\ runStatus[r] \in RunActive
             /\ \A j \in JobsOf(r) : js[j] # "PENDING"}
Finalized(js, R) ==
  {r \in R : /\ runStatus[r] \in RunActive
             /\ \A j \in JobsOf(r) : js[j] \notin JobUnfinished}

\* The artifacts of a run get their expiry when the run turns terminal.
ExpiryAfter(js, R) ==
  [j \in Job |-> IF RunOf[j] \in Finalized(js, R) /\ artifacts[j] = "kept"
                 THEN "expiring" ELSE artifacts[j]]

\* finalizeRun for every run of R.
finalizeRun(js, cancel, R) ==
  /\ runStatus' = [r \in Run |-> IF r \in Finalized(js, R)
                                 THEN Outcome(js, cancel[r], r)
                                 ELSE runStatus[r]]
  /\ artifacts' = ExpiryAfter(js, R)

\* The exact, unexpired tuple a runner must present.
HoldsLeaseOnce(n, j, g) ==
  /\ jobStatus[j] = "RUNNING"
  /\ leased[j] /\ owner[j] = n /\ generation[j] = g
HoldsLease(n, j, g) ==
  /\ jobStatus[j] = "RUNNING"
  /\ leased[j] /\ owner[j] = n /\ generation[j] = g
  /\ leaseLeft[j] > 0

\* lease_id = NULL, lease_expires_at = NULL for the jobs in S; the runner id
\* and the generation stay.
ClearLeases(S) ==
  /\ leased' = [j \in Job |-> leased[j] /\ j \notin S]
  /\ leaseLeft' = [j \in Job |-> IF j \in S THEN 0 ELSE leaseLeft[j]]

-----------------------------------------------------------------------------
Init ==
  /\ runStatus = [r \in Run |-> "NONE"]
  /\ cancelRequested = [r \in Run |-> FALSE]
  /\ jobStatus = [j \in Job |-> "PENDING"]
  /\ owner = [j \in Job |-> NoRunner]
  /\ leased = [j \in Job |-> FALSE]
  /\ generation = [j \in Job |-> 0]
  /\ leaseLeft = [j \in Job |-> 0]
  /\ artifacts = [j \in Job |-> "none"]
  /\ runnerStatus = [n \in Runner |-> "NONE"]
  /\ registered = [n \in Runner |-> [capacity |-> 1, docker |-> FALSE]]
  /\ idle = [n \in Runner |-> 0]

CreateRun(r) ==
  /\ runStatus[r] = "NONE"
  /\ runStatus' = [runStatus EXCEPT ![r] = "QUEUED"]
  /\ UNCHANGED <<cancelRequested, jobStatus, leaseVars, artifacts, runnerVars>>

RegisterRunner(n) ==
  \E config \in Registration[n] :
    /\ registered' = [registered EXCEPT ![n] = config]
    /\ runnerStatus' = [runnerStatus EXCEPT ![n] = "ONLINE"]
    /\ idle' = [idle EXCEPT ![n] = 0]
    /\ UNCHANGED <<runVars, jobStatus, leaseVars, artifacts>>

\* The conditions of the claim query on the run, ...
OpenForClaims(r) == runStatus[r] \in RunActive /\ ~cancelRequested[r]

\* ... on the predecessors of the job, ...
ReadyUnlessFailed(j) == \A d \in Needs[j] : jobStatus[d] \notin JobDidNotPass
Ready(j) == \A d \in Needs[j] : jobStatus[d] = "PASSED"

\* ... and on the number of jobs of the run that are running.
HasRoomAtFirst(r) ==
  Cardinality({j \in JobsOf(r) : jobStatus[j] # "PENDING"}) < MaxParallel[r]
HasRoomForOneMore(r) == Cardinality(RunningIn(r)) <= MaxParallel[r]
HasRoom(r) == Cardinality(RunningIn(r)) < MaxParallel[r]

\* The claim query takes the first candidate in creation order whose rows no
\* other transaction has locked (SKIP LOCKED); with the locks of concurrent
\* transactions that may be any candidate.
LeaseCandidate(n, j) ==
  /\ OpenForClaims(RunOf[j])
  /\ jobStatus[j] = "PENDING"
  /\ registered[n].docker \/ j \notin ImageJob
  /\ Ready(j)
  /\ HasRoom(RunOf[j])

LeaseJob(n, j) ==
  /\ runnerStatus[n] = "ONLINE"
  /\ Cardinality(RunningOn(n)) < registered[n].capacity
  /\ LeaseCandidate(n, j)
  /\ jobStatus' = [jobStatus EXCEPT ![j] = "RUNNING"]
  /\ owner' = [owner EXCEPT ![j] = n]
  /\ leased' = [leased EXCEPT ![j] = TRUE]
  /\ generation' = [generation EXCEPT ![j] = @ + 1]
  /\ leaseLeft' = [leaseLeft EXCEPT ![j] = LeaseTTL]
  /\ runStatus' = [runStatus EXCEPT ![RunOf[j]] = IF @ = "QUEUED" THEN "RUNNING" ELSE @]
  /\ UNCHANGED <<cancelRequested, artifacts, runnerVars>>

\* One heartbeat of runner n that lists the leases <<job, generation>> in L.
\* The exact ones are renewed, the others are answered invalid.
HeartbeatJobLeases(n, L) ==
  /\ runnerStatus[n] # "NONE"
  /\ runnerStatus' = [runnerStatus EXCEPT ![n] = "ONLINE"]
  /\ idle' = [idle EXCEPT ![n] = 0]
  /\ leaseLeft' = [j \in Job |-> IF /\ <<j, generation[j]>> \in L
                                    /\ HoldsLease(n, j, generation[j])
                                 THEN LeaseTTL ELSE leaseLeft[j]]
  /\ UNCHANGED <<runVars, jobStatus, owner, leased, generation, artifacts, registered>>

\* The declared set is inserted as a whole, once; a replay of the same set
\* changes nothing and a different one is refused.
CommitArtifacts(n, j, g) ==
  /\ runStatus[RunOf[j]] = "RUNNING"
  /\ HoldsLease(n, j, g)
  /\ j \in UploadJob /\ artifacts[j] = "none"
  /\ artifacts' = [artifacts EXCEPT ![j] = "kept"]
  /\ UNCHANGED <<runVars, jobStatus, leaseVars, runnerVars>>

\* The names declared by the job are exactly the names of its live artifacts.
artifactSetCommittedTxSkipped(j) == TRUE
artifactSetCommittedTx(j) ==
  j \in UploadJob <=> artifacts[j] \in {"kept", "expiring"}

CompleteJob(n, j, g, status) ==
  LET reported == [jobStatus EXCEPT ![j] = status]
      js == IF status = "PASSED" THEN reported
            ELSE blockDependents(reported, {RunOf[j]})
  IN  /\ status \in Reportable
      /\ HoldsLease(n, j, g)
      /\ status = "PASSED" => artifactSetCommittedTx(j)
      /\ jobStatus' = js
      /\ ClearLeases({j})
      /\ finalizeRun(js, cancelRequested, {RunOf[j]})
      /\ UNCHANGED <<cancelRequested, owner, generation, runnerVars>>

\* What becomes of a job whose runner is lost.
LostStatusRetried == "PENDING"
LostStatus == "ABORTED"

\* LostStatus for the jobs in lost, whose leases are gone, and what follows from
\* it for their runs.  Shared by the sweeper and the recovery at start-up.
AbortJobs(lost) ==
  LET aborted == [j \in Job |-> IF j \in lost THEN LostStatus ELSE jobStatus[j]]
      affected == {RunOf[j] : j \in lost}
      js == blockDependents(aborted, affected)
  IN  /\ jobStatus' = js
      /\ ClearLeases(lost)
      /\ finalizeRun(js, cancelRequested, affected)
      /\ UNCHANGED <<cancelRequested, owner, generation>>

\* The sweeper: RUNNING jobs whose lease has run out, then silent runners.
ExpireJobLeases ==
  /\ AbortJobs({j \in Job : /\ jobStatus[j] = "RUNNING"
                            /\ leased[j] /\ leaseLeft[j] = 0})
  /\ runnerStatus' = [n \in Runner |-> IF runnerStatus[n] # "NONE" /\ idle[n] > LeaseTTL
                                       THEN "OFFLINE" ELSE runnerStatus[n]]
  /\ UNCHANGED <<registered, idle>>

\* The control plane restarts: every RUNNING job is uncertain.
RecoverRemoteJobs ==
  /\ AbortJobs({j \in Job : jobStatus[j] = "RUNNING"})
  /\ UNCHANGED runnerVars

\* The status of every job once the unfinished ones of run r are canceled.
CancelAll(r) ==
  [j \in Job |-> IF RunOf[j] = r /\ jobStatus[j] # "RUNNING"
                 THEN "CANCELED" ELSE jobStatus[j]]
CancelPending(r) ==
  [j \in Job |-> IF RunOf[j] = r /\ jobStatus[j] = "PENDING"
                 THEN "CANCELED" ELSE jobStatus[j]]

CancelQueued(r) ==
  /\ runStatus[r] = "QUEUED"
  /\ runStatus' = [runStatus EXCEPT ![r] = "CANCELED"]
  /\ cancelRequested' = [cancelRequested EXCEPT ![r] = TRUE]
  /\ jobStatus' = CancelPending(r)
  /\ UNCHANGED <<leaseVars, artifacts, runnerVars>>

RequestCancel(r) ==
  LET cancel == [cancelRequested EXCEPT ![r] = TRUE]
  IN  /\ runStatus[r] = "RUNNING"
      /\ cancelRequested' = cancel
      /\ jobStatus' = CancelPending(r)
      /\ finalizeRun(CancelPending(r), cancel, {r})
      /\ UNCHANGED <<leaseVars, runnerVars>>

\* The part of CreateSCMDelivery that touches runs: a newer delivery of a
\* pull request supersedes the active runs R of the older ones.
SupersedeRuns(R) ==
  /\ R \subseteq PullRequestRun
  /\ \E r \in R : runStatus[r] \in RunActive
  /\ runStatus' = [r \in Run |-> IF r \in R /\ runStatus[r] = "QUEUED"
                                 THEN "CANCELED" ELSE runStatus[r]]
  /\ cancelRequested' = [r \in Run |->
                          cancelRequested[r] \/ (r \in R /\ runStatus[r] = "RUNNING")]
  /\ UNCHANGED <<jobStatus, leaseVars, artifacts, runnerVars>>

\* The retention of the terminal runs R is over.
ExpireArtifacts(R) ==
  /\ \E j \in Job : RunOf[j] \in R /\ artifacts[j] = "expiring"
  /\ artifacts' = [j \in Job |-> IF RunOf[j] \in R /\ artifacts[j] = "expiring"
                                 THEN "deleted" ELSE artifacts[j]]
  /\ UNCHANGED <<runVars, jobStatus, leaseVars, runnerVars>>

Tick ==
  /\ leaseLeft' = [j \in Job |-> IF leaseLeft[j] > 0 THEN leaseLeft[j] - 1 ELSE 0]
  /\ idle' = [n \in Runner |-> IF runnerStatus[n] # "NONE" /\ idle[n] <= LeaseTTL
                               THEN idle[n] + 1 ELSE idle[n]]
  /\ UNCHANGED <<runVars, jobStatus, owner, leased, generation, artifacts,
                 runnerStatus, registered>>

-----------------------------------------------------------------------------
Next ==
  \/ \E r \in Run : CreateRun(r) \/ CancelQueued(r) \/ RequestCancel(r)
  \/ \E n \in Runner : RegisterRunner(n)
  \/ \E n \in Runner, j \in Job : LeaseJob(n, j)
  \/ \E n \in Runner, L \in SUBSET (Job \X Generation) : HeartbeatJobLeases(n, L)
  \/ \E n \in Runner, j \in Job, g \in Generation : CommitArtifacts(n, j, g)
  \/ \E n \in Runner, j \in Job, g \in Generation, status \in Reportable :
       CompleteJob(n, j, g, status)
  \/ ExpireJobLeases
  \/ RecoverRemoteJobs
  \/ \E R \in SUBSET Run : SupersedeRuns(R) \/ ExpireArtifacts(R)
  \/ Tick

Spec == Init /\ [][Next]_vars

(***************************************************************************)
(* Fairness.  The sweeper is a ticker loop and time passes.  A runner that *)
(* never registered registers; a registered one heartbeats every 10 s and  *)
(* keeps polling for work, woken by Notify whenever a transaction may have *)
(* made a job claimable, so a claim that is possible again and again is    *)
(* made.  A job's commands end: a runner that keeps its lease reports.     *)
(***************************************************************************)
ReportsEventually(j) ==
  \E n \in Runner, g \in Generation, status \in Reportable : CompleteJob(n, j, g, status)

Fairness ==
  /\ WF_vars(Tick)
  /\ WF_vars(ExpireJobLeases)
  /\ \A n \in Runner : WF_vars(runnerStatus[n] = "NONE" /\ RegisterRunner(n))
  /\ \A n \in Runner :
       WF_vars(\E L \in SUBSET (Job \X Generation) : HeartbeatJobLeases(n, L))
  /\ \A n \in Runner : SF_vars(\E j \in Job : LeaseJob(n, j))
  /\ \A j \in Job : WF_vars(ReportsEventually(j))

FairSpec == Spec /\ Fairness

-----------------------------------------------------------------------------
(***************************************************************************)
(* Properties.                                                             *)
(***************************************************************************)

\* Every column holds a value its CHECK constraint admits.
TypeOK ==
  /\ runStatus \in [Run -> RunStatus]
  /\ cancelRequested \in [Run -> BOOLEAN]
  /\ jobStatus \in [Job -> JobStatus]
  /\ owner \in [Job -> Runner \cup {NoRunner}]
  /\ leased \in [Job -> BOOLEAN]
  /\ generation \in [Job -> Nat]
  /\ leaseLeft \in [Job -> 0 .. LeaseTTL]
  /\ artifacts \in [Job -> ArtifactStates]
  /\ runnerStatus \in [Runner -> RunnerStates]
  /\ registered \in [Runner -> [capacity : Nat \ {0}, docker : BOOLEAN]]
  /\ idle \in [Runner -> 0 .. LeaseTTL + 1]

\* The constraint job_lease_consistent: a job has a lease exactly while it is
\* RUNNING, and the lease names a runner and has a generation.
LeaseConsistent ==
  \A j \in Job :
    /\ leased[j] <=> jobStatus[j] = "RUNNING"
    /\ leased[j] => owner[j] \in Runner /\ generation[j] > 0
    /\ ~leased[j] => leaseLeft[j] = 0

\* A job that ran is never claimed again: lost ownership ends in ABORTED, and
\* neither the sweeper, the recovery nor a late report makes it PENDING.
NeverReassigned ==
  \A j \in Job : /\ generation[j] <= 1
                 /\ jobStatus[j] = "PENDING" => generation[j] = 0
                 /\ generation[j] = 0 => jobStatus[j] \in {"PENDING", "BLOCKED", "CANCELED"}

\* A job that was ever claimed had all its predecessors PASSED, and they
\* still are.
DependencyOrder ==
  \A j \in Job : generation[j] > 0 => \A d \in Needs[j] : jobStatus[d] = "PASSED"

\* While a job runs, the artifacts its predecessors declared are committed
\* and are not on their way to deletion.
InputsAvailable ==
  \A j \in Job : jobStatus[j] = "RUNNING" =>
    \A d \in Needs[j] \cap UploadJob : artifacts[d] = "kept"

\* The artifacts of a run have no expiry while it is active and all have one
\* once it is terminal: none is deleted early and none is kept for ever.
RetentionFollowsRun ==
  \A j \in Job : /\ artifacts[j] = "kept" => runStatus[RunOf[j]] = "RUNNING"
                 /\ artifacts[j] \in {"expiring", "deleted"} =>
                      runStatus[RunOf[j]] \in RunTerminal

\* The claim enforces the run's max_parallel.
RunParallelLimit ==
  \A r \in Run : Cardinality(RunningIn(r)) <= MaxParallel[r]

\* A terminal run has no job that a runner still executes, and none that is
\* still PENDING unless a newer pull request delivery superseded the run.
TerminalRunIsQuiet ==
  \A j \in Job : runStatus[RunOf[j]] \in RunTerminal =>
    \/ jobStatus[j] \in JobTerminal
    \/ jobStatus[j] = "PENDING" /\ RunOf[j] \in PullRequestRun

\* A terminal run's status says the worst that its jobs came to, in the
\* documented order of precedence, for as long as the run is kept.
VerdictMatches(r) ==
  LET has(S) == \E j \in JobsOf(r) : jobStatus[j] \in S
  IN  /\ runStatus[r] = "ERROR" <=> runStatus[r] \in RunTerminal /\ has({"ERROR"})
      /\ runStatus[r] = "ABORTED" => has({"ABORTED"}) /\ ~has({"ERROR"})
      /\ runStatus[r] = "CANCELED" => ~has({"ERROR", "ABORTED"})
      /\ runStatus[r] = "FAILED" =>
           has({"FAILED", "BLOCKED"}) /\ ~has({"ERROR", "ABORTED"}) /\ ~cancelRequested[r]
      /\ runStatus[r] = "PASSED" =>
           ~has({"ERROR", "ABORTED", "FAILED", "BLOCKED"}) /\ ~cancelRequested[r]

VerdictMatchesJobs == \A r \in Run : VerdictMatches(r)

\* An active run can always move: a runner executes one of its jobs, or a
\* PENDING job has all its predecessors PASSED and the run is not canceled.
\* In particular no failure leaves a dependent PENDING for ever and no run
\* stays RUNNING after its last job.
CanMove(r) ==
  \E j \in JobsOf(r) :
    \/ jobStatus[j] = "RUNNING"
    \/ /\ jobStatus[j] = "PENDING" /\ ~cancelRequested[r]
       /\ Ready(j)

NoDeadEnd ==
  \A r \in Run \ PullRequestRun : runStatus[r] \in RunActive => CanMove(r)

\* No transaction, in whatever order, changes a finished job or run.
TerminalIsFinal ==
  [][/\ \A j \in Job : jobStatus[j] \in JobTerminal => jobStatus'[j] = jobStatus[j]
     /\ \A r \in Run : runStatus[r] \in RunTerminal => runStatus'[r] = runStatus[r]]_vars

\* Once a lease has run out nothing renews it, and no report of its runner
\* counts: the job can only become ABORTED.
ExpiredLeaseOnlyAborts ==
  [][\A j \in Job : jobStatus[j] = "RUNNING" /\ leaseLeft[j] = 0 =>
       /\ leaseLeft'[j] = 0
       /\ jobStatus'[j] \in {"RUNNING", "ABORTED"}]_vars

\* From the moment its cancellation is requested, no job of a run starts.
NoClaimAfterCancel ==
  [][\A j \in Job : jobStatus[j] # "RUNNING" /\ jobStatus'[j] = "RUNNING" =>
       ~cancelRequested'[RunOf[j]]]_vars

\* A claim never takes a runner past the capacity it registered.  (A runner
\* that registers again with less may have more jobs than that for a while.)
ClaimWithinCapacity ==
  [][\A n \in Runner :
       (\E j \in Job : jobStatus[j] # "RUNNING" /\ jobStatus'[j] = "RUNNING" /\ owner'[j] = n)
       => Cardinality({j \in Job : jobStatus'[j] = "RUNNING" /\ owner'[j] = n})
            <= registered[n].capacity]_vars

\* Every transaction makes only transitions of the job lifecycle.
Lifecycle == INSTANCE JobLifecycle
ImplementsLifecycle == Lifecycle!Spec

\* Every submitted run comes to an end, whatever runners crash, leases expire
\* and restarts happen on the way.
EveryRunEnds ==
  \A r \in Run : runStatus[r] = "QUEUED" ~> runStatus[r] \in RunTerminal

\* docs/github-scm.md: a running run that a newer pull request delivery
\* supersedes receives "the normal cancellation request", so it ends the way
\* RequestCancel makes a run end.
SupersededRunStops ==
  \A r \in Run : cancelRequested[r] ~> runStatus[r] \in RunTerminal
=============================================================================
