---------------------------- MODULE LocalManager ----------------------------
(***************************************************************************)
(* The server in local mode: the manager of the control plane with its     *)
(* dispatcher goroutine, which claims one queued run at a time and         *)
(* executes it with the loop of DirectRunner, the observer that writes     *)
(* every change of a job to the database, and the API calls that submit    *)
(* and cancel runs meanwhile.                                              *)
(*                                                                         *)
(* A step is one transaction, one critical section of the manager's mutex, *)
(* or one step of the loop together with the UpdateJob its observer makes. *)
(* A call of the database or of an executor may fail, and the process may  *)
(* be killed and started again, MaxFailures times together.                *)
(***************************************************************************)
EXTENDS DirectRunner

CONSTANTS
  UploadJob,     \* the jobs that declare artifacts
  Client,        \* the concurrent calls of Cancel
  Backlog,       \* the runs that are queued when the server starts, oldest first
  MaxFailures    \* how many internal errors and killed processes there are

ASSUME BacklogAssumption == Backlog \in Seq(Run) /\ IsInjective(Backlog)

VARIABLES
  runStatus, jobStatus,  \* the tables
  created,       \* the runs in the order of created_at
  committed,     \* the jobs with rows in artifacts
  wake,          \* whether the channel wake holds its token
  dispatcher,    \* where the dispatcher goroutine is
  claimed,       \* the run it has claimed, or NoRun
  activeID,      \* the field of the manager, NoRun for ""
  obsErr,        \* observer.err is set
  managerCtx,    \* the manager's context: "live" or "canceled"
  submitting,    \* runs whose Submit has committed and not notified yet
  client,        \* client[c]: what the call of Cancel does next, and its run
  faults, restarts

tables == <<runStatus, jobStatus, created, committed>>
calls == <<submitting, client>>
bounds == <<faults, restarts>>
vars == <<loopVars, ctx, tables, wake, dispatcher, claimed, activeID, obsErr,
          managerCtx, calls, bounds>>

Init ==
  /\ LoopInit
  /\ runStatus = [r \in Run |-> IF r \in Range(Backlog) THEN "QUEUED" ELSE "NONE"]
  /\ jobStatus = [j \in Job |-> "PENDING"]
  /\ created = Backlog /\ committed = {}
  /\ wake = TRUE /\ dispatcher = "select" /\ claimed = NoRun /\ activeID = NoRun
  /\ obsErr = FALSE /\ managerCtx = "live"
  /\ submitting = {} /\ client = [c \in Client |-> [pc |-> "idle", run |-> NoRun]]
  /\ faults = 0 /\ restarts = 0

\* A call of the store or of an executor fails.
Fault == faults + restarts < MaxFailures /\ faults' = faults + 1
NoFault == UNCHANGED faults

ManagerOnly == UNCHANGED <<claimed, activeID, obsErr, managerCtx, restarts>>

-----------------------------------------------------------------------------
(***************************************************************************)
(* The API.                                                                *)
(***************************************************************************)

\* Submit: CreateRun, then Notify.  CreateRun reads the run back after its
\* commit, and when that fails Submit returns without Notify.
SubmitCreate(r) ==
  /\ runStatus[r] = "NONE"
  /\ runStatus' = [runStatus EXCEPT ![r] = "QUEUED"]
  /\ created' = Append(created, r)
  /\ \/ NoFault /\ submitting' = submitting \cup {r}
     \/ Fault /\ UNCHANGED submitting
  /\ UNCHANGED <<loopVars, ctx, jobStatus, committed, wake, dispatcher, client>>
  /\ ManagerOnly

\* The channel holds one token; Notify drops a second one.
Notify == wake' = TRUE

SubmitNotify(r) ==
  /\ r \in submitting
  /\ submitting' = submitting \ {r}
  /\ Notify
  /\ UNCHANGED <<loopVars, ctx, tables, dispatcher, client, faults>>
  /\ ManagerOnly

CanceledJobs(r) ==
  [j \in Job |-> IF RunOf[j] = r /\ jobStatus[j] = "PENDING" THEN "CANCELED" ELSE jobStatus[j]]

ClientAt(c, pc, r) == client' = [client EXCEPT ![c] = [pc |-> pc, run |-> r]]

\* Cancel reads the run, ...
CancelRead(c, r) ==
  /\ client[c].pc = "idle" /\ runStatus[r] \in RunActive
  /\ ClientAt(c, runStatus[r], r)
  /\ UNCHANGED <<loopVars, ctx, tables, wake, dispatcher, submitting, faults>>
  /\ ManagerOnly

\* ... and decides by what it has read: CancelQueued, or nothing when the run
\* has been claimed since, ...
CancelQueued(c) ==
  LET r == client[c].run
  IN  /\ client[c].pc = "QUEUED"
      /\ \/ /\ runStatus[r] = "QUEUED"
            /\ runStatus' = [runStatus EXCEPT ![r] = "CANCELED"]
            /\ jobStatus' = CanceledJobs(r)
         \/ runStatus[r] # "QUEUED" /\ UNCHANGED <<runStatus, jobStatus>>
      /\ ClientAt(c, "idle", NoRun)
      /\ UNCHANGED <<loopVars, ctx, created, committed, wake, dispatcher, submitting, faults>>
      /\ ManagerOnly

\* ... or RequestCancel, whose finalizeRun ends a run that has no job left, ...
RequestCancel(c) ==
  LET r == client[c].run
      over == \A j \in JobsOf(r) : CanceledJobs(r)[j] \notin JobUnfinished
  IN  /\ client[c].pc = "RUNNING"
      /\ \/ /\ runStatus[r] = "RUNNING"
            /\ jobStatus' = CanceledJobs(r)
            /\ runStatus' = [runStatus EXCEPT ![r] =
                               IF over THEN Outcome(CanceledJobs(r), TRUE, r) ELSE @]
            /\ ClientAt(c, "requested", r)
         \/ /\ runStatus[r] # "RUNNING"
            /\ ClientAt(c, "idle", NoRun)
            /\ UNCHANGED <<runStatus, jobStatus>>
      /\ UNCHANGED <<loopVars, ctx, created, committed, wake, dispatcher, submitting, faults>>
      /\ ManagerOnly

\* ... and afterwards cancels the context, if the run is the active one.
ActiveCancel(c) ==
  /\ client[c].pc = "requested"
  /\ ctx' = IF activeID = client[c].run THEN "canceled" ELSE ctx
  /\ Notify
  /\ ClientAt(c, "idle", NoRun)
  /\ UNCHANGED <<loopVars, tables, dispatcher, submitting, faults>>
  /\ ManagerOnly

-----------------------------------------------------------------------------
(***************************************************************************)
(* The dispatcher: select, ClaimNextQueuedRun, execute.                    *)
(***************************************************************************)
DispatcherAt(pc) == dispatcher' = pc

Wake ==
  /\ dispatcher = "select" /\ wake
  /\ wake' = FALSE
  /\ DispatcherAt("claim")
  /\ UNCHANGED <<loopVars, ctx, tables, calls, faults>> /\ ManagerOnly

Stop ==
  /\ dispatcher \in {"select", "claim"} /\ managerCtx = "canceled"
  /\ DispatcherAt("stopped")
  /\ UNCHANGED <<loopVars, ctx, tables, wake, calls, faults>> /\ ManagerOnly

queued == {i \in DOMAIN created : runStatus[created[i]] = "QUEUED"}

\* The oldest queued run.  An error, before or after the commit, sends the
\* dispatcher back to its select.
ClaimNextQueuedRun ==
  LET oldest == created[First(queued)]
      Claimed == [runStatus EXCEPT ![oldest] = "RUNNING"]
  IN  /\ dispatcher = "claim" /\ managerCtx = "live"
      /\ \/ /\ queued = {} /\ NoFault
            /\ DispatcherAt("select") /\ UNCHANGED <<runStatus, claimed>>
         \/ /\ queued # {} /\ NoFault
            /\ runStatus' = Claimed /\ claimed' = oldest
            /\ DispatcherAt("begin")
         \/ /\ queued # {} /\ Fault
            /\ runStatus' \in {runStatus, Claimed}
            /\ DispatcherAt("select") /\ UNCHANGED claimed
      /\ UNCHANGED <<loopVars, ctx, jobStatus, created, committed, wake, calls, activeID,
                     obsErr, managerCtx, restarts>>

Finished(verdict) == [runStatus EXCEPT ![claimed] = IF @ = "RUNNING" THEN verdict ELSE @]

\* The deferred function of execute calls Notify, and dispatch tries the next
\* claim without waiting for it.
ClaimAgain == Notify /\ DispatcherAt("claim")

\* FinishRun, whose conflict or error is only logged, and the end of execute.
FinishRun(verdict) ==
  /\ \/ runStatus' = Finished(verdict) /\ NoFault
     \/ runStatus' \in {runStatus, Finished(verdict)} /\ Fault
  /\ LoopDone
  /\ ctx' = "canceled"
  /\ activeID' = NoRun /\ claimed' = NoRun /\ obsErr' = FALSE
  /\ ClaimAgain
  /\ UNCHANGED <<created, committed, calls, managerCtx, restarts>>

\* execute registers the run as the active one, prepares the workspace, the
\* snapshot, the pipeline, the executor and the sessions, and calls Run.
ExecuteStarts ==
  /\ dispatcher = "begin"
  /\ activeID' = claimed
  /\ ctx' = managerCtx
  /\ RunLoop(claimed)
  /\ DispatcherAt("run")
  /\ UNCHANGED <<tables, wake, calls, faults, claimed, obsErr, managerCtx, restarts>>

\* One of the preparations fails.
PrepareFails ==
  /\ dispatcher = "begin"
  /\ FinishRun("ERROR")
  /\ UNCHANGED jobStatus

\* UpdateJob has no condition on the status it replaces.  Its error, which may
\* hide that it took effect, cancels the run.
UpdateJobUnlessEnded(j, s) ==
  /\ jobStatus' = [jobStatus EXCEPT ![j] = IF @ \in JobUnfinished THEN s ELSE @]
  /\ NoFault /\ UNCHANGED <<ctx, obsErr>>
UpdateJob(j, s) ==
  \/ /\ jobStatus' = [jobStatus EXCEPT ![j] = s]
     /\ s = "PASSED" => (j \in UploadJob => j \in committed)
     /\ NoFault /\ UNCHANGED <<ctx, obsErr>>
  \/ /\ jobStatus' \in {jobStatus, [jobStatus EXCEPT ![j] = s]}
     /\ Fault /\ obsErr' = TRUE /\ ctx' = "canceled"

\* A step of the loop, and the observer's call if it changes a state.
Loop ==
  /\ dispatcher = "run" /\ loop # "returned"
  /\ LoopStep
  /\ \/ states' = states /\ UNCHANGED <<jobStatus, ctx, obsErr, faults>>
     \/ \E j \in Job : states'[j] # states[j] /\ UpdateJob(j, states'[j])
  /\ UNCHANGED <<runStatus, created, committed, wake, dispatcher, claimed, activeID,
                 managerCtx, calls, restarts>>

\* A job ends.  A job that declares artifacts passes only after CommitArtifacts,
\* for which the run and the job must be RUNNING in the database.
JobEnds(j) ==
  /\ \E c \in Outcomes(j) :
       /\ Send(c)
       /\ IF c.internal THEN Fault ELSE NoFault
       /\ IF c.state = "PASSED" /\ j \in UploadJob
          THEN /\ runStatus[RunOf[j]] = "RUNNING" /\ jobStatus[j] = "RUNNING"
               /\ committed' = committed \cup {j}
          ELSE UNCHANGED committed
  /\ UNCHANGED <<ctx, runStatus, jobStatus, created, wake, dispatcher, calls>>
  /\ ManagerOnly

\* What execute makes of the result.
VerdictIgnoringErrors ==
  IF interrupted THEN "CANCELED"
  ELSE IF \A j \in JobsOf(current) : states[j] # "FAILED" THEN "PASSED" ELSE "FAILED"
VerdictOf ==
  IF obsErr \/ internalError THEN "ERROR"
  ELSE IF interrupted THEN "CANCELED"
  ELSE IF Succeeded THEN "PASSED" ELSE "FAILED"

\* After an internal error the failed jobs are written again.
ExecuteEnds ==
  /\ dispatcher = "run" /\ loop = "returned"
  /\ jobStatus' = [j \in Job |-> IF internalError /\ ~obsErr /\ RunOf[j] = current
                                    /\ states[j] = "FAILED"
                                 THEN "FAILED" ELSE jobStatus[j]]
  /\ FinishRun(VerdictOf)

Execute ==
  \/ Wake \/ Stop \/ ClaimNextQueuedRun
  \/ ExecuteStarts \/ PrepareFails \/ Loop \/ ExecuteEnds

-----------------------------------------------------------------------------
(***************************************************************************)
(* The process.                                                            *)
(***************************************************************************)

\* The signal context ends, and with it the active one.
Shutdown ==
  /\ managerCtx = "live" /\ faults + restarts < MaxFailures
  /\ managerCtx' = "canceled"
  /\ ctx' = "canceled"
  /\ UNCHANGED <<loopVars, tables, wake, dispatcher, calls, faults, claimed, activeID, obsErr,
                 restarts>>

\* RecoverInterrupted, the runs.
RecoverNoRun == runStatus
RecoverRuns == [r \in Run |-> IF runStatus[r] = "RUNNING" THEN "ABORTED" ELSE runStatus[r]]

\* The process is gone, at any point; Start calls RecoverInterrupted, starts
\* the dispatcher and calls Notify.
Restart ==
  /\ faults + restarts < MaxFailures
  /\ restarts' = restarts + 1
  /\ runStatus' = RecoverRuns
  /\ jobStatus' = [j \in Job |-> IF /\ runStatus[RunOf[j]] = "RUNNING"
                                    /\ jobStatus[j] \in JobUnfinished
                                 THEN "ABORTED" ELSE jobStatus[j]]
  /\ LoopDone
  /\ ctx' = "live" /\ managerCtx' = "live"
  /\ wake' = TRUE /\ dispatcher' = "select" /\ claimed' = NoRun /\ activeID' = NoRun
  /\ obsErr' = FALSE
  /\ submitting' = {} /\ client' = [c \in Client |-> [pc |-> "idle", run |-> NoRun]]
  /\ UNCHANGED <<created, committed, faults>>

Next ==
  \/ \E r \in Run : SubmitCreate(r) \/ SubmitNotify(r)
  \/ \E c \in Client, r \in Run : CancelRead(c, r)
  \/ \E c \in Client : CancelQueued(c) \/ RequestCancel(c) \/ ActiveCancel(c)
  \/ Execute
  \/ \E j \in Job : JobEnds(j)
  \/ Shutdown \/ Restart

Spec == Init /\ [][Next]_vars

\* The goroutines run, the calls of the store return, and the commands of a job
\* end.
FairSpec ==
  /\ Spec
  /\ WF_vars(Execute)
  /\ WF_vars(\E r \in Run : SubmitNotify(r))
  /\ WF_vars(\E j \in Job : JobEnds(j))

-----------------------------------------------------------------------------
(***************************************************************************)
(* Properties.                                                             *)
(***************************************************************************)
Executing == dispatcher = "run"

\* UpdateJob overwrites whatever is there, and yet the database shows what the
\* loop knows of each job: except for jobs that RequestCancel took off the
\* pending list and the loop has not come to, and after a failed UpdateJob.
RecordFollowsLoop ==
  Executing /\ ~obsErr =>
    \A j \in JobsOf(current) :
      \/ jobStatus[j] = states[j]
      \/ states[j] = "PENDING" /\ jobStatus[j] = "CANCELED"

\* PASSED is written only for a run all of whose jobs passed and have committed
\* their artifacts, and whatever is canceled, fails or restarts, it stays true.
PassedIsEarned ==
  \A j \in Job : runStatus[RunOf[j]] = "PASSED" =>
    jobStatus[j] = "PASSED" /\ (j \in UploadJob => j \in committed)

\* The event loop is never stuck: a pending job is not failed, because every
\* job that cannot become ready is blocked in the same pass.
NeverStuck == [][\A j \in Job : states[j] = "PENDING" => states'[j] # "FAILED"]_vars

\* Jobs run at most maxParallel at a time, each after its predecessors passed,
\* and each goroutine's completion is received once.
AdmissionHolds ==
  Executing =>
    /\ Cardinality(working) + Len(completions) <= maxParallel
    /\ active = working \cup {completions[i].name : i \in DOMAIN completions}
    /\ \A j \in active : \A d \in Needs[j] : states[d] = "PASSED"

\* No run is forgotten between the API, the channel of one token and the
\* dispatcher: a queued run has a token, a Notify to come, or a dispatcher that
\* has yet to look, and a running run is the one that is executed.
RunIsAttended ==
  \A r \in Run : faults = 0 =>
    /\ runStatus[r] = "QUEUED" =>
         wake \/ r \in submitting \/ dispatcher # "select"
    /\ runStatus[r] = "RUNNING" => claimed = r /\ dispatcher \in {"begin", "run"}

\* A submitted run ends, through cancellations and crashes of the server,
\* unless the server is shut down or a call of the store fails.
EveryLocalRunEnds ==
  \A r \in Run :
    []<>(runStatus[r] \notin RunActive \/ faults > 0 \/ managerCtx = "canceled")
=============================================================================
