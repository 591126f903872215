------------------------ MODULE SchedulerTransactions ------------------------
(***************************************************************************)
(* The transactions of jobs.go on one run, opened up: LeaseJob,            *)
(* CompleteJob, ExpireJobLeases and RequestCancel interleave statement by  *)
(* statement under PostgreSQL's READ COMMITTED isolation.                  *)
(*                                                                         *)
(*  - A statement sees what is committed when it starts and the writes of  *)
(*    its own transaction.                                                 *)
(*  - A row that is updated, or selected FOR UPDATE, stays locked until    *)
(*    the transaction ends.  A statement that wants a locked row waits,    *)
(*    and then checks its condition again on the newest version of the     *)
(*    locked rows; its sub-selects still see the statement's snapshot.     *)
(*  - A transaction may be rolled back at any time: the client is gone,    *)
(*    the server stops, or PostgreSQL breaks a deadlock.                   *)
(*                                                                         *)
(* The rows are the run, its jobs and the runners.  Renewals are           *)
(* heartbeats that carry one lease.                                        *)
(***************************************************************************)
EXTENDS PipelineRun

CONSTANTS
  ThisRun,       \* the run, and its row
  MaxParallel,   \* its max_parallel
  Runner,        \* the runners, and their rows
  NoRunner,
  Capacity,      \* Capacity[n]: runners.max_parallel
  Claimer,       \* requests for work in progress at a time
  Sweeper,       \* the goroutine that expires leases
  Canceler,      \* the user who cancels the run
  Report         \* the statuses runners report

ASSUME TransactionsAssumption ==
  /\ Run = {ThisRun}
  /\ MaxParallel \in Nat \ {0}
  /\ NoRunner \notin Runner
  /\ Capacity \in [Runner -> Nat \ {0}]
  /\ Report \subseteq Reportable
  /\ Sweeper # Canceler /\ {Sweeper, Canceler} \cap (Claimer \cup Job) = {}
  /\ Claimer \cap Job = {}

VARIABLES
  \* What is committed.
  runStatus,        \* pipeline_runs.status
  cancelRequested,  \* pipeline_runs.cancel_requested_at IS NOT NULL
  jobStatus,        \* job_runs.status
  owner,            \* job_runs.runner_id
  expired,          \* the RUNNING jobs with lease_expires_at in the past
  \* The transactions in progress.
  pc,               \* pc[t]: the next statement
  locks,            \* locks[t]: the locked rows
  write,            \* write[t]: the job statuses written, "none" where there is none
  todo,             \* todo[t]: the rows a statement has found and still has to visit
  verdict,          \* verdict[t]: what finalizeRun found
  runner            \* runner[t]: whom a claim is for

dbVars == <<runStatus, cancelRequested, jobStatus, owner, expired>>
txVars == <<pc, locks, write, todo, verdict, runner>>
vars == <<dbVars, txVars>>

\* The report of a job is sent by the runner that has its lease: Job stands
\* for the CompleteJob transactions as well.
Tx == Claimer \cup Job \cup {Sweeper, Canceler}

NoWrite == [j \in Job |-> "none"]

Init ==
  /\ runStatus = "QUEUED" /\ cancelRequested = FALSE
  /\ jobStatus = [j \in Job |-> "PENDING"]
  /\ owner = [j \in Job |-> NoRunner]
  /\ expired = {}
  /\ pc = [t \in Tx |-> "idle"]
  /\ locks = [t \in Tx |-> {}]
  /\ write = [t \in Tx |-> NoWrite]
  /\ todo = [t \in Tx |-> {}]
  /\ verdict = [t \in Tx |-> "NONE"]
  /\ runner = [t \in Tx |-> NoRunner]

-----------------------------------------------------------------------------
Free(t, row) == \A u \in Tx \ {t} : row \notin locks[u]

\* The job statuses a statement of transaction t sees.
Sees(t) ==
  [j \in Job |-> IF write[t][j] # "none" THEN write[t][j] ELSE jobStatus[j]]

\* The transaction locks rows and goes on to its next statement.
Goes(t, next, rows) ==
  /\ pc' = [pc EXCEPT ![t] = next]
  /\ locks' = [locks EXCEPT ![t] = @ \cup rows]

\* The same, having written status to the job rows S.
Writes(t, S, status, next) ==
  /\ Goes(t, next, S)
  /\ write' = [write EXCEPT ![t] = [j \in Job |-> IF j \in S THEN status ELSE write[t][j]]]
  /\ UNCHANGED <<verdict, runner>>

Ends(t) ==
  /\ pc' = [pc EXCEPT ![t] = "idle"]
  /\ locks' = [locks EXCEPT ![t] = {}]
  /\ write' = [write EXCEPT ![t] = NoWrite]
  /\ todo' = [todo EXCEPT ![t] = {}]
  /\ verdict' = [verdict EXCEPT ![t] = "NONE"]
  /\ runner' = [runner EXCEPT ![t] = NoRunner]

-----------------------------------------------------------------------------
(***************************************************************************)
(* LeaseJob: lock the runner and count its jobs, select a candidate and    *)
(* lock its rows, update and commit.                                       *)
(***************************************************************************)
RunningOn(n) == Cardinality({j \in Job : jobStatus[j] = "RUNNING" /\ owner[j] = n})

LockRunnerUnlocked(c, n) ==
  /\ pc[c] = "idle"
  /\ RunningOn(n) < Capacity[n]
  /\ Goes(c, "select", {})
  /\ runner' = [runner EXCEPT ![c] = n]
  /\ UNCHANGED <<dbVars, write, todo, verdict>>
LockRunner(c, n) ==
  /\ pc[c] = "idle"
  /\ Free(c, n)
  /\ RunningOn(n) < Capacity[n]
  /\ Goes(c, "select", {n})
  /\ runner' = [runner EXCEPT ![c] = n]
  /\ UNCHANGED <<dbVars, write, todo, verdict>>

\* The rows the claim query finds in its snapshot.
Candidates ==
  {j \in Job : /\ runStatus \in RunActive /\ ~cancelRequested
               /\ jobStatus[j] = "PENDING"
               /\ \A u \in Needs[j] : jobStatus[u] = "PASSED"
               /\ Cardinality({k \in Job : jobStatus[k] = "RUNNING"}) < MaxParallel}

SelectSnapshot(c) ==
  /\ pc[c] = "select"
  /\ Goes(c, "lock", {})
  /\ todo' = [todo EXCEPT ![c] = Candidates]
  /\ UNCHANGED <<dbVars, write, verdict, runner>>

\* SKIP LOCKED, and the condition checked again on the locked rows; the
\* sub-selects on the predecessors and the running jobs are not repeated.
LockableUnchecked(c) ==
  {j \in todo[c] : Free(c, ThisRun) /\ Free(c, j)}
Lockable(c) ==
  {j \in todo[c] : /\ Free(c, ThisRun) /\ Free(c, j)
                   /\ runStatus \in RunActive /\ ~cancelRequested
                   /\ jobStatus[j] = "PENDING"}

LockCandidate(c) ==
  /\ pc[c] = "lock"
  /\ \E j \in Lockable(c) : Goes(c, "update", {ThisRun, j}) /\ todo' = [todo EXCEPT ![c] = {j}]
  /\ UNCHANGED <<dbVars, write, verdict, runner>>

NoCandidate(c) ==
  /\ pc[c] = "lock"
  /\ Lockable(c) = {}
  /\ Ends(c)
  /\ UNCHANGED dbVars

CommitClaim(c) ==
  /\ pc[c] = "update"
  /\ \E j \in todo[c] : /\ jobStatus' = [jobStatus EXCEPT ![j] = "RUNNING"]
                        /\ owner' = [owner EXCEPT ![j] = runner[c]]
  /\ runStatus' = IF runStatus = "QUEUED" THEN "RUNNING" ELSE runStatus
  /\ Ends(c)
  /\ UNCHANGED <<cancelRequested, expired>>

-----------------------------------------------------------------------------
(***************************************************************************)
(* What CompleteJob, ExpireJobLeases and RequestCancel end with:           *)
(* blockDependents, the count of finalizeRun, its update of the run, and   *)
(* the commit.                                                             *)
(***************************************************************************)
BlockDependents(t) ==
  LET B == Blocked(Sees(t), Run)
  IN  /\ pc[t] = "block"
      /\ \A j \in B : Free(t, j)
      /\ Writes(t, B, "BLOCKED", "count")
      /\ UNCHANGED <<dbVars, todo>>

CountUnfinished(t) ==
  LET js == Sees(t)
  IN  /\ pc[t] = "count"
      /\ Goes(t, "commit", {})
      /\ verdict' = [verdict EXCEPT ![t] =
                      IF \E j \in Job : js[j] \in JobUnfinished THEN "NONE"
                      ELSE Outcome(js, cancelRequested \/ t = Canceler, ThisRun)]
      /\ UNCHANGED <<dbVars, write, todo, runner>>

\* The run is updated unless jobs are unfinished (verdict "NONE"), or the
\* run turned out to be terminal already.
FinalizeAndCommit(t) ==
  /\ pc[t] = "commit"
  /\ verdict[t] = "NONE" \/ Free(t, ThisRun)
  /\ jobStatus' = Sees(t)
  /\ cancelRequested' = (cancelRequested \/ t = Canceler)
  /\ runStatus' = IF verdict[t] # "NONE" /\ runStatus \in RunActive THEN verdict[t] ELSE runStatus
  /\ expired' = {j \in expired : write[t][j] = "none"}
  /\ Ends(t)
  /\ UNCHANGED owner

-----------------------------------------------------------------------------
(***************************************************************************)
(* CompleteJob for job j.  lease_expires_at is compared with now(), the    *)
(* time the transaction began: a report that began in time may wait for    *)
(* its locks until after the expiry.                                       *)
(***************************************************************************)
LockRunForReport(j) ==
  /\ pc[j] = "idle"
  /\ jobStatus[j] = "RUNNING" /\ j \notin expired
  /\ Free(j, ThisRun)
  /\ Goes(j, "report", {ThisRun})
  /\ UNCHANGED <<dbVars, write, todo, verdict, runner>>

ReportJobUnchecked(j, status) ==
  /\ pc[j] = "report"
  /\ Free(j, j)
  /\ Writes(j, {j}, status, IF status = "PASSED" THEN "count" ELSE "block")
  /\ UNCHANGED <<dbVars, todo>>
ReportJob(j, status) ==
  /\ pc[j] = "report"
  /\ Free(j, j)
  /\ \/ /\ jobStatus[j] = "RUNNING"
        /\ Writes(j, {j}, status, IF status = "PASSED" THEN "count" ELSE "block")
        /\ UNCHANGED todo
     \/ jobStatus[j] # "RUNNING" /\ Ends(j)
  /\ UNCHANGED dbVars

-----------------------------------------------------------------------------
(***************************************************************************)
(* ExpireJobLeases: one UPDATE visits the rows it finds expired.           *)
(***************************************************************************)
FindExpired ==
  LET found == {j \in Job : jobStatus[j] = "RUNNING" /\ j \in expired}
  IN  /\ pc[Sweeper] = "idle"
      /\ found # {}
      /\ Goes(Sweeper, "sweep", {})
      /\ todo' = [todo EXCEPT ![Sweeper] = found]
      /\ UNCHANGED <<dbVars, write, verdict, runner>>

StillExpiredUnchecked(j) == jobStatus[j] = "RUNNING"
StillExpired(j) == jobStatus[j] = "RUNNING" /\ j \in expired

AbortRow(j) ==
  /\ pc[Sweeper] = "sweep"
  /\ j \in todo[Sweeper]
  /\ Free(Sweeper, j)
  /\ Writes(Sweeper, {k \in {j} : StillExpired(k)}, "ABORTED", "sweep")
  /\ todo' = [todo EXCEPT ![Sweeper] = @ \ {j}]
  /\ UNCHANGED dbVars

SweepDone ==
  /\ pc[Sweeper] = "sweep"
  /\ todo[Sweeper] = {}
  /\ \/ write[Sweeper] = NoWrite /\ Ends(Sweeper)
     \/ /\ write[Sweeper] # NoWrite
        /\ Goes(Sweeper, "block", {})
        /\ UNCHANGED <<write, todo, verdict, runner>>
  /\ UNCHANGED dbVars

-----------------------------------------------------------------------------
(***************************************************************************)
(* RequestCancel.                                                          *)
(***************************************************************************)
LockRunForCancel ==
  /\ pc[Canceler] = "idle"
  /\ runStatus = "RUNNING"
  /\ Free(Canceler, ThisRun)
  /\ Goes(Canceler, "cancel", {ThisRun})
  /\ UNCHANGED <<dbVars, write, todo, verdict, runner>>

CancelPending ==
  LET pending == {j \in Job : jobStatus[j] = "PENDING"}
  IN  /\ pc[Canceler] = "cancel"
      /\ \A j \in pending : Free(Canceler, j)
      /\ Writes(Canceler, pending, "CANCELED", "count")
      /\ UNCHANGED <<dbVars, todo>>

-----------------------------------------------------------------------------
\* Time passes and the lease of j runs out.
Expire(j) ==
  /\ jobStatus[j] = "RUNNING" /\ j \notin expired
  /\ expired' = expired \cup {j}
  /\ UNCHANGED <<runStatus, cancelRequested, jobStatus, owner, txVars>>

\* A heartbeat renews the lease of j.  It compares lease_expires_at with the
\* time the request came in, so it may do so after the expiry.
Renew(j) ==
  /\ jobStatus[j] = "RUNNING" /\ j \in expired
  /\ \A t \in Tx : j \notin locks[t]
  /\ expired' = expired \ {j}
  /\ UNCHANGED <<runStatus, cancelRequested, jobStatus, owner, txVars>>

Rollback(t) ==
  /\ pc[t] # "idle"
  /\ Ends(t)
  /\ UNCHANGED dbVars

Next ==
  \/ \E c \in Claimer : \/ \E n \in Runner : LockRunner(c, n)
                        \/ SelectSnapshot(c) \/ LockCandidate(c)
                        \/ NoCandidate(c) \/ CommitClaim(c)
  \/ \E t \in Tx : \/ BlockDependents(t) \/ CountUnfinished(t)
                   \/ FinalizeAndCommit(t) \/ Rollback(t)
  \/ \E j \in Job : \/ LockRunForReport(j)
                    \/ \E status \in Report : ReportJob(j, status)
                    \/ AbortRow(j) \/ Expire(j) \/ Renew(j)
  \/ FindExpired \/ SweepDone
  \/ LockRunForCancel \/ CancelPending

Spec == Init /\ [][Next]_vars

-----------------------------------------------------------------------------
(***************************************************************************)
(* Properties.                                                             *)
(***************************************************************************)

\* The locked runner row makes the count of a claim exact: however many
\* requests of a runner overlap, it never has more jobs than its capacity.
RunnerCapacity == \A n \in Runner : RunningOn(n) <= Capacity[n]

\* A claim that was selecting while the cancellation committed gets no job.
NoClaimAfterCancel ==
  [][\A j \in Job : jobStatus[j] # "RUNNING" /\ jobStatus'[j] = "RUNNING" => ~cancelRequested]_vars

\* The sweeper aborts no job whose lease a heartbeat renewed in the meantime.
RenewedJobSurvives ==
  [][\A j \in Job : jobStatus'[j] = "ABORTED" /\ jobStatus[j] # "ABORTED" => j \in expired]_vars

\* Whatever the interleaving, the commits make only the transitions of the
\* job lifecycle: no finished job or run changes, no job starts before its
\* predecessors passed, and no run ends before its jobs.
Lifecycle == INSTANCE JobLifecycle WITH
  runStatus <- [r \in Run |-> runStatus]
ImplementsLifecycle == Lifecycle!Spec

\* TestCancellationWithLostJobResolvesAborted and
\* TestExpiredJobIsAbortedAndNeverReassigned: once every job has ended and the
\* transactions are over, the run has its verdict.
FinalizedWhenDone ==
  (\A t \in Tx : pc[t] = "idle") /\ (\A j \in Job : jobStatus[j] \in JobTerminal)
  => runStatus \in RunTerminal
=============================================================================
