# ForgeCI in TLA+

A verification project for ForgeCI, a self-hosted CI system: TLA+ modules that
are translated from the Go and SQL sources, TLC configurations that check them
on small instances, and TLAPS proofs of the results that matter most.  Paths
are relative to the repository (`src/` is its root).

## 1. The system

ForgeCI has three programs.  `forge-server` is the control plane: it keeps
runs, jobs, runners, artifacts, caches, logs and SCM deliveries in PostgreSQL,
and either executes pipelines itself (local mode) or hands jobs to runners
(remote mode).  `forge-runner` is the remote runner: it polls for jobs, runs
their commands in a workspace, sends heartbeats and reports.  `forge` is the
command line, which can also execute a pipeline directly.

| Part | Code | State | Operations | Modelled in |
|---|---|---|---|---|
| Job scheduler | `store/postgres/jobs.go`, `postgres.go` | `pipeline_runs`, `job_runs`, `runners`, `artifacts` | claim, heartbeat, commit artifacts, report, sweep expired leases, recover at start-up, cancel, expire artifacts | `JobScheduler`, `SchedulerTransactions` |
| Remote runner | `cmd/forge-runner/main.go`, `runnerproto/handlers.go` | active jobs, local deadlines, contexts | heartbeat loop, deadline loop, request lease, execute, report, shut down | `RemoteRunner` |
| Log pipeline | `runner/log_queue.go`, `store/postgres/job_logs.go`, `joblog/` | bounded queue, sequence numbers, `job_logs` | enqueue, batch, acknowledge, fail, append | `PendingLogQueue` (remote jobs) |
| Direct-mode runner | `runner/runner.go` | job states, completions channel, context | start, block, complete, cancel | `DirectRunner` |
| Local execution | `controlplane/manager.go` | wake channel, active run, context | submit, dispatch, execute, cancel, recover | `LocalManager` |
| Artifacts | `artifact/`, `postgres.go` | blobs, `artifacts` | upload, commit, download, expire, collect | `ArtifactBlobs` on `ContentStore`; the rows' life cycle in `JobScheduler` too |
| Build cache | `cache/`, `store/postgres/cache.go`, `runnerproto/cache_handlers.go` | blobs, `cache_entries` | look up, download, save, delete, expire, evict, collect | `CacheBlobs` on `ContentStore` |
| Pipeline compiler | `config/validation.go`, `pipeline/` | none (pure) | check needs, order, refuse cycles | `PipelineCompiler` |
| SCM deliveries | `api/api.go` webhook, `store/postgres/scm_deliveries.go`, `scm_triggers.go`, `scmworker/worker.go` | `scm_deliveries`, `scm_run_triggers` | receive, supersede, claim, renew, create run, complete, fail | `ScmDeliveries`; supersession of remote runs in `JobScheduler` |
| GitHub checks | `store/postgres/scm_checks.go`, `scmworker/checks.go`, `scm/github/checks.go` | `scm_run_triggers`, checks at GitHub | claim, find, create, update, complete, fail | `ScmChecks` |
| Snapshots, workspaces, executors, CLI, GitHub client | `snapshot/`, `runworkspace/`, `executor/`, `cli/`, `client/`, `scm/` | files, processes, connections | I/O | not modelled, except for their outcomes |

How they interact: a submission or an SCM delivery inserts a QUEUED run with
PENDING jobs.  Runners poll; the claim transaction makes one ready job RUNNING
and gives it a lease (lease id, generation, expiry).  Heartbeats renew the
lease; every later request of the runner must present the exact unexpired
tuple.  A report ends the job, blocks the dependents of a job that did not
pass, and ends the run with its last job.  A sweeper aborts jobs whose lease
ran out, a restart of the server aborts every RUNNING job, a cancellation
cancels the PENDING ones.  Artifacts belong to the job that committed them and
get an expiry when their run ends.

What makes it hard: transactions of many runners, the sweeper and users
overlap under READ COMMITTED; a heartbeat and the sweeper race for one lease;
reports arrive late or after a restart; `SKIP LOCKED` and sub-selects read from
different moments; three different paths cancel a run.  In local mode the
dispatcher, the event loop, the goroutines of the jobs and the API share a
context and rows that each writes without asking the others.  The collectors
decide first and remove files later.  GitHub repeats, reorders and delays what
it sends and what it is sent.  `PROJECT.json` lists
each such place with its line.

## 2. The modules

`PipelineRun` holds what the others share: runs, jobs, the dependency graph
(constants), the status sets of `store.go`, `blockDependents` and the verdict of
`finalizeRun`.  The loop of UPDATEs in `blockDependents` is modelled by the
least set it reaches; no recursion is needed and the proofs can use it.

`JobLifecycle` is the abstract specification: the transitions of a run's and a
job's status that a committed transaction may make, without leases, runners,
locks or artifacts.  A job starts only after its predecessors PASSED, ends in
one of the legal ways, and a run ends with its last job and as its jobs say
(a queued run that was superseded is the exception).

`JobScheduler` has one variable per column that matters and one action per
transaction.

| Action | Code |
|---|---|
| `CreateRun`, `RegisterRunner` | `postgres.go` CreateRun, RegisterRunner |
| `LeaseJob` | `jobs.go` LeaseJob: runner online and within capacity, candidate query, both updates |
| `HeartbeatJobLeases` | the runner's liveness and the renewal of the exact tuples |
| `CommitArtifacts`, `CompleteJob` | the fenced writes of a runner |
| `ExpireJobLeases`, `RecoverRemoteJobs` | sweeper and start-up; `AbortJobs` is what they share |
| `CancelQueued`, `RequestCancel`, `SupersedeRuns` | the three ways a run is canceled |
| `ExpireArtifacts` | retention |
| `Tick` | time |

Time is relative: `leaseLeft` and `idle` count down and up in units of which
`LeaseTTL` make a lease; no absolute clock makes the state space infinite.
Lease ids and generations of one job correspond one to one, so a lease is
`<<job, generation>>`.  Requests may carry any generation of the constant
`Generation`, which includes stale and wrong ones.

`SchedulerTransactions` opens the transactions of one run up: a claim is lock
runner, take snapshot, lock candidate, commit; a report, the sweeper and a
cancellation are their statements followed by `BlockDependents`,
`CountUnfinished` and `FinalizeAndCommit`.  Rows have locks, statements see what
is committed when they start and their own writes, conditions on locked rows
are checked again while sub-selects are not, and a transaction may roll back
at any point.  `pc`, `locks`, `write`, `todo`, `verdict` and `runner` hold what a
transaction has not committed; a statement changes them for one transaction only.

`RemoteRunner` composes the runner processes with `JobScheduler`.  A process has
a request for work, a heartbeat and one execution per leased job under way at a
time; each request is sent, served by the transaction of `JobScheduler` that its
handler calls, and answered, and may be lost on either way.

| Action | Code |
|---|---|
| `Start`, `Shutdown`, `Exit` | registration; the two halves of `shutdown`, or a crash |
| `RequestLease`, `ServeLease`, `NoLease`, `ReceiveLease`, `RefuseLease` | `workLoop`, `requestLease`, handler `Lease`, the head of `executeLeasedJob` |
| `SendHeartbeat`, `ServeHeartbeat`, `NoHeartbeat`, `ReceiveHeartbeat`, `UnreadableHeartbeat` | `sendHeartbeat`, handler `Heartbeat` |
| `LeaseDeadline` | `leaseDeadlineLoop` |
| `PrepareSource`, `RestoreArtifacts`, `RunCommands`, `ServeCommit`, `Publish` | the stages of `executeLeasedJob` |
| `ServeReport`, `LoseReport`, `Retire` | `sendJobComplete`, which is not retried, and handler `CompleteRun` |

`PendingLogQueue` is the log of one remote job: the writers of the command's
output, the bounded queue, the uploader with its retries, and the append
transaction of the server, whose requests may be lost, answered late or served
after their successor.  The lock sections of the queue are the atomic steps;
`WaitBatch` has two.  A chunk is its sequence number, stream and size.  `FollowsLog`
is what the append transaction asks of a request's rows; `accepted` and `seen` are
not in the code and are read by properties only.

`DirectRunner` is `runner.Runner.Run`: the loop that owns the states of the jobs,
and a goroutine per running job that sends one completion.  `Top`, `Block`, `Start`,
`Idle`, `Receive` and `NoticeCancel` are the parts of an iteration; a step changes
the state of at most one job, so that the observer's write can be attached to it.
`LocalManager` is its caller.

| Action | Code |
|---|---|
| `SubmitCreate`, `SubmitNotify` | `Submit`: the transaction, and the token of the channel `wake` |
| `CancelRead`, `CancelQueued`, `RequestCancel`, `ActiveCancel` | `Cancel`, which decides by a status it read earlier |
| `Wake`, `Stop`, `ClaimNextQueuedRun` | `dispatch` |
| `ExecuteStarts`, `PrepareFails`, `Loop`, `JobEnds`, `ExecuteEnds` | `execute`: registration, preparation, the event loop with `UpdateJob` of its observer, the commit of artifacts, the verdict and `FinishRun` |
| `Shutdown`, `Restart` | `Close`; a killed process and `Start` with `RecoverInterrupted` |

`ContentStore` is a directory of files named by digest, with the two removals of a
collector's pass: what the expiry transaction hands over, and the old files that
are not in use (`CleanupOrphans`).  `ArtifactBlobs` adds publication (uploads, the
handler's look at the files, the transaction), downloads, the end of jobs and
runs, and retention; `CacheBlobs` adds the two lookups and the download of a
restore, upload and commit of a save, deletion, and the expiry transaction with
its eviction loop.  `BlobStores` puts the two stores of a server next to each
other.

`PipelineCompiler` is `Compile` after `Validate`'s checks of `needs`, round by round.

`ScmDeliveries` follows a webhook's transaction (its row, which others do not see
before the commit, and the two updates, which see what was committed when they
began) and the workers: claim, look for the trigger, prepare, create the run,
complete or fail.  Every call may fail, before or after it took effect; claims
expire; the server is killed.  `ScmChecks` is the check worker against a GitHub
that may answer, not answer, or process a request after the worker gave up on it.
`ScmPipeline` puts the three next to each other; they share only the rows of runs.

The `MC` modules give the graphs, registrations, outputs and deliveries TLC uses.
`JobSchedulerProofs` (with those of `JobLifecycle`), `RemoteRunnerProofs`,
`SchedulerTransactionsProofs`, `PendingLogQueueProofs`, `LocalManagerProofs`,
`BlobStoresProofs`, `CacheEvictionProofs` and `ScmProofs` hold the theorems.

Operators whose name extends another's (`ReadyUnlessFailed` before `Ready`) are
deliberately wrong variants, each a bug one could write in that line; with the
variant in place TLC reports a violation of the property it is paired with in
`PROJECT.json`.

## 3. What TLC checks

| Run | Instance | Checks |
|---|---|---|
| `scheduler_chain` | 1 run limited to one job at a time; a chain of 3 jobs and a job beside it; artifacts and an image; a runner with room for two; fairness | order, inputs, verdict, parallel limit, no dead end, the run ends, refinement of `JobLifecycle` |
| `scheduler_two_runs` | 2 runs, one of a pull request; 2 runners that may register again | no reassignment, finality, fencing of expired leases |
| `transactions` | 2 overlapping claims for 2 runners, reports, sweeper, cancellation, rollbacks | capacity under interleaving, cancellation, renewed leases, refinement of `JobLifecycle` |
| `runner_pair` | a runner with one slot, `b` downloads what `a` uploads | no result before the end of the commands, local deadline never late |
| `runner_live` | one job, lost messages, crashes, fairness | lost or canceled work stops; no job whose execution is over stays RUNNING |
| `log_queue` | a queue of 3 bytes, two streams, 2 upload attempts, fairness | durable log is a prefix, acknowledged is durable, what a PASSED job can lose; every job is reported, or stalls in one way (section 5) |
| `local` | a queued run of 3 jobs (the third needs the other two, two at a time, the first publishes), a second run whose limit is 0, one canceling client, one failure | the rows follow the loop, PASSED is earned, admission, the loop is never stuck, runs end |
| `blobs` | two producers with a digest in common, one of them local; two jobs, two keys and two digests of different sizes of which one fits | what the collectors may remove, prompt publications, hits, eviction, orphans |
| `scm` | two heads of a pull request and its end, one with a pipeline that is refused, two workers, up to two failures, four webhooks and failures in all; the check of a run, three failures; every pipeline of 4 jobs | the newest head, settled deliveries, announced runs, one check that converges, topological order, exact refusals |
| `superseded_running`, `lost_finalization`, `heartbeat_race` | | violated: see findings |

Bounds.  Three levels of dependencies are what tells transitive blocking from
direct blocking; a second branch is what an independent job needs; two runners
and two runs are what fencing between owners and isolation between runs need.
A lease generation never exceeds 1 (that is `NeverReassigned`, proved), so the
generations 1 and 2 cover current and wrong tuples.  `LeaseTTL = 1` separates
a live lease from an expired one; larger values add only waiting.  Statement
interleavings use one run, since transactions on different runs share only
runner rows.  `RemoteRunner` uses `LeaseTTL = 2` where a deadline renewed on arrival
must be told from one renewed when the request was served.  The queue is small
enough that writers block and large enough for a batch of two; two upload
attempts are the least with a retry.

In `local` two parallel jobs and a third that needs both are what blocking,
limits and a cancellation with goroutines still at work need; a run whose limit
is not positive and the second run exercise the correction of the limit and the
dispatcher's next claim.  `MaxFailures` bounds failing calls and kills together.
In `blobs` a grace period and retentions of one unit separate new from old; a
shared digest is what makes removal by digest dangerous.  In `scm` three
deliveries are the least with a head superseded while its predecessor is too, two
failures let a claim expire and a call of the next attempt fail; `MaxEvents`
allows them with two deliveries, and one with three.  Four jobs are the least where a cycle, a job that waits for it and a free job occur
together; which jobs need which is not restricted, and two pipelines that
`Validate` refuses are added.

Fairness (`scheduler_chain`).  The sweeper is a ticker loop in
`cmd/forge-server/main.go` and time passes (weak fairness).  A runner registers
once and sends heartbeats from a ticker (weak).  It polls for work and the long
poll is woken by Notify; a claim can be disabled by capacity in between, so it
gets strong fairness.  A command that is running ends and its runner reports,
unless the lease is lost (weak fairness of reporting).  Nothing is assumed of
users, of restarts or of failures.

Fairness (`runner_live`).  Time, the sweeper and the deadline loop are tickers, an
execution whose context is canceled ends, since the context kills its commands
and its requests, and a completion request ends with its time-out.  Heartbeats
and commands get no fairness: the run shows that work stops without them.

Fairness (`log_queue`).  The goroutines of command, uploader and report make
progress, and the client times out; nothing is assumed of the server.

Fairness (`local`, `blobs`, `scm`).  Goroutines that can go on do: the dispatcher with
the loop, the workers, the collectors' ticker; commands end; time passes, so that
claims nobody renews expire.  Users, webhooks, runs of other modes, GitHub and
failures get none.

Exceptions inside the properties.  Some properties name a case in which the code
really does not keep them: `EveryLocalRunEnds` one of a failed store call,
`OnlyTheNewestIsAlive` overlapping webhooks, `EveryRunIsAnnounced` a lost answer,
`ChecksConverge` and `OneCheckPerRun` a request GitHub processes late,
`PromptArtifactIsReadable` shared content and slow publications,
`CollectorSparesWhatItSaw` and `CollectorSparesEntries` commits after the collector's
query, `EveryJobIsReported` the stall of section 5.  Each exception was added when
TLC showed it to be needed, and is described in section 5.

`CHECK_DEADLOCK FALSE` stands where a system may come to its end: a run whose jobs
have all ended, a job whose log is complete, deliveries that are settled.

## 4. What TLAPS proves

For every value of the constants that satisfies the assumptions of the modules: in
the scheduler every set of runs, jobs and runners, every acyclic graph, every
limit and every lease duration (`GraphAssumption`, `SchedulerAssumption`):

- `JobSchedulerProofs`: `LifecycleOrder` and `LifecycleVerdict`, the two promises of
  the abstract specification; `SchedulerImplementsLifecycle` (the refinement);
  `TypeCorrect`; `LeasesAreConsistent`, `JobsAreNotReassigned`, `JobsStartInOrder`,
  `InputsStayAvailable`, `RetentionIsTiedToRun`, `ParallelLimitHolds`,
  `TerminalRunsAreQuiet`; the action properties `FinishedIsFinal`,
  `CanceledRunsStartNothing`, `ClaimsRespectCapacity`, `ExpiredLeasesOnlyAbort`.
- `RemoteRunnerProofs`: of the scheduler alone, `VerdictsAreTrue` and `NoRunIsStuck`;
  of the scheduler with any number of runner processes and any loss of messages,
  `ExecutionsAreAccounted`, `DeadlinesAreNotLate`, `PromisesSurviveRunners` (the
  scheduler's invariants hold in the whole system) and `SystemImplementsLifecycle`.
- `SchedulerTransactionsProofs`, for any jobs, runners, graph and number of
  overlapping claims: `CapacityHolds`, `CancellationStopsClaims`,
  `RenewalsAreHonoured`, and `TransactionsImplementLifecycle`, the refinement from
  interleaved statements.
- `PendingLogQueueProofs`, for any output, queue limits and attempts: `LogIsAPrefix`,
  `AcknowledgedMeansDurable`, `PassedKeepsWhatWasSeen`, `PendingIsBounded` and
  `WritersBlockForAReason`.
- `LocalManagerProofs`, for any runs, graphs, limits, clients, failures and restarts:
  `PassedIsAlwaysEarned`, `RecordAlwaysFollows`, `AdmissionAlwaysHolds`,
  `LoopIsNeverStuck` and `RunsAreAttended`.
- `BlobStoresProofs`, for any jobs, outputs, keys, sizes and periods:
  `PromptArtifactsAreReadable`, `ArtifactCollectorIsSafe`, `CacheCollectorIsSafe`,
  `CacheHitsAreExact`.
- `CacheEvictionProofs`, for any keys, contents, sizes and limit: `EvictionsAreFrugal`.
- `ScmProofs`: `NewestIsAlive`, `UnheardRunsArePursued` and `AttemptsAreBounded` (any
  deliveries, workers, attempts and failures); `CompileOrdersTopologically` and
  `CompileRefusesExactly` (every finite set of names and every pipeline);
  `RunHasOneCheck` and `ChecksLeftAloneAreRight` (any triggers and failures); and
  `PartsKeepTheirPromises`, that they hold of the three together.

Six of the theorems state properties that the runs of section 3 do not list:
`QueueIsBounded`, `BlockedForAReason`, `RunIsAttended`, `UnheardIsPursued`,
`RetriesAreBounded` and `LeftAloneIsRight`.  TLC found them to hold on the instances of
`log_queue`, `local` and `scm` before they were proved.  All but the first are the part of
a liveness property that a proof can reach: that whatever is left undone has somebody
who will come back to it, or that coming back has an end.

The argument.  None of the invariants is inductive alone.  `InputsAvailable`
needs that a PASSED job with declared uploads has them committed
(`PassedIsPublished`), that artifacts expire only with their run
(`RetentionFollowsRun`), and that a terminal run has no RUNNING job
(`TerminalRunIsQuiet`); that in turn needs that the jobs of a QUEUED run were
never claimed (`QueuedIsFresh`), because supersession ends a QUEUED run without
looking at its jobs.  `DependencyOrder` needs finality of PASSED.  The
conjunction, `Inv`, is inductive.  The transactions that end jobs (report,
sweep, recovery, cancellation) share one shape, `EndStep`: jobs end as
`JobLifecycle` allows, the leases of the ended jobs are cleared, runs with no
unfinished job get their verdict and their artifacts an expiry.  Each of them is
shown to be an `EndStep`, and `EndStep` to preserve `Inv`; the same lemmas give
the refinement.

The two limits count: that a claim adds at most one RUNNING job and every other
action adds none is the lemma from which `ParallelLimitHolds` and
`ClaimsRespectCapacity` follow, apart from `Inv`.

`ParallelLimitHolds` is about atomic claims.  Opened up to statements the limit
fails (section 5).

`RemoteRunnerProofs`: a verdict, and that an active run can move, depend on what a
transaction leaves behind.  `Settled` adds to `Inv` that an active run has an
unfinished job, that no PENDING job has a predecessor that did not pass, and that
cancellation has reached the PENDING jobs, superseded runs excepted; every action is
a `SettlingStep`, which preserves it.  The processes add `AgentInv`: nothing is known of
an unclaimed job, a lease that is held has not been reported, and neither a deadline
nor a heartbeat response under way promises more time than the control plane grants.
The last is what makes `DeadlineNotLate` inductive: the promise is made when the
request is served and taken up when it arrives.  A step of the system is a step of
`JobScheduler` or leaves its rows alone, which carries the rest over.

`SchedulerTransactionsProofs`: `TxInv` says of every transaction what it may rely on
between two statements: what it wrote it has locked, and the write is legal for the
row as committed; a claim's runner keeps the room that was found, because the claim
has locked the runner's row; the predecessors found PASSED stay so; a verdict is the
outcome of what the transaction sees.  `LocksExclude` lets the commit of one
transaction leave the facts of the others alone.

`PendingLogQueueProofs`: `LogInv` follows a chunk by its sequence number, which is its
place in the output.  The queue is the end of the output, the log a beginning of it,
the batch the front of the queue, every request under way, however late, consists of
rows of the output, and what has left the queue is in the log.  `QueueInv` adds why a
writer waits: its chunk does not fit.  Whatever frees room, fails the queue or adds to
it wakes all writers, and the queue is closed when they have ended.  That a full queue is
not empty needs that the count is exact, that is, what `Sum` computes for the front
and the rest of a sequence; this is induction over its places, in a form the provers
can use: a set of places that has 0, and with each place the next, has all
(`AllPlaces`, from the least place that is missing).

`BlobStoresProofs`: `StoresInv` says what a pass of a collector still holds for
removal: content that only jobs or entries use which were committed after its query
(`DoomedArtifacts`, `DoomedEntries`).  `PromptIsKept` is the grace period's argument:
while a prompt publication goes on, the file is no older than the publication, so no
pass finds it old before its row exists.

`CacheEvictionProofs`: the loop of `ExpireCache` is a recursive function over the rows in
the order of use.  `LoopInv` says of the account after i rows that it has counted out
the contents it evicted, each of which occurs among these rows, and that each of them
did not fit with the contents first used no earlier, and that it has evicted all of
them as long as it is above the limit; it holds of every i by the same form of
induction.  `RecencyInv` supplies what the loop relies on, that the order of
use has exactly the live keys.

`ScmProofs`, the compiler: `CompilerInv` says that `indegree` counts exactly the
dependencies that are not ordered yet, that `ready` is exactly what is not ordered
and has none, that no ordered job belongs to a knot (a set of jobs each of which
needs one of them), and that `ordered` is as large as the order is long.  When
nothing is ready the jobs that are left form a knot, and the largest.

`ScmProofs`, deliveries: `DeliveryInv` adds to the property that a transaction sees
every delivery that has arrived or overlapped with it, and that only a PROCESSING
row has an expired claim and only a FAILED one a next attempt.  With that, what a
webhook ends stays dead: no claim takes it, and a worker with an old token does
not own it.  `Pursued` says that the delivery of a run that was not announced is claimed
or will be tried again: a transaction that ends it announces the run, ends the run too,
or is excepted.  `Retried` counts: an attempt beyond `MaxAttempts` follows on a claim that
was lost (`Lost`), and as long as it is, one of the failures has not been used up.

`ScmProofs`, checks: `CheckInv` adds that an ID that anybody knows is that of an
existing check, and that a worker who is about to create a check has missed none,
unless a request was overtaken.  `ShownInOrder` orders what a check can show from
queued to a conclusion, and says that the record is never ahead of GitHub, GitHub
never ahead of the run, and the worker's request between the two; so when the record
equals the run, GitHub does.

`LocalManagerProofs`: `Inv` has a part for the event loop and a part for the
manager.  The loop's part says that every running job has exactly one goroutine or
one completion that is not received (`Accounted`), that a pass over `graph.Order`
leaves no pending job behind that it should have blocked (`Scanned`), and that the
loop sees a canceled job only after it noticed the cancellation (`CancelNoticed`).
When nothing runs, the first pending job in the order would therefore have all its
dependencies passed and be ready: the branch for stuck jobs is dead.  The manager's
part says that the jobs of a run nobody claimed or canceled are pending
(`UnclaimedIsPending`), and that the run in execution is the claimed one and not
PASSED (`ClaimHeld`).  Each action of the manager either lets the loop rest, starts
it afresh, or is a step of the loop with its record, and the lemmas follow these
three cases.  `Attended` is the argument against a lost wake-up: the dispatcher waits
only after it found no queued run, and a run that is queued later comes with a token or
with the `Notify` of its submission.

Only model-checked: the liveness properties (`EveryRunEnds`, `EveryJobSettles`,
`LostWorkStops`, `EveryJobIsReported`, `EveryLocalRunEnds`, `EveryDeliverySettles`,
`EveryRunIsAnnounced`, `ChecksConverge`, `OrphansAreCollected`), since the prover
handles neither fairness nor ENABLED.  Every other property that a passing run checks is
also proved.

## 5. Findings

- A RUNNING run that a newer pull request delivery supersedes keeps its PENDING
  jobs; no claim takes them and the run never ends (`superseded_running`).  A
  QUEUED one becomes CANCELED and keeps its PENDING jobs.
- The sweeper does not lock the run; with a concurrent report or cancellation
  neither transaction ends the run, and it stays RUNNING with all jobs terminal
  (`lost_finalization`).
- A heartbeat response cancels a job whose lease was acquired while the heartbeat
  was in flight (`heartbeat_race`).  The job is reported CANCELED; its run has no
  cancellation request and can end PASSED.

What the other runs state as exceptions, or what was seen while modelling:

- The claim counts the running jobs of a run in a sub-select, which is not
  evaluated again when rows are locked: claims of two runners that overlap can
  exceed the run's `max_parallel`, which `docs/job-scheduling.md:5` promises.
- `WaitBatch` of the log queue reads chunks and the closed flag in two lock
  sections.  Output accepted in between and followed by Close is not uploaded
  although the job is reported PASSED (`docs/job-logs.md:14`); `PassedLosesOnlyTheEnd`
  bounds what can be lost.  A queue that fills up in between leaves uploader and
  writer waiting for each other until the job is canceled: the state `Stalled` that
  `EveryJobIsReported` excepts.
- In local mode a failed claim consumes the wake-up, or leaves the run RUNNING
  until the next start; `Submit` returns without Notify when it cannot read back
  the run it created.  A cancellation between the claim and the registration of
  the active run cancels no context: the jobs are executed, and jobs the
  cancellation marked CANCELED become RUNNING again, in a run that has ended or
  will end by its jobs.
- Two webhooks of one pull request whose transactions overlap do not see each
  other's row: both heads stay alive.
- A trigger's run is created, and the answer to the completion of its delivery is
  lost: no Notify follows, and in local mode the run waits for the next
  submission.  An error of `GetSCMRepository` fails the delivery for good
  (`worker.go:167`), where `docs/github-scm.md:52` says that database failures retry.
- A request that GitHub processes after the worker's time-out can leave a second
  check or an old state on the check; nothing looks at it again.
- `Put` of content that is there does not renew the age of the file, so the grace
  period does not protect an artifact whose content another job uploaded long ago;
  and the removal of unreferenced cache content has no grace period at all.
  `CacheCommit` does not look for the file; the entry is then a miss for remote jobs,
  and each lookup keeps it from expiring.

## 6. Where to go on

A refinement of the statements of `SchedulerTransactions` to the transactions of
`JobScheduler` itself, where the code keeps it (section 5 says where it does not).  A
model of the readers of logs, which page through rows while they are appended.

## 7. Not modelled

- Snapshots and workspaces (`snapshot/`, `runworkspace/`, the archive code of
  `artifact/`): file trees and archive formats; one process works on each
  directory, and the outcomes (prepared, failed) are modelled where they are used.
- Executors: processes and containers; their outcome is that of a job.
- The syntax checks of `config/` and the YAML reader: each looks at one value.
- HTTP decoding, authentication, tokens, signatures, presentation, polling of the
  command line.
- Git processes and the GitHub client beyond what a call may do: succeed, fail
  before or after its effect, or take effect late.
- The run-level leases of protocol 1 (`LeaseRun`, `RenewLease`, `CompleteRun`,
  `ExpireLeases` in `postgres.go`), which no route of this server reaches.
- The paging of job logs and the log session of local execution, which writes
  synchronously in the goroutine of the job.
