---------------------------- MODULE RemoteRunner ----------------------------
(***************************************************************************)
(* The forge-runner processes, composed with the control plane of module   *)
(* JobScheduler.  A process has three loops (heartbeats, lease deadlines,  *)
(* requests for work) and one goroutine per leased job.  A request is      *)
(* sent, served by a transaction of JobScheduler, and answered; it may be  *)
(* lost before or after it is served.                                      *)
(*                                                                         *)
(* A job is leased once (NeverReassigned), so what a process knows of a    *)
(* lease is kept per job; the process that has it is owner[j].  Times are  *)
(* relative, as in JobScheduler; runner and server clocks agree.           *)
(***************************************************************************)
EXTENDS JobScheduler

VARIABLES
  process,   \* process[n]: "down", "up", or "closing": shutdown is between
             \* cancelActive and the cancellation of everything else
  poll,      \* poll[n]: the request for work: "idle", "sent" or "answered"
  beat,      \* beat[n]: the heartbeat in progress
  stage,     \* stage[j]: where executeLeasedJob is; "offered": the lease is
             \* in a response on its way
  canceled,  \* canceled[j]: the context of the execution is canceled
  deadline,  \* deadline[j]: activeJob.lease.ExpiresAt - now, 0 once passed
  report     \* report[j]: the completion request on its way, or "none"

agentVars == <<process, poll, beat, stage, canceled, deadline, report>>
loopVars  == <<process, poll, beat>>
execVars  == <<stage, canceled, deadline, report>>
systemVars == <<vars, agentVars>>

Executing == {"prepare", "restore", "run", "publish"}

\* rr.active: the jobs whose goroutine has not returned.
active(n) == {j \in Job : owner[j] = n /\ stage[j] \in Executing \cup {"reporting"}}

\* leases: what the request lists; valid, cancel, left: what the response
\* says of them and how long the renewed leases still last.
NoBeat == [pc |-> "idle", leases |-> {}, valid |-> {}, cancel |-> {}, left |-> 0]

SystemInit ==
  /\ Init
  /\ process = [n \in Runner |-> "down"]
  /\ poll = [n \in Runner |-> "idle"]
  /\ beat = [n \in Runner |-> NoBeat]
  /\ stage = [j \in Job |-> "none"]
  /\ canceled = [j \in Job |-> FALSE]
  /\ deadline = [j \in Job |-> 0]
  /\ report = [j \in Job |-> "none"]

-----------------------------------------------------------------------------
(***************************************************************************)
(* The process.                                                            *)
(***************************************************************************)
Start(n) ==
  /\ process[n] = "down"
  /\ RegisterRunner(n)
  /\ process' = [process EXCEPT ![n] = "up"]
  /\ UNCHANGED <<poll, beat, execVars>>

\* The contexts of the jobs S are canceled.
Cancel(S) == canceled' = [j \in Job |-> canceled[j] \/ j \in S]

\* A signal: shutdown first cancels the active jobs.
Shutdown(n) ==
  /\ process[n] = "up"
  /\ process' = [process EXCEPT ![n] = "closing"]
  /\ Cancel(active(n))
  /\ UNCHANGED <<vars, poll, beat, stage, deadline, report>>

\* The rest of shutdown, or a crash: the context of every request and every
\* execution is canceled, so that no report is sent any more.
Exit(n) ==
  /\ process[n] # "down"
  /\ process' = [process EXCEPT ![n] = "down"]
  /\ poll' = [poll EXCEPT ![n] = "idle"]
  /\ beat' = [beat EXCEPT ![n] = NoBeat]
  /\ stage' = [j \in Job |-> IF owner[j] = n THEN "none" ELSE stage[j]]
  /\ UNCHANGED <<vars, canceled, deadline, report>>

-----------------------------------------------------------------------------
(***************************************************************************)
(* workLoop: at most one request for work at a time.                       *)
(***************************************************************************)
HasSlot(n) == Cardinality(active(n)) < registered[n].capacity

RequestLease(n) ==
  /\ process[n] # "down" /\ poll[n] = "idle"
  /\ HasSlot(n)
  /\ poll' = [poll EXCEPT ![n] = "sent"]
  /\ UNCHANGED <<vars, process, beat, execVars>>

ServeLease(n, j) ==
  /\ poll[n] = "sent"
  /\ LeaseJob(n, j)
  /\ poll' = [poll EXCEPT ![n] = "answered"]
  /\ stage' = [stage EXCEPT ![j] = "offered"]
  /\ deadline' = [deadline EXCEPT ![j] = LeaseTTL]
  /\ UNCHANGED <<process, beat, canceled, report>>

\* No work within the long poll, an error, or a response that never comes.
NoLease(n) ==
  /\ poll[n] # "idle"
  /\ poll' = [poll EXCEPT ![n] = "idle"]
  /\ stage' = [j \in Job |-> IF owner[j] = n /\ stage[j] = "offered" THEN "none" ELSE stage[j]]
  /\ UNCHANGED <<vars, process, beat, canceled, deadline, report>>

ReceiveLease(n, j) ==
  /\ poll[n] = "answered" /\ owner[j] = n /\ stage[j] = "offered"
  /\ poll' = [poll EXCEPT ![n] = "idle"]
  /\ stage' = [stage EXCEPT ![j] = IF HasSlot(n) THEN "prepare" ELSE "none"]
  /\ UNCHANGED <<vars, process, beat, canceled, deadline, report>>

\* The snapshot of the lease is malformed or beyond the runner's limits.
RefuseLeaseAndRun(n, j) ==
  /\ poll[n] = "answered" /\ owner[j] = n /\ stage[j] = "offered"
  /\ poll' = [poll EXCEPT ![n] = "idle"]
  /\ stage' = [stage EXCEPT ![j] = "prepare"]
  /\ report' = [report EXCEPT ![j] = "ERROR"]
  /\ UNCHANGED <<vars, process, beat, canceled, deadline>>
RefuseLease(n, j) ==
  /\ poll[n] = "answered" /\ owner[j] = n /\ stage[j] = "offered"
  /\ poll' = [poll EXCEPT ![n] = "idle"]
  /\ stage' = [stage EXCEPT ![j] = "none"]
  /\ report' = [report EXCEPT ![j] = "ERROR"]
  /\ UNCHANGED <<vars, process, beat, canceled, deadline>>

-----------------------------------------------------------------------------
(***************************************************************************)
(* heartbeatLoop and leaseDeadlineLoop.                                    *)
(***************************************************************************)
SendHeartbeat(n) ==
  /\ process[n] # "down" /\ beat[n].pc = "idle"
  /\ beat' = [beat EXCEPT ![n] = [pc |-> "sent", leases |-> active(n),
                                    valid |-> {}, cancel |-> {}, left |-> 0]]
  /\ UNCHANGED <<vars, process, poll, execVars>>

ServeHeartbeat(n) ==
  LET leases == beat[n].leases
      valid == {j \in leases : HoldsLease(n, j, generation[j])}
  IN  /\ beat[n].pc = "sent"
      /\ HeartbeatJobLeases(n, {<<j, generation[j]>> : j \in leases})
      /\ beat' = [beat EXCEPT ![n] = [pc |-> "answered", leases |-> leases, valid |-> valid,
                    cancel |-> {j \in valid : cancelRequested[RunOf[j]]}, left |-> LeaseTTL]]
      /\ UNCHANGED <<process, poll, execVars>>

NoHeartbeat(n) ==
  /\ beat[n].pc # "idle"
  /\ beat' = [beat EXCEPT ![n] = NoBeat]
  /\ UNCHANGED <<vars, process, poll, execVars>>

\* The response carries the time of expiry, not a duration.
RenewedUntilOnArrival(n) == LeaseTTL
RenewedUntil(n) == beat[n].left

\* An active job that the response does not call valid, or does not mention,
\* is told to stop.
ReceiveHeartbeat(n) ==
  LET kept == beat[n].valid \ beat[n].cancel
  IN  /\ beat[n].pc = "answered"
      /\ Cancel(active(n) \ kept)
      /\ deadline' = [j \in Job |-> IF j \in active(n) \cap kept
                                    THEN RenewedUntil(n) ELSE deadline[j]]
      /\ beat' = [beat EXCEPT ![n] = NoBeat]
      /\ UNCHANGED <<vars, process, poll, stage, report>>

\* The body of the response cannot be decoded: cancelActive.
UnreadableHeartbeat(n) ==
  /\ beat[n].pc = "answered"
  /\ Cancel(active(n))
  /\ beat' = [beat EXCEPT ![n] = NoBeat]
  /\ UNCHANGED <<vars, process, poll, stage, deadline, report>>

LeaseDeadlineInverted(n) ==
  LET late == {j \in active(n) : deadline[j] > 0 /\ ~canceled[j]}
  IN  /\ process[n] # "down"
      /\ late # {}
      /\ Cancel(late)
      /\ UNCHANGED <<vars, loopVars, stage, deadline, report>>
LeaseDeadline(n) ==
  LET late == {j \in active(n) : deadline[j] = 0 /\ ~canceled[j]}
  IN  /\ process[n] # "down"
      /\ late # {}
      /\ Cancel(late)
      /\ UNCHANGED <<vars, loopVars, stage, deadline, report>>

-----------------------------------------------------------------------------
(***************************************************************************)
(* executeLeasedJob.  Every step may fail for reasons of its own (disk,    *)
(* network, a refusal of the server), and one that uses the context fails  *)
(* once that is canceled.                                                  *)
(***************************************************************************)
Goes(j, next) ==
  /\ stage' = [stage EXCEPT ![j] = next]
  /\ UNCHANGED <<vars, loopVars, canceled, deadline, report>>

\* The one completion request of the job.
Sends(j, status) ==
  /\ stage' = [stage EXCEPT ![j] = "reporting"]
  /\ report' = [report EXCEPT ![j] = status]
  /\ UNCHANGED <<vars, loopVars, canceled, deadline>>

\* What a failure is reported as once the job has its source.
FailureOf(j) == IF canceled[j] THEN {"CANCELED"} ELSE {"FAILED", "ERROR"}

\* The check of the routes for source, artifacts and logs: validArtifactLease.
ServerAdmits(j) ==
  /\ runStatus[RunOf[j]] = "RUNNING"
  /\ HoldsLease(owner[j], j, generation[j])

\* Workspace, download and extraction of the source; a failure is an ERROR
\* whatever its cause.
PrepareSource(j) ==
  /\ stage[j] = "prepare"
  /\ \/ ~canceled[j] /\ ServerAdmits(j) /\ Goes(j, "restore")
     \/ Sends(j, "ERROR")

\* The artifacts the predecessors of the job uploaded.
RestoreArtifacts(j) ==
  /\ stage[j] = "restore"
  /\ \/ /\ Needs[j] \cap UploadJob # {} => ~canceled[j] /\ ServerAdmits(j)
        /\ Goes(j, "run")
     \/ /\ Needs[j] \cap UploadJob # {}
        /\ \E status \in FailureOf(j) : Sends(j, status)

\* The commands end and the log queue is drained; ERROR also when the logs of
\* commands that succeeded could not be uploaded.
RunCommands(j) ==
  /\ stage[j] = "run"
  /\ \/ Goes(j, "publish")
     \/ \E status \in FailureOf(j) \cup {"ERROR"} : Sends(j, status)

\* The server commits the artifact set; the response may be lost.
ServeCommit(j) ==
  /\ stage[j] = "publish" /\ ~canceled[j]
  /\ CommitArtifacts(owner[j], j, generation[j])
  /\ UNCHANGED agentVars

Publish(j) ==
  /\ stage[j] = "publish"
  /\ \/ /\ j \in UploadJob => artifacts[j] = "kept"
        /\ Sends(j, "PASSED")
     \/ /\ j \in UploadJob
        /\ \E status \in FailureOf(j) : Sends(j, status)

\* The server accepts the report, or refuses it: the lease is not the current
\* one any more.
ServeReport(j) ==
  /\ report[j] # "none"
  /\ \/ CompleteJob(owner[j], j, generation[j], report[j])
     \/ /\ ~ HoldsLease(owner[j], j, generation[j])
        /\ UNCHANGED vars
  /\ report' = [report EXCEPT ![j] = "none"]
  /\ UNCHANGED <<loopVars, stage, canceled, deadline>>

LoseReport(j) ==
  /\ report[j] # "none"
  /\ report' = [report EXCEPT ![j] = "none"]
  /\ UNCHANGED <<vars, loopVars, stage, canceled, deadline>>

\* The report was answered, or given up: it is not sent again.
RetireKeepsLease(j) ==
  /\ stage[j] = "reporting" /\ report[j] = "none"
  /\ jobStatus[j] # "RUNNING"
  /\ Goes(j, "none")
Retire(j) ==
  /\ stage[j] = "reporting"
  /\ Goes(j, "none")

-----------------------------------------------------------------------------
SystemTick ==
  /\ Tick
  /\ deadline' = [j \in Job |-> IF deadline[j] > 0 THEN deadline[j] - 1 ELSE 0]
  /\ beat' = [n \in Runner |-> IF beat[n].left > 0 THEN [beat[n] EXCEPT !.left = @ - 1]
                                ELSE beat[n]]
  /\ UNCHANGED <<process, poll, stage, canceled, report>>

Agent(n) ==
  \/ Start(n) \/ Shutdown(n) \/ Exit(n)
  \/ RequestLease(n) \/ NoLease(n)
  \/ \E j \in Job : ServeLease(n, j) \/ ReceiveLease(n, j) \/ RefuseLease(n, j)
  \/ SendHeartbeat(n) \/ ServeHeartbeat(n) \/ NoHeartbeat(n)
  \/ ReceiveHeartbeat(n) \/ UnreadableHeartbeat(n)
  \/ LeaseDeadline(n)

Execution(j) ==
  \/ PrepareSource(j) \/ RestoreArtifacts(j) \/ RunCommands(j)
  \/ ServeCommit(j) \/ Publish(j)
  \/ ServeReport(j) \/ LoseReport(j) \/ Retire(j)

ControlPlane ==
  /\ \/ \E r \in Run : CreateRun(r) \/ CancelQueued(r) \/ RequestCancel(r)
     \/ ExpireJobLeases
     \/ RecoverRemoteJobs
  /\ UNCHANGED agentVars

SystemNext ==
  \/ \E n \in Runner : Agent(n)
  \/ \E j \in Job : Execution(j)
  \/ ControlPlane
  \/ SystemTick

SystemSpec == SystemInit /\ [][SystemNext]_systemVars

(***************************************************************************)
(* Fairness.  Time passes and the deadline loop is a ticker.  A canceled   *)
(* execution ends, since its context kills the commands and every request  *)
(* it makes; one that is not canceled may go on for ever.                  *)
(***************************************************************************)
Step(j) ==
  PrepareSource(j) \/ RestoreArtifacts(j) \/ RunCommands(j) \/ Publish(j)

StopFairness ==
  /\ WF_systemVars(SystemTick)
  /\ WF_systemVars(ControlPlane /\ ExpireJobLeases)
  /\ \A n \in Runner : WF_systemVars(LeaseDeadline(n))
  /\ \A j \in Job : WF_systemVars(canceled[j] /\ Step(j)) /\ WF_systemVars(Retire(j))

FairSystemSpec == SystemSpec /\ StopFairness

-----------------------------------------------------------------------------
(***************************************************************************)
(* Properties.                                                             *)
(***************************************************************************)

\* The server never has the result of a job whose commands may still run: it
\* considers the job RUNNING, or has given it up as ABORTED.
ExecutionIsAccounted ==
  \A j \in Job : stage[j] \in Executing => jobStatus[j] \in {"RUNNING", "ABORTED"}

\* The deadline a process watches is never later than the server's expiry, so
\* it stops a job no later than the server gives it up.
DeadlineNotLate ==
  \A n \in Runner : \A j \in active(n) :
    jobStatus[j] = "RUNNING" => deadline[j] <= leaseLeft[j]

\* A job that the server gave up, or whose run is to be canceled, is not
\* executed for ever, even if no heartbeat gets through and no command ends
\* by itself.
LostWorkStops ==
  \A j \in Job :
    stage[j] \in Executing /\ (jobStatus[j] = "ABORTED" \/ cancelRequested[RunOf[j]])
    ~> stage[j] \notin Executing

\* Whatever messages are lost and processes exit, a job is RUNNING for ever
\* only if its commands are: otherwise it is reported, or its lease runs out.
EveryJobSettles ==
  \A j \in Job : jobStatus[j] = "RUNNING" ~> jobStatus[j] # "RUNNING" \/ stage[j] \in Executing

\* docs/remote-runners.md: "Each result independently renews or cancels only
\* its exact lease": what a heartbeat response cancels it has a result for.
HeartbeatCancelsItsLeases ==
  [][\A n \in Runner : ReceiveHeartbeat(n) =>
       \A j \in active(n) : canceled'[j] /\ ~canceled[j] => j \in beat[n].leases]_systemVars
=============================================================================
