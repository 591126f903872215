------------------------- MODULE RemoteRunnerProofs -------------------------
(***************************************************************************)
(* The runners and the control plane together, for any number of them and  *)
(* any loss of messages: the control plane keeps its invariants, it has no *)
(* result of a job that is still executed, and no runner relies on a lease *)
(* for longer than the control plane does.                                 *)
(*                                                                         *)
(* First comes what the control plane needs for its verdicts, and for      *)
(* never being at a dead end: a theorem of JobScheduler by itself, that    *)
(* the system inherits.                                                    *)
(***************************************************************************)
EXTENDS RemoteRunner, JobSchedulerProofs

-----------------------------------------------------------------------------
(***************************************************************************)
(* The verdicts of runs, and that no active run is at a dead end.  Both    *)
(* rest on what a transaction that ends jobs leaves behind: it blocks what *)
(* can no longer start, and ends the run with its last job.  Settled is    *)
(* what the inductive invariant needs besides Inv.                         *)
(***************************************************************************)

\* A terminal run with a PENDING job was superseded while it was queued.
AbandonedIsCanceled ==
  \A j \in Job : runStatus[RunOf[j]] \in RunTerminal /\ jobStatus[j] = "PENDING" =>
    runStatus[RunOf[j]] = "CANCELED"

\* Cancellation reaches the PENDING jobs at once, except in a run that was
\* superseded.
CanceledIsNotPending ==
  \A j \in Job : cancelRequested[RunOf[j]] /\ RunOf[j] \notin PullRequestRun =>
    jobStatus[j] # "PENDING"

\* A run is finalized with its last job.
ActiveIsUnfinished ==
  \A r \in Run : runStatus[r] \in RunActive =>
    \E j \in JobsOf(r) : jobStatus[j] \in JobUnfinished

\* No PENDING job has a predecessor that did not pass.
PendingIsNotDoomed ==
  \A j \in Job : jobStatus[j] = "PENDING" => \A d \in Needs[j] : jobStatus[d] \notin JobDidNotPass

Settled ==
  /\ VerdictMatchesJobs
  /\ AbandonedIsCanceled
  /\ CanceledIsNotPending
  /\ ActiveIsUnfinished
  /\ PendingIsNotDoomed

\* What a transaction that ends jobs leaves behind in a run: the verdict, if
\* it is over, an unfinished job, if it is not, ...
VerdictIsDue(r) ==
  /\ \/ runStatus'[r] = runStatus[r]
     \/ /\ runStatus[r] \in RunActive
        /\ \A j \in JobsOf(r) : jobStatus'[j] \in JobTerminal
        /\ runStatus'[r] = Outcome(jobStatus', cancelRequested'[r], r)
  /\ \/ runStatus'[r] \notin RunActive
     \/ \E j \in JobsOf(r) : jobStatus'[j] \in JobUnfinished
     \/ \A j \in JobsOf(r) : jobStatus'[j] = jobStatus[j]

\* ... no PENDING job if it asks for cancellation, ...
CancelReachesJobs(r) ==
  \/ cancelRequested'[r] = cancelRequested[r]
  \/ /\ runStatus[r] \in RunActive
     /\ \A j \in JobsOf(r) : jobStatus'[j] # "PENDING"

\* ... and no PENDING job behind one that now did not pass.
BlocksDependents(j) ==
  jobStatus'[j] = "PENDING" =>
    \A d \in Needs[j] : jobStatus'[d] \in JobDidNotPass => jobStatus[d] \in JobDidNotPass

SettlingStep ==
  /\ \A r \in Run : VerdictIsDue(r) /\ CancelReachesJobs(r)
  /\ \A j \in Job : BlocksDependents(j)

-----------------------------------------------------------------------------
\* finalizeRun for the runs R, the only ones whose jobs change.
LEMMA FinalizeSettles ==
  ASSUME TypeOK, NEW js \in [Job -> JobStatus], NEW R \in SUBSET Run,
         jobStatus' = js, finalizeRun(js, cancelRequested', R),
         \A j \in Job : RunOf[j] \notin R => js[j] = jobStatus[j],
         NEW r \in Run
  PROVE  VerdictIsDue(r)
<1> DEFINE F == Finalized(js, R)
<1>1. runStatus' = [x \in Run |-> IF x \in F THEN Outcome(js, cancelRequested'[x], x)
                                 ELSE runStatus[x]]
  BY Zenon DEF finalizeRun
<1>2. CASE r \in F
  <2>1. runStatus[r] \in RunActive /\ \A j \in JobsOf(r) : js[j] \in JobTerminal
    BY Zenon, <1>2 DEF Finalized, JobsOf, JobStatus, JobUnfinished
  <2>2. runStatus'[r] = Outcome(jobStatus', cancelRequested'[r], r)
    BY Zenon, <1>1, <1>2
  <2>3. runStatus'[r] \notin RunActive
    BY Zenon, <2>2, OutcomeTerminal DEF RunActive, RunTerminal
  <2> QED
    BY Zenon, <2>1, <2>2, <2>3 DEF VerdictIsDue
<1>3. CASE r \notin F /\ r \in R
  <2>1. runStatus'[r] = runStatus[r]
    BY Zenon, <1>1, <1>3
  <2>2. runStatus[r] \notin RunActive \/ \E j \in JobsOf(r) : js[j] \in JobUnfinished
    BY Zenon, <1>3 DEF Finalized
  <2> QED
    BY Zenon, <2>1, <2>2 DEF VerdictIsDue
<1>4. CASE r \notin R
  <2>1. runStatus'[r] = runStatus[r]
    BY Zenon, <1>1, <1>4 DEF Finalized
  <2>2. \A j \in JobsOf(r) : js[j] = jobStatus[j]
    BY Zenon, <1>4 DEF JobsOf
  <2> QED
    BY Zenon, <2>1, <2>2 DEF VerdictIsDue
<1> QED
  BY Zenon, <1>2, <1>3, <1>4

\* blockDependents in the runs R, the only ones whose jobs ended.
LEMMA BlockingSettles ==
  ASSUME NEW ended \in [Job -> JobStatus], NEW R \in SUBSET Run,
         jobStatus' = blockDependents(ended, R),
         \A j \in Job : RunOf[j] \notin R => ended[j] = jobStatus[j],
         NEW j \in Job
  PROVE  BlocksDependents(j)
<1> DEFINE B == Blocked(ended, R)
<1> SUFFICES ASSUME jobStatus'[j] = "PENDING", NEW d \in Needs[j],
                    jobStatus'[d] \in JobDidNotPass
             PROVE  jobStatus[d] \in JobDidNotPass
  BY Zenon DEF BlocksDependents
<1>1. d \in Job /\ RunOf[d] = RunOf[j]
  BY Zenon, GraphAssumption
<1>2. jobStatus'[j] = IF j \in B THEN "BLOCKED" ELSE ended[j]
  BY Zenon DEF blockDependents
<1>3. jobStatus'[d] = IF d \in B THEN "BLOCKED" ELSE ended[d]
  BY Zenon, <1>1 DEF blockDependents
<1>4. j \notin B /\ ended[j] = "PENDING"
  BY Zenon, <1>2
<1>5. BlockClosed(ended, R, B)
  BY Zenon, BlockedFacts
<1>6. ended[d] \in JobDidNotPass \/ d \in B
  BY Zenon, <1>3
<1>7. RunOf[j] \notin R
  BY Zenon, <1>4, <1>5, <1>6 DEF BlockClosed
<1>8. d \notin B
  BY Zenon, <1>1, <1>7, BlockedFacts
<1> QED
  BY Zenon, <1>1, <1>3, <1>7, <1>8

\* A report, and what follows from it.
LEMMA CompleteJobSettles ==
  ASSUME Inv, NEW n \in Runner, NEW j \in Job, NEW g \in Nat,
         NEW status \in Reportable, CompleteJob(n, j, g, status)
  PROVE  SettlingStep
<1> DEFINE reported == [jobStatus EXCEPT ![j] = status]
           js == IF status = "PASSED" THEN reported ELSE blockDependents(reported, {RunOf[j]})
<1>1. /\ jobStatus' = js
      /\ finalizeRun(js, cancelRequested', {RunOf[j]})
      /\ cancelRequested' = cancelRequested
  BY Zenon DEF CompleteJob
<1>2. /\ reported \in [Job -> JobStatus]
      /\ \A k \in Job : k # j => reported[k] = jobStatus[k]
      /\ reported[j] = status
  BY Zenon DEF Inv, TypeOK, Reportable, JobStatus, JobTerminal, JobDidNotPass
<1>3. {RunOf[j]} \in SUBSET Run
  BY GraphAssumption
<1>4. /\ js \in [Job -> JobStatus]
      /\ \A k \in Job : RunOf[k] \notin {RunOf[j]} => js[k] = jobStatus[k]
  <2>1. CASE status = "PASSED"
    BY Zenon, <1>2, <2>1
  <2>2. CASE status # "PASSED"
    <3> HIDE DEF reported
    <3>1. /\ js \in [Job -> JobStatus]
          /\ \A k \in Job : js[k] = reported[k] \/ RunOf[k] \in {RunOf[j]}
      BY Zenon, <1>2, <2>2, BlockDependentsFacts
    <3> QED
      BY Zenon, <1>2, <3>1
  <2> QED
    BY Zenon, <2>1, <2>2
<1>5. \A k \in Job : BlocksDependents(k)
  <2>1. CASE status = "PASSED"
    BY Zenon, <1>1, <1>2, <2>1, GraphAssumption DEF BlocksDependents, JobDidNotPass
  <2>2. CASE status # "PASSED"
    <3> HIDE DEF reported
    <3>1. jobStatus' = blockDependents(reported, {RunOf[j]})
      BY Zenon, <1>1, <2>2
    <3>2. \A k \in Job : RunOf[k] \notin {RunOf[j]} => reported[k] = jobStatus[k]
      BY Zenon, <1>2
    <3> QED
      BY Zenon, <1>2, <1>3, <3>1, <3>2, BlockingSettles
  <2> QED
    BY Zenon, <2>1, <2>2
<1> HIDE DEF reported, js
<1>6. \A r \in Run : VerdictIsDue(r)
  BY Zenon, <1>1, <1>3, <1>4, FinalizeSettles DEF Inv
<1> QED
  BY Zenon, <1>1, <1>5, <1>6 DEF SettlingStep, CancelReachesJobs

\* The jobs whose runner is lost.
LEMMA AbortJobsSettles ==
  ASSUME Inv, NEW lost \in SUBSET Job, AbortJobs(lost)
  PROVE  SettlingStep
<1> DEFINE aborted == [j \in Job |-> IF j \in lost THEN LostStatus ELSE jobStatus[j]]
           affected == {RunOf[j] : j \in lost}
           js == blockDependents(aborted, affected)
<1>1. /\ jobStatus' = js
      /\ finalizeRun(js, cancelRequested', affected)
      /\ cancelRequested' = cancelRequested
  BY Zenon DEF AbortJobs
<1>2. /\ aborted \in [Job -> JobStatus]
      /\ \A j \in Job \ lost : aborted[j] = jobStatus[j]
  BY Zenon DEF Inv, TypeOK, LostStatus, JobStatus, JobTerminal, JobDidNotPass
<1>3. affected \in SUBSET Run /\ \A j \in lost : RunOf[j] \in affected
  BY GraphAssumption
<1> HIDE DEF aborted, affected
<1>4. \A j \in Job : RunOf[j] \notin affected => aborted[j] = jobStatus[j]
  BY Zenon, <1>2, <1>3
<1>5. /\ js \in [Job -> JobStatus]
      /\ \A j \in Job : RunOf[j] \notin affected => js[j] = jobStatus[j]
  BY Zenon, <1>2, <1>4, BlockDependentsFacts
<1>6. \A j \in Job : BlocksDependents(j)
  BY Zenon, <1>1, <1>2, <1>3, <1>4, BlockingSettles
<1> HIDE DEF js
<1>7. \A r \in Run : VerdictIsDue(r)
  BY Zenon, <1>1, <1>3, <1>5, FinalizeSettles DEF Inv
<1> QED
  BY Zenon, <1>1, <1>6, <1>7 DEF SettlingStep, CancelReachesJobs

\* A canceled run: its PENDING jobs are canceled with it.
LEMMA CancelSettles ==
  ASSUME Inv, NEW r \in Run, CancelQueued(r) \/ RequestCancel(r)
  PROVE  SettlingStep
<1>1. /\ runStatus[r] \in RunActive
      /\ jobStatus' = CancelPending(r)
      /\ cancelRequested' = [cancelRequested EXCEPT ![r] = TRUE]
  BY Zenon DEF CancelQueued, RequestCancel, RunActive
<1>2. /\ jobStatus' \in [Job -> JobStatus]
      /\ \A j \in JobsOf(r) : jobStatus'[j] # "PENDING"
      /\ \A j \in Job : RunOf[j] # r => jobStatus'[j] = jobStatus[j]
      /\ \A j \in JobsOf(r) : jobStatus[j] # "PENDING" => jobStatus'[j] = jobStatus[j]
      /\ \A j \in JobsOf(r) : jobStatus[j] = "PENDING" => jobStatus'[j] = "CANCELED"
  BY Zenon, <1>1 DEF CancelPending, JobsOf, Inv, TypeOK, JobStatus, JobTerminal, JobDidNotPass
<1>3. \A x \in Run : CancelReachesJobs(x)
  BY Zenon, <1>1, <1>2 DEF CancelReachesJobs, Inv, TypeOK
<1>4. \A j \in Job : BlocksDependents(j)
  BY <1>2, GraphAssumption DEF BlocksDependents, JobsOf
<1>5. CASE CancelQueued(r)
  <2>1. runStatus' = [runStatus EXCEPT ![r] = "CANCELED"] /\ runStatus[r] = "QUEUED"
    BY Zenon, <1>5 DEF CancelQueued
  <2>2. \A j \in JobsOf(r) : jobStatus'[j] = "CANCELED"
    BY Zenon, <1>2, <2>1 DEF Inv, QueuedIsFresh, JobsOf
  <2>3. runStatus'[r] = Outcome(jobStatus', cancelRequested'[r], r)
    BY Zenon, <1>1, <2>1, <2>2 DEF Outcome, Inv, TypeOK
  <2>4. \A x \in Run : VerdictIsDue(x)
    <3> TAKE x \in Run
    <3>1. CASE x = r
      <4>1. runStatus'[r] \notin RunActive
        BY Zenon, <2>1 DEF Inv, TypeOK, RunActive
      <4> QED
        BY Zenon, <1>1, <2>2, <2>3, <3>1, <4>1 DEF VerdictIsDue, JobTerminal, JobDidNotPass
    <3>2. CASE x # r
      BY Zenon, <1>2, <2>1, <3>2 DEF VerdictIsDue, JobsOf, Inv, TypeOK
    <3> QED
      BY Zenon, <3>1, <3>2
  <2> QED
    BY Zenon, <1>3, <1>4, <2>4 DEF SettlingStep
<1>6. CASE RequestCancel(r)
  <2>1. finalizeRun(jobStatus', cancelRequested', {r})
    BY Zenon, <1>6 DEF RequestCancel
  <2>2. \A j \in Job : RunOf[j] \notin {r} => jobStatus'[j] = jobStatus[j]
    BY Zenon, <1>2
  <2>3. PICK js \in [Job -> JobStatus] : js = jobStatus'
    BY Zenon, <1>2
  <2>4. \A x \in Run : VerdictIsDue(x)
    BY Zenon, <2>1, <2>2, <2>3, FinalizeSettles DEF Inv
  <2> QED
    BY Zenon, <1>3, <1>4, <2>4 DEF SettlingStep
<1> QED
  BY Zenon, <1>5, <1>6

\* So the transactions that end jobs settle what there is to settle.
LEMMA EndingActionSettles ==
  ASSUME Inv, EndingAction
  PROVE  SettlingStep
<1>1. CASE \E r \in Run : CancelQueued(r) \/ RequestCancel(r)
  BY Zenon, <1>1, CancelSettles
<1>2. CASE \E n \in Runner, j \in Job, g \in Nat, status \in Reportable :
             CompleteJob(n, j, g, status)
  BY Zenon, <1>2, CompleteJobSettles
<1>3. CASE ExpireJobLeases
  <2> DEFINE lost == {j \in Job : jobStatus[j] = "RUNNING" /\ leased[j] /\ leaseLeft[j] = 0}
  <2>1. AbortJobs(lost)
    BY <1>3, Zenon DEF ExpireJobLeases
  <2> QED
    BY <2>1, AbortJobsSettles, Zenon
<1>4. CASE RecoverRemoteJobs
  <2> DEFINE lost == {j \in Job : jobStatus[j] = "RUNNING"}
  <2>1. AbortJobs(lost)
    BY Zenon, <1>4 DEF RecoverRemoteJobs
  <2> QED
    BY Zenon, <2>1, AbortJobsSettles
<1> QED
  BY Zenon, <1>1, <1>2, <1>3, <1>4 DEF EndingAction

-----------------------------------------------------------------------------
\* A run that ends gets the verdict that its jobs and its cancellation call
\* for, and the jobs of one that had ended stay as they are.
LEMMA VerdictStep ==
  ASSUME Inv, Settled, EndStep, SettlingStep
  PROVE  VerdictMatchesJobs'
<1> SUFFICES ASSUME NEW r \in Run PROVE VerdictMatches(r)'
  BY Zenon DEF VerdictMatchesJobs
<1>1. VerdictMatches(r)
  BY Zenon DEF Settled, VerdictMatchesJobs
<1>2. CASE runStatus'[r] # runStatus[r]
  <2>1. runStatus'[r] = Outcome(jobStatus', cancelRequested'[r], r)
    BY Zenon, <1>2 DEF SettlingStep, VerdictIsDue
  <2> QED
    BY Zenon, <2>1 DEF VerdictMatches, Outcome, RunTerminal
<1>3. CASE runStatus'[r] = runStatus[r] /\ runStatus[r] \in RunTerminal
  <2>1. cancelRequested'[r] = cancelRequested[r]
    BY Zenon, <1>3 DEF SettlingStep, CancelReachesJobs, RunActive, RunTerminal
  <2>2. \A j \in JobsOf(r) :
          \/ jobStatus'[j] = jobStatus[j]
          \/ jobStatus[j] = "PENDING" /\ jobStatus'[j] \in {"CANCELED", "BLOCKED"}
    <3> TAKE j \in JobsOf(r)
    <3>1. j \in Job /\ RunOf[j] = r
      BY Zenon DEF JobsOf
    <3>2. jobStatus[j] # "RUNNING"
      BY Zenon, <1>3, <3>1 DEF Inv, TerminalRunIsQuiet, JobTerminal, JobDidNotPass
    <3> QED
      BY Zenon, <3>1, <3>2, EndStepFacts
  <2>3. CASE runStatus[r] = "CANCELED"
    BY Zenon, <1>1, <1>3, <2>2, <2>3 DEF VerdictMatches
  <2>4. CASE runStatus[r] # "CANCELED"
    <3>1. \A j \in JobsOf(r) : jobStatus[j] # "PENDING"
      BY Zenon, <1>3, <2>4 DEF Settled, AbandonedIsCanceled, JobsOf
    <3>2. \A j \in JobsOf(r) : jobStatus'[j] = jobStatus[j]
      BY Zenon, <2>2, <3>1
    <3> QED
      BY Zenon, <1>1, <1>3, <2>1, <3>2 DEF VerdictMatches
  <2> QED
    BY Zenon, <2>3, <2>4
<1>4. CASE runStatus'[r] = runStatus[r] /\ runStatus[r] \notin RunTerminal
  BY Zenon, <1>4 DEF VerdictMatches, RunTerminal
<1> QED
  BY Zenon, <1>2, <1>3, <1>4

\* The transactions that end jobs keep the runs settled.
LEMMA EndingSettled ==
  ASSUME Inv, Settled, EndingAction
  PROVE  Settled'
<1> USE GraphAssumption
<1>1. EndStep /\ SettlingStep /\ Inv'
  BY Zenon, EndingActionEnds, EndingActionSettles, EndStepInv
<1>2. \A j \in Job : jobStatus'[j] = "PENDING" => jobStatus[j] = "PENDING"
  BY Zenon, <1>1, EndStepFacts DEF Reportable
<1>3. VerdictMatchesJobs'
  BY Zenon, <1>1, VerdictStep
<1>4. AbandonedIsCanceled'
  <2> SUFFICES ASSUME NEW j \in Job, runStatus'[RunOf[j]] \in RunTerminal,
                      jobStatus'[j] = "PENDING"
               PROVE  runStatus'[RunOf[j]] = "CANCELED"
    BY Zenon DEF AbandonedIsCanceled
  <2>1. runStatus'[RunOf[j]] = runStatus[RunOf[j]]
    BY Zenon, <1>1, EndStepFacts DEF JobTerminal, JobDidNotPass
  <2> QED
    BY Zenon, <1>2, <2>1 DEF Settled, AbandonedIsCanceled
<1>5. CanceledIsNotPending'
  <2> SUFFICES ASSUME NEW j \in Job, cancelRequested'[RunOf[j]],
                      RunOf[j] \notin PullRequestRun
               PROVE  jobStatus'[j] # "PENDING"
    BY Zenon DEF CanceledIsNotPending
  <2>1. CancelReachesJobs(RunOf[j])
    BY Zenon, <1>1 DEF SettlingStep
  <2> QED
    BY Zenon, <1>2, <2>1 DEF CancelReachesJobs, Settled, CanceledIsNotPending, JobsOf
<1>6. ActiveIsUnfinished'
  <2> SUFFICES ASSUME NEW r \in Run, runStatus'[r] \in RunActive
               PROVE  \E j \in JobsOf(r) : jobStatus'[j] \in JobUnfinished
    BY Zenon DEF ActiveIsUnfinished
  <2>1. VerdictIsDue(r)
    BY Zenon, <1>1 DEF SettlingStep
  <2>2. runStatus'[r] = runStatus[r]
    BY <2>1, OutcomeTerminal DEF VerdictIsDue, RunActive, RunTerminal
  <2> QED
    BY <2>1, <2>2 DEF VerdictIsDue, Settled, ActiveIsUnfinished
<1>7. PendingIsNotDoomed'
  <2> SUFFICES ASSUME NEW j \in Job, jobStatus'[j] = "PENDING", NEW d \in Needs[j],
                      jobStatus'[d] \in JobDidNotPass
               PROVE  FALSE
    BY Zenon DEF PendingIsNotDoomed
  <2>1. BlocksDependents(j)
    BY Zenon, <1>1 DEF SettlingStep
  <2> QED
    BY Zenon, <1>2, <2>1 DEF BlocksDependents, Settled, PendingIsNotDoomed
<1> QED
  BY Zenon, <1>3, <1>4, <1>5, <1>6, <1>7 DEF Settled

\* A claim takes a PENDING job of an active run.
LEMMA ClaimSettled ==
  ASSUME Inv, Settled, NEW n \in Runner, NEW j \in Job, LeaseJob(n, j)
  PROVE  Settled'
<1> USE GraphAssumption
<1> DEFINE r == RunOf[j]
<1>1. /\ runStatus[r] \in RunActive /\ r \in Run
      /\ jobStatus' = [jobStatus EXCEPT ![j] = "RUNNING"]
      /\ UNCHANGED cancelRequested
  BY Zenon DEF LeaseJob, LeaseCandidate, OpenForClaims
<1>2. runStatus' = [runStatus EXCEPT ![r] = "RUNNING"]
  BY <1>1, Zenon DEF LeaseJob, RunActive, Inv, TypeOK
<1>3. \A x \in Run : x # r => runStatus'[x] = runStatus[x]
                              /\ \A k \in JobsOf(x) : jobStatus'[k] = jobStatus[k]
  BY <1>1, <1>2 DEF JobsOf, Inv, TypeOK
<1>4. runStatus'[r] = "RUNNING" /\ jobStatus'[j] = "RUNNING" /\ j \in JobsOf(r)
  BY <1>1, <1>2 DEF JobsOf, Inv, TypeOK
<1>5. \A k \in Job : k # j => jobStatus'[k] = jobStatus[k]
  BY <1>1 DEF Inv, TypeOK
<1> HIDE DEF r
<1>6. VerdictMatchesJobs'
  <2> SUFFICES ASSUME NEW x \in Run PROVE VerdictMatches(x)'
    BY Zenon DEF VerdictMatchesJobs
  <2>1. CASE x = r
    BY Zenon, <1>4, <2>1 DEF VerdictMatches, RunTerminal
  <2>2. CASE x # r
    BY <1>1, <1>3, <2>2 DEF Settled, VerdictMatchesJobs, VerdictMatches
  <2> QED
    BY Zenon, <2>1, <2>2
<1>7. AbandonedIsCanceled'
  BY <1>3, <1>4 DEF Settled, AbandonedIsCanceled, JobsOf, RunTerminal
<1>8. CanceledIsNotPending'
  BY <1>1, <1>4, <1>5 DEF Settled, CanceledIsNotPending
<1>9. ActiveIsUnfinished'
  BY <1>3, <1>4 DEF Settled, ActiveIsUnfinished, JobUnfinished
<1>10. PendingIsNotDoomed'
  BY Zenon, <1>4, <1>5 DEF Settled, PendingIsNotDoomed, JobDidNotPass
<1> QED
  BY Zenon, <1>6, <1>7, <1>8, <1>9, <1>10 DEF Settled

\* A new run has its jobs before it, and a superseded one leaves them.
LEMMA OpeningSettled ==
  ASSUME Inv, Settled,
         (\E r \in Run : CreateRun(r)) \/ (\E R \in SUBSET Run : SupersedeRuns(R))
  PROVE  Settled'
<1> USE GraphAssumption
<1>1. UNCHANGED jobStatus
  BY Zenon DEF CreateRun, SupersedeRuns
<1>2. \A r \in Run :
        \/ /\ runStatus'[r] = runStatus[r]
           /\ \/ cancelRequested'[r] = cancelRequested[r]
              \/ runStatus[r] = "RUNNING" /\ r \in PullRequestRun
        \/ /\ runStatus[r] \in {"NONE", "QUEUED"} /\ cancelRequested'[r] = cancelRequested[r]
           /\ runStatus'[r] \in {"QUEUED", "CANCELED"}
  <2>1. CASE \E r \in Run : CreateRun(r)
    BY <2>1 DEF CreateRun, Inv, TypeOK
  <2>2. CASE \E R \in SUBSET Run : SupersedeRuns(R)
    <3> PICK R \in SUBSET Run : SupersedeRuns(R)
      BY Zenon, <2>2
    <3> TAKE r \in Run
    <3>1. runStatus'[r] = IF r \in R /\ runStatus[r] = "QUEUED" THEN "CANCELED" ELSE runStatus[r]
      BY Zenon DEF SupersedeRuns
    <3>2. cancelRequested'[r] = (cancelRequested[r] \/ (r \in R /\ runStatus[r] = "RUNNING"))
      BY Zenon DEF SupersedeRuns
    <3>3. cancelRequested[r] \in BOOLEAN /\ (r \in R => r \in PullRequestRun)
      BY Zenon DEF Inv, TypeOK, SupersedeRuns
    <3> QED
      BY Zenon, <3>1, <3>2, <3>3
  <2> QED
    BY Zenon, <2>1, <2>2
<1>3. \A r \in Run : runStatus[r] \in {"NONE", "QUEUED"} =>
        \A j \in JobsOf(r) : jobStatus[j] = "PENDING"
  BY Zenon DEF Inv, QueuedIsFresh, JobsOf
<1>4. VerdictMatchesJobs'
  <2> SUFFICES ASSUME NEW r \in Run PROVE VerdictMatches(r)'
    BY Zenon DEF VerdictMatchesJobs
  <2>1. CASE runStatus'[r] = runStatus[r] /\ cancelRequested'[r] = cancelRequested[r]
    BY <1>1, <2>1 DEF Settled, VerdictMatchesJobs, VerdictMatches
  <2>2. CASE runStatus'[r] = "RUNNING"
    BY Zenon, <2>2 DEF VerdictMatches, RunTerminal
  <2>3. CASE runStatus'[r] \in {"QUEUED", "CANCELED"} /\ runStatus[r] \in {"NONE", "QUEUED"}
    BY Zenon, <1>1, <1>3, <2>3 DEF VerdictMatches, RunTerminal
  <2> QED
    BY Zenon, <1>2, <2>1, <2>2, <2>3
<1>5. AbandonedIsCanceled'
  <2> SUFFICES ASSUME NEW j \in Job, runStatus'[RunOf[j]] \in RunTerminal, jobStatus[j] = "PENDING"
               PROVE  runStatus'[RunOf[j]] = "CANCELED"
    BY Zenon, <1>1 DEF AbandonedIsCanceled
  <2>1. RunOf[j] \in Run
    BY Zenon
  <2> QED
    BY Zenon, <1>2, <2>1 DEF Settled, AbandonedIsCanceled, RunTerminal
<1>6. CanceledIsNotPending'
  BY Zenon, <1>1, <1>2 DEF Settled, CanceledIsNotPending
<1>7. ActiveIsUnfinished'
  <2> SUFFICES ASSUME NEW r \in Run, runStatus'[r] \in RunActive
               PROVE  \E j \in JobsOf(r) : jobStatus[j] \in JobUnfinished
    BY Zenon, <1>1 DEF ActiveIsUnfinished
  <2>1. CASE runStatus'[r] = runStatus[r]
    BY Zenon, <2>1 DEF Settled, ActiveIsUnfinished
  <2>2. CASE runStatus[r] \in {"NONE", "QUEUED"}
    BY <1>3, <2>2 DEF JobsOf, JobUnfinished
  <2> QED
    BY Zenon, <1>2, <2>1, <2>2
<1>8. PendingIsNotDoomed'
  BY Zenon, <1>1 DEF Settled, PendingIsNotDoomed
<1> QED
  BY Zenon, <1>4, <1>5, <1>6, <1>7, <1>8 DEF Settled

\* Every transaction keeps the runs settled.
LEMMA SettledStep == Inv /\ Settled /\ [Transaction]_vars => Settled'
<1> SUFFICES ASSUME Inv, Settled, [Transaction]_vars PROVE Settled'
  BY Zenon
<1>1. CASE EndingAction
  BY Zenon, <1>1, EndingSettled
<1>2. CASE \E n \in Runner, j \in Job : LeaseJob(n, j)
  BY Zenon, <1>2, ClaimSettled
<1>3. CASE (\E r \in Run : CreateRun(r)) \/ (\E R \in SUBSET Run : SupersedeRuns(R))
  BY Zenon, <1>3, OpeningSettled
<1>4. CASE UNCHANGED <<runStatus, cancelRequested, jobStatus>>
  BY <1>4, Zenon DEF Settled, VerdictMatchesJobs, VerdictMatches, AbandonedIsCanceled,
                     CanceledIsNotPending, ActiveIsUnfinished, PendingIsNotDoomed
<1> QED
  BY <1>1, <1>2, <1>3, <1>4, Zenon
     DEF Transaction, RegisterRunner, HeartbeatJobLeases, CommitArtifacts, ExpireArtifacts, Tick,
         vars, runVars

\* Runs are settled at first, since there are none.
LEMMA SettledInit == Init => Settled
BY GraphAssumption
   DEF Init, Settled, VerdictMatchesJobs, VerdictMatches, AbandonedIsCanceled,
       CanceledIsNotPending, ActiveIsUnfinished, PendingIsNotDoomed, RunTerminal, RunActive,
       JobDidNotPass, JobsOf

\* Runs stay settled.
LEMMA SettledInvariance == Spec => []Settled
BY SettledInit, SettledStep, NextIsTransaction, Invariance, PTL DEF Spec

\* The status of a terminal run says what its jobs came to, for every graph
\* and whatever the order of reports, expiries and cancellations.
THEOREM VerdictsAreTrue == Spec => []VerdictMatchesJobs
<1>1. Settled => VerdictMatchesJobs
  BY Zenon DEF Settled
<1> QED
  BY <1>1, SettledInvariance, PTL

\* The first unfinished job of a run, in the order of the graph, runs or can
\* be claimed.
LEMMA SettledCanMove == Inv /\ Settled => NoDeadEnd
<1> SUFFICES ASSUME Inv, Settled, NEW r \in Run \ PullRequestRun, runStatus[r] \in RunActive
             PROVE  CanMove(r)
  BY Zenon DEF NoDeadEnd
<1> DEFINE S == {j \in JobsOf(r) : jobStatus[j] \in JobUnfinished}
<1>1. S # {} /\ S \in SUBSET Job
  BY Zenon DEF Settled, ActiveIsUnfinished, JobsOf
<1>2. PICK j \in S : Needs[j] \cap S = {}
  BY <1>1, GraphAssumption, Zenon
<1>3. j \in JobsOf(r) /\ j \in Job /\ RunOf[j] = r /\ jobStatus[j] \in {"PENDING", "RUNNING"}
  BY Zenon DEF JobsOf, JobUnfinished
<1>4. CASE jobStatus[j] = "RUNNING"
  BY Zenon, <1>3, <1>4 DEF CanMove
<1>5. CASE jobStatus[j] = "PENDING"
  <2>1. ~cancelRequested[r]
    BY Zenon, <1>3, <1>5 DEF Settled, CanceledIsNotPending
  <2>2. ASSUME NEW d \in Needs[j] PROVE jobStatus[d] = "PASSED"
    <3>1. d \in JobsOf(r) /\ d \in Job
      BY Zenon, <1>3, GraphAssumption DEF JobsOf
    <3>2. jobStatus[d] \notin JobUnfinished
      BY Zenon, <1>2, <3>1
    <3>3. jobStatus[d] \notin JobDidNotPass
      BY Zenon, <1>3, <1>5 DEF Settled, PendingIsNotDoomed
    <3>4. jobStatus[d] \in JobStatus
      BY Zenon, <3>1 DEF Inv, TypeOK
    <3> QED
      BY Zenon, <3>2, <3>3, <3>4 DEF JobStatus, JobTerminal
  <2> QED
    BY Zenon, <1>3, <1>5, <2>1, <2>2 DEF CanMove, Ready
<1> QED
  BY Zenon, <1>3, <1>4, <1>5

\* An active run that was not superseded can always move.
THEOREM NoRunIsStuck == Spec => []NoDeadEnd
BY SettledCanMove, Invariance, SettledInvariance, PTL

-----------------------------------------------------------------------------
(***************************************************************************)
(* The inductive invariant.                                                *)
(***************************************************************************)
Held == Executing \cup {"offered"}

Beat == [pc : {"idle", "sent", "answered"}, leases : SUBSET Job,
         valid : SUBSET Job, cancel : SUBSET Job, left : Nat]

AgentTypeOK ==
  /\ stage \in [Job -> Held \cup {"none", "reporting"}]
  /\ deadline \in [Job -> Nat]
  /\ report \in [Job -> Reportable \cup {"none"}]
  /\ beat \in [Runner -> Beat]

\* Nothing is said of a job before it is claimed.
UnclaimedIsUnknown ==
  \A j \in Job : jobStatus[j] = "PENDING" =>
    report[j] = "none" /\ \A n \in Runner : j \notin beat[n].valid

\* While a lease is offered or executed, its one report is yet to come.
HeldIsUnreported ==
  \A j \in Job : stage[j] \in Held =>
    report[j] = "none" /\ jobStatus[j] \in {"RUNNING", "ABORTED"}

\* Neither what a process knows of a lease nor a response on its way to it
\* promises more time than the control plane grants.
NoPromiseIsLate ==
  \A j \in Job : jobStatus[j] = "RUNNING" =>
    /\ deadline[j] <= leaseLeft[j]
    /\ \A n \in Runner : j \in beat[n].valid => beat[n].left <= leaseLeft[j]

AgentInv ==
  /\ AgentTypeOK
  /\ UnclaimedIsUnknown
  /\ HeldIsUnreported
  /\ NoPromiseIsLate

SystemInv == Inv /\ Settled /\ AgentInv

-----------------------------------------------------------------------------
(***************************************************************************)
(* What the control plane does is what JobScheduler says.                  *)
(***************************************************************************)

\* Every step is a transaction of the control plane, or none of its business.
LEMMA SystemStep ==
  ASSUME SystemInv, [SystemNext]_systemVars
  PROVE  [Transaction]_vars
<1> USE DEF SystemInv
<1>1. ASSUME NEW j \in Job, HoldsLease(owner[j], j, generation[j])
      PROVE  owner[j] \in Runner /\ generation[j] \in Nat
  BY Zenon, <1>1 DEF HoldsLease, Inv, TypeOK, LeaseConsistent
<1>2. CASE \E n \in Runner : Agent(n)
  <2> PICK n \in Runner : Agent(n)
    BY Zenon, <1>2
  <2>1. CASE Start(n)
    BY Zenon, <2>1 DEF Start, Transaction
  <2>2. CASE \E j \in Job : ServeLease(n, j)
    BY Zenon, <2>2 DEF ServeLease, Transaction
  <2>3. CASE ServeHeartbeat(n)
    <3> DEFINE L == {<<j, generation[j]>> : j \in beat[n].leases}
    <3>1. HeartbeatJobLeases(n, L)
      BY Zenon, <2>3 DEF ServeHeartbeat
    <3>2. beat[n].leases \in SUBSET Job
      BY Zenon DEF AgentInv, AgentTypeOK, Beat
    <3>3. L \in SUBSET (Job \X Nat)
      BY <3>2 DEF Inv, TypeOK
    <3> QED
      BY Zenon, <3>1, <3>3 DEF Transaction
  <2>4. CASE UNCHANGED vars
    BY Zenon, <2>4
  <2> QED
    BY <2>1, <2>2, <2>3, <2>4, Zenon
       DEF Agent, Shutdown, Exit, RequestLease, NoLease, ReceiveLease, RefuseLease, SendHeartbeat,
           NoHeartbeat, ReceiveHeartbeat, UnreadableHeartbeat, LeaseDeadline
<1>3. CASE \E j \in Job : Execution(j)
  <2> PICK j \in Job : Execution(j)
    BY Zenon, <1>3
  <2>1. CASE ServeCommit(j)
    <3>1. CommitArtifacts(owner[j], j, generation[j])
      BY Zenon, <2>1 DEF ServeCommit
    <3>2. owner[j] \in Runner /\ generation[j] \in Nat
      BY Zenon, <1>1, <3>1 DEF CommitArtifacts
    <3> QED
      BY Zenon, <3>1, <3>2 DEF Transaction
  <2>2. CASE CompleteJob(owner[j], j, generation[j], report[j])
    <3>1. owner[j] \in Runner /\ generation[j] \in Nat /\ report[j] \in Reportable
      BY Zenon, <1>1, <2>2 DEF CompleteJob
    <3> QED
      BY <2>2, <3>1, Zenon DEF Transaction, EndingAction
  <2>3. CASE UNCHANGED vars
    BY Zenon, <2>3
  <2> QED
    BY <2>1, <2>2, <2>3, Zenon
       DEF Execution, PrepareSource, RestoreArtifacts, RunCommands, Publish, Sends, Goes,
           ServeReport, LoseReport, Retire
<1>4. CASE ControlPlane
  BY <1>4, Zenon DEF ControlPlane, Transaction, EndingAction
<1>5. CASE SystemTick
  BY Zenon, <1>5 DEF SystemTick, Transaction
<1>6. CASE UNCHANGED systemVars
  BY Zenon, <1>6 DEF systemVars
<1> QED
  BY Zenon, <1>2, <1>3, <1>4, <1>5, <1>6 DEF SystemNext

\* What ends jobs takes no time from a lease that lives on, and no job back.
LEMMA EndingSparesLeases ==
  ASSUME Inv, EndingAction, NEW j \in Job
  PROVE  /\ jobStatus'[j] = "RUNNING" => jobStatus[j] = "RUNNING" /\ leaseLeft'[j] = leaseLeft[j]
         /\ jobStatus'[j] = "PENDING" => jobStatus[j] = "PENDING"
<1>1. EndStep
  BY Zenon, EndingActionEnds
<1>2. \/ jobStatus'[j] = jobStatus[j]
      \/ jobStatus'[j] \notin {"RUNNING", "PENDING"}
  BY Zenon, <1>1, EndStepFacts DEF Reportable
<1>3. jobStatus'[j] = "RUNNING" => leaseLeft'[j] = leaseLeft[j]
  BY Zenon, <1>1 DEF EndStep
<1> QED
  BY Zenon, <1>2, <1>3

\* A step after which every process and every message promises what it did,
\* or less, of jobs whose state did not change.
LEMMA UndisturbedStep ==
  ASSUME AgentInv, AgentTypeOK', UNCHANGED <<jobStatus, leaseLeft, deadline>>,
         \A j \in Job : stage'[j] \in Held => stage[j] \in Held /\ report'[j] = report[j],
         \A j \in Job : report'[j] # report[j] => report'[j] = "none" \/ stage[j] \in Held,
         \A n \in Runner : beat'[n].valid = {} \/ beat'[n] = beat[n]
  PROVE  AgentInv'
<1>1. UnclaimedIsUnknown'
  <2> SUFFICES ASSUME NEW j \in Job, jobStatus[j] = "PENDING"
               PROVE  report'[j] = "none" /\ \A n \in Runner : j \notin beat'[n].valid
    BY Zenon DEF UnclaimedIsUnknown
  <2>1. report[j] = "none" /\ \A n \in Runner : j \notin beat[n].valid
    BY Zenon DEF AgentInv, UnclaimedIsUnknown
  <2>2. stage[j] \notin Held
    BY Zenon DEF AgentInv, HeldIsUnreported
  <2> QED
    BY Zenon, <2>1, <2>2
<1>2. HeldIsUnreported'
  BY Zenon DEF AgentInv, HeldIsUnreported
<1>3. NoPromiseIsLate'
  BY Zenon DEF AgentInv, NoPromiseIsLate
<1> QED
  BY Zenon, <1>1, <1>2, <1>3 DEF AgentInv

-----------------------------------------------------------------------------
(***************************************************************************)
(* The steps of the processes.                                             *)
(***************************************************************************)
LEMMA LoopStep ==
  ASSUME SystemInv, NEW n \in Runner,
         \/ Shutdown(n) \/ Exit(n) \/ RequestLease(n) \/ NoLease(n)
         \/ SendHeartbeat(n) \/ NoHeartbeat(n) \/ UnreadableHeartbeat(n) \/ LeaseDeadline(n)
         \/ \E j \in Job : ReceiveLease(n, j) \/ RefuseLease(n, j)
  PROVE  AgentInv'
<1> USE DEF SystemInv
<1>1. AgentTypeOK /\ active(n) \in SUBSET Job
  BY Zenon DEF AgentInv, active
<1>2. NoBeat \in Beat
  BY Zenon DEF NoBeat, Beat
<1>3. UNCHANGED <<jobStatus, leaseLeft, deadline>>
  BY Zenon DEF Shutdown, Exit, RequestLease, NoLease, SendHeartbeat, NoHeartbeat, UnreadableHeartbeat,
         LeaseDeadline, ReceiveLease, RefuseLease, vars, leaseVars, execVars
<1>4. CASE UNCHANGED <<stage, report>>
  <2> DEFINE sent == [pc |-> "sent", leases |-> active(n), valid |-> {}, cancel |-> {}, left |-> 0]
  <2>1. \/ UNCHANGED beat
        \/ beat' = [beat EXCEPT ![n] = NoBeat]
        \/ beat' = [beat EXCEPT ![n] = sent]
    BY Zenon DEF Shutdown, Exit, RequestLease, NoLease, SendHeartbeat, NoHeartbeat, UnreadableHeartbeat,
           LeaseDeadline, ReceiveLease, RefuseLease, loopVars
  <2>2. AgentTypeOK'
    <3>1. sent \in Beat
      BY Zenon, <1>1 DEF Beat
    <3> HIDE DEF sent
    <3>2. beat' \in [Runner -> Beat]
      BY Zenon, <1>1, <1>2, <2>1, <3>1 DEF AgentTypeOK
    <3> QED
      BY Zenon, <1>1, <1>3, <1>4, <3>2 DEF AgentTypeOK
  <2>3. \A m \in Runner : beat'[m].valid = {} \/ beat'[m] = beat[m]
    <3>1. sent.valid = {} /\ NoBeat.valid = {}
      BY Zenon DEF NoBeat
    <3>2. beat \in [Runner -> Beat]
      BY Zenon, <1>1 DEF AgentTypeOK
    <3> HIDE DEF sent
    <3>3. \A m \in Runner : beat'[m] = beat[m] \/ beat'[m] = NoBeat \/ beat'[m] = sent
      BY Zenon, <2>1, <3>2
    <3> QED
      BY Zenon, <3>1, <3>3
  <2> QED
    BY Zenon, <1>3, <1>4, <2>2, <2>3, UndisturbedStep
<1>5. CASE Exit(n)
  <2>1. beat' = [beat EXCEPT ![n] = NoBeat] /\ UNCHANGED report
        /\ stage' = [j \in Job |-> IF owner[j] = n THEN "none" ELSE stage[j]]
    BY Zenon, <1>5 DEF Exit
  <2>2. AgentTypeOK'
    BY Zenon, <1>1, <1>2, <1>3, <2>1 DEF AgentTypeOK, Beat
  <2>3. \A m \in Runner : beat'[m].valid = {} \/ beat'[m] = beat[m]
    BY Zenon, <1>1, <2>1 DEF AgentTypeOK, Beat, NoBeat
  <2>4. \A j \in Job : stage'[j] \in Held => stage[j] \in Held
    BY Zenon, <2>1 DEF Held, Executing
  <2> QED
    BY Zenon, <1>3, <2>1, <2>2, <2>3, <2>4, UndisturbedStep
<1>6. CASE NoLease(n)
  <2>1. UNCHANGED <<beat, report>>
        /\ stage' = [j \in Job |-> IF owner[j] = n /\ stage[j] = "offered" THEN "none" ELSE stage[j]]
    BY Zenon, <1>6 DEF NoLease
  <2>2. AgentTypeOK'
    BY Zenon, <1>1, <1>3, <2>1 DEF AgentTypeOK, Beat
  <2>3. \A j \in Job : stage'[j] \in Held => stage[j] \in Held
    BY Zenon, <2>1 DEF Held, Executing
  <2> QED
    BY Zenon, <1>3, <2>1, <2>2, <2>3, UndisturbedStep
<1>7. ASSUME NEW j \in Job, ReceiveLease(n, j) \/ RefuseLease(n, j)
      PROVE  AgentInv'
  <2>1. /\ UNCHANGED beat /\ stage[j] \in Held
        /\ \/ UNCHANGED report /\ stage' = [stage EXCEPT ![j] = IF HasSlot(n) THEN "prepare" ELSE "none"]
           \/ report' = [report EXCEPT ![j] = "ERROR"] /\ stage' = [stage EXCEPT ![j] = "none"]
    BY Zenon, <1>7 DEF ReceiveLease, RefuseLease, Held
  <2>2. AgentTypeOK'
    BY <1>1, <1>3, <2>1 DEF AgentTypeOK, Beat, Held, Executing, Reportable
  <2>3. \A k \in Job : stage'[k] \in Held => stage[k] \in Held /\ report'[k] = report[k]
    BY Zenon, <1>1, <2>1 DEF AgentTypeOK, Beat, Held, Executing
  <2>4. \A k \in Job : report'[k] # report[k] => report'[k] = "none" \/ stage[k] \in Held
    BY Zenon, <1>1, <2>1 DEF AgentTypeOK, Beat
  <2> QED
    BY Zenon, <1>3, <2>1, <2>2, <2>3, <2>4, UndisturbedStep
<1> QED
  BY <1>4, <1>5, <1>6, <1>7, Zenon
     DEF Shutdown, RequestLease, SendHeartbeat, NoHeartbeat, UnreadableHeartbeat, LeaseDeadline,
         execVars

\* The one step that moves a deadline forward: to what a response promises.
LEMMA ReceiveHeartbeatStep ==
  ASSUME SystemInv, NEW n \in Runner, ReceiveHeartbeat(n)
  PROVE  AgentInv'
<1> USE DEF SystemInv
<1>1. AgentTypeOK
  BY Zenon DEF AgentInv
<1>2. UNCHANGED <<jobStatus, leaseLeft, stage, report>> /\ beat' = [beat EXCEPT ![n] = NoBeat]
  BY Zenon DEF ReceiveHeartbeat, vars, leaseVars
<1>3. \A j \in Job : \/ deadline'[j] = deadline[j]
                     \/ j \in beat[n].valid /\ deadline'[j] = beat[n].left
  BY Zenon DEF ReceiveHeartbeat, RenewedUntil
<1>4. \A m \in Runner : beat'[m].valid = {} \/ beat'[m] = beat[m]
  BY Zenon, <1>1, <1>2 DEF AgentTypeOK, Beat, NoBeat
<1>5. AgentTypeOK'
  <2>1. deadline' \in [Job -> Nat]
    BY Zenon, <1>1 DEF ReceiveHeartbeat, RenewedUntil, AgentTypeOK, Beat
  <2> QED
    BY Zenon, <1>1, <1>2, <2>1 DEF AgentTypeOK, Beat, NoBeat
<1>6. UnclaimedIsUnknown' /\ HeldIsUnreported'
  BY Zenon, <1>2, <1>4 DEF AgentInv, UnclaimedIsUnknown, HeldIsUnreported
<1>7. NoPromiseIsLate'
  BY Zenon, <1>2, <1>3, <1>4 DEF AgentInv, NoPromiseIsLate
<1> QED
  BY Zenon, <1>5, <1>6, <1>7 DEF AgentInv

\* The steps of an execution between its start and its report.
LEMMA ExecutionStep ==
  ASSUME SystemInv, NEW j \in Job,
         \/ PrepareSource(j) \/ RestoreArtifacts(j) \/ RunCommands(j) \/ Publish(j)
         \/ ServeCommit(j) \/ LoseReport(j) \/ Retire(j)
  PROVE  AgentInv'
<1> USE DEF SystemInv
<1>1. AgentTypeOK
  BY Zenon DEF AgentInv
<1>2. UNCHANGED <<jobStatus, leaseLeft, deadline, beat>>
  BY Zenon DEF PrepareSource, RestoreArtifacts, RunCommands, Publish, Goes, Sends, ServeCommit,
         CommitArtifacts, LoseReport, Retire, vars, leaseVars, agentVars, loopVars
<1>3. \/ /\ UNCHANGED report
         /\ \/ UNCHANGED stage
            \/ \E next \in {"restore", "run", "publish"} :
                 stage[j] \in Held /\ stage' = [stage EXCEPT ![j] = next]
            \/ stage' = [stage EXCEPT ![j] = "none"]
      \/ /\ stage[j] \in Held /\ stage' = [stage EXCEPT ![j] = "reporting"]
         /\ \E status \in Reportable : report' = [report EXCEPT ![j] = status]
      \/ UNCHANGED stage /\ report' = [report EXCEPT ![j] = "none"]
  <2>1. CASE PrepareSource(j)
    BY Zenon, <2>1 DEF PrepareSource, Goes, Sends, Held, Executing, Reportable
  <2>2. CASE RestoreArtifacts(j)
    BY Zenon, <2>2 DEF RestoreArtifacts, Goes, Sends, FailureOf, Held, Executing, Reportable
  <2>3. CASE RunCommands(j)
    BY Zenon, <2>3 DEF RunCommands, Goes, Sends, FailureOf, Held, Executing, Reportable
  <2>4. CASE Publish(j)
    BY Zenon, <2>4 DEF Publish, Goes, Sends, FailureOf, Held, Executing, Reportable
  <2> QED
    BY Zenon, <2>1, <2>2, <2>3, <2>4 DEF ServeCommit, agentVars, LoseReport, Retire, Goes
<1>4. AgentTypeOK'
  BY <1>1, <1>2, <1>3 DEF AgentTypeOK, Beat, Held, Executing
<1>5. \A k \in Job : stage'[k] \in Held => stage[k] \in Held /\ report'[k] = report[k]
  <2> SUFFICES ASSUME NEW k \in Job, stage'[k] \in Held
               PROVE  stage[k] \in Held /\ report'[k] = report[k]
    BY Zenon
  <2>1. CASE k # j
    BY Zenon, <1>1, <1>3, <2>1 DEF AgentTypeOK, Beat
  <2>2. CASE UNCHANGED stage /\ report' = [report EXCEPT ![j] = "none"]
    BY Zenon, <1>1, <2>2 DEF AgentTypeOK, Beat, AgentInv, HeldIsUnreported
  <2>3. CASE k = j
    <3>1. stage \in [Job -> Held \cup {"none", "reporting"}] /\ "none" \notin Held /\ "reporting" \notin Held
      BY Zenon, <1>1 DEF AgentTypeOK, Held, Executing
    <3>2. CASE UNCHANGED <<report, stage>>
      BY Zenon, <3>2
    <3>3. CASE UNCHANGED report /\ stage[j] \in Held
      BY Zenon, <2>3, <3>3
    <3>4. CASE stage' = [stage EXCEPT ![j] = "none"] \/ stage' = [stage EXCEPT ![j] = "reporting"]
      BY Zenon, <2>3, <3>1, <3>4
    <3> QED
      BY Zenon, <1>3, <2>2, <3>2, <3>3, <3>4
  <2> QED
    BY Zenon, <2>1, <2>3
<1>6. \A k \in Job : report'[k] # report[k] => report'[k] = "none" \/ stage[k] \in Held
  BY Zenon, <1>1, <1>3 DEF AgentTypeOK, Beat
<1> QED
  BY Zenon, <1>2, <1>4, <1>5, <1>6, UndisturbedStep

-----------------------------------------------------------------------------
(***************************************************************************)
(* The steps in which the control plane serves a request.                  *)
(***************************************************************************)
LEMMA ServeLeaseStep ==
  ASSUME SystemInv, NEW n \in Runner, NEW j \in Job, ServeLease(n, j)
  PROVE  AgentInv'
<1> USE DEF SystemInv
<1>1. AgentTypeOK /\ Inv /\ LeaseTTL \in Nat
  BY Zenon, SchedulerAssumption DEF AgentInv
<1>2. /\ jobStatus[j] = "PENDING"
      /\ jobStatus' = [jobStatus EXCEPT ![j] = "RUNNING"]
      /\ leaseLeft' = [leaseLeft EXCEPT ![j] = LeaseTTL]
      /\ stage' = [stage EXCEPT ![j] = "offered"]
      /\ deadline' = [deadline EXCEPT ![j] = LeaseTTL]
      /\ UNCHANGED <<beat, report>>
  BY Zenon DEF ServeLease, LeaseJob, LeaseCandidate
<1>3. jobStatus \in [Job -> JobStatus] /\ leaseLeft \in [Job -> 0 .. LeaseTTL]
  BY Zenon, <1>1 DEF Inv, TypeOK
<1>4. report[j] = "none" /\ \A m \in Runner : j \notin beat[m].valid
  BY Zenon, <1>2 DEF AgentInv, UnclaimedIsUnknown
<1>5. AgentTypeOK'
  BY Zenon, <1>1, <1>2 DEF AgentTypeOK, Beat, Held
<1>6. UnclaimedIsUnknown'
  BY Zenon, <1>2, <1>3 DEF AgentInv, UnclaimedIsUnknown
<1>7. HeldIsUnreported'
  BY Zenon, <1>1, <1>2, <1>3, <1>4 DEF AgentInv, HeldIsUnreported, AgentTypeOK, Beat
<1>8. NoPromiseIsLate'
  <2> SUFFICES ASSUME NEW k \in Job, jobStatus'[k] = "RUNNING"
               PROVE  /\ deadline'[k] <= leaseLeft'[k]
                      /\ \A m \in Runner : k \in beat[m].valid => beat[m].left <= leaseLeft'[k]
    BY Zenon, <1>2 DEF NoPromiseIsLate
  <2>1. CASE k = j
    BY <1>1, <1>2, <1>3, <1>4, <2>1 DEF AgentTypeOK, Beat
  <2>2. CASE k # j
    <3>1. jobStatus[k] = "RUNNING" /\ deadline'[k] = deadline[k] /\ leaseLeft'[k] = leaseLeft[k]
      BY Zenon, <1>1, <1>2, <1>3, <2>2 DEF AgentTypeOK, Beat
    <3> QED
      BY Zenon, <3>1 DEF AgentInv, NoPromiseIsLate
  <2> QED
    BY Zenon, <2>1, <2>2
<1> QED
  BY Zenon, <1>5, <1>6, <1>7, <1>8 DEF AgentInv

\* The renewal and its answer name the same jobs and the same time.
LEMMA ServeHeartbeatStep ==
  ASSUME SystemInv, NEW n \in Runner, ServeHeartbeat(n)
  PROVE  AgentInv'
<1> USE DEF SystemInv
<1> DEFINE leases == beat[n].leases
           valid == {j \in leases : HoldsLease(n, j, generation[j])}
           answer == [pc |-> "answered", leases |-> leases, valid |-> valid,
                      cancel |-> {j \in valid : cancelRequested[RunOf[j]]}, left |-> LeaseTTL]
<1>1. AgentTypeOK /\ Inv /\ LeaseTTL \in Nat /\ leases \in SUBSET Job
  BY Zenon, SchedulerAssumption DEF AgentInv, AgentTypeOK, Beat
<1>2. leaseLeft \in [Job -> 0 .. LeaseTTL]
  BY Zenon, <1>1 DEF Inv, TypeOK
<1>3. UNCHANGED <<jobStatus, stage, deadline, report>> /\ beat' = [beat EXCEPT ![n] = answer]
  BY Zenon DEF ServeHeartbeat, HeartbeatJobLeases, execVars
<1>4. \A j \in Job : leaseLeft'[j] = IF j \in valid THEN LeaseTTL ELSE leaseLeft[j]
  <2>1. \A j \in Job : leaseLeft'[j] = IF /\ HoldsLease(n, j, generation[j])
                                          /\ <<j, generation[j]>> \in {<<k, generation[k]>> : k \in leases}
                                       THEN LeaseTTL ELSE leaseLeft[j]
    BY Zenon DEF ServeHeartbeat, HeartbeatJobLeases
  <2>2. \A j \in Job : <<j, generation[j]>> \in {<<k, generation[k]>> : k \in leases} <=> j \in leases
    BY Zenon
  <2> QED
    BY Zenon, <2>1, <2>2
<1>5. \A j \in valid : jobStatus[j] = "RUNNING"
  BY Zenon DEF HoldsLease
<1> HIDE DEF valid, answer
<1>6. AgentTypeOK'
  <2>1. answer \in Beat
    BY Zenon, <1>1 DEF answer, valid, Beat
  <2> QED
    BY Zenon, <1>1, <1>3, <2>1 DEF AgentTypeOK, Beat
<1>7. \A m \in Runner : beat'[m] = IF m = n THEN answer ELSE beat[m]
  BY Zenon, <1>1, <1>3 DEF AgentTypeOK, Beat
<1>8. answer.valid = valid /\ answer.left = LeaseTTL
  BY Zenon DEF answer
<1>9. UnclaimedIsUnknown'
  BY Zenon, <1>3, <1>5, <1>7, <1>8 DEF AgentInv, UnclaimedIsUnknown
<1>10. HeldIsUnreported'
  BY Zenon, <1>3 DEF AgentInv, HeldIsUnreported
<1>11. NoPromiseIsLate'
  <2> SUFFICES ASSUME NEW j \in Job, jobStatus[j] = "RUNNING"
               PROVE  /\ deadline[j] <= leaseLeft'[j]
                      /\ \A m \in Runner : j \in beat'[m].valid => beat'[m].left <= leaseLeft'[j]
    BY Zenon, <1>3 DEF NoPromiseIsLate
  <2>1. /\ deadline[j] <= leaseLeft[j]
        /\ \A m \in Runner : j \in beat[m].valid => beat[m].left <= leaseLeft[j]
    BY Zenon DEF AgentInv, NoPromiseIsLate
  <2>2. leaseLeft'[j] \in {LeaseTTL, leaseLeft[j]} /\ (j \in valid => leaseLeft'[j] = LeaseTTL)
    BY Zenon, <1>4
  <2>3. leaseLeft[j] \in 0 .. LeaseTTL /\ deadline[j] \in Nat /\ \A m \in Runner : beat[m].left \in Nat
    BY Zenon, <1>1, <1>2 DEF AgentTypeOK, Beat
  <2> QED
    BY <1>1, <1>7, <1>8, <2>1, <2>2, <2>3
<1> QED
  BY Zenon, <1>6, <1>9, <1>10, <1>11 DEF AgentInv

\* The server takes a report while the lease is held, and refuses it afterwards.
LEMMA ServeReportStep ==
  ASSUME SystemInv, NEW j \in Job, ServeReport(j)
  PROVE  AgentInv'
<1> USE DEF SystemInv
<1>1. AgentTypeOK /\ report[j] # "none" /\ report' = [report EXCEPT ![j] = "none"]
      /\ UNCHANGED <<stage, deadline, beat>>
  BY Zenon DEF ServeReport, AgentInv, loopVars
<1>2. AgentTypeOK'
  BY Zenon, <1>1 DEF AgentTypeOK, Beat
<1>3. CASE UNCHANGED vars
  <2>1. UNCHANGED <<jobStatus, leaseLeft, deadline>>
    BY Zenon, <1>1, <1>3 DEF vars, leaseVars
  <2>2. \A k \in Job : stage'[k] \in Held => stage[k] \in Held /\ report'[k] = report[k]
    BY Zenon, <1>1 DEF AgentTypeOK, Beat, AgentInv, HeldIsUnreported
  <2>3. \A k \in Job : report'[k] # report[k] => report'[k] = "none" \/ stage[k] \in Held
    BY Zenon, <1>1 DEF AgentTypeOK, Beat
  <2> QED
    BY Zenon, <1>1, <1>2, <2>1, <2>2, <2>3, UndisturbedStep
<1>4. CASE CompleteJob(owner[j], j, generation[j], report[j])
  <2>1. owner[j] \in Runner /\ report[j] \in Reportable
    BY Zenon, <1>4 DEF CompleteJob, HoldsLease, Inv, LeaseConsistent
  <2>2. \A k \in Job \ {j} : Spares(k)
    BY Zenon, <1>4, <2>1, CompleteJobSpares
  <2>3. stage[j] \notin Held
    BY Zenon, <1>1 DEF AgentInv, HeldIsUnreported
  <2>4. EndingAction
    <3>1. generation[j] \in Nat
      BY Zenon DEF Inv, TypeOK
    <3> QED
      BY <1>4, <2>1, <3>1, Zenon DEF EndingAction
  <2>5. \A k \in Job :
          /\ jobStatus'[k] = "RUNNING" => jobStatus[k] = "RUNNING" /\ leaseLeft'[k] = leaseLeft[k]
          /\ jobStatus'[k] = "PENDING" => jobStatus[k] = "PENDING"
    BY Zenon, <2>4, EndingSparesLeases
  <2>6. UnclaimedIsUnknown'
    BY Zenon, <1>1, <2>5 DEF AgentInv, UnclaimedIsUnknown, AgentTypeOK, Beat
  <2>7. HeldIsUnreported'
    BY Zenon, <1>1, <2>2, <2>3 DEF AgentInv, HeldIsUnreported, AgentTypeOK, Beat, Spares
  <2>8. NoPromiseIsLate'
    BY Zenon, <1>1, <2>5 DEF AgentInv, NoPromiseIsLate
  <2> QED
    BY Zenon, <1>2, <2>6, <2>7, <2>8 DEF AgentInv
<1> QED
  BY Zenon, <1>3, <1>4 DEF ServeReport

-----------------------------------------------------------------------------
(***************************************************************************)
(* The control plane by itself, and time.                                  *)
(***************************************************************************)
LEMMA ControlPlaneStep ==
  ASSUME SystemInv, ControlPlane
  PROVE  AgentInv'
<1> USE DEF SystemInv
<1>1. UNCHANGED <<stage, deadline, beat, report>>
  BY Zenon DEF ControlPlane, agentVars
<1>2. AgentTypeOK'
  BY Zenon, <1>1 DEF AgentInv, AgentTypeOK, Beat
<1>3. CASE \E r \in Run : CreateRun(r)
  <2>1. UNCHANGED <<jobStatus, leaseLeft>>
    BY Zenon, <1>3 DEF CreateRun, leaseVars
  <2> QED
    BY Zenon, <1>1, <1>2, <2>1, UndisturbedStep
<1>4. CASE \/ \E r \in Run : CancelQueued(r) \/ RequestCancel(r)
           \/ ExpireJobLeases \/ RecoverRemoteJobs
  <2>1. EndingAction
    BY <1>4, Zenon DEF EndingAction
  <2>2. \A j \in Job : Spares(j)
    <3>1. CASE \E r \in Run : CancelQueued(r) \/ RequestCancel(r)
      BY Zenon, <3>1, CancelSpares
    <3>2. CASE ExpireJobLeases \/ RecoverRemoteJobs
      <4>1. \E lost \in SUBSET Job : AbortJobs(lost)
        BY Zenon, <3>2 DEF ExpireJobLeases, RecoverRemoteJobs
      <4> QED
        BY Zenon, <4>1, AbortJobsSpares
    <3> QED
      BY Zenon, <1>4, <3>1, <3>2
  <2>3. \A j \in Job :
          /\ jobStatus'[j] = "RUNNING" => jobStatus[j] = "RUNNING" /\ leaseLeft'[j] = leaseLeft[j]
          /\ jobStatus'[j] = "PENDING" => jobStatus[j] = "PENDING"
    BY Zenon, <2>1, EndingSparesLeases
  <2>4. UnclaimedIsUnknown'
    BY Zenon, <1>1, <2>3 DEF AgentInv, UnclaimedIsUnknown
  <2>5. HeldIsUnreported'
    BY Zenon, <1>1, <2>2 DEF AgentInv, HeldIsUnreported, Spares
  <2>6. NoPromiseIsLate'
    BY Zenon, <1>1, <2>3 DEF AgentInv, NoPromiseIsLate
  <2> QED
    BY Zenon, <1>2, <2>4, <2>5, <2>6 DEF AgentInv
<1> QED
  BY <1>3, <1>4, Zenon DEF ControlPlane

\* Time passes for the server and for the runners alike.
LEMMA SystemTickStep ==
  ASSUME SystemInv, SystemTick
  PROVE  AgentInv'
<1> USE DEF SystemInv
<1>1. AgentTypeOK /\ Inv
  BY Zenon DEF AgentInv
<1>2. /\ UNCHANGED <<jobStatus, stage, report>>
      /\ deadline' = [j \in Job |-> IF deadline[j] > 0 THEN deadline[j] - 1 ELSE 0]
      /\ leaseLeft' = [j \in Job |-> IF leaseLeft[j] > 0 THEN leaseLeft[j] - 1 ELSE 0]
  BY Zenon DEF SystemTick, Tick
<1>3. \A n \in Runner :
        /\ beat'[n] \in Beat
        /\ beat'[n].valid = beat[n].valid
        /\ beat'[n].left = IF beat[n].left > 0 THEN beat[n].left - 1 ELSE 0
  <2> SUFFICES ASSUME NEW n \in Runner
               PROVE  /\ beat'[n] \in Beat
                      /\ beat'[n].valid = beat[n].valid
                      /\ beat'[n].left = IF beat[n].left > 0 THEN beat[n].left - 1 ELSE 0
    BY Zenon
  <2>1. beat[n] \in Beat
    BY Zenon, <1>1 DEF AgentTypeOK, Beat
  <2>2. beat'[n] = IF beat[n].left > 0 THEN [beat[n] EXCEPT !.left = @ - 1] ELSE beat[n]
    BY Zenon DEF SystemTick
  <2> QED
    BY <2>1, <2>2 DEF Beat
<1>4. AgentTypeOK'
  <2>1. DOMAIN beat' = Runner /\ beat' = [n \in Runner |-> beat'[n]]
    BY Zenon DEF SystemTick
  <2>2. beat' \in [Runner -> Beat]
    BY Zenon, <1>3, <2>1
  <2> QED
    BY <1>1, <1>2, <2>2 DEF AgentTypeOK, Beat
<1>5. UnclaimedIsUnknown' /\ HeldIsUnreported'
  BY Zenon, <1>2, <1>3 DEF AgentInv, UnclaimedIsUnknown, HeldIsUnreported
<1>6. NoPromiseIsLate'
  <2> SUFFICES ASSUME NEW j \in Job, jobStatus[j] = "RUNNING"
               PROVE  /\ deadline'[j] <= leaseLeft'[j]
                      /\ \A n \in Runner : j \in beat'[n].valid => beat'[n].left <= leaseLeft'[j]
    BY Zenon, <1>2 DEF NoPromiseIsLate
  <2>1. /\ deadline[j] <= leaseLeft[j]
        /\ \A n \in Runner : j \in beat[n].valid => beat[n].left <= leaseLeft[j]
    BY Zenon DEF AgentInv, NoPromiseIsLate
  <2>2. leaseLeft[j] \in Nat /\ deadline[j] \in Nat /\ \A n \in Runner : beat[n].left \in Nat
    <3>1. deadline[j] \in Nat /\ \A n \in Runner : beat[n] \in Beat
      BY Zenon, <1>1 DEF AgentTypeOK
    <3>2. \A n \in Runner : beat[n].left \in Nat
      BY Zenon, <3>1 DEF Beat
    <3>3. leaseLeft[j] \in Nat
      BY <1>1, SchedulerAssumption DEF Inv, TypeOK
    <3> QED
      BY Zenon, <3>1, <3>2, <3>3
  <2>3. \A n \in Runner : j \in beat'[n].valid => beat'[n].left <= leaseLeft'[j]
    <3> SUFFICES ASSUME NEW n \in Runner, j \in beat[n].valid
                 PROVE  beat'[n].left <= leaseLeft'[j]
      BY Zenon, <1>3
    <3> DEFINE old == beat[n].left
               new == beat'[n].left
    <3>1. old \in Nat /\ old <= leaseLeft[j] /\ new = IF old > 0 THEN old - 1 ELSE 0
      BY Zenon, <1>3, <2>1, <2>2
    <3> HIDE DEF old, new
    <3>2. new <= leaseLeft'[j]
      BY <1>2, <2>2, <3>1
    <3> QED
      BY Zenon, <3>2 DEF new
  <2> QED
    BY <1>2, <2>1, <2>2, <2>3
<1> QED
  BY Zenon, <1>4, <1>5, <1>6 DEF AgentInv

-----------------------------------------------------------------------------
(***************************************************************************)
(* The invariant and what it gives.                                        *)
(***************************************************************************)
LEMMA SystemInvInit ==
  SystemInit => SystemInv
<1> SUFFICES ASSUME SystemInit PROVE SystemInv
  BY Zenon
<1>1. Inv /\ Settled
  BY Zenon, InvInit, SettledInit DEF SystemInit
<1>2. AgentTypeOK
  BY Zenon DEF SystemInit, AgentTypeOK, Beat, NoBeat
<1>3. UnclaimedIsUnknown /\ HeldIsUnreported
  BY Zenon DEF SystemInit, UnclaimedIsUnknown, HeldIsUnreported, Held, Executing, NoBeat
<1>4. NoPromiseIsLate
  BY Zenon DEF SystemInit, Init, NoPromiseIsLate
<1> QED
  BY Zenon, <1>1, <1>2, <1>3, <1>4 DEF SystemInv, AgentInv

\* Every step of the server or of a runner keeps the invariant.
LEMMA SystemInvStep ==
  ASSUME SystemInv, [SystemNext]_systemVars
  PROVE  SystemInv'
<1>1. [Transaction]_vars
  BY Zenon, SystemStep
<1>2. Inv' /\ Settled'
  BY Zenon, <1>1, InvStep, SettledStep DEF SystemInv
<1>3. AgentInv'
  <2>1. ASSUME NEW n \in Runner, Agent(n)
        PROVE  AgentInv'
    <3>1. CASE Start(n)
      <4>1. UNCHANGED <<jobStatus, leaseLeft, stage, deadline, beat, report>>
        BY Zenon, <3>1 DEF Start, RegisterRunner, execVars, leaseVars
      <4>2. AgentTypeOK'
        BY Zenon, <4>1 DEF SystemInv, AgentInv, AgentTypeOK, Beat
      <4> QED
        BY Zenon, <4>1, <4>2, UndisturbedStep DEF SystemInv
    <3> QED
      BY <2>1, <3>1, LoopStep, ReceiveHeartbeatStep, ServeLeaseStep, ServeHeartbeatStep, Zenon DEF Agent
  <2>2. ASSUME NEW j \in Job, Execution(j)
        PROVE  AgentInv'
    BY <2>2, ExecutionStep, ServeReportStep, Zenon DEF Execution
  <2>3. CASE UNCHANGED systemVars
    <3>1. UNCHANGED <<jobStatus, leaseLeft, stage, deadline, beat, report>>
      BY Zenon, <2>3 DEF systemVars, vars, leaseVars, agentVars
    <3>2. AgentTypeOK'
      BY Zenon, <3>1 DEF SystemInv, AgentInv, AgentTypeOK, Beat
    <3> QED
      BY Zenon, <3>1, <3>2, UndisturbedStep DEF SystemInv
  <2> QED
    BY <2>1, <2>2, <2>3, ControlPlaneStep, SystemTickStep, Zenon DEF SystemNext
<1> QED
  BY Zenon, <1>2, <1>3 DEF SystemInv

\* So it always holds.
LEMMA SystemInvariance ==
  SystemSpec => []SystemInv
<1>1. SystemInit => SystemInv
  BY Zenon, SystemInvInit
<1>2. SystemInv /\ [SystemNext]_systemVars => SystemInv'
  BY Zenon, SystemInvStep
<1> QED
  BY <1>1, <1>2, PTL DEF SystemSpec

\* The control plane never has the result of a job that a process executes,
\* whatever messages are lost, leases run out and processes exit.
THEOREM ExecutionsAreAccounted == SystemSpec => []ExecutionIsAccounted
<1>1. SystemInv => ExecutionIsAccounted
  BY Zenon DEF SystemInv, AgentInv, HeldIsUnreported, Held, ExecutionIsAccounted
<1> QED
  BY <1>1, SystemInvariance, PTL

\* A process gives a job up no later than the control plane does, however
\* long a response with a renewal is on its way.
THEOREM DeadlinesAreNotLate == SystemSpec => []DeadlineNotLate
<1>1. SystemInv => DeadlineNotLate
  BY Zenon DEF SystemInv, AgentInv, NoPromiseIsLate, DeadlineNotLate, active
<1> QED
  BY <1>1, SystemInvariance, PTL

\* With processes that fail and messages that are lost around it, the
\* control plane keeps the promises it makes by itself.
THEOREM PromisesSurviveRunners ==
  SystemSpec => [](/\ LeaseConsistent /\ NeverReassigned /\ DependencyOrder
                   /\ InputsAvailable /\ RetentionFollowsRun /\ TerminalRunIsQuiet
                   /\ VerdictMatchesJobs /\ NoDeadEnd)
<1>1. SystemInv => /\ LeaseConsistent /\ NeverReassigned /\ DependencyOrder
                   /\ InputsAvailable /\ RetentionFollowsRun /\ TerminalRunIsQuiet
                   /\ VerdictMatchesJobs /\ NoDeadEnd
  BY Zenon, SettledCanMove DEF SystemInv, Inv, Settled
<1> QED
  BY <1>1, SystemInvariance, PTL

\* The system as a whole implements the job lifecycle.
THEOREM SystemImplementsLifecycle == SystemSpec => ImplementsLifecycle
<1>1. SystemInit => Lifecycle!Init
  BY DEF SystemInit, Init, Lifecycle!Init
<1>2. SystemInv /\ [SystemNext]_systemVars => [Lifecycle!Next]_(Lifecycle!lifecycleVars)
  BY Zenon, SystemStep, LifecycleStep DEF SystemInv
<1>3. SystemSpec => Lifecycle!Spec
  BY <1>1, <1>2, SystemInvariance, PTL DEF SystemSpec, Lifecycle!Spec
<1> QED
  BY Zenon, <1>3 DEF ImplementsLifecycle
=============================================================================
