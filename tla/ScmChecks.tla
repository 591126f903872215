------------------------------ MODULE ScmChecks -----------------------------
(***************************************************************************)
(* GitHub checks: the server's check worker brings the check of every run  *)
(* that a delivery triggered to the state of the run.  It claims a trigger *)
(* whose check is missing or out of date, looks for the check at GitHub if *)
(* it does not know its ID, creates or updates it, and records what it     *)
(* sent.  The claim is not renewed.                                        *)
(*                                                                         *)
(* What fails, MaxCheckFailures times: a call without effect, one whose    *)
(* answer is lost, one that takes effect only after the worker gave up on  *)
(* it, a claim that expires too early, and the server.                     *)
(***************************************************************************)
EXTENDS Integers, Sequences

CONSTANTS Trigger, NoTrigger, MaxCheckFailures

ASSUME CheckAssumption == NoTrigger \notin Trigger /\ MaxCheckFailures \in Nat

VARIABLES
  runStatus,     \* runStatus[t]: the status of the run
  checkID,       \* checkID[t]: check_run_id, an index of github[t], 0 for NULL
  reported,      \* reported[t]: check_state and last_check_conclusion
  claim,         \* claim[t]: "none", "live" or "expired"
  github,        \* github[t]: the states of the checks with t's external ID
  reporter,      \* the check worker
  delayed,       \* a request that GitHub has yet to process, or NoRequest
  overtaken,     \* the triggers with a request that was delayed
  checkFailures

checkVars == <<runStatus, checkID, reported, claim, github, reporter, delayed, overtaken,
               checkFailures>>

Waiting == [pc |-> "waiting", trigger |-> NoTrigger, desired |-> "none", id |-> 0]
NoRequest == Waiting

CheckInit ==
  /\ runStatus = [t \in Trigger |-> "QUEUED"]
  /\ checkID = [t \in Trigger |-> 0] /\ reported = [t \in Trigger |-> "none"]
  /\ claim = [t \in Trigger |-> "none"]
  /\ github = [t \in Trigger |-> <<>>]
  /\ reporter = Waiting /\ delayed = NoRequest /\ overtaken = {} /\ checkFailures = 0

CheckFault == checkFailures < MaxCheckFailures /\ checkFailures' = checkFailures + 1
NoCheckFault == UNCHANGED checkFailures

\* What the check of a run is to show: its status until it has a conclusion.
Desired(t) ==
  CASE runStatus[t] = "QUEUED" -> "queued"
    [] runStatus[t] = "RUNNING" -> "in_progress"
    [] runStatus[t] = "PASSED" -> "success"
    [] runStatus[t] \in {"FAILED", "ERROR"} -> "failure"
    [] runStatus[t] \in {"CANCELED", "ABORTED"} -> "cancelled"

Ended(t) == runStatus[t] \notin {"QUEUED", "RUNNING"}

RunMoves(t) ==
  /\ \/ runStatus[t] = "QUEUED"
        /\ \E s \in {"RUNNING", "CANCELED"} : runStatus' = [runStatus EXCEPT ![t] = s]
     \/ runStatus[t] = "RUNNING"
        /\ \E s \in {"PASSED", "FAILED", "ERROR", "CANCELED", "ABORTED"} :
             runStatus' = [runStatus EXCEPT ![t] = s]
  /\ UNCHANGED <<checkID, reported, claim, github, reporter, delayed, overtaken, checkFailures>>

-----------------------------------------------------------------------------
ClaimSCMCheck(t) ==
  /\ reporter.pc = "waiting"
  /\ claim[t] # "live"
  /\ checkID[t] = 0 \/ reported[t] # Desired(t)
  /\ claim' = [claim EXCEPT ![t] = "live"]
  /\ reporter' = [pc |-> "claimed", trigger |-> t, desired |-> Desired(t), id |-> checkID[t]]
  /\ UNCHANGED <<runStatus, checkID, reported, github, delayed, overtaken, checkFailures>>

ReporterAt(pc) == reporter' = [reporter EXCEPT !.pc = pc]

\* findCheck, unless the ID is known: the check that GitHub lists with the
\* external ID.
FindNoCheck == reporter.id
FindCheck ==
  IF reporter.id = 0 /\ github[reporter.trigger] # <<>> THEN 1 ELSE reporter.id

\* GetSCMRepository, InstallationToken and findCheck.
Find ==
  /\ reporter.pc = "claimed"
  /\ \/ NoCheckFault /\ reporter' = [reporter EXCEPT !.pc = "found", !.id = FindCheck]
     \/ CheckFault /\ ReporterAt("failed")
  /\ UNCHANGED <<runStatus, checkID, reported, claim, github, delayed, overtaken>>

\* GitHub creates a check, or updates one.
Processed(request) ==
  [github EXCEPT ![request.trigger] =
     IF request.id = 0 THEN Append(@, request.desired)
     ELSE [@ EXCEPT ![request.id] = request.desired]]

IDOf(request) == IF request.id = 0 THEN Len(github[request.trigger]) + 1 ELSE request.id

\* createCheck or updateCheck.
Send ==
  /\ reporter.pc = "found"
  /\ \/ /\ NoCheckFault /\ github' = Processed(reporter)
        /\ reporter' = [reporter EXCEPT !.pc = "answered", !.id = IDOf(reporter)]
        /\ UNCHANGED <<delayed, overtaken>>
     \/ /\ CheckFault /\ github' \in {github, Processed(reporter)}
        /\ ReporterAt("failed")
        /\ UNCHANGED <<delayed, overtaken>>
     \/ /\ CheckFault /\ delayed = NoRequest
        /\ delayed' = reporter /\ overtaken' = overtaken \cup {reporter.trigger}
        /\ ReporterAt("failed")
        /\ UNCHANGED github
  /\ UNCHANGED <<runStatus, checkID, reported, claim>>

DelayedRequestArrives ==
  /\ delayed # NoRequest
  /\ github' = Processed(delayed) /\ delayed' = NoRequest
  /\ UNCHANGED <<runStatus, checkID, reported, claim, reporter, overtaken, checkFailures>>

\* CompleteSCMCheck records what was sent, which need not be what is desired now,
\* unless the claim has expired.
RecordCurrent == Desired(reporter.trigger)
Record == reporter.desired

Complete(t) ==
  /\ reporter.pc = "answered" /\ reporter.trigger = t
  /\ \/ /\ NoCheckFault /\ claim[t] = "live"
        /\ checkID' = [checkID EXCEPT ![t] = reporter.id]
        /\ reported' = [reported EXCEPT ![t] = Record]
        /\ claim' = [claim EXCEPT ![t] = "none"]
     \/ /\ IF claim[t] = "live" THEN CheckFault ELSE NoCheckFault
        /\ UNCHANGED <<checkID, reported, claim>>
  /\ reporter' = Waiting
  /\ UNCHANGED <<runStatus, github, delayed, overtaken>>

\* FailSCMCheck: the check is tried again, however often that takes.
Fail(t) ==
  /\ reporter.pc = "failed" /\ reporter.trigger = t
  /\ \/ NoCheckFault /\ claim[t] = "live" /\ claim' = [claim EXCEPT ![t] = "none"]
     \/ /\ IF claim[t] = "live" THEN CheckFault ELSE NoCheckFault
        /\ UNCHANGED claim
  /\ reporter' = Waiting
  /\ UNCHANGED <<runStatus, checkID, reported, github, delayed, overtaken>>

Reconcile == Find \/ Send \/ \E t \in Trigger : Complete(t) \/ Fail(t)

-----------------------------------------------------------------------------
CheckClaimExpires(t) ==
  /\ claim[t] = "live"
  /\ claim' = [claim EXCEPT ![t] = "expired"]
  /\ IF reporter.trigger = t THEN CheckFault ELSE NoCheckFault
  /\ UNCHANGED <<runStatus, checkID, reported, github, reporter, delayed, overtaken>>

ReporterCrashes ==
  /\ reporter.pc # "waiting" /\ CheckFault
  /\ reporter' = Waiting
  /\ UNCHANGED <<runStatus, checkID, reported, claim, github, delayed, overtaken>>

CheckNext ==
  \/ \E t \in Trigger : ClaimSCMCheck(t) \/ RunMoves(t) \/ CheckClaimExpires(t)
  \/ Reconcile \/ DelayedRequestArrives \/ ReporterCrashes

CheckSpec == CheckInit /\ [][CheckNext]_checkVars

-----------------------------------------------------------------------------
(***************************************************************************)
(* Properties.                                                             *)
(***************************************************************************)

\* A run that has ended is shown with its conclusion in the end, and stays so,
\* although the run moves on while the worker reports an older state, answers
\* are lost and claims expire.  A request that GitHub processes after the worker
\* gave up on it can undo this, since nothing looks at the check again.
Shown(t) == \E i \in DOMAIN github[t] : github[t][i] = Desired(t)
ChecksConverge ==
  \A t \in Trigger : <>[](Ended(t) => Shown(t) \/ t \in overtaken)

\* A run has one check: a creation whose answer was lost, or whose ID could not
\* be recorded, is found again.  Only a creation that GitHub processes late is not.
OneCheckPerRun ==
  \A t \in Trigger : Len(github[t]) > 1 => t \in overtaken

\* The worker leaves a check alone only while GitHub shows the run as it is, what
\* was lost, given up or out of date when it was sent notwithstanding: nothing else
\* would correct it.
LeftAloneIsRight ==
  \A t \in Trigger \ overtaken :
    checkID[t] # 0 /\ reported[t] = Desired(t) => github[t][checkID[t]] = Desired(t)
=============================================================================
