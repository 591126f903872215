---------------------------- MODULE ScmDeliveries ---------------------------
(***************************************************************************)
(* Deliveries of GitHub webhooks and the runs they lead to: the webhook's  *)
(* transaction with the supersession of older work of a pull request, and  *)
(* the worker goroutines of the server, which claim a delivery, prepare    *)
(* its source, create the run and complete the delivery.                   *)
(*                                                                         *)
(* A step is a transaction or a call that can fail.  Time appears as the   *)
(* expiry of claims only: the number of a claim, attempt_count, stands for *)
(* its token, and a delay before the next attempt has run out whenever a   *)
(* claim looks.  The claim of a worker is renewed while it works; that it  *)
(* expires nevertheless, failing calls, and servers that are killed are    *)
(* MaxFailures together, and with the deliveries MaxEvents.                *)
(***************************************************************************)
EXTENDS Integers, FiniteSets, Sequences

CONSTANTS
  Delivery,
  NoDelivery,
  Kind,          \* Kind[d]: "head", a new head of a pull request, "draft", the
                 \* same of a draft, "closed", or "push"
  PullRequest,   \* PullRequest[d]: the pull request of d, unless it is a push
  Commit,        \* Commit[d]
  Broken,        \* the deliveries whose pipeline Validate or Compile refuses
  Worker,
  MaxAttempts,
  MaxFailures,
  MaxEvents      \* how many deliveries and failures there are together

ASSUME DeliveryAssumption ==
  /\ NoDelivery \notin Delivery /\ Broken \subseteq Delivery
  /\ \A d \in Delivery : Kind[d] \in {"head", "draft", "closed", "push"}
  /\ MaxAttempts \in Nat \ {0} /\ MaxFailures \in Nat /\ MaxEvents \in Nat

VARIABLES
  status,        \* status[d]: scm_deliveries.status, "NONE" before the row is there
  attempts,      \* attempts[d]: attempt_count
  again,         \* the FAILED deliveries with a next_attempt_at
  expired,       \* the PROCESSING deliveries whose claim has expired
  open,          \* the deliveries that an open transaction has inserted
  sees,          \* sees[d]: the deliveries that were there when d was inserted
  arrived,       \* the deliveries in the order in which they were committed
  run,           \* run[d]: "NONE", or the status of the run that d triggered, which
                 \* is "OVER" once it is terminal
  stopping,      \* the deliveries whose runs have a cancel_requested_at
  worker,        \* worker[w]: what it does, for which delivery and claim
  unheard,       \* the deliveries whose run was created after the last Notify
  overlapped,    \* the pairs of deliveries whose transactions were open at once
  unanswered,    \* the deliveries of which an error hid that they were completed
  failures

deliveryVars == <<status, attempts, again, expired, open, sees, arrived, run, stopping,
                  worker, unheard, overlapped, unanswered, failures>>

Idle == [pc |-> "idle", delivery |-> NoDelivery, attempt |-> 0]

DeliveryInit ==
  /\ status = [d \in Delivery |-> "NONE"] /\ attempts = [d \in Delivery |-> 0]
  /\ again = {} /\ expired = {} /\ open = {} /\ arrived = <<>>
  /\ sees = [d \in Delivery |-> {}]
  /\ run = [d \in Delivery |-> "NONE"] /\ stopping = {}
  /\ worker = [w \in Worker |-> Idle]
  /\ unheard = {} /\ overlapped = {} /\ unanswered = {} /\ failures = 0

Arrived == {arrived[i] : i \in DOMAIN arrived}

MoreEvents == Cardinality(Arrived \cup open) + failures < MaxEvents

Fault == MoreEvents /\ failures < MaxFailures /\ failures' = failures + 1
NoFault == UNCHANGED failures

-----------------------------------------------------------------------------
(***************************************************************************)
(* The webhook: CreateSCMDelivery.  Its first statement inserts the row,   *)
(* which nobody else sees before the commit; the updates that follow see   *)
(* what was committed before they began, which is at least what was there  *)
(* when the row was inserted.  A delivery that is there already changes    *)
(* nothing.                                                                *)
(***************************************************************************)
Insert(d) ==
  /\ status[d] = "NONE" /\ d \notin open /\ MoreEvents
  /\ open' = open \cup {d}
  /\ sees' = [sees EXCEPT ![d] = Arrived]
  /\ overlapped' = overlapped \cup {{d, e} : e \in open}
  /\ UNCHANGED <<status, attempts, again, expired, arrived, run, stopping, worker, unheard,
                 unanswered, failures>>

\* What the newer delivery d makes obsolete: everything of the pull request when
\* it is closed, else what is about another commit.
Supersedes(d, e) ==
  /\ Kind[d] \in {"head", "closed"} /\ Kind[e] \in {"head", "draft", "closed"}
  /\ e # d /\ PullRequest[e] = PullRequest[d]
  /\ Kind[d] = "closed" \/ Commit[e] # Commit[d]

\* The updates, which lock their rows, and the commit.  The update of the
\* deliveries sees the rows known, that of the runs, which begins later, those of
\* later.  A RUNNING run is only asked to stop.
CommitDelivery(d) ==
  \E known \in SUBSET Arrived : \E later \in SUBSET Arrived :
  LET ignored == {e \in known : Supersedes(d, e) /\ status[e] \in {"PENDING", "PROCESSING", "FAILED"}}
      obsolete == {e \in later : Supersedes(d, e)}
  IN  /\ d \in open /\ sees[d] \subseteq known /\ known \subseteq later
      /\ open' = open \ {d} /\ sees' = [sees EXCEPT ![d] = {}]
      /\ arrived' = Append(arrived, d)
      /\ status' = [e \in Delivery |->
                      IF e \in ignored THEN "IGNORED"
                      ELSE IF e # d THEN status[e]
                      ELSE IF Kind[d] \in {"head", "push"} THEN "PENDING" ELSE "IGNORED"]
      /\ again' = again \ ignored /\ expired' = expired \ ignored
      /\ run' = [e \in Delivery |-> IF e \in obsolete /\ run[e] = "QUEUED" THEN "OVER"
                                    ELSE run[e]]
      /\ stopping' = stopping \cup {e \in obsolete : run[e] = "RUNNING"}
      /\ UNCHANGED <<attempts, worker, unheard, overlapped, unanswered, failures>>

\* An error: the sender may try again.
RollbackDelivery(d) ==
  /\ d \in open /\ Fault
  /\ open' = open \ {d} /\ sees' = [sees EXCEPT ![d] = {}]
  /\ overlapped' = {p \in overlapped : d \notin p}
  /\ UNCHANGED <<status, attempts, again, expired, arrived, run, stopping, worker, unheard,
                 unanswered>>

-----------------------------------------------------------------------------
(***************************************************************************)
(* A worker.                                                               *)
(***************************************************************************)
WorkerAt(w, pc) == worker' = [worker EXCEPT ![w].pc = pc]
Done(w) == worker' = [worker EXCEPT ![w] = Idle]

\* ClaimSCMDelivery takes the oldest such row that no other transaction locks.
ClaimableUnlessLost(d) == status[d] = "PENDING" \/ d \in again
Claimable(d) == status[d] = "PENDING" \/ d \in again \/ d \in expired

ClaimSCMDelivery(w, d) ==
  /\ worker[w].pc = "idle" /\ Claimable(d)
  /\ status' = [status EXCEPT ![d] = "PROCESSING"]
  /\ attempts' = [attempts EXCEPT ![d] = @ + 1]
  /\ again' = again \ {d} /\ expired' = expired \ {d}
  /\ worker' = [worker EXCEPT ![w] = [pc |-> "claimed", delivery |-> d,
                                      attempt |-> attempts[d] + 1]]
  /\ UNCHANGED <<open, sees, arrived, run, stopping, unheard, overlapped, unanswered, failures>>

\* The condition of the statements that CreateSCMRun, CompleteSCMDelivery and
\* FailSCMDelivery begin with: the worker's token is that of an unexpired claim.
OwnsAnyClaim(w) == status[worker[w].delivery] # "NONE"
Owns(w) ==
  LET d == worker[w].delivery
  IN  status[d] = "PROCESSING" /\ attempts[d] = worker[w].attempt /\ d \notin expired

\* GetSCMRunTriggerByDelivery, whose error is a transient one, and
\* GetSCMRepository, whose error, or a repository that is disabled, is permanent.
FindTrigger(w) ==
  /\ worker[w].pc = "claimed"
  /\ \/ /\ NoFault
        /\ WorkerAt(w, IF run[worker[w].delivery] = "NONE" THEN "prepare" ELSE "replay")
     \/ Fault /\ \E kind \in {"transient", "permanent"} : WorkerAt(w, kind)
  /\ UNCHANGED <<status, attempts, again, expired, open, sees, arrived, run, stopping, unheard,
                 overlapped, unanswered>>

\* Prepare fails: because of the pipeline, or of a call to GitHub or git, or
\* because the context is canceled, by a failed renewal or the server's end,
\* which counts as permanent if it hits the checkout.
PrepareFails(w) ==
  /\ worker[w].pc = "prepare"
  /\ \/ worker[w].delivery \in Broken /\ NoFault /\ WorkerAt(w, "permanent")
     \/ Fault /\ \E kind \in {"transient", "permanent"} : WorkerAt(w, kind)
  /\ UNCHANGED <<status, attempts, again, expired, open, sees, arrived, run, stopping, unheard,
                 overlapped, unanswered>>

\* Prepare, and CreateSCMRun: the run and its trigger, if the claim is still the
\* worker's and there is no trigger.  An error may hide that it took effect.
Created(w) == [run EXCEPT ![worker[w].delivery] = "QUEUED"]

CreateSCMRun(w) ==
  LET creates == Owns(w) /\ run[worker[w].delivery] = "NONE"
  IN  /\ worker[w].pc = "prepare" /\ worker[w].delivery \notin Broken
      /\ \/ NoFault /\ creates /\ run' = Created(w) /\ WorkerAt(w, "created")
         \/ NoFault /\ ~creates /\ UNCHANGED run /\ WorkerAt(w, "transient")
         \/ Fault /\ creates /\ run' \in {run, Created(w)} /\ WorkerAt(w, "transient")
      /\ unheard' = IF run' = run THEN unheard ELSE unheard \cup {worker[w].delivery}
      /\ UNCHANGED <<status, attempts, again, expired, open, sees, arrived, stopping, overlapped,
                     unanswered>>

Notify == unheard' = {}
NotifyCompleted(w) == IF Owns(w) THEN Notify ELSE UNCHANGED unheard

\* CompleteSCMDelivery.  A worker that has just created the run calls Notify only
\* if this succeeds, one that found the run calls it in any case.
ReplayQuietly(w) ==
  IF worker[w].pc = "created" THEN NotifyCompleted(w) ELSE UNCHANGED unheard
NotifyAfter(w) ==
  IF worker[w].pc = "created" THEN NotifyCompleted(w) ELSE Notify

Completed(w) == [status EXCEPT ![worker[w].delivery] = IF Owns(w) THEN "PROCESSED" ELSE @]

CompleteSCMDelivery(w) ==
  /\ worker[w].pc \in {"created", "replay"}
  /\ \/ NoFault /\ status' = Completed(w) /\ NotifyAfter(w) /\ UNCHANGED unanswered
     \/ /\ Fault /\ status' \in {status, Completed(w)}
        /\ unanswered' = IF status' = status THEN unanswered
                         ELSE unanswered \cup {worker[w].delivery}
        /\ IF worker[w].pc = "replay" THEN Notify ELSE UNCHANGED unheard
  /\ Done(w)
  /\ UNCHANGED <<attempts, again, expired, open, sees, arrived, run, stopping, overlapped>>

\* fail: a transient error is tried again, MaxAttempts times.
FailSCMDelivery(w) ==
  LET d == worker[w].delivery
      retried == worker[w].pc = "transient" /\ worker[w].attempt < MaxAttempts
  IN  /\ worker[w].pc \in {"transient", "permanent"}
      /\ \/ /\ Owns(w) /\ NoFault
            /\ status' = [status EXCEPT ![d] = "FAILED"]
            /\ again' = IF retried THEN again \cup {d} ELSE again
         \/ /\ ~Owns(w) /\ NoFault /\ UNCHANGED <<status, again>>
         \/ /\ Fault /\ UNCHANGED <<status, again>>
      /\ Done(w)
      /\ UNCHANGED <<attempts, expired, open, sees, arrived, run, stopping, unheard, overlapped,
                     unanswered>>

Process(w) ==
  \/ \E d \in Delivery : ClaimSCMDelivery(w, d)
  \/ FindTrigger(w) \/ PrepareFails(w) \/ CreateSCMRun(w)
  \/ CompleteSCMDelivery(w) \/ FailSCMDelivery(w)

-----------------------------------------------------------------------------
(***************************************************************************)
(* Claims expire, servers are killed, runs go on.                          *)
(***************************************************************************)
Expires(d) ==
  /\ status[d] = "PROCESSING" /\ d \notin expired
  /\ expired' = expired \cup {d}
  /\ UNCHANGED <<status, attempts, again, open, sees, arrived, run, stopping, worker, unheard,
                 overlapped, unanswered>>

Held(d) == \E w \in Worker : worker[w].delivery = d /\ worker[w].attempt = attempts[d]

\* Nobody renews the claim any more.
AbandonedClaimExpires(d) == ~Held(d) /\ Expires(d) /\ NoFault

\* The renewals of a worker fail or come too late.
HeldClaimExpires(d) == Held(d) /\ Expires(d) /\ Fault

\* The server is killed; the manager of the next one calls Notify when it starts.
RestartWorkers ==
  /\ Fault /\ \E w \in Worker : worker[w] # Idle
  /\ worker' = [w \in Worker |-> Idle]
  /\ Notify
  /\ UNCHANGED <<status, attempts, again, expired, open, sees, arrived, run, stopping, overlapped,
                 unanswered>>

RunGoesOn(d) ==
  /\ \/ run[d] = "QUEUED" /\ run' = [run EXCEPT ![d] = "RUNNING"]
     \/ run[d] = "RUNNING" /\ run' = [run EXCEPT ![d] = "OVER"]
  /\ UNCHANGED <<status, attempts, again, expired, open, sees, arrived, stopping, worker, unheard,
                 overlapped, unanswered, failures>>

DeliveryNext ==
  \/ \E d \in Delivery : \/ Insert(d) \/ CommitDelivery(d) \/ RollbackDelivery(d)
                         \/ AbandonedClaimExpires(d) \/ HeldClaimExpires(d) \/ RunGoesOn(d)
  \/ \E w \in Worker : Process(w)
  \/ RestartWorkers

DeliverySpec == DeliveryInit /\ [][DeliveryNext]_deliveryVars

-----------------------------------------------------------------------------
(***************************************************************************)
(* Properties.                                                             *)
(***************************************************************************)

\* A delivery that may lead to a run, or whose run goes on unasked to stop.
Alive(d) ==
  \/ status[d] \in {"PENDING", "PROCESSING"} \/ d \in again
  \/ run[d] = "QUEUED" \/ (run[d] = "RUNNING" /\ d \notin stopping)

\* Late workers, retries, replays and expired claims included, only the last
\* head of a pull request is worked on: what a later delivery supersedes is
\* dead.  The exception are deliveries whose transactions overlap, since
\* neither sees the row of the other.
OnlyTheNewestIsAlive ==
  \A i, k \in DOMAIN arrived :
    i < k /\ Supersedes(arrived[k], arrived[i]) /\ Alive(arrived[i]) =>
      {arrived[i], arrived[k]} \in overlapped

GivenUp(d) == status[d] = "FAILED" /\ d \notin again

\* Every delivery is brought to an end: its run is created, it is superseded, or
\* it fails for good; through lost claims, crashes and failing calls.
Settled(d) == status[d] \in {"PROCESSED", "IGNORED"} \/ GivenUp(d)
EveryDeliverySettles == <>[](\A d \in Delivery : status[d] = "NONE" \/ Settled(d))

\* A run is never left for the dispatcher to find by chance: after it is there,
\* Notify is called, although the worker may lose its claim or the server may be
\* killed between the creation and the call.  There are two exceptions: the last
\* attempt created the run and then failed, or the completion of the delivery
\* succeeded and was taken for an error.
EveryRunIsAnnounced ==
  <>[](\A d \in unheard : run[d] # "QUEUED" \/ GivenUp(d) \/ d \in unanswered)

\* Somebody is yet to come back to the delivery of a run that was not announced,
\* with the same two exceptions: the delivery is claimed, or to be tried again.
UnheardIsPursued ==
  \A d \in unheard :
    run[d] = "QUEUED" => status[d] = "PROCESSING" \/ d \in again \/ GivenUp(d) \/ d \in unanswered

\* Lost claims do not count against MaxAttempts, and yet a delivery is not tried
\* without end: each attempt beyond MaxAttempts has a failure of its own.
RetriesAreBounded == \A d \in Delivery : attempts[d] <= MaxAttempts + failures
=============================================================================
