----------------------------- MODULE ScmProofs ------------------------------
(***************************************************************************)
(* What the server does for GitHub, for any number of deliveries, workers, *)
(* runs, jobs and failures: only the newest head of a pull request is      *)
(* worked on, no unannounced run is forgotten, attempts are bounded,       *)
(* Compile orders what it can and refuses the rest, and a run has one      *)
(* check at GitHub, which is left alone only when it is right.             *)
(***************************************************************************)
EXTENDS ScmPipeline, TLAPS, FiniteSetTheorems

-----------------------------------------------------------------------------
(***************************************************************************)
(* Only the newest head of a pull request is worked on, for any number of  *)
(* deliveries, workers and failures.                                       *)
(*                                                                         *)
(* The invariant adds two things to the property.  A transaction sees      *)
(* every delivery that has arrived, or overlapped with it; so what it does *)
(* not bring to an end is excepted.  And only a row in the right status    *)
(* has an expired claim or a next attempt; so a delivery that was brought  *)
(* to an end is not claimed again, and a worker that still holds a token   *)
(* of it does not own the claim any more.                                  *)
(***************************************************************************)

Statuses == {"NONE", "PENDING", "PROCESSING", "PROCESSED", "FAILED", "IGNORED"}

PCs == {"idle", "claimed", "prepare", "created", "replay", "transient", "permanent"}

WorkersOK ==
  /\ worker \in [Worker -> [pc : PCs, delivery : Delivery \cup {NoDelivery}, attempt : Nat]]
  /\ \A w \in Worker : worker[w].pc # "idle" => worker[w].delivery \in Delivery

DeliveryTypeOK ==
  /\ status \in [Delivery -> Statuses]
  /\ arrived \in Seq(Delivery)
  /\ run \in [Delivery -> {"NONE", "QUEUED", "RUNNING", "OVER"}]
  /\ open \subseteq Delivery /\ again \subseteq Delivery /\ expired \subseteq Delivery
  /\ sees \in [Delivery -> SUBSET Delivery]
  /\ attempts \in [Delivery -> Nat]
  /\ WorkersOK

\* A row has an expired claim, or a next attempt, only in the status for it.
MarksFitStatus ==
  /\ \A d \in again : status[d] = "FAILED"
  /\ \A d \in expired : status[d] = "PROCESSING"

\* A delivery has arrived when its transaction is committed.
ArrivedFitsStatus ==
  /\ \A d \in open : status[d] = "NONE"
  /\ \A d \in Arrived : status[d] # "NONE"

\* A transaction sees what has arrived, unless it overlapped with it.
TransactionsSee ==
  /\ \A d, e \in open : d # e => {d, e} \in overlapped
  /\ \A d \in open : \A e \in Arrived : e \in sees[d] \/ {d, e} \in overlapped

DeliveryInv ==
  /\ DeliveryTypeOK /\ MarksFitStatus /\ ArrivedFitsStatus /\ TransactionsSee
  /\ OnlyTheNewestIsAlive

-----------------------------------------------------------------------------
\* The invariant holds at the start.
LEMMA DeliveryInvInit == DeliveryInit => DeliveryInv
BY DEF DeliveryInit, DeliveryInv, DeliveryTypeOK, MarksFitStatus, ArrivedFitsStatus,
       TransactionsSee, OnlyTheNewestIsAlive, Arrived, Statuses, Idle, WorkersOK, PCs

\* A step outside of the webhook keeps the invariant if it changes the rows of
\* deliveries that are there, gives no row a mark that does not fit its status,
\* and revives nothing that is dead.
LEMMA RowsChange ==
  ASSUME DeliveryInv, UNCHANGED <<open, sees, arrived, overlapped>>,
         DeliveryTypeOK', MarksFitStatus',
         \A d \in Delivery : status[d] = "NONE" <=> status'[d] = "NONE",
         \A d \in Delivery : status[d] # "NONE" /\ ~Alive(d) => ~Alive(d)'
  PROVE  DeliveryInv'
<1>1. \A i \in DOMAIN arrived : arrived[i] \in Arrived /\ arrived[i] \in Delivery
  BY DEF Arrived, DeliveryInv, DeliveryTypeOK
<1>2. ArrivedFitsStatus'
  BY <1>1 DEF ArrivedFitsStatus, DeliveryInv, DeliveryTypeOK, Arrived
<1>3. TransactionsSee'
  BY DEF TransactionsSee, DeliveryInv, Arrived
<1>4. \A i \in DOMAIN arrived : ~Alive(arrived[i]) => ~Alive(arrived[i])'
  BY Zenon, <1>1 DEF DeliveryInv, ArrivedFitsStatus
<1>5. OnlyTheNewestIsAlive'
  BY Zenon, <1>4 DEF DeliveryInv, OnlyTheNewestIsAlive, Supersedes
<1>. QED
  BY Zenon, <1>2, <1>3, <1>5 DEF DeliveryInv

\* A worker that is busy keeps its delivery, or becomes idle.
LEMMA BusyWorker ==
  ASSUME WorkersOK, NEW w \in Worker, worker[w].pc # "idle",
         (\E pc \in PCs : WorkerAt(w, pc)) \/ Done(w)
  PROVE  WorkersOK'
<1>1. CASE Done(w)
  BY Zenon, <1>1 DEF WorkersOK, Done, Idle, PCs
<1>2. ASSUME NEW pc \in PCs, WorkerAt(w, pc) PROVE WorkersOK'
  <2>1. worker' = [worker EXCEPT ![w] = [worker[w] EXCEPT !.pc = pc]]
    BY Zenon, <1>2 DEF WorkerAt
  <2>2. [worker[w] EXCEPT !.pc = pc] \in [pc : PCs, delivery : Delivery \cup {NoDelivery}, attempt : Nat]
        /\ [worker[w] EXCEPT !.pc = pc].delivery = worker[w].delivery
    BY Zenon DEF WorkersOK
  <2>. QED
    BY Zenon, <2>1, <2>2 DEF WorkersOK
<1>. QED
  BY Zenon, <1>1, <1>2

\* A worker's steps: it claims only what is pending, and ends or creates only
\* what it owns.
LEMMA DeliveryClaimKeeps ==
  ASSUME DeliveryInv, NEW w \in Worker, NEW d \in Delivery, ClaimSCMDelivery(w, d)
  PROVE  DeliveryInv'
<1>1. Alive(d) /\ status[d] # "NONE"
  BY Zenon DEF ClaimSCMDelivery, Claimable, Alive, DeliveryInv, MarksFitStatus
<1>2. DeliveryTypeOK' /\ MarksFitStatus'
  <2>1. WorkersOK'
    BY DEF ClaimSCMDelivery, DeliveryInv, DeliveryTypeOK, WorkersOK, PCs
  <2>. QED
    BY <2>1 DEF ClaimSCMDelivery, DeliveryInv, DeliveryTypeOK, MarksFitStatus, Statuses
<1>3. \A e \in Delivery : status[e] = "NONE" <=> status'[e] = "NONE"
  BY Zenon, <1>1 DEF ClaimSCMDelivery, DeliveryInv, DeliveryTypeOK
<1>4. \A e \in Delivery : ~Alive(e) => ~Alive(e)'
  BY Zenon, <1>1 DEF ClaimSCMDelivery, DeliveryInv, DeliveryTypeOK, Alive
<1>. QED
  BY Zenon, <1>2, <1>3, <1>4, RowsChange DEF ClaimSCMDelivery

\* A worker looks for the trigger, or fails before it.
LEMMA PrepareKeeps ==
  ASSUME DeliveryInv, NEW w \in Worker, FindTrigger(w) \/ PrepareFails(w)
  PROVE  DeliveryInv'
<1>1. /\ UNCHANGED <<status, attempts, again, expired, open, sees, arrived, run, stopping,
                     overlapped>>
      /\ \E pc \in {"prepare", "replay", "transient", "permanent"} : WorkerAt(w, pc)
      /\ worker[w].pc # "idle"
  BY Zenon DEF FindTrigger, PrepareFails
<1>2. DeliveryTypeOK' /\ MarksFitStatus'
  <2>1. WorkersOK'
    BY Zenon, <1>1, BusyWorker DEF PCs, DeliveryInv, DeliveryTypeOK
  <2>. QED
    BY Zenon, <1>1, <2>1 DEF DeliveryInv, DeliveryTypeOK, MarksFitStatus
<1>3. \A e \in Delivery : ~Alive(e) => ~Alive(e)'
  BY Zenon, <1>1 DEF Alive
<1>. QED
  BY Zenon, <1>1, <1>2, <1>3, RowsChange

\* A run is created if the worker still owns its delivery.
LEMMA CreateKeeps ==
  ASSUME DeliveryInv, NEW w \in Worker, CreateSCMRun(w)
  PROVE  DeliveryInv'
<1>. DEFINE d == worker[w].delivery
<1>1. /\ UNCHANGED <<status, attempts, again, expired, open, sees, arrived, stopping, overlapped>>
      /\ \E pc \in {"created", "transient"} : WorkerAt(w, pc)
      /\ worker[w].pc # "idle"
      /\ run' = run \/ (Owns(w) /\ run' = [run EXCEPT ![d] = "QUEUED"])
  BY Zenon DEF CreateSCMRun, Created
<1>2. d \in Delivery
  BY Zenon, <1>1 DEF DeliveryInv, DeliveryTypeOK, WorkersOK
<1>3. DeliveryTypeOK' /\ MarksFitStatus'
  <2>1. WorkersOK'
    BY Zenon, <1>1, BusyWorker DEF PCs, DeliveryInv, DeliveryTypeOK
  <2>. QED
    BY Zenon, <1>1, <2>1 DEF DeliveryInv, DeliveryTypeOK, MarksFitStatus
<1>4. Owns(w) => Alive(d)
  BY Zenon DEF Owns, Alive
<1>5. \A e \in Delivery : ~Alive(e) => ~Alive(e)'
  BY Zenon, <1>1, <1>2, <1>4 DEF Alive, DeliveryInv, DeliveryTypeOK
<1>. QED
  BY Zenon, <1>1, <1>3, <1>5, RowsChange

\* The worker completes a delivery that it still owns.
LEMMA CompleteKeeps ==
  ASSUME DeliveryInv, NEW w \in Worker, CompleteSCMDelivery(w)
  PROVE  DeliveryInv'
<1>. DEFINE d == worker[w].delivery
<1>1. /\ UNCHANGED <<attempts, again, expired, open, sees, arrived, run, stopping, overlapped>>
      /\ Done(w) /\ worker[w].pc # "idle"
      /\ status' = status \/ (Owns(w) /\ status' = [status EXCEPT ![d] = "PROCESSED"])
  <2>1. Completed(w) = status \/ (Owns(w) /\ Completed(w) = [status EXCEPT ![d] = "PROCESSED"])
    BY Zenon DEF Completed, DeliveryInv, DeliveryTypeOK
  <2>. QED
    BY Zenon, <2>1 DEF CompleteSCMDelivery
<1>2. d \in Delivery
  BY Zenon, <1>1 DEF DeliveryInv, DeliveryTypeOK, WorkersOK
<1>3. Owns(w) => status[d] = "PROCESSING" /\ d \notin expired /\ d \notin again /\ Alive(d)
  BY Zenon DEF Owns, Alive, DeliveryInv, MarksFitStatus
<1>4. DeliveryTypeOK' /\ MarksFitStatus'
  <2>1. WorkersOK'
    BY Zenon, <1>1, BusyWorker DEF DeliveryInv, DeliveryTypeOK
  <2>2. status' \in [Delivery -> Statuses]
    BY Zenon, <1>1, <1>2 DEF DeliveryInv, DeliveryTypeOK, Statuses
  <2>3. DeliveryTypeOK'
    BY Zenon, <1>1, <1>2, <2>1, <2>2 DEF DeliveryInv, DeliveryTypeOK
  <2>4. \A e \in Delivery : e # d => status'[e] = status[e]
    BY Zenon, <1>1, <1>2 DEF DeliveryInv, DeliveryTypeOK
  <2>5. MarksFitStatus'
    BY <1>1, <1>2, <1>3, <2>4 DEF DeliveryInv, DeliveryTypeOK, MarksFitStatus
  <2>. QED
    BY Zenon, <2>3, <2>5
<1>5. \A e \in Delivery : /\ ~Alive(e) => ~Alive(e)'
                          /\ status[e] = "NONE" <=> status'[e] = "NONE"
  BY Zenon, <1>1, <1>2, <1>3 DEF Alive, DeliveryInv, DeliveryTypeOK
<1>. QED
  BY Zenon, <1>1, <1>4, <1>5, RowsChange

\* The worker fails a delivery that it still owns.
LEMMA FailKeeps ==
  ASSUME DeliveryInv, NEW w \in Worker, FailSCMDelivery(w)
  PROVE  DeliveryInv'
<1>. DEFINE d == worker[w].delivery
<1>1. /\ UNCHANGED <<attempts, expired, open, sees, arrived, run, stopping, overlapped>>
      /\ Done(w) /\ worker[w].pc # "idle"
      /\ \/ UNCHANGED <<status, again>>
         \/ Owns(w) /\ status' = [status EXCEPT ![d] = "FAILED"] /\ again' \in {again, again \cup {d}}
  BY Zenon DEF FailSCMDelivery
<1>2. d \in Delivery
  BY Zenon, <1>1 DEF DeliveryInv, DeliveryTypeOK, WorkersOK
<1>3. Owns(w) => status[d] = "PROCESSING" /\ d \notin expired /\ Alive(d)
  BY Zenon DEF Owns, Alive
<1>4. DeliveryTypeOK' /\ MarksFitStatus'
  <2>1. WorkersOK'
    BY Zenon, <1>1, BusyWorker DEF DeliveryInv, DeliveryTypeOK
  <2>2. status' \in [Delivery -> Statuses]
    BY Zenon, <1>1, <1>2 DEF DeliveryInv, DeliveryTypeOK, Statuses
  <2>3. DeliveryTypeOK'
    BY Zenon, <1>1, <1>2, <2>1, <2>2 DEF DeliveryInv, DeliveryTypeOK
  <2>4. \A e \in Delivery : e # d => status'[e] = status[e]
    BY Zenon, <1>1, <1>2 DEF DeliveryInv, DeliveryTypeOK
  <2>5. MarksFitStatus'
    BY <1>1, <1>2, <1>3, <2>4 DEF DeliveryInv, DeliveryTypeOK, MarksFitStatus
  <2>. QED
    BY Zenon, <2>3, <2>5
<1>5. \A e \in Delivery : /\ ~Alive(e) => ~Alive(e)'
                          /\ status[e] = "NONE" <=> status'[e] = "NONE"
  BY <1>1, <1>2, <1>3 DEF Alive, DeliveryInv, DeliveryTypeOK
<1>. QED
  BY Zenon, <1>1, <1>4, <1>5, RowsChange

\* The steps of the clock, of the runs, and a restart.
LEMMA WorldKeeps ==
  ASSUME DeliveryInv,
         \/ \E d \in Delivery : Expires(d) \/ RunGoesOn(d)
         \/ RestartWorkers
  PROVE  DeliveryInv'
<1>1. CASE \E d \in Delivery : Expires(d)
  <2>1. DeliveryTypeOK' /\ MarksFitStatus'
    BY Zenon, <1>1 DEF Expires, DeliveryInv, DeliveryTypeOK, MarksFitStatus, WorkersOK
  <2>2. \A e \in Delivery : ~Alive(e) => ~Alive(e)'
    BY Zenon, <1>1 DEF Expires, Alive
  <2>. QED
    BY Zenon, <1>1, <2>1, <2>2, RowsChange DEF Expires
<1>2. CASE \E d \in Delivery : RunGoesOn(d)
  <2>1. DeliveryTypeOK' /\ MarksFitStatus'
    BY Zenon, <1>2 DEF RunGoesOn, DeliveryInv, DeliveryTypeOK, MarksFitStatus, WorkersOK
  <2>2. \A e \in Delivery : ~Alive(e) => ~Alive(e)'
    BY Zenon, <1>2 DEF RunGoesOn, Alive, DeliveryInv, DeliveryTypeOK
  <2>. QED
    BY Zenon, <1>2, <2>1, <2>2, RowsChange DEF RunGoesOn
<1>3. CASE RestartWorkers
  <2>1. DeliveryTypeOK' /\ MarksFitStatus'
    BY Zenon, <1>3 DEF RestartWorkers, DeliveryInv, DeliveryTypeOK, MarksFitStatus, Idle, WorkersOK,
                PCs
  <2>2. \A e \in Delivery : ~Alive(e) => ~Alive(e)'
    BY Zenon, <1>3 DEF RestartWorkers, Alive
  <2>. QED
    BY Zenon, <1>3, <2>1, <2>2, RowsChange DEF RestartWorkers
<1>. QED
  BY Zenon, <1>1, <1>2, <1>3

-----------------------------------------------------------------------------
\* The webhook's transaction begins: it sees what has arrived, and overlaps with
\* those that are open.
LEMMA InsertKeeps ==
  ASSUME DeliveryInv, NEW d \in Delivery, Insert(d)
  PROVE  DeliveryInv'
<1>1. /\ UNCHANGED <<status, attempts, again, expired, arrived, run, stopping, worker>>
      /\ status[d] = "NONE" /\ d \notin open
      /\ open' = open \cup {d} /\ sees' = [sees EXCEPT ![d] = Arrived]
      /\ overlapped' = overlapped \cup {{d, e} : e \in open}
  BY Zenon DEF Insert
<1>2. Arrived' = Arrived /\ Arrived \subseteq Delivery
  BY <1>1 DEF Arrived, DeliveryInv, DeliveryTypeOK
<1>3. DeliveryTypeOK' /\ MarksFitStatus' /\ ArrivedFitsStatus'
  <2>1. DeliveryTypeOK'
    BY Zenon, <1>1, <1>2 DEF DeliveryInv, DeliveryTypeOK, WorkersOK
  <2>2. MarksFitStatus' /\ ArrivedFitsStatus'
    BY Zenon, <1>1, <1>2 DEF DeliveryInv, MarksFitStatus, ArrivedFitsStatus
  <2>. QED
    BY Zenon, <2>1, <2>2
<1>4. TransactionsSee'
  <2>1. \A e \in open : {d, e} \in overlapped' /\ {e, d} \in overlapped'
    BY Zenon, <1>1
  <2>2. \A e, f \in open' : e # f => {e, f} \in overlapped'
    BY Zenon, <1>1, <2>1 DEF DeliveryInv, TransactionsSee
  <2>3. \A f \in open' : \A e \in Arrived : e \in sees'[f] \/ {f, e} \in overlapped'
    <3>1. \A f \in open : f # d /\ sees'[f] = sees[f]
      BY Zenon, <1>1 DEF DeliveryInv, DeliveryTypeOK
    <3>2. sees'[d] = Arrived
      BY Zenon, <1>1 DEF DeliveryInv, DeliveryTypeOK
    <3>. QED
      BY Zenon, <1>1, <3>1, <3>2 DEF DeliveryInv, TransactionsSee
  <2>. QED
    BY Zenon, <1>2, <2>2, <2>3 DEF TransactionsSee
<1>5. OnlyTheNewestIsAlive'
  BY <1>1 DEF DeliveryInv, OnlyTheNewestIsAlive, Alive, Supersedes
<1>. QED
  BY Zenon, <1>3, <1>4, <1>5 DEF DeliveryInv

\* A transaction that fails leaves everything as it was.
LEMMA RollbackKeeps ==
  ASSUME DeliveryInv, NEW d \in Delivery, RollbackDelivery(d)
  PROVE  DeliveryInv'
<1>1. /\ UNCHANGED <<status, attempts, again, expired, arrived, run, stopping, worker>>
      /\ d \in open /\ open' = open \ {d} /\ sees' = [sees EXCEPT ![d] = {}]
      /\ overlapped' = {p \in overlapped : d \notin p}
  BY Zenon DEF RollbackDelivery
<1>2. DeliveryTypeOK' /\ MarksFitStatus' /\ ArrivedFitsStatus' /\ TransactionsSee'
  <2>1. Arrived' = Arrived /\ \A f \in open' : f \in open /\ sees'[f] = sees[f]
    BY Zenon, <1>1 DEF DeliveryInv, DeliveryTypeOK, Arrived
  <2>2. DeliveryTypeOK'
    BY Zenon, <1>1 DEF DeliveryInv, DeliveryTypeOK, WorkersOK
  <2>3. MarksFitStatus' /\ ArrivedFitsStatus'
    BY Zenon, <1>1, <2>1 DEF DeliveryInv, MarksFitStatus, ArrivedFitsStatus
  <2>4. d \notin open' /\ d \notin Arrived
    BY Zenon, <1>1 DEF DeliveryInv, ArrivedFitsStatus
  <2>5. TransactionsSee'
    BY Zenon, <1>1, <2>1, <2>4 DEF DeliveryInv, TransactionsSee
  <2>. QED
    BY Zenon, <2>2, <2>3, <2>5
<1>3. OnlyTheNewestIsAlive'
  <2>1. \A i \in DOMAIN arrived : arrived[i] # d
    BY Zenon, <1>1 DEF DeliveryInv, ArrivedFitsStatus, Arrived
  <2>. QED
    BY <1>1, <2>1 DEF DeliveryInv, OnlyTheNewestIsAlive, Alive, Supersedes
<1>. QED
  BY Zenon, <1>2, <1>3 DEF DeliveryInv

\* The webhook's transaction ends: it brings to an end what it supersedes and
\* sees.
LEMMA CommitKeeps ==
  ASSUME DeliveryInv, NEW d \in Delivery, CommitDelivery(d)
  PROVE  DeliveryInv'
<1>0. PICK known \in SUBSET Arrived, later \in SUBSET Arrived : CommitDelivery(d)!(known)!(later)
  BY Zenon DEF CommitDelivery
<1>. DEFINE obsolete == {e \in later : Supersedes(d, e)}
            ignored == {e \in known : Supersedes(d, e) /\ status[e] \in {"PENDING", "PROCESSING", "FAILED"}}
            AliveThen(e) == \/ status'[e] \in {"PENDING", "PROCESSING"} \/ e \in again'
                            \/ run'[e] = "QUEUED"
                            \/ (run'[e] = "RUNNING" /\ e \notin stopping')
<1>1. /\ d \in open /\ open' = open \ {d} /\ sees' = [sees EXCEPT ![d] = {}]
      /\ sees[d] \subseteq known /\ known \subseteq later
      /\ arrived' = Append(arrived, d)
      /\ status' = [e \in Delivery |->
                      IF e \in ignored THEN "IGNORED"
                      ELSE IF e # d THEN status[e]
                      ELSE IF Kind[d] \in {"head", "push"} THEN "PENDING" ELSE "IGNORED"]
      /\ again' = again \ ignored /\ expired' = expired \ ignored
      /\ run' = [e \in Delivery |-> IF e \in obsolete /\ run[e] = "QUEUED" THEN "OVER"
                                    ELSE run[e]]
      /\ stopping' = stopping \cup {e \in obsolete : run[e] = "RUNNING"}
      /\ UNCHANGED <<attempts, worker, overlapped>>
  BY Zenon, <1>0
<1>2. /\ status[d] = "NONE" /\ d \notin Arrived /\ d \notin again /\ d \notin expired
      /\ d \notin obsolete
  BY Zenon, <1>1 DEF DeliveryInv, ArrivedFitsStatus, MarksFitStatus, Supersedes
<1>3. /\ DOMAIN arrived = 1 .. Len(arrived) /\ DOMAIN arrived' = 1 .. Len(arrived) + 1
      /\ Len(arrived) \in Nat /\ arrived' \in Seq(Delivery)
      /\ \A i \in DOMAIN arrived : arrived'[i] = arrived[i]
      /\ arrived'[Len(arrived) + 1] = d
  BY <1>1 DEF DeliveryInv, DeliveryTypeOK
<1>4. Arrived' = Arrived \cup {d} /\ Arrived \subseteq Delivery
  <2>1. Arrived' = {arrived'[i] : i \in DOMAIN arrived'}
    BY Zenon DEF Arrived
  <2>2. {arrived'[i] : i \in DOMAIN arrived'} = Arrived \cup {d}
    BY <1>3 DEF Arrived
  <2>3. Arrived \subseteq Delivery
    BY DEF Arrived, DeliveryInv, DeliveryTypeOK
  <2>. QED
    BY Zenon, <2>1, <2>2, <2>3
<1>5. DeliveryTypeOK'
  <2>1. status' \in [Delivery -> Statuses]
    BY Zenon, <1>1 DEF DeliveryInv, DeliveryTypeOK, Statuses
  <2>2. run' \in [Delivery -> {"NONE", "QUEUED", "RUNNING", "OVER"}]
    BY Zenon, <1>1 DEF DeliveryInv, DeliveryTypeOK
  <2>. QED
    BY Zenon, <1>1, <1>3, <2>1, <2>2 DEF DeliveryInv, DeliveryTypeOK, WorkersOK
<1>6. MarksFitStatus'
  BY Zenon, <1>1, <1>2 DEF DeliveryInv, DeliveryTypeOK, MarksFitStatus
<1>7. ArrivedFitsStatus'
  BY Zenon, <1>1, <1>2, <1>4 DEF DeliveryInv, DeliveryTypeOK, ArrivedFitsStatus
<1>8. TransactionsSee'
  BY Zenon, <1>1, <1>2, <1>4 DEF DeliveryInv, DeliveryTypeOK, TransactionsSee
<1>9. ASSUME NEW e \in known, Supersedes(d, e), e \in Arrived PROVE ~AliveThen(e)
  <2>1. e \in Delivery /\ e # d /\ status[e] \in Statuses \ {"NONE"}
    BY Zenon, <1>2, <1>4, <1>9 DEF DeliveryInv, DeliveryTypeOK, ArrivedFitsStatus
  <2>2. e \notin again'
    BY Zenon, <1>1, <1>9 DEF DeliveryInv, MarksFitStatus
  <2>3. status'[e] \in {"IGNORED", "PROCESSED"}
    BY Zenon, <1>1, <1>9, <2>1 DEF Statuses
  <2>4. run'[e] # "QUEUED" /\ (run'[e] = "RUNNING" => e \in stopping')
    BY Zenon, <1>1, <1>9, <2>1
  <2>. QED
    BY Zenon, <2>2, <2>3, <2>4
<1>10. ASSUME NEW e \in Arrived, ~Alive(e) PROVE ~AliveThen(e)
  <2>1. e \in Delivery /\ e # d
    BY Zenon, <1>2, <1>4
  <2>. QED
    BY Zenon, <1>1, <1>10, <2>1 DEF Alive
<1>11. OnlyTheNewestIsAlive'
  <2>. SUFFICES ASSUME NEW i \in DOMAIN arrived', NEW k \in DOMAIN arrived',
                       i < k, Supersedes(arrived'[k], arrived'[i]), AliveThen(arrived'[i])
                PROVE  {arrived'[i], arrived'[k]} \in overlapped
    <3>1. UNCHANGED overlapped
      BY Zenon, <1>1
    <3>2. \A e : Alive(e)' <=> AliveThen(e)
      BY Zenon DEF Alive
    <3>. QED
      BY Zenon, <3>1, <3>2 DEF OnlyTheNewestIsAlive, Supersedes
  <2>1. i \in DOMAIN arrived /\ arrived'[i] = arrived[i] /\ arrived[i] \in Arrived
    BY <1>3 DEF Arrived
  <2>2. CASE k \in DOMAIN arrived
    <3>1. arrived'[k] = arrived[k] /\ Alive(arrived[i])
      BY Zenon, <1>3, <1>10, <2>1, <2>2
    <3>. QED
      BY Zenon, <2>1, <2>2, <3>1 DEF DeliveryInv, OnlyTheNewestIsAlive
  <2>3. CASE k = Len(arrived) + 1
    <3>1. arrived'[k] = d /\ arrived[i] \notin known
      <4>1. arrived'[k] = d
        BY Zenon, <1>3, <2>3
      <4>. QED
        BY Zenon, <1>9, <2>1, <4>1
    <3>2. arrived[i] \notin sees[d]
      BY Zenon, <1>1, <3>1
    <3>3. {d, arrived[i]} \in overlapped
      BY Zenon, <1>1, <2>1, <3>2 DEF DeliveryInv, TransactionsSee
    <3>4. {d, arrived[i]} = {arrived[i], d}
      BY Zenon
    <3>. QED
      BY Zenon, <2>1, <3>1, <3>3, <3>4
  <2>. QED
    BY <1>3, <2>2, <2>3
<1>. QED
  BY Zenon, <1>5, <1>6, <1>7, <1>8, <1>11 DEF DeliveryInv

-----------------------------------------------------------------------------
\* The invariant holds throughout.
LEMMA DeliveryInvariance == DeliverySpec => []DeliveryInv
<1>1. DeliveryInv /\ [DeliveryNext]_deliveryVars => DeliveryInv'
  <2>. SUFFICES ASSUME DeliveryInv, [DeliveryNext]_deliveryVars PROVE DeliveryInv'
    BY Zenon
  <2>1. CASE UNCHANGED deliveryVars
    <3>1. DeliveryTypeOK' /\ MarksFitStatus'
      BY Zenon, <2>1 DEF deliveryVars, DeliveryInv, DeliveryTypeOK, WorkersOK, MarksFitStatus
    <3>2. \A d \in Delivery : ~Alive(d) => ~Alive(d)'
      BY Zenon, <2>1 DEF deliveryVars, Alive
    <3>. QED
      BY Zenon, <2>1, <3>1, <3>2, RowsChange DEF deliveryVars
  <2>2. ASSUME NEW d \in Delivery,
               Insert(d) \/ CommitDelivery(d) \/ RollbackDelivery(d)
        PROVE  DeliveryInv'
    BY Zenon, <2>2, InsertKeeps, CommitKeeps, RollbackKeeps
  <2>3. ASSUME NEW d \in Delivery,
               AbandonedClaimExpires(d) \/ HeldClaimExpires(d) \/ RunGoesOn(d)
        PROVE  DeliveryInv'
    BY Zenon, <2>3, WorldKeeps DEF AbandonedClaimExpires, HeldClaimExpires
  <2>4. ASSUME NEW w \in Worker, Process(w) PROVE DeliveryInv'
    BY Zenon, <2>4, DeliveryClaimKeeps, PrepareKeeps, CreateKeeps, CompleteKeeps, FailKeeps DEF Process
  <2>5. CASE RestartWorkers
    BY Zenon, <2>5, WorldKeeps
  <2>. QED
    BY Zenon, <2>1, <2>2, <2>3, <2>4, <2>5 DEF DeliveryNext
<1>. QED
  BY <1>1, DeliveryInvInit, PTL DEF DeliverySpec

\* However deliveries, workers, expiring claims, restarts and runs interleave,
\* what a later delivery of the pull request supersedes is not worked on any more.
THEOREM NewestIsAlive == DeliverySpec => []OnlyTheNewestIsAlive
<1>1. DeliveryInv => OnlyTheNewestIsAlive
  BY Zenon DEF DeliveryInv
<1>. QED
  BY <1>1, DeliveryInvariance, PTL

-----------------------------------------------------------------------------
(***************************************************************************)
(* A run that was not announced is not forgotten: the transactions that    *)
(* could end its delivery announce it, end the run too, or are excepted.   *)
(***************************************************************************)
Pursued ==
  /\ \A d \in Delivery : status[d] = "NONE" => run[d] = "NONE"
  /\ unheard \subseteq Delivery
  /\ UnheardIsPursued

\* The webhook's commit ends the runs of the deliveries it ignores.
LEMMA CommitPursues ==
  ASSUME DeliveryInv, Pursued, NEW d \in Delivery, CommitDelivery(d)
  PROVE  Pursued'
<1>1. PICK known \in SUBSET Arrived, later \in SUBSET Arrived :
        LET ignored == {e \in known : /\ Supersedes(d, e)
                                      /\ status[e] \in {"PENDING", "PROCESSING", "FAILED"}}
            obsolete == {e \in later : Supersedes(d, e)}
        IN  /\ d \in open /\ known \subseteq later
            /\ status' = [e \in Delivery |->
                            IF e \in ignored THEN "IGNORED"
                            ELSE IF e # d THEN status[e]
                            ELSE IF Kind[d] \in {"head", "push"} THEN "PENDING" ELSE "IGNORED"]
            /\ again' = again \ ignored
            /\ run' = [e \in Delivery |-> IF e \in obsolete /\ run[e] = "QUEUED" THEN "OVER"
                                          ELSE run[e]]
            /\ UNCHANGED <<unheard, unanswered>>
  BY Zenon DEF CommitDelivery
<1>. DEFINE ignored == {e \in known : /\ Supersedes(d, e)
                                      /\ status[e] \in {"PENDING", "PROCESSING", "FAILED"}}
<1>2. \A e \in ignored : e \in Delivery => run'[e] # "QUEUED"
  BY Zenon, <1>1
<1>3. \A e \in Delivery : run'[e] \in {run[e], "OVER"} /\ (run[e] = "NONE" => run'[e] = "NONE")
  BY Zenon, <1>1
<1>4. \A e \in Delivery \ {d} : e \notin ignored =>
        status'[e] = status[e] /\ (e \in again' <=> e \in again)
  BY Zenon, <1>1
<1>5. \A e \in Delivery : e \in ignored => status'[e] = "IGNORED"
  BY Zenon, <1>1
<1>6. run[d] = "NONE" /\ status'[d] # "NONE"
  BY Zenon, <1>1 DEF DeliveryInv, ArrivedFitsStatus, Pursued
<1>7. UNCHANGED <<unheard, unanswered>>
  BY Zenon, <1>1
<1>. HIDE DEF ignored
<1>8. \A e \in Delivery : status'[e] = "NONE" => run'[e] = "NONE"
  BY Zenon, <1>3, <1>4, <1>5, <1>6 DEF Pursued
<1>9. UnheardIsPursued'
  <2>. SUFFICES ASSUME NEW e \in unheard, run'[e] = "QUEUED"
                PROVE  \/ status'[e] = "PROCESSING" \/ e \in again'
                       \/ GivenUp(e)' \/ e \in unanswered
    BY Zenon, <1>7 DEF UnheardIsPursued
  <2>1. e \in Delivery /\ e \notin ignored /\ e # d /\ run[e] = "QUEUED"
    BY Zenon, <1>2, <1>3, <1>6 DEF Pursued
  <2>2. status[e] = "PROCESSING" \/ e \in again \/ GivenUp(e) \/ e \in unanswered
    BY Zenon, <2>1 DEF Pursued, UnheardIsPursued
  <2>. QED
    BY Zenon, <1>4, <2>1, <2>2 DEF GivenUp
<1>. QED
  BY Zenon, <1>7, <1>8, <1>9 DEF Pursued

\* What a worker does with the delivery that it has claimed.
LEMMA WorkerPursues ==
  ASSUME DeliveryInv, Pursued, NEW w \in Worker, Process(w)
  PROVE  Pursued'
<1>1. ASSUME NEW d \in Delivery, ClaimSCMDelivery(w, d)  PROVE Pursued'
  <2>1. status[d] # "NONE"
    BY Zenon, <1>1 DEF ClaimSCMDelivery, Claimable, DeliveryInv, MarksFitStatus
  <2>2. /\ status'[d] = "PROCESSING"
        /\ \A e \in Delivery \ {d} : status'[e] = status[e] /\ (e \in again' <=> e \in again)
        /\ UNCHANGED <<run, unheard, unanswered>>
    BY Zenon, <1>1 DEF ClaimSCMDelivery, DeliveryInv, DeliveryTypeOK
  <2>. QED
    BY Zenon, <2>1, <2>2 DEF Pursued, UnheardIsPursued, GivenUp
<1>2. CASE FindTrigger(w) \/ PrepareFails(w)
  BY Zenon, <1>2 DEF FindTrigger, PrepareFails, Pursued, UnheardIsPursued, GivenUp
<1>3. ASSUME worker[w].pc # "idle"  PROVE worker[w].delivery \in Delivery
  BY Zenon, <1>3 DEF DeliveryInv, DeliveryTypeOK, WorkersOK
<1>4. CASE CreateSCMRun(w)
  <2>1. PICK d \in Delivery : d = worker[w].delivery
    BY Zenon, <1>3, <1>4 DEF CreateSCMRun
  <2>2. /\ UNCHANGED <<status, again, unanswered>>
        /\ \/ UNCHANGED <<run, unheard>>
           \/ /\ status[d] = "PROCESSING" /\ run' = [run EXCEPT ![d] = "QUEUED"]
              /\ unheard' \subseteq unheard \cup {d}
    BY Zenon, <1>4, <2>1 DEF CreateSCMRun, Created, Owns
  <2>3. CASE UNCHANGED <<run, unheard>>
    BY Zenon, <2>2, <2>3 DEF Pursued, UnheardIsPursued, GivenUp
  <2>4. CASE /\ status[d] = "PROCESSING" /\ run' = [run EXCEPT ![d] = "QUEUED"]
             /\ unheard' \subseteq unheard \cup {d}
    <3>1. \A e \in Delivery \ {d} : run'[e] = run[e]
      BY Zenon, <2>4 DEF DeliveryInv, DeliveryTypeOK
    <3>. QED
      BY Zenon, <2>2, <2>4, <3>1 DEF Pursued, UnheardIsPursued, GivenUp
  <2>. QED
    BY Zenon, <2>2, <2>3, <2>4
<1>5. CASE CompleteSCMDelivery(w)
  <2>1. PICK d \in Delivery : d = worker[w].delivery
    BY Zenon, <1>3, <1>5 DEF CompleteSCMDelivery
  <2>2. Completed(w) = status \/ (Owns(w) /\ Completed(w) = [status EXCEPT ![d] = "PROCESSED"])
    BY Zenon, <2>1 DEF Completed, DeliveryInv, DeliveryTypeOK
  <2>3. /\ UNCHANGED <<run, again>>
        /\ \/ status' = status /\ unheard' \in {unheard, {}} /\ UNCHANGED unanswered
           \/ status' = [status EXCEPT ![d] = "PROCESSED"] /\ unheard' = {} /\ Owns(w)
           \/ /\ status' = [status EXCEPT ![d] = "PROCESSED"] /\ unanswered' = unanswered \cup {d}
              /\ unheard' \in {unheard, {}} /\ Owns(w)
    <3>1. UNCHANGED <<run, again>>
      BY Zenon, <1>5 DEF CompleteSCMDelivery
    <3>2. CASE status' = Completed(w) /\ NotifyAfter(w) /\ UNCHANGED unanswered
      <4>1. CASE Owns(w)
        <5>1. unheard' = {}
          BY Zenon, <3>2, <4>1 DEF NotifyAfter, NotifyCompleted, Notify
        <5>. QED
          BY Zenon, <2>2, <3>1, <3>2, <4>1, <5>1
      <4>2. CASE ~Owns(w)
        <5>1. unheard' \in {unheard, {}}
          BY Zenon, <3>2, <4>2 DEF NotifyAfter, NotifyCompleted, Notify
        <5>. QED
          BY Zenon, <2>2, <3>1, <3>2, <4>2, <5>1
      <4>. QED
        BY Zenon, <4>1, <4>2
    <3>3. CASE /\ status' \in {status, Completed(w)}
               /\ unanswered' = IF status' = status THEN unanswered
                                ELSE unanswered \cup {worker[w].delivery}
               /\ IF worker[w].pc = "replay" THEN Notify ELSE UNCHANGED unheard
      <4>1. unheard' \in {unheard, {}}
        BY Zenon, <3>3 DEF Notify
      <4>. QED
        BY Zenon, <2>1, <2>2, <3>1, <3>3, <4>1
    <3>. QED
      BY Zenon, <1>5, <3>2, <3>3 DEF CompleteSCMDelivery
  <2>4. Owns(w) => status[d] = "PROCESSING"
    BY Zenon, <2>1 DEF Owns
  <2>5. CASE status' = status
    BY Zenon, <2>3, <2>5 DEF Pursued, UnheardIsPursued, GivenUp
  <2>6. CASE Owns(w) /\ status' = [status EXCEPT ![d] = "PROCESSED"]
    <3>1. status'[d] = "PROCESSED" /\ \A e \in Delivery \ {d} : status'[e] = status[e]
      BY Zenon, <2>6 DEF DeliveryInv, DeliveryTypeOK
    <3>2. \A e \in Delivery : status'[e] = "NONE" => run'[e] = "NONE"
      BY Zenon, <2>3, <3>1 DEF Pursued
    <3>3. unheard' \in {unheard, {}} /\ (unheard' = {} \/ unanswered' = unanswered \cup {d})
      BY Zenon, <2>3, <2>4, <2>6, <3>1
    <3>4. CASE unheard' = {}
      BY Zenon, <3>2, <3>4 DEF Pursued, UnheardIsPursued
    <3>5. CASE unheard' = unheard /\ unanswered' = unanswered \cup {d}
      BY Zenon, <2>3, <3>1, <3>2, <3>5 DEF Pursued, UnheardIsPursued, GivenUp
    <3>. QED
      BY Zenon, <3>3, <3>4, <3>5
  <2>. QED
    BY Zenon, <2>3, <2>5, <2>6
<1>6. CASE FailSCMDelivery(w)
  <2>1. PICK d \in Delivery : d = worker[w].delivery
    BY Zenon, <1>3, <1>6 DEF FailSCMDelivery
  <2>2. /\ UNCHANGED <<run, unheard, unanswered>>
        /\ \/ UNCHANGED <<status, again>>
           \/ /\ status[d] = "PROCESSING" /\ status' = [status EXCEPT ![d] = "FAILED"]
              /\ again' \in {again, again \cup {d}}
    BY Zenon, <1>6, <2>1 DEF FailSCMDelivery, Owns
  <2>3. CASE UNCHANGED <<status, again>>
    BY Zenon, <2>2, <2>3 DEF Pursued, UnheardIsPursued, GivenUp
  <2>4. CASE /\ status[d] = "PROCESSING" /\ status' = [status EXCEPT ![d] = "FAILED"]
             /\ again' \in {again, again \cup {d}}
    <3>1. /\ status'[d] = "FAILED"
          /\ \A e \in Delivery \ {d} : status'[e] = status[e] /\ (e \in again' <=> e \in again)
      BY Zenon, <2>4 DEF DeliveryInv, DeliveryTypeOK
    <3>. QED
      BY Zenon, <2>2, <3>1 DEF Pursued, UnheardIsPursued, GivenUp
  <2>. QED
    BY Zenon, <2>2, <2>3, <2>4
<1>. QED
  BY Zenon, <1>1, <1>2, <1>4, <1>5, <1>6 DEF Process

\* A run that was created and not announced is not forgotten: somebody is yet to
\* come back to its delivery, but for the two exceptions.
THEOREM UnheardRunsArePursued == DeliverySpec => []UnheardIsPursued
<1>1. DeliveryInit => Pursued
  BY Zenon DEF DeliveryInit, Pursued, UnheardIsPursued
<1>2. DeliveryInv /\ Pursued /\ [DeliveryNext]_deliveryVars => Pursued'
  <2>. SUFFICES ASSUME DeliveryInv, Pursued, [DeliveryNext]_deliveryVars PROVE Pursued'
    BY Zenon
  <2>1. CASE UNCHANGED <<status, again, run, unheard, unanswered>>
    BY Zenon, <2>1 DEF Pursued, UnheardIsPursued, GivenUp
  <2>2. ASSUME NEW d \in Delivery, \/ Insert(d) \/ RollbackDelivery(d)
                                   \/ AbandonedClaimExpires(d) \/ HeldClaimExpires(d)
        PROVE  Pursued'
    BY Zenon, <2>1, <2>2 DEF Insert, RollbackDelivery, AbandonedClaimExpires, HeldClaimExpires, Expires
  <2>3. ASSUME NEW d \in Delivery, RunGoesOn(d)  PROVE Pursued'
    <3>1. /\ UNCHANGED <<status, again, unheard, unanswered>>
          /\ run[d] # "NONE" /\ run'[d] # "QUEUED" /\ \A e \in Delivery \ {d} : run'[e] = run[e]
      BY Zenon, <2>3 DEF RunGoesOn, DeliveryInv, DeliveryTypeOK
    <3>. QED
      BY Zenon, <3>1 DEF Pursued, UnheardIsPursued, GivenUp
  <2>4. CASE RestartWorkers
    BY Zenon, <2>4 DEF RestartWorkers, Notify, Pursued, UnheardIsPursued
  <2>5. CASE UNCHANGED deliveryVars
    BY Zenon, <2>1, <2>5 DEF deliveryVars
  <2>. QED
    BY Zenon, <2>2, <2>3, <2>4, <2>5, CommitPursues, WorkerPursues DEF DeliveryNext
<1>3. Pursued => UnheardIsPursued
  BY Zenon DEF Pursued
<1>. QED
  BY <1>1, <1>2, <1>3, DeliveryInvInit, DeliveryInvariance, PTL DEF DeliverySpec

-----------------------------------------------------------------------------
(***************************************************************************)
(* A delivery is not tried without end.  An attempt beyond MaxAttempts     *)
(* follows on a claim that expired, and a claim expires because of a       *)
(* failure: of the renewals, or of the worker that has left without an     *)
(* answer.  Such a claim is lost, and its failure is not yet used up.      *)
(***************************************************************************)
Lost(d) == d \in expired \/ (status[d] = "PROCESSING" /\ ~Held(d))

Retried ==
  /\ failures \in Nat
  /\ \A w \in Worker : worker[w].pc = "idle" => worker[w].delivery = NoDelivery
  /\ \A d \in Delivery :
       /\ attempts[d] <= MaxAttempts + failures
       /\ Lost(d) => attempts[d] < MaxAttempts + failures
       /\ d \in again => attempts[d] < MaxAttempts
       /\ status[d] \in {"NONE", "PENDING"} => attempts[d] = 0

\* An idle worker has no delivery.
LEMMA IdleHasNone == Idle.delivery = NoDelivery
BY Zenon DEF Idle

\* A step that takes no claim keeps the count, if it has a failure of its own, or
\* loses no claim.
LEMMA CountKept ==
  ASSUME DeliveryInv, Retried, UNCHANGED attempts,
         \A w \in Worker : worker'[w].pc = "idle" => worker'[w].delivery = NoDelivery,
         \A d \in Delivery : /\ d \in again' => d \in again \/ attempts[d] < MaxAttempts
                             /\ status'[d] \in {"NONE", "PENDING"} => status[d] \in {"NONE", "PENDING"},
         \/ Fault
         \/ NoFault /\ \A d \in Delivery : Lost(d)' => Lost(d)
  PROVE  Retried'
<1>1. MaxAttempts \in Nat /\ failures \in Nat
  BY Zenon, DeliveryAssumption DEF Retried
<1>2. failures' \in Nat /\ failures <= failures'
  BY <1>1 DEF Fault, NoFault
<1>3. ASSUME NEW d \in Delivery
      PROVE  /\ attempts[d] <= MaxAttempts + failures'
             /\ Lost(d)' => attempts[d] < MaxAttempts + failures'
  <2>1. attempts[d] \in Nat /\ attempts[d] <= MaxAttempts + failures
    BY Zenon DEF DeliveryInv, DeliveryTypeOK, Retried
  <2>2. CASE failures' = failures + 1
    BY <1>1, <2>1, <2>2
  <2>3. CASE failures' = failures /\ (Lost(d)' => Lost(d))
    BY Zenon, <2>1, <2>3 DEF Retried
  <2>. QED
    BY Zenon, <2>2, <2>3 DEF Fault, NoFault
<1>. QED
  BY Zenon, <1>2, <1>3 DEF Retried

\* A worker takes a claim: the delivery is new, to be tried again, or its claim is
\* lost.
LEMMA ClaimCounts ==
  ASSUME DeliveryInv, Retried, NEW w \in Worker, NEW d \in Delivery, ClaimSCMDelivery(w, d)
  PROVE  Retried'
<1>1. MaxAttempts \in Nat /\ MaxAttempts > 0 /\ failures \in Nat /\ attempts[d] \in Nat
  BY DeliveryAssumption DEF Retried, DeliveryInv, DeliveryTypeOK
<1>2. attempts[d] + 1 <= MaxAttempts + failures
  <2>1. attempts[d] = 0 \/ attempts[d] < MaxAttempts \/ attempts[d] < MaxAttempts + failures
    BY Zenon DEF Retried, ClaimSCMDelivery, Claimable, Lost
  <2>. QED
    BY <1>1, <2>1
<1>3. /\ worker[w].pc = "idle" /\ worker[w].delivery = NoDelivery
      /\ UNCHANGED failures
      /\ attempts'[d] = attempts[d] + 1
      /\ \A e \in Delivery \ {d} : attempts'[e] = attempts[e] /\ status'[e] = status[e]
      /\ status'[d] = "PROCESSING" /\ again' = again \ {d} /\ expired' = expired \ {d}
  BY Zenon DEF Retried, ClaimSCMDelivery, DeliveryInv, DeliveryTypeOK
<1>4. /\ worker'[w] = [pc |-> "claimed", delivery |-> d, attempt |-> attempts[d] + 1]
      /\ \A v \in Worker \ {w} : worker'[v] = worker[v]
  BY Zenon DEF ClaimSCMDelivery, DeliveryInv, DeliveryTypeOK, WorkersOK
<1>5. worker'[w].pc = "claimed" /\ worker'[w].delivery = d /\ worker'[w].attempt = attempts'[d]
  <2>1. PICK taken : taken = [pc |-> "claimed", delivery |-> d, attempt |-> attempts[d] + 1]
    BY Zenon
  <2>2. taken.pc = "claimed" /\ taken.delivery = d /\ taken.attempt = attempts[d] + 1
    BY Zenon, <2>1
  <2>. QED
    BY Zenon, <1>3, <1>4, <2>1, <2>2
<1>6. ~Lost(d)'
  BY Zenon, <1>3, <1>5 DEF Lost, Held
<1>7. ASSUME NEW e \in Delivery \ {d}, Lost(e)'  PROVE Lost(e)
  <2>1. ASSUME NEW v \in Worker, worker[v].delivery = e, worker[v].attempt = attempts[e]
        PROVE  worker'[v].delivery = e /\ worker'[v].attempt = attempts'[e]
    <3>1. v # w
      BY Zenon, <1>3, <2>1, DeliveryAssumption
    <3>. QED
      BY Zenon, <1>3, <1>4, <2>1, <3>1
  <2>2. Held(e) => Held(e)'
    BY Zenon, <2>1 DEF Held
  <2>. QED
    BY Zenon, <1>3, <1>7, <2>2 DEF Lost
<1>8. \A v \in Worker : worker'[v].pc = "idle" => worker'[v].delivery = NoDelivery
  BY Zenon, <1>4, <1>5 DEF Retried
<1>9. ASSUME NEW e \in Delivery
      PROVE  /\ attempts'[e] <= MaxAttempts + failures'
             /\ Lost(e)' => attempts'[e] < MaxAttempts + failures'
             /\ e \in again' => attempts'[e] < MaxAttempts
             /\ status'[e] \in {"NONE", "PENDING"} => attempts'[e] = 0
  <2>1. CASE e = d
    BY Zenon, <1>2, <1>3, <1>6, <2>1
  <2>2. CASE e # d
    BY Zenon, <1>3, <1>7, <2>2 DEF Retried
  <2>. QED
    BY Zenon, <2>1, <2>2
<1>. QED
  BY Zenon, <1>3, <1>8, <1>9 DEF Retried

\* A worker that goes on holds what it held, and one that is done has lost nothing
\* by it but a claim that it did not own any more.
LEMMA HeldAt ==
  ASSUME DeliveryInv, NEW w \in Worker, worker[w].pc # "idle", UNCHANGED attempts
  PROVE  /\ \A pc \in PCs \ {"idle"} : WorkerAt(w, pc) =>
              /\ \A d \in Delivery : Held(d)' <=> Held(d)
              /\ \A v \in Worker : worker'[v].pc = "idle" => v # w /\ worker'[v] = worker[v]
         /\ Done(w) =>
              /\ \A d \in Delivery : Held(d) => \/ Held(d)'
                                                \/ /\ d = worker[w].delivery
                                                   /\ attempts[d] = worker[w].attempt
              /\ \A v \in Worker : worker'[v].pc = "idle" => worker'[v] \in {Idle, worker[v]}
<1>1. ASSUME NEW pc \in PCs \ {"idle"}, WorkerAt(w, pc)
      PROVE  /\ \A d \in Delivery : Held(d)' <=> Held(d)
             /\ \A v \in Worker : worker'[v].pc = "idle" => v # w /\ worker'[v] = worker[v]
  <2>1. worker' = [worker EXCEPT ![w] = [worker[w] EXCEPT !.pc = pc]]
    BY Zenon, <1>1 DEF WorkerAt
  <2>2. /\ [worker[w] EXCEPT !.pc = pc].delivery = worker[w].delivery
        /\ [worker[w] EXCEPT !.pc = pc].attempt = worker[w].attempt
        /\ [worker[w] EXCEPT !.pc = pc].pc = pc
    BY Zenon DEF DeliveryInv, DeliveryTypeOK, WorkersOK
  <2>3. /\ worker'[w].delivery = worker[w].delivery /\ worker'[w].attempt = worker[w].attempt
        /\ worker'[w].pc = pc
        /\ \A v \in Worker \ {w} : worker'[v] = worker[v]
    BY Zenon, <2>1, <2>2 DEF DeliveryInv, DeliveryTypeOK, WorkersOK
  <2>. QED
    BY Zenon, <2>3 DEF Held
<1>2. ASSUME Done(w)
      PROVE  /\ \A d \in Delivery : Held(d) => \/ Held(d)'
                                               \/ /\ d = worker[w].delivery
                                                  /\ attempts[d] = worker[w].attempt
             /\ \A v \in Worker : worker'[v].pc = "idle" => worker'[v] \in {Idle, worker[v]}
  <2>1. worker'[w] = Idle /\ \A v \in Worker \ {w} : worker'[v] = worker[v]
    BY Zenon, <1>2 DEF Done, DeliveryInv, DeliveryTypeOK, WorkersOK
  <2>. QED
    BY Zenon, <2>1 DEF Held
<1>. QED
  BY Zenon, <1>1, <1>2

\* A worker counts an attempt with its claim, and only there.
LEMMA WorkerCounts ==
  ASSUME DeliveryInv, Retried, NEW w \in Worker, Process(w)
  PROVE  Retried'
<1>1. CASE FindTrigger(w) \/ PrepareFails(w) \/ CreateSCMRun(w)
  <2>1. /\ worker[w].pc # "idle" /\ UNCHANGED <<status, attempts, again, expired>>
        /\ Fault \/ NoFault
        /\ \E pc \in PCs \ {"idle"} : WorkerAt(w, pc)
    BY Zenon, <1>1 DEF FindTrigger, PrepareFails, CreateSCMRun, PCs
  <2>2. /\ \A d \in Delivery : Held(d)' <=> Held(d)
        /\ \A v \in Worker : worker'[v].pc = "idle" => worker'[v] = worker[v]
    BY Zenon, <2>1, HeldAt
  <2>3. \A d \in Delivery : Lost(d)' => Lost(d)
    BY Zenon, <2>1, <2>2 DEF Lost
  <2>4. \A v \in Worker : worker'[v].pc = "idle" => worker'[v].delivery = NoDelivery
    BY Zenon, <2>2 DEF Retried
  <2>. QED
    BY Zenon, <2>1, <2>3, <2>4, CountKept
<1>2. CASE CompleteSCMDelivery(w) \/ FailSCMDelivery(w)
  <2>1. worker[w].pc # "idle" /\ Done(w) /\ UNCHANGED <<attempts, expired>>
    BY Zenon, <1>2 DEF CompleteSCMDelivery, FailSCMDelivery
  <2>2. PICK d \in Delivery : d = worker[w].delivery
    BY Zenon, <2>1 DEF DeliveryInv, DeliveryTypeOK, WorkersOK
  <2>3. /\ \A e \in Delivery : Held(e) => Held(e)' \/ (e = d /\ attempts[d] = worker[w].attempt)
        /\ \A v \in Worker : worker'[v].pc = "idle" => worker'[v] \in {Idle, worker[v]}
    BY Zenon, <2>1, <2>2, HeldAt
  <2>4. \A v \in Worker : worker'[v].pc = "idle" => worker'[v].delivery = NoDelivery
    BY Zenon, <2>3, IdleHasNone DEF Retried
  <2>5. /\ Fault \/ NoFault
        /\ \/ status' = status /\ again' = again
           \/ /\ Owns(w) /\ \E s \in {"PROCESSED", "FAILED"} : status' = [status EXCEPT ![d] = s]
              /\ \/ again' = again
                 \/ again' = again \cup {d} /\ worker[w].attempt < MaxAttempts
        /\ NoFault => ~Owns(w) \/ \E s \in {"PROCESSED", "FAILED"} : status' = [status EXCEPT ![d] = s]
    <3>1. Completed(w) = IF Owns(w) THEN [status EXCEPT ![d] = "PROCESSED"] ELSE status
      BY Zenon, <2>2 DEF Completed, DeliveryInv, DeliveryTypeOK
    <3>2. CASE CompleteSCMDelivery(w)
      <4>1. /\ again' = again
            /\ (NoFault /\ status' = Completed(w)) \/ (Fault /\ status' \in {status, Completed(w)})
        BY Zenon, <3>2 DEF CompleteSCMDelivery
      <4>2. Fault => ~NoFault
        BY DEF Fault, NoFault, Retried
      <4>. QED
        BY Zenon, <3>1, <4>1, <4>2
    <3>3. CASE FailSCMDelivery(w)
      <4>1. \/ /\ Owns(w) /\ NoFault /\ status' = [status EXCEPT ![d] = "FAILED"]
               /\ again' = again \/ (again' = again \cup {d} /\ worker[w].attempt < MaxAttempts)
            \/ ~Owns(w) /\ NoFault /\ UNCHANGED <<status, again>>
            \/ Fault /\ UNCHANGED <<status, again>>
        BY Zenon, <2>2, <3>3 DEF FailSCMDelivery
      <4>2. Fault => ~NoFault
        BY DEF Fault, NoFault, Retried
      <4>. QED
        BY Zenon, <4>1, <4>2
    <3>. QED
      BY Zenon, <1>2, <3>2, <3>3
  <2>6. /\ \A e \in Delivery \ {d} : status'[e] = status[e]
        /\ status'[d] \in {status[d], "PROCESSED", "FAILED"}
    BY Zenon, <2>5 DEF DeliveryInv, DeliveryTypeOK
  <2>7. Owns(w) => attempts[d] = worker[w].attempt
    BY Zenon, <2>2 DEF Owns
  <2>8. \A e \in Delivery : /\ e \in again' => e \in again \/ attempts[e] < MaxAttempts
                            /\ status'[e] \in {"NONE", "PENDING"} => status[e] \in {"NONE", "PENDING"}
    BY Zenon, <2>5, <2>6, <2>7
  <2>9. ASSUME NoFault, NEW e \in Delivery, Lost(e)'  PROVE Lost(e)
    <3>1. CASE e # d
      BY Zenon, <2>1, <2>3, <2>6, <2>9, <3>1 DEF Lost
    <3>2. CASE e = d /\ Owns(w)
      <4>1. status'[d] # "PROCESSING"
        BY Zenon, <2>5, <2>9, <3>2 DEF DeliveryInv, DeliveryTypeOK
      <4>2. d \notin expired
        BY Zenon, <2>2, <3>2 DEF Owns
      <4>. QED
        BY Zenon, <2>1, <2>9, <3>2, <4>1, <4>2 DEF Lost
    <3>3. CASE e = d /\ ~Owns(w)
      <4>1. status' = status
        BY Zenon, <2>5, <3>3
      <4>2. status[d] # "PROCESSING" \/ attempts[d] # worker[w].attempt \/ d \in expired
        BY Zenon, <2>2, <3>3 DEF Owns
      <4>. QED
        BY Zenon, <2>1, <2>3, <2>9, <3>3, <4>1, <4>2 DEF Lost
    <3>. QED
      BY Zenon, <3>1, <3>2, <3>3
  <2>. QED
    BY Zenon, <2>1, <2>4, <2>5, <2>8, <2>9, CountKept
<1>. QED
  BY Zenon, <1>1, <1>2, ClaimCounts DEF Process

\* The webhook, the clock and restarts.
LEMMA WorldCounts ==
  ASSUME DeliveryInv, Retried,
         \/ \E d \in Delivery : \/ Insert(d) \/ CommitDelivery(d) \/ RollbackDelivery(d)
                                \/ AbandonedClaimExpires(d) \/ HeldClaimExpires(d) \/ RunGoesOn(d)
         \/ RestartWorkers
  PROVE  Retried'
<1>1. ASSUME UNCHANGED worker PROVE
        \A w \in Worker : worker'[w].pc = "idle" => worker'[w].delivery = NoDelivery
  BY Zenon, <1>1 DEF Retried
<1>2. ASSUME UNCHANGED <<worker, attempts>>, NEW d \in Delivery  PROVE Held(d)' <=> Held(d)
  BY Zenon, <1>2 DEF Held
<1>3. ASSUME NEW d \in Delivery, Insert(d) \/ RunGoesOn(d)  PROVE Retried'
  <2>1. UNCHANGED <<status, attempts, again, expired, worker, failures>>
    BY Zenon, <1>3 DEF Insert, RunGoesOn
  <2>. QED
    BY Zenon, <1>1, <1>2, <2>1, CountKept DEF Lost, NoFault
<1>4. ASSUME NEW d \in Delivery, RollbackDelivery(d)  PROVE Retried'
  <2>1. UNCHANGED <<status, attempts, again, worker>> /\ Fault
    BY Zenon, <1>4 DEF RollbackDelivery
  <2>. QED
    BY Zenon, <1>1, <2>1, CountKept
<1>5. ASSUME NEW d \in Delivery, HeldClaimExpires(d)  PROVE Retried'
  <2>1. UNCHANGED <<status, attempts, again, worker>> /\ Fault
    BY Zenon, <1>5 DEF HeldClaimExpires, Expires
  <2>. QED
    BY Zenon, <1>1, <2>1, CountKept
<1>6. ASSUME NEW d \in Delivery, AbandonedClaimExpires(d)  PROVE Retried'
  <2>1. /\ UNCHANGED <<status, attempts, again, worker>> /\ NoFault
        /\ ~Held(d) /\ status[d] = "PROCESSING" /\ expired' = expired \cup {d}
    BY Zenon, <1>6 DEF AbandonedClaimExpires, Expires
  <2>2. \A e \in Delivery : Lost(e)' => Lost(e)
    BY Zenon, <1>2, <2>1 DEF Lost
  <2>. QED
    BY Zenon, <1>1, <2>1, <2>2, CountKept
<1>7. ASSUME NEW d \in Delivery, CommitDelivery(d)  PROVE Retried'
  <2>1. /\ UNCHANGED <<attempts, worker>> /\ NoFault /\ again' \subseteq again
        /\ expired' \subseteq expired /\ d \in open
        /\ \A e \in Delivery : \/ status'[e] = "IGNORED"
                               \/ status'[e] = status[e]
                               \/ e = d /\ status'[e] = "PENDING"
    BY Zenon, <1>7 DEF CommitDelivery, NoFault
  <2>2. status[d] = "NONE"
    BY Zenon, <2>1 DEF DeliveryInv, ArrivedFitsStatus
  <2>3. \A e \in Delivery : /\ Lost(e)' => Lost(e)
                            /\ status'[e] \in {"NONE", "PENDING"} => status[e] \in {"NONE", "PENDING"}
    BY Zenon, <1>2, <2>1, <2>2 DEF Lost
  <2>. QED
    BY Zenon, <1>1, <2>1, <2>3, CountKept
<1>8. CASE RestartWorkers
  <2>1. /\ UNCHANGED <<status, attempts, again>> /\ Fault
        /\ \A w \in Worker : worker'[w] = Idle
    BY Zenon, <1>8 DEF RestartWorkers
  <2>2. \A w \in Worker : worker'[w].delivery = NoDelivery
    BY Zenon, <2>1, IdleHasNone
  <2>. QED
    BY Zenon, <2>1, <2>2, CountKept
<1>. QED
  BY Zenon, <1>3, <1>4, <1>5, <1>6, <1>7, <1>8

\* However claims are lost, each attempt beyond MaxAttempts has a failure of its
\* own.
THEOREM AttemptsAreBounded == DeliverySpec => []RetriesAreBounded
<1>1. DeliveryInit => Retried
  <2>. SUFFICES ASSUME DeliveryInit PROVE Retried
    BY Zenon
  <2>1. /\ failures = 0 /\ again = {} /\ expired = {} /\ \A d \in Delivery : attempts[d] = 0
        /\ \A d \in Delivery : status[d] = "NONE"
        /\ \A w \in Worker : worker[w] = Idle
    BY Zenon DEF DeliveryInit
  <2>2. \A d \in Delivery : ~Lost(d)
    BY Zenon, <2>1 DEF Lost
  <2>3. \A w \in Worker : worker[w].delivery = NoDelivery
    BY Zenon, <2>1, IdleHasNone
  <2>4. failures \in Nat /\ \A d \in Delivery : attempts[d] <= MaxAttempts + failures
    BY <2>1, DeliveryAssumption
  <2>. QED
    BY Zenon, <2>1, <2>2, <2>3, <2>4 DEF Retried
<1>2. DeliveryInv /\ Retried /\ [DeliveryNext]_deliveryVars => Retried'
  <2>. SUFFICES ASSUME DeliveryInv, Retried, [DeliveryNext]_deliveryVars PROVE Retried'
    BY Zenon
  <2>1. CASE UNCHANGED deliveryVars
    BY Zenon, <2>1 DEF deliveryVars, Retried, Lost, Held
  <2>. QED
    BY Zenon, <2>1, WorkerCounts, WorldCounts DEF DeliveryNext
<1>3. Retried => RetriesAreBounded
  BY Zenon DEF Retried, RetriesAreBounded
<1>. QED
  BY <1>1, <1>2, <1>3, DeliveryInvInit, DeliveryInvariance, PTL DEF DeliverySpec

-----------------------------------------------------------------------------
(***************************************************************************)
(* Compile orders every pipeline it accepts, and refuses exactly those     *)
(* with jobs that wait for each other, whatever the jobs are.              *)
(*                                                                         *)
(* The invariant says what the counters mean: indegree[j] is the number of *)
(* j's dependencies that are not in the order yet, and the ready list is   *)
(* exact.  Then no job of a knot ever becomes ready, and when the list is  *)
(* empty what is left is a knot itself.                                    *)
(***************************************************************************)

Compiling == stage \in {"compile", "ordered", "refused"}

CountsAreExact ==
  /\ ValidNeeds
  /\ indegree = [j \in Name |-> Cardinality(needs[j] \ ordered)]
  /\ ready = {j \in Name \ ordered : needs[j] \subseteq ordered}

PrefixIsTopological ==
  /\ \A i, k \in DOMAIN order : order[i] = order[k] => i = k
  /\ \A i \in DOMAIN order : needs[order[i]] \subseteq {order[k] : k \in 1 .. i - 1}

CompilerInv ==
  /\ DOMAIN needs = Name
  /\ order \in Seq(Name)
  /\ Cardinality(ordered) = Len(order)
  /\ stage \in {"validate", "invalid", "compile", "ordered", "refused"}
  /\ stage = "validate" => order = <<>>
  /\ Compiling => CountsAreExact
  /\ PrefixIsTopological
  /\ \A S \in Knots : S \cap ordered = {}
  /\ stage = "ordered" => ready = {} /\ Len(order) = Cardinality(Name)
  /\ stage = "refused" => ready = {} /\ Len(order) # Cardinality(Name) /\ cyclic = cyclicJobs

-----------------------------------------------------------------------------
\* The jobs of the order are finitely many jobs of the pipeline.
LEMMA OrderedIsFinite ==
  ASSUME order \in Seq(Name)
  PROVE  ordered \subseteq Name /\ IsFiniteSet(ordered)
<1>1. ordered \subseteq Name
  BY DEF ordered
<1>. QED
  BY Zenon, <1>1, PipelineAssumption, FS_Subset

\* Appending a job adds it to the set of the ordered jobs.
LEMMA OrderedAfterAppend ==
  ASSUME order \in Seq(Name), NEW name \in Name, order' = Append(order, name)
  PROVE  /\ order' \in Seq(Name) /\ Len(order') = Len(order) + 1
         /\ DOMAIN order = 1 .. Len(order) /\ DOMAIN order' = 1 .. Len(order) + 1
         /\ \A i \in DOMAIN order : order'[i] = order[i]
         /\ order'[Len(order) + 1] = name
         /\ ordered' = ordered \cup {name}
<1>1. /\ order' \in Seq(Name) /\ Len(order') = Len(order) + 1
      /\ DOMAIN order = 1 .. Len(order) /\ DOMAIN order' = 1 .. Len(order) + 1
      /\ \A i \in DOMAIN order : order'[i] = order[i]
      /\ order'[Len(order) + 1] = name
      /\ Len(order) \in Nat
  OBVIOUS
<1>2. ordered' = ordered \cup {name}
  BY <1>1 DEF ordered
<1>. QED
  BY Zenon, <1>1, <1>2

\* The set of dependencies that are missing is empty if its size is 0.
LEMMA Missing ==
  ASSUME NEW j \in Name, ValidNeeds, order \in Seq(Name)
  PROVE  /\ IsFiniteSet(needs[j] \ ordered) /\ Cardinality(needs[j] \ ordered) \in Nat
         /\ Cardinality(needs[j] \ ordered) = 0 <=> needs[j] \subseteq ordered
<1>1. needs[j] \ ordered \subseteq Name
  BY Zenon DEF ValidNeeds
<1>2. IsFiniteSet(needs[j] \ ordered)
  BY Zenon, <1>1, PipelineAssumption, FS_Subset
<1>3. /\ Cardinality(needs[j] \ ordered) \in Nat
      /\ Cardinality(needs[j] \ ordered) = 0 <=> needs[j] \ ordered = {}
  BY Zenon, <1>2, FS_CardinalityType, FS_EmptySet
<1>. QED
  BY Zenon, <1>2, <1>3

\* The invariant holds at the start.
LEMMA CompilerInvInit == CompilerInit => CompilerInv
<1>. SUFFICES ASSUME CompilerInit PROVE CompilerInv
  BY Zenon
<1>1. order = <<>> /\ order \in Seq(Name) /\ Len(order) = 0 /\ DOMAIN order = {}
  BY DEF CompilerInit
<1>2. ordered = {}
  BY Zenon, <1>1 DEF ordered
<1>3. Cardinality(ordered) = Len(order)
  BY Zenon, <1>1, <1>2, FS_EmptySet
<1>4. DOMAIN needs = Name
  BY Zenon, PipelineAssumption DEF CompilerInit
<1>. QED
  BY Zenon, <1>1, <1>2, <1>3, <1>4 DEF CompilerInit, CompilerInv, Compiling, PrefixIsTopological

\* The checks of Validate and the first counts.
LEMMA ValidateKeeps == CompilerInv /\ Validate => CompilerInv'
<1>. SUFFICES ASSUME CompilerInv, Validate PROVE CompilerInv'
  BY Zenon
<1>1. order = <<>> /\ UNCHANGED <<needs, order, cyclic>> /\ stage' \in {"compile", "invalid"}
  BY Zenon DEF CompilerInv, Validate
<1>2. ordered = {} /\ ordered' = {}
  BY <1>1 DEF ordered
<1>3. Compiling' => CountsAreExact'
  <2>. SUFFICES ASSUME stage' = "compile" PROVE CountsAreExact'
    BY Zenon, <1>1 DEF Compiling
  <2>1. /\ ValidNeeds /\ indegree' = [j \in Name |-> Cardinality(needs[j])]
        /\ ready' = {j \in Name : needs[j] = {}}
    BY Zenon DEF Validate
  <2>2. \A j \in Name : needs[j] \ {} = needs[j]
    BY Zenon
  <2>. QED
    BY Zenon, <1>1, <1>2, <2>1, <2>2 DEF CountsAreExact, ValidNeeds
<1>4. PrefixIsTopological' /\ Knots' = Knots
  BY <1>1 DEF CompilerInv, PrefixIsTopological, Knots
<1>. QED
  BY Zenon, <1>1, <1>2, <1>3, <1>4 DEF CompilerInv

\* A job that is ordered has all that it needs before it.
LEMMA OrderedIsClosed ==
  ASSUME order \in Seq(Name), PrefixIsTopological
  PROVE  \A j \in ordered : needs[j] \subseteq ordered
<1>1. SUFFICES ASSUME NEW i \in DOMAIN order PROVE needs[order[i]] \subseteq ordered
  BY Zenon DEF ordered
<1>2. DOMAIN order = 1 .. Len(order) /\ Len(order) \in Nat
  OBVIOUS
<1>3. 1 .. i - 1 \subseteq DOMAIN order
  BY <1>2
<1>. QED
  BY Zenon, <1>3 DEF PrefixIsTopological, ordered

\* One round of the loop keeps the counts and the list exact, and the order
\* topological, and takes no job of a knot.
LEMMA TakeKeeps ==
  ASSUME CompilerInv, NEW name \in Name, Take(name)
  PROVE  CompilerInv'
<1>1. /\ stage = "compile" /\ stage' = "compile" /\ name \in ready
      /\ order' = Append(order, name) /\ UNCHANGED <<needs, cyclic>>
      /\ ready' = (ready \ {name}) \cup Released(name)
      /\ indegree' = [j \in Name |-> IF j \in Dependents(name) THEN indegree[j] - 1
                                     ELSE indegree[j]]
  BY Zenon DEF Take
<1>2. CountsAreExact /\ order \in Seq(Name) /\ Cardinality(ordered) = Len(order)
      /\ PrefixIsTopological /\ DOMAIN needs = Name
  BY Zenon, <1>1 DEF CompilerInv, Compiling
<1>3. /\ order' \in Seq(Name) /\ Len(order') = Len(order) + 1
      /\ DOMAIN order = 1 .. Len(order) /\ DOMAIN order' = 1 .. Len(order) + 1
      /\ \A i \in DOMAIN order : order'[i] = order[i]
      /\ order'[Len(order) + 1] = name
      /\ ordered' = ordered \cup {name}
  BY Zenon, <1>1, <1>2, OrderedAfterAppend
<1>4. name \notin ordered /\ needs[name] \subseteq ordered /\ Len(order) \in Nat
  BY <1>1, <1>2 DEF CountsAreExact
<1>5. Cardinality(ordered') = Len(order')
  <2>1. IsFiniteSet(ordered)
    BY Zenon, <1>2, OrderedIsFinite
  <2>2. Cardinality(ordered \cup {name}) = Cardinality(ordered) + 1
    BY Zenon, <1>4, <2>1, FS_AddElement
  <2>. QED
    BY Zenon, <1>2, <1>3, <2>2
<1>6. PrefixIsTopological'
  <2>1. \A i \in DOMAIN order : order[i] # name
    BY Zenon, <1>4 DEF ordered
  <2>2. \A i, k \in DOMAIN order' : order'[i] = order'[k] => i = k
    BY <1>2, <1>3, <1>4, <2>1 DEF PrefixIsTopological
  <2>3. ASSUME NEW i \in DOMAIN order'
        PROVE  needs[order'[i]] \subseteq {order'[k] : k \in 1 .. i - 1}
    <3>1. {order'[k] : k \in 1 .. i - 1} = {order[k] : k \in 1 .. i - 1}
      BY <1>3, <1>4
    <3>2. CASE i \in DOMAIN order
      BY Zenon, <1>2, <1>3, <3>1, <3>2 DEF PrefixIsTopological
    <3>3. CASE i = Len(order) + 1
      <4>1. 1 .. i - 1 = DOMAIN order
        BY <1>3, <1>4, <3>3
      <4>. QED
        BY Zenon, <1>3, <1>4, <3>1, <3>3, <4>1 DEF ordered
    <3>. QED
      BY <1>3, <1>4, <3>2, <3>3
  <2>. QED
    BY Zenon, <1>1, <2>2, <2>3 DEF PrefixIsTopological
<1>7. \A S \in Knots : S \cap ordered' = {}
  <2>1. ASSUME NEW S \in Knots PROVE name \notin S
    <3>1. S \cap ordered = {}
      BY Zenon DEF CompilerInv
    <3>2. needs[name] \cap S = {}
      BY Zenon, <1>4, <3>1
    <3>. QED
      BY Zenon, <3>2 DEF Knots
  <2>. QED
    BY <1>3, <2>1 DEF CompilerInv
<1>8. ASSUME NEW j \in Name
      PROVE  indegree'[j] = Cardinality(needs[j] \ ordered')
  <2>1. indegree[j] = Cardinality(needs[j] \ ordered)
    BY Zenon, <1>2 DEF CountsAreExact
  <2>2. CASE name \in needs[j]
    <3>1. /\ needs[j] \ ordered' = (needs[j] \ ordered) \ {name}
          /\ name \in needs[j] \ ordered
      BY Zenon, <1>3, <1>4, <2>2
    <3>2. IsFiniteSet(needs[j] \ ordered)
      BY Zenon, <1>2, Missing DEF CountsAreExact
    <3>3. Cardinality((needs[j] \ ordered) \ {name}) = Cardinality(needs[j] \ ordered) - 1
      BY Zenon, <3>1, <3>2, FS_RemoveElement
    <3>. QED
      BY Zenon, <1>1, <2>1, <2>2, <3>1, <3>3 DEF Dependents
  <2>3. CASE name \notin needs[j]
    <3>1. needs[j] \ ordered' = needs[j] \ ordered
      BY Zenon, <1>3, <2>3
    <3>. QED
      BY Zenon, <1>1, <2>1, <2>3, <3>1 DEF Dependents
  <2>. QED
    BY Zenon, <2>2, <2>3
<1>9. ready' = {j \in Name \ ordered' : needs[j] \subseteq ordered'}
  <2>1. ASSUME NEW j \in Name, name \in needs[j]
        PROVE  j \in Released(name) <=> needs[j] \subseteq ordered'
    <3>1. IsFiniteSet(needs[j] \ ordered) /\ name \in needs[j] \ ordered
      BY Zenon, <1>2, <1>4, <2>1, Missing DEF CountsAreExact
    <3>2. IsFiniteSet((needs[j] \ ordered) \ {name})
          /\ Cardinality((needs[j] \ ordered) \ {name}) = Cardinality(needs[j] \ ordered) - 1
      BY Zenon, <3>1, FS_RemoveElement
    <3>3. Cardinality((needs[j] \ ordered) \ {name}) = 0 <=> (needs[j] \ ordered) \ {name} = {}
      BY Zenon, <3>2, FS_EmptySet
    <3>4. Cardinality(needs[j] \ ordered) \in Nat
      BY Zenon, <3>1, FS_CardinalityType
    <3>5. indegree[j] = 1 <=> (needs[j] \ ordered) \ {name} = {}
      BY <1>2, <3>2, <3>3, <3>4 DEF CountsAreExact
    <3>. QED
      BY Zenon, <1>3, <2>1, <3>5 DEF Released, Dependents
  <2>2. ASSUME NEW j \in Name, name \in needs[j] PROVE j \notin ordered'
    <3>1. j # name
      BY Zenon, <1>2, <2>2 DEF CountsAreExact, ValidNeeds
    <3>2. j \notin ordered
      BY Zenon, <1>2, <1>4, <2>2, OrderedIsClosed
    <3>. QED
      BY Zenon, <1>3, <3>1, <3>2
  <2>3. ASSUME NEW j \in Name, name \notin needs[j]
        PROVE  j \notin Released(name) /\ (needs[j] \subseteq ordered' <=> needs[j] \subseteq ordered)
    BY Zenon, <1>3, <2>3 DEF Released, Dependents
  <2>4. \A j \in Name : j \in ready <=> j \notin ordered /\ needs[j] \subseteq ordered
    BY Zenon, <1>2 DEF CountsAreExact
  <2>5. ready' \subseteq Name
    BY Zenon, <1>1, <1>2 DEF Released, Dependents, CountsAreExact
  <2>6. ASSUME NEW j \in Name
        PROVE  j \in ready' <=> j \notin ordered' /\ needs[j] \subseteq ordered'
    <3>1. CASE name \in needs[j]
      BY Zenon, <1>1, <1>4, <2>1, <2>2, <2>4, <3>1
    <3>2. CASE name \notin needs[j]
      BY Zenon, <1>1, <1>3, <2>3, <2>4, <3>2
    <3>. QED
      BY Zenon, <3>1, <3>2
  <2>. QED
    BY Zenon, <2>5, <2>6
<1>10. CountsAreExact'
  <2>1. indegree' = [j \in Name |-> Cardinality(needs[j] \ ordered')]
    BY Zenon, <1>1, <1>8
  <2>. QED
    BY Zenon, <1>1, <1>2, <1>9, <2>1 DEF CountsAreExact, ValidNeeds
<1>11. Knots' = Knots
  BY Zenon, <1>1 DEF Knots
<1>. QED
  BY Zenon, <1>1, <1>2, <1>3, <1>5, <1>6, <1>7, <1>10, <1>11 DEF CompilerInv, Compiling

\* The end of the loop changes none of what it counted.
LEMMA LeaveKeeps == CompilerInv /\ Leave => CompilerInv'
<1>. SUFFICES ASSUME CompilerInv, Leave PROVE CompilerInv'
  BY Zenon
<1>1. /\ stage = "compile" /\ ready = {} /\ UNCHANGED <<needs, indegree, ready, order>>
      /\ \/ stage' = "ordered" /\ Len(order) = Cardinality(Name)
         \/ stage' = "refused" /\ Len(order) # Cardinality(Name) /\ cyclic' = cyclicJobs
  BY Zenon DEF Leave
<1>2. ordered' = ordered /\ Knots' = Knots /\ cyclicJobs' = cyclicJobs
      /\ PrefixIsTopological' /\ CountsAreExact'
  BY <1>1 DEF ordered, Knots, cyclicJobs, PrefixIsTopological, CountsAreExact, ValidNeeds,
              CompilerInv, Compiling
<1>. QED
  BY Zenon, <1>1, <1>2 DEF CompilerInv, Compiling

\* The counters of Compile always mean what they are used for.
THEOREM CompilerInvariance == CompilerSpec => []CompilerInv
<1>1. CompilerInv /\ [CompilerNext]_compilerVars => CompilerInv'
  <2>. SUFFICES ASSUME CompilerInv, [CompilerNext]_compilerVars PROVE CompilerInv'
    BY Zenon
  <2>1. CASE UNCHANGED compilerVars
    BY <2>1 DEF compilerVars, CompilerInv, Compiling, CountsAreExact, PrefixIsTopological,
                ValidNeeds, ordered, Knots, cyclicJobs
  <2>2. CASE CompilerNext
    BY Zenon, <2>2, ValidateKeeps, TakeKeeps, LeaveKeeps DEF CompilerNext
  <2>. QED
    BY Zenon, <2>1, <2>2
<1>. QED
  BY <1>1, CompilerInvInit, PTL DEF CompilerSpec

\* A pipeline that Compile accepts has every job in its order once, after all
\* that it needs.
THEOREM CompileOrdersTopologically == CompilerSpec => []OrderIsTopological
<1>1. CompilerInv => OrderIsTopological
  <2>. SUFFICES ASSUME CompilerInv, stage = "ordered"
                PROVE  ordered = Name /\ PrefixIsTopological
    BY Zenon DEF OrderIsTopological, PrefixIsTopological
  <2>1. ordered \subseteq Name /\ Cardinality(ordered) = Cardinality(Name)
    BY Zenon, OrderedIsFinite DEF CompilerInv
  <2>. QED
    BY Zenon, <2>1, PipelineAssumption, FS_Subset DEF CompilerInv
<1>. QED
  BY <1>1, CompilerInvariance, PTL

\* Compile refuses a pipeline exactly if some jobs wait for each other, and names
\* exactly those jobs and the ones behind them.
THEOREM CompileRefusesExactly == CompilerSpec => []RefusalIsExact
<1>1. CompilerInv => RefusalIsExact
  <2>. SUFFICES ASSUME CompilerInv PROVE RefusalIsExact
    BY Zenon
  <2>. DEFINE rest == Name \ ordered
  <2>1. order \in Seq(Name) /\ UNION Knots \subseteq rest
    BY Zenon DEF CompilerInv, Knots
  <2>2. ordered \subseteq Name /\ (Cardinality(ordered) = Cardinality(Name) <=> rest = {})
    BY Zenon, <2>1, OrderedIsFinite, PipelineAssumption, FS_Subset
  <2>3. CASE stage = "ordered"
    BY Zenon, <2>1, <2>2, <2>3 DEF CompilerInv, RefusalIsExact
  <2>4. CASE stage = "refused"
    <3>1. CountsAreExact /\ PrefixIsTopological /\ ready = {} /\ cyclic = cyclicJobs /\ rest # {}
      BY Zenon, <2>2, <2>4 DEF CompilerInv, Compiling
    <3>2. \A j \in rest : ~(needs[j] \subseteq ordered)
      BY Zenon, <3>1 DEF CountsAreExact
    <3>3. rest \in Knots
      BY Zenon, <3>1, <3>2 DEF Knots, CountsAreExact, ValidNeeds
    <3>4. cyclicJobs = rest
      <4>1. ASSUME NEW j \in Name PROVE indegree[j] > 0 <=> ~(needs[j] \subseteq ordered)
        <5>1. ValidNeeds /\ indegree[j] = Cardinality(needs[j] \ ordered)
          BY Zenon, <3>1 DEF CountsAreExact
        <5>2. /\ Cardinality(needs[j] \ ordered) \in Nat
              /\ Cardinality(needs[j] \ ordered) = 0 <=> needs[j] \subseteq ordered
          BY Zenon, <2>1, <5>1, Missing
        <5>. QED
          BY <5>1, <5>2
      <4>2. ASSUME NEW j \in Name PROVE j \in ordered <=> needs[j] \subseteq ordered
        BY Zenon, <2>1, <3>1, <3>2, OrderedIsClosed
      <4>. QED
        BY Zenon, <4>1, <4>2 DEF cyclicJobs
    <3>5. UNION Knots = rest
      BY Zenon, <2>1, <3>3
    <3>. QED
      BY Zenon, <2>4, <3>1, <3>4, <3>5 DEF RefusalIsExact
  <2>. QED
    BY Zenon, <2>3, <2>4 DEF RefusalIsExact
<1>. QED
  BY <1>1, CompilerInvariance, PTL

-----------------------------------------------------------------------------
(***************************************************************************)
(* A run has one check at GitHub, for any number of runs and failures.     *)
(*                                                                         *)
(* The invariant: a worker that is about to create a check has looked, and *)
(* nothing but a delayed request has created one since; and the IDs that   *)
(* are known are those of checks that exist.                               *)
(***************************************************************************)

Shows == {"none", "queued", "in_progress", "success", "failure", "cancelled"}

Request ==
  [pc : {"waiting", "claimed", "found", "answered", "failed"},
   trigger : Trigger \cup {NoTrigger}, desired : Shows, id : Nat]

RunStatuses == {"QUEUED", "RUNNING", "PASSED", "FAILED", "ERROR", "CANCELED", "ABORTED"}

CheckTypeOK ==
  /\ runStatus \in [Trigger -> RunStatuses]
  /\ github \in [Trigger -> Seq(Shows)]
  /\ checkID \in [Trigger -> Nat]
  /\ reporter \in Request /\ delayed \in Request
  /\ reporter.pc # "waiting" => reporter.trigger \in Trigger
  /\ delayed # NoRequest => delayed.trigger \in Trigger /\ delayed.trigger \in overtaken

KnownChecksExist ==
  /\ \A t \in Trigger : checkID[t] <= Len(github[t])
  /\ reporter.pc # "waiting" => reporter.id <= Len(github[reporter.trigger])
  /\ delayed # NoRequest => delayed.id <= Len(github[delayed.trigger])

NoneMissed ==
  reporter.pc = "found" /\ reporter.id = 0 /\ reporter.trigger \notin overtaken =>
    Len(github[reporter.trigger]) = 0

CheckInv == CheckTypeOK /\ KnownChecksExist /\ NoneMissed /\ OneCheckPerRun

-----------------------------------------------------------------------------
\* What GitHub's answer to a request is worth: a request without an ID adds a
\* check, one with the ID of a check adds none.
LEMMA GitHubProcesses ==
  ASSUME github \in [Trigger -> Seq(Shows)], NEW request \in Request,
         request.trigger \in Trigger, request.id <= Len(github[request.trigger])
  PROVE  /\ Processed(request) \in [Trigger -> Seq(Shows)]
         /\ \A u \in Trigger \ {request.trigger} : Processed(request)[u] = github[u]
         /\ Len(Processed(request)[request.trigger]) =
              IF request.id = 0 THEN Len(github[request.trigger]) + 1
              ELSE Len(github[request.trigger])
         /\ \A u \in Trigger : Len(github[u]) <= Len(Processed(request)[u])
<1>. DEFINE old == github[request.trigger]
            new == IF request.id = 0 THEN Append(old, request.desired)
                   ELSE [old EXCEPT ![request.id] = request.desired]
<1>1. old \in Seq(Shows) /\ request.desired \in Shows /\ request.id \in Nat /\ Len(old) \in Nat
  BY DEF Request
<1>2. new \in Seq(Shows) /\ Len(new) = IF request.id = 0 THEN Len(old) + 1 ELSE Len(old)
  <2>1. CASE request.id = 0
    BY <1>1, <2>1
  <2>2. CASE request.id # 0
    <3>1. request.id \in 1 .. Len(old)
      BY <1>1, <2>2
    <3>2. [old EXCEPT ![request.id] = request.desired] \in [1 .. Len(old) -> Shows]
      BY <1>1, <3>1
    <3>. QED
      BY <1>1, <2>2, <3>1, <3>2
  <2>. QED
    BY Zenon, <2>1, <2>2
<1>3. Processed(request) = [github EXCEPT ![request.trigger] = new]
  BY Zenon DEF Processed
<1>4. /\ Processed(request) \in [Trigger -> Seq(Shows)]
      /\ Processed(request)[request.trigger] = new
      /\ \A u \in Trigger \ {request.trigger} : Processed(request)[u] = github[u]
  BY Zenon, <1>2, <1>3
<1>5. \A u \in Trigger : Len(github[u]) \in Nat
  OBVIOUS
<1>6. Len(Processed(request)[request.trigger]) =
        IF request.id = 0 THEN Len(github[request.trigger]) + 1 ELSE Len(github[request.trigger])
  BY Zenon, <1>2, <1>4
<1>7. ASSUME NEW u \in Trigger PROVE Len(github[u]) <= Len(Processed(request)[u])
  <2>1. CASE u = request.trigger
    BY <1>1, <1>6, <2>1
  <2>2. CASE u # request.trigger
    BY <1>4, <1>5, <2>2
  <2>. QED
    BY Zenon, <2>1, <2>2
<1>. QED
  BY Zenon, <1>4, <1>6, <1>7

\* The invariant holds at the start.
LEMMA CheckInvInit == CheckInit => CheckInv
<1>. SUFFICES ASSUME CheckInit PROVE CheckInv
  BY Zenon
<1>1. \A t \in Trigger : github[t] = <<>> /\ Len(github[t]) = 0 /\ checkID[t] = 0
  BY Zenon DEF CheckInit
<1>2. CheckTypeOK
  <2>1. github \in [Trigger -> Seq(Shows)]
    BY DEF CheckInit
  <2>2. Waiting \in Request
    BY Zenon DEF Waiting, Request, Shows
  <2>3. reporter.pc = "waiting" /\ delayed = NoRequest /\ reporter = Waiting /\ Waiting = NoRequest
    BY Zenon DEF CheckInit, Waiting, NoRequest
  <2>4. runStatus \in [Trigger -> RunStatuses] /\ checkID \in [Trigger -> Nat]
    BY Zenon DEF CheckInit, RunStatuses
  <2>. QED
    BY Zenon, <2>1, <2>2, <2>3, <2>4 DEF CheckTypeOK
<1>. QED
  BY <1>1, <1>2 DEF CheckInit, CheckInv, KnownChecksExist, NoneMissed, OneCheckPerRun, Waiting,
                    NoRequest

\* A step that leaves GitHub and the record alone and in which the worker finds
\* nothing.
LEMMA WorkerWaits ==
  ASSUME CheckInv, UNCHANGED <<runStatus, checkID, github, delayed, overtaken>>,
         reporter' \in Request, reporter'.pc # "found",
         reporter'.pc # "waiting" => /\ reporter'.trigger \in Trigger
                                     /\ reporter'.id <= Len(github[reporter'.trigger])
  PROVE  CheckInv'
BY Zenon DEF CheckInv, CheckTypeOK, KnownChecksExist, NoneMissed, OneCheckPerRun

\* The worker claims: the ID is the recorded one.
LEMMA CheckClaimKeeps ==
  ASSUME CheckInv, NEW t \in Trigger, ClaimSCMCheck(t)
  PROVE  CheckInv'
<1>1. /\ reporter' = [pc |-> "claimed", trigger |-> t, desired |-> Desired(t), id |-> checkID[t]]
      /\ UNCHANGED <<runStatus, checkID, github, delayed, overtaken>>
  BY Zenon DEF ClaimSCMCheck
<1>2. Desired(t) \in Shows
  BY Zenon DEF Desired, CheckInv, CheckTypeOK, RunStatuses, Shows
<1>3. reporter' \in Request
  BY Zenon, <1>1, <1>2 DEF Request, CheckInv, CheckTypeOK
<1>. QED
  BY Zenon, <1>1, <1>3, WorkerWaits DEF CheckInv, KnownChecksExist

\* The worker looks: it has no ID only if there is no check.
LEMMA FindKeeps ==
  ASSUME CheckInv, Find
  PROVE  CheckInv'
<1>1. /\ reporter.pc = "claimed" /\ reporter \in Request /\ reporter.trigger \in Trigger
      /\ reporter.id <= Len(github[reporter.trigger])
      /\ github[reporter.trigger] \in Seq(Shows)
      /\ UNCHANGED <<runStatus, checkID, github, delayed, overtaken>>
  BY Zenon DEF CheckInv, CheckTypeOK, KnownChecksExist, Find
<1>2. CASE ReporterAt("failed")
  <2>1. /\ reporter' \in Request /\ reporter'.pc = "failed" /\ reporter'.id = reporter.id
        /\ reporter'.trigger = reporter.trigger
    BY Zenon, <1>1, <1>2 DEF ReporterAt, Request
  <2>. QED
    BY Zenon, <1>1, <2>1, WorkerWaits
<1>3. CASE reporter' = [reporter EXCEPT !.pc = "found", !.id = FindCheck]
  <2>1. /\ FindCheck \in Nat /\ FindCheck <= Len(github[reporter.trigger])
        /\ FindCheck = 0 => Len(github[reporter.trigger]) = 0
    BY <1>1 DEF FindCheck, Request
  <2>2. /\ reporter' \in Request /\ reporter'.pc = "found" /\ reporter'.id = FindCheck
        /\ reporter'.trigger = reporter.trigger
    BY Zenon, <1>1, <1>3, <2>1 DEF Request
  <2>. QED
    BY Zenon, <1>1, <2>1, <2>2 DEF CheckInv, CheckTypeOK, KnownChecksExist, NoneMissed, OneCheckPerRun
<1>. QED
  BY Zenon, <1>2, <1>3 DEF Find

\* The worker sends: it adds a check only to a run that has none.
LEMMA SendKeeps ==
  ASSUME CheckInv, Send
  PROVE  CheckInv'
<1>. DEFINE t == reporter.trigger
<1>1. /\ reporter.pc = "found" /\ reporter \in Request /\ t \in Trigger
      /\ reporter.id <= Len(github[t]) /\ UNCHANGED <<runStatus, checkID>>
      /\ github \in [Trigger -> Seq(Shows)] /\ Len(github[t]) \in Nat
  BY DEF CheckInv, CheckTypeOK, KnownChecksExist, Send
<1>2. /\ Processed(reporter) \in [Trigger -> Seq(Shows)]
      /\ \A u \in Trigger \ {t} : Processed(reporter)[u] = github[u]
      /\ Len(Processed(reporter)[t]) = IF reporter.id = 0 THEN Len(github[t]) + 1
                                       ELSE Len(github[t])
      /\ \A u \in Trigger : Len(github[u]) <= Len(Processed(reporter)[u])
  BY Zenon, <1>1, GitHubProcesses
<1>3. ASSUME github' = Processed(reporter), UNCHANGED <<delayed, overtaken>>,
             reporter' \in Request, reporter'.pc # "found", reporter'.trigger = t,
             reporter'.id <= Len(Processed(reporter)[t])
      PROVE  CheckInv'
  <2>1. CheckTypeOK' /\ NoneMissed'
    BY Zenon, <1>1, <1>2, <1>3 DEF CheckInv, CheckTypeOK, NoneMissed
  <2>2. \A u \in Trigger : Len(github[u]) \in Nat /\ Len(github'[u]) \in Nat
    BY <1>1, <1>2, <1>3
  <2>3. KnownChecksExist'
    <3>1. \A u \in Trigger : checkID'[u] <= Len(github'[u])
      BY <1>1, <1>2, <1>3, <2>2 DEF CheckInv, CheckTypeOK, KnownChecksExist
    <3>2. delayed # NoRequest => delayed.id <= Len(github'[delayed.trigger])
      BY <1>2, <1>3, <2>2 DEF CheckInv, CheckTypeOK, KnownChecksExist, Request
    <3>. QED
      BY Zenon, <1>3, <3>1, <3>2 DEF KnownChecksExist, NoRequest
  <2>4. OneCheckPerRun'
    <3>. SUFFICES ASSUME NEW u \in Trigger, Len(github'[u]) > 1, u \notin overtaken' PROVE FALSE
      BY Zenon DEF OneCheckPerRun
    <3>1. u \notin overtaken /\ Len(github[u]) \in Nat /\ ~(Len(github[u]) > 1)
      BY Zenon, <1>3, <2>2 DEF CheckInv, OneCheckPerRun
    <3>2. Len(Processed(reporter)[u]) > 1
      BY Zenon, <1>3
    <3>3. u = t /\ reporter.id = 0
      BY Zenon, <1>2, <3>1, <3>2
    <3>4. Len(github[t]) = 0
      BY Zenon, <1>1, <3>1, <3>3 DEF CheckInv, NoneMissed
    <3>5. Len(Processed(reporter)[t]) = Len(github[t]) + 1
      BY Zenon, <1>2, <3>3
    <3>. QED
      BY <3>2, <3>3, <3>4, <3>5
  <2>. QED
    BY Zenon, <2>1, <2>3, <2>4 DEF CheckInv
<1>4. CASE github' = Processed(reporter) /\ UNCHANGED <<delayed, overtaken>>
           /\ reporter' = [reporter EXCEPT !.pc = "answered", !.id = IDOf(reporter)]
  <2>1. IDOf(reporter) \in Nat /\ IDOf(reporter) <= Len(Processed(reporter)[t])
    BY <1>1, <1>2 DEF IDOf, Request
  <2>2. /\ reporter' \in Request /\ reporter'.pc = "answered" /\ reporter'.trigger = t
        /\ reporter'.id = IDOf(reporter)
    BY Zenon, <1>1, <1>4, <2>1 DEF Request
  <2>. QED
    BY Zenon, <1>3, <1>4, <2>1, <2>2
<1>5. ReporterAt("failed") => /\ reporter' \in Request /\ reporter'.pc = "failed"
                              /\ reporter'.trigger = t /\ reporter'.id = reporter.id
  BY Zenon, <1>1 DEF ReporterAt, Request
<1>6. CASE github' = Processed(reporter) /\ UNCHANGED <<delayed, overtaken>> /\ ReporterAt("failed")
  <2>1. reporter.id <= Len(Processed(reporter)[t])
    BY <1>1, <1>2 DEF Request
  <2>. QED
    BY Zenon, <1>3, <1>5, <1>6, <2>1
<1>7. CASE UNCHANGED <<github, delayed, overtaken>> /\ ReporterAt("failed")
  BY Zenon, <1>1, <1>5, <1>7, WorkerWaits
<1>8. CASE /\ delayed' = reporter /\ overtaken' = overtaken \cup {t} /\ UNCHANGED github
           /\ ReporterAt("failed")
  BY Zenon, <1>1, <1>5, <1>8 DEF CheckInv, CheckTypeOK, KnownChecksExist, NoneMissed, OneCheckPerRun
<1>. QED
  BY Zenon, <1>4, <1>6, <1>7, <1>8 DEF Send

\* A delayed request arrives: it may add a check, to a run that is excepted.
LEMMA DelayedKeeps ==
  ASSUME CheckInv, DelayedRequestArrives
  PROVE  CheckInv'
<1>. DEFINE t == delayed.trigger
<1>1. /\ delayed # NoRequest /\ delayed \in Request /\ t \in Trigger /\ t \in overtaken
      /\ delayed.id <= Len(github[t]) /\ github \in [Trigger -> Seq(Shows)]
      /\ github' = Processed(delayed) /\ delayed' = NoRequest
      /\ UNCHANGED <<runStatus, checkID, reporter, overtaken>>
  BY Zenon DEF CheckInv, CheckTypeOK, KnownChecksExist, DelayedRequestArrives
<1>2. /\ github' \in [Trigger -> Seq(Shows)]
      /\ \A u \in Trigger \ {t} : github'[u] = github[u]
      /\ \A u \in Trigger : Len(github[u]) <= Len(github'[u])
  BY Zenon, <1>1, GitHubProcesses
<1>3. \A u \in Trigger : Len(github[u]) \in Nat /\ Len(github'[u]) \in Nat
  BY <1>1, <1>2
<1>4. NoRequest \in Request /\ NoRequest' = NoRequest
  BY Zenon DEF NoRequest, Waiting, Request, Shows
<1>5. CheckTypeOK'
  BY Zenon, <1>1, <1>2, <1>4 DEF CheckInv, CheckTypeOK
<1>6. KnownChecksExist'
  <2>1. \A u \in Trigger : checkID[u] <= Len(github'[u])
    BY <1>2, <1>3 DEF CheckInv, CheckTypeOK, KnownChecksExist
  <2>2. reporter.pc # "waiting" => reporter.id <= Len(github'[reporter.trigger])
    BY <1>2, <1>3 DEF CheckInv, CheckTypeOK, KnownChecksExist, Request
  <2>. QED
    BY Zenon, <1>1, <1>4, <2>1, <2>2 DEF KnownChecksExist
<1>7. NoneMissed' /\ OneCheckPerRun'
  BY Zenon, <1>1, <1>2 DEF CheckInv, CheckTypeOK, NoneMissed, OneCheckPerRun
<1>. QED
  BY Zenon, <1>5, <1>6, <1>7 DEF CheckInv

\* The worker records the ID of a check that exists, or gives up.
LEMMA RecordKeeps ==
  ASSUME CheckInv, (\E t \in Trigger : Complete(t) \/ Fail(t)) \/ ReporterCrashes
  PROVE  CheckInv'
<1>1. Waiting \in Request /\ Waiting.pc = "waiting"
  BY Zenon DEF Waiting, Request, Shows
<1>2. /\ reporter' = Waiting /\ UNCHANGED <<runStatus, github, delayed, overtaken>>
      /\ \/ UNCHANGED checkID
         \/ \E t \in Trigger : /\ reporter.pc = "answered" /\ reporter.trigger = t
                               /\ checkID' = [checkID EXCEPT ![t] = reporter.id]
  BY Zenon DEF Complete, Fail, ReporterCrashes
<1>3. CASE UNCHANGED checkID
  BY Zenon, <1>1, <1>2, <1>3, WorkerWaits
<1>4. ASSUME NEW t \in Trigger, reporter.pc = "answered", reporter.trigger = t,
             checkID' = [checkID EXCEPT ![t] = reporter.id]
      PROVE  CheckInv'
  <2>1. reporter.id \in Nat /\ reporter.id <= Len(github[t])
    BY Zenon, <1>4 DEF CheckInv, CheckTypeOK, KnownChecksExist, Request
  <2>2. checkID' \in [Trigger -> Nat] /\ \A u \in Trigger : checkID'[u] <= Len(github[u])
    BY Zenon, <1>4, <2>1 DEF CheckInv, CheckTypeOK, KnownChecksExist
  <2>. QED
    BY Zenon, <1>1, <1>2, <2>2 DEF CheckInv, CheckTypeOK, KnownChecksExist, NoneMissed, OneCheckPerRun
<1>. QED
  BY Zenon, <1>2, <1>3, <1>4

\* The invariant holds throughout.
LEMMA CheckInvariance == CheckSpec => []CheckInv
<1>1. CheckInv /\ [CheckNext]_checkVars => CheckInv'
  <2>. SUFFICES ASSUME CheckInv, [CheckNext]_checkVars PROVE CheckInv'
    BY Zenon
  <2>1. CASE UNCHANGED <<checkID, github, reporter, delayed, overtaken>>
             /\ runStatus' \in [Trigger -> RunStatuses]
    BY Zenon, <2>1 DEF CheckInv, CheckTypeOK, KnownChecksExist, NoneMissed, OneCheckPerRun
  <2>2. ASSUME NEW t \in Trigger, RunMoves(t) \/ CheckClaimExpires(t) PROVE CheckInv'
    <3>1. runStatus' \in [Trigger -> RunStatuses]
      BY Zenon, <2>2 DEF RunMoves, CheckClaimExpires, CheckInv, CheckTypeOK, RunStatuses
    <3>. QED
      BY Zenon, <2>1, <2>2, <3>1 DEF RunMoves, CheckClaimExpires
  <2>3. CASE UNCHANGED checkVars
    BY Zenon, <2>1, <2>3 DEF checkVars, CheckInv, CheckTypeOK
  <2>. QED
    BY Zenon, <2>2, <2>3, CheckClaimKeeps, FindKeeps, SendKeeps, RecordKeeps, DelayedKeeps
       DEF CheckNext, Reconcile
<1>. QED
  BY <1>1, CheckInvInit, PTL DEF CheckSpec

\* Lost answers, lost claims, restarts and runs that move on never lead to a
\* second check of a run, unless GitHub processed a request late.
THEOREM RunHasOneCheck == CheckSpec => []OneCheckPerRun
<1>1. CheckInv => OneCheckPerRun
  BY Zenon DEF CheckInv
<1>. QED
  BY <1>1, CheckInvariance, PTL

-----------------------------------------------------------------------------
(***************************************************************************)
(* A check that is left alone is right.  What is recorded, what GitHub     *)
(* shows, what the worker is about to send and what the run is now follow  *)
(* each other in this order, since a run only moves on.                    *)
(***************************************************************************)

\* The run may show b after it has shown a.
Leads(a, b) ==
  \/ a = b \/ a = "none"
  \/ a = "queued" /\ b \in {"in_progress", "success", "failure", "cancelled"}
  \/ a = "in_progress" /\ b \in {"success", "failure", "cancelled"}

Sends == reporter.pc \in {"claimed", "found", "answered"}

\* Of a run: the record, GitHub and the run itself; and with the worker between.
InOrder(t) ==
  /\ Leads(reported[t], Desired(t))
  /\ \A i \in DOMAIN github[t] : /\ Leads(reported[t], github[t][i])
                                 /\ Leads(github[t][i], Desired(t))
SendsInOrder(t) ==
  Sends /\ reporter.trigger = t =>
    /\ Leads(reported[t], reporter.desired) /\ Leads(reporter.desired, Desired(t))
    /\ \A i \in DOMAIN github[t] : Leads(github[t][i], reporter.desired)
    /\ reporter.pc = "answered" => \A i \in DOMAIN github[t] : github[t][i] = reporter.desired

ShownInOrder ==
  /\ reported \in [Trigger -> Shows]
  /\ \A t \in Trigger \ overtaken : InOrder(t) /\ SendsInOrder(t)

\* Leads is a partial order.
LEMMA LeadsOn ==
  ASSUME NEW a \in Shows, NEW b \in Shows, NEW c \in Shows
  PROVE  /\ Leads(a, a)
         /\ Leads(a, b) /\ Leads(b, c) => Leads(a, c)
         /\ Leads(a, b) /\ Leads(b, a) => a = b
BY Zenon DEF Leads, Shows

\* What the run shows is one of these, and it only moves on.
LEMMA DesiredLeads ==
  ASSUME CheckTypeOK, NEW t \in Trigger
  PROVE  /\ Desired(t) \in Shows
         /\ \A u \in Trigger : RunMoves(u) => Desired(t)' \in Shows /\ Leads(Desired(t), Desired(t)')
<1>1. runStatus[t] \in RunStatuses
  BY Zenon DEF CheckTypeOK
<1>2. Desired(t) \in Shows
  BY Zenon, <1>1 DEF Desired, RunStatuses, Shows
<1>3. ASSUME NEW u \in Trigger, RunMoves(u)
      PROVE  Desired(t)' \in Shows /\ Leads(Desired(t), Desired(t)')
  <2>1. CASE runStatus'[t] = runStatus[t]
    <3>1. Desired(t)' = Desired(t)
      BY Zenon, <2>1 DEF Desired
    <3>. QED
      BY Zenon, <1>2, <3>1 DEF Leads
  <2>2. CASE runStatus[t] = "QUEUED" /\ runStatus'[t] \in {"RUNNING", "CANCELED"}
    <3>1. Desired(t) = "queued" /\ Desired(t)' \in {"in_progress", "cancelled"}
      BY Zenon, <2>2 DEF Desired
    <3>. QED
      BY Zenon, <3>1 DEF Leads, Shows
  <2>3. CASE runStatus[t] = "RUNNING"
             /\ runStatus'[t] \in {"PASSED", "FAILED", "ERROR", "CANCELED", "ABORTED"}
    <3>1. Desired(t) = "in_progress" /\ Desired(t)' \in {"success", "failure", "cancelled"}
      BY Zenon, <2>3 DEF Desired
    <3>. QED
      BY Zenon, <3>1 DEF Leads, Shows
  <2>. QED
    BY Zenon, <1>3, <2>1, <2>2, <2>3 DEF RunMoves, CheckTypeOK
<1>. QED
  BY Zenon, <1>2, <1>3

\* The run moves on: what was in order before is in order with what it shows now.
LEMMA RunMovesInOrder ==
  ASSUME CheckInv, ShownInOrder, NEW u \in Trigger, RunMoves(u)
  PROVE  ShownInOrder'
<1>1. UNCHANGED <<reported, github, reporter, overtaken>>
  BY Zenon DEF RunMoves
<1>2. ASSUME NEW t \in Trigger \ overtaken
      PROVE  InOrder(t)' /\ SendsInOrder(t)'
  <2>1. /\ Desired(t) \in Shows /\ Desired(t)' \in Shows /\ Leads(Desired(t), Desired(t)')
        /\ reported[t] \in Shows /\ reporter.desired \in Shows
        /\ \A i \in DOMAIN github[t] : github[t][i] \in Shows
    <3>1. github[t] \in Seq(Shows) /\ CheckTypeOK /\ reporter \in Request
      BY Zenon DEF CheckInv, CheckTypeOK
    <3>2. \A i \in DOMAIN github[t] : github[t][i] \in Shows
      BY <3>1
    <3>3. reporter.desired \in Shows
      BY Zenon, <3>1 DEF Request
    <3>4. Desired(t) \in Shows /\ Desired(t)' \in Shows /\ Leads(Desired(t), Desired(t)')
      BY Zenon, <3>1, DesiredLeads
    <3>. QED
      BY Zenon, <3>2, <3>3, <3>4 DEF ShownInOrder
  <2>2. \A a \in Shows : Leads(a, Desired(t)) => Leads(a, Desired(t)')
    BY Zenon, <2>1, LeadsOn
  <2>3. InOrder(t) /\ SendsInOrder(t)
    BY Zenon DEF ShownInOrder
  <2>4. InOrder(t)'
    BY Zenon, <1>1, <2>1, <2>2, <2>3 DEF InOrder
  <2>5. SendsInOrder(t)'
    BY Zenon, <1>1, <2>1, <2>2, <2>3 DEF SendsInOrder, Sends
  <2>. QED
    BY Zenon, <2>4, <2>5
<1>. QED
  BY Zenon, <1>1, <1>2 DEF ShownInOrder

\* A step of the worker that leaves the record and GitHub alone.
LEMMA WorkerInOrder ==
  ASSUME CheckInv, ShownInOrder, UNCHANGED <<runStatus, reported, github, overtaken>>,
         \/ ~Sends'
         \/ /\ Sends /\ reporter'.pc # "answered"
            /\ reporter'.trigger = reporter.trigger /\ reporter'.desired = reporter.desired
         \/ /\ reporter'.pc # "answered" /\ reporter'.trigger \in Trigger
            /\ reporter'.desired = Desired(reporter'.trigger)
  PROVE  ShownInOrder'
<1>1. ASSUME NEW t \in Trigger \ overtaken
      PROVE  InOrder(t)' /\ SendsInOrder(t)'
  <2>1. InOrder(t) /\ SendsInOrder(t) /\ Desired(t)' = Desired(t)
    BY Zenon DEF ShownInOrder, Desired
  <2>2. InOrder(t)'
    BY Zenon, <2>1 DEF InOrder
  <2>3. Leads(Desired(t), Desired(t))
    BY Zenon DEF Leads
  <2>4. SendsInOrder(t)'
    BY Zenon, <2>1, <2>3 DEF SendsInOrder, InOrder, Sends
  <2>. QED
    BY Zenon, <2>2, <2>4
<1>. QED
  BY Zenon, <1>1 DEF ShownInOrder

\* After a request of the worker, all that GitHub has of the run is what was sent.
LEMMA SentIsShown ==
  ASSUME CheckInv, reporter.pc = "found", reporter.trigger \notin overtaken,
         NEW i \in DOMAIN Processed(reporter)[reporter.trigger]
  PROVE  Processed(reporter)[reporter.trigger][i] = reporter.desired
<1>. DEFINE t == reporter.trigger
            old == github[t]
            new == IF reporter.id = 0 THEN Append(old, reporter.desired)
                   ELSE [old EXCEPT ![reporter.id] = reporter.desired]
<1>1. /\ t \in Trigger /\ reporter \in Request /\ reporter.id <= Len(old)
      /\ github \in [Trigger -> Seq(Shows)]
      /\ reporter.id = 0 => Len(old) = 0
      /\ ~(Len(old) > 1)
  BY Zenon DEF CheckInv, CheckTypeOK, KnownChecksExist, NoneMissed, OneCheckPerRun
<1>2. old \in Seq(Shows) /\ reporter.desired \in Shows /\ reporter.id \in Nat /\ Len(old) \in Nat
  BY <1>1 DEF Request
<1>3. Processed(reporter)[t] = new
  BY Zenon, <1>1 DEF Processed
<1>4. i \in DOMAIN new
  BY Zenon, <1>3
<1>. HIDE DEF t, old
<1>5. new[i] = reporter.desired
  <2>1. CASE reporter.id = 0
    <3>1. Len(old) = 0
      BY Zenon, <1>1, <2>1
    <3>2. new = Append(old, reporter.desired)
      BY Zenon, <2>1
    <3>. QED
      BY <1>2, <1>4, <3>1, <3>2
  <2>2. CASE reporter.id # 0
    <3>1. PICK n \in Nat, k \in Nat : n = Len(old) /\ k = reporter.id /\ k <= n /\ ~(n > 1)
      BY Zenon, <1>1, <1>2
    <3>2. k = 1 /\ n = 1
      BY <2>2, <3>1
    <3>3. reporter.id = 1 /\ Len(old) = 1
      BY Zenon, <3>1, <3>2
    <3>4. new = [old EXCEPT ![1] = reporter.desired]
      BY Zenon, <2>2, <3>3
    <3>. QED
      BY <1>2, <1>4, <3>3, <3>4
  <2>. QED
    BY Zenon, <2>1, <2>2
<1>. QED
  BY Zenon, <1>3, <1>5 DEF t

\* What a request makes GitHub show lies between the record and the run.
LEMMA SendInOrder ==
  ASSUME CheckInv, ShownInOrder, Send
  PROVE  ShownInOrder'
<1>0. PICK t \in Trigger : t = reporter.trigger
  BY Zenon DEF CheckInv, CheckTypeOK, Send
<1>1. /\ reporter.pc = "found" /\ reporter \in Request
      /\ UNCHANGED <<runStatus, reported>>
      /\ reporter.id <= Len(github[t]) /\ github \in [Trigger -> Seq(Shows)]
  BY Zenon, <1>0 DEF CheckInv, CheckTypeOK, KnownChecksExist, Send
<1>2. ReporterAt("failed") => ~Sends'
  BY Zenon, <1>1 DEF ReporterAt, Sends, Request
<1>3. CASE UNCHANGED <<github, overtaken>> /\ ReporterAt("failed")
  BY Zenon, <1>1, <1>2, <1>3, WorkerInOrder
<1>4. CASE overtaken' = overtaken \cup {t} /\ UNCHANGED github /\ ReporterAt("failed")
  <2>1. ASSUME NEW u \in Trigger \ overtaken'
        PROVE  InOrder(u)' /\ SendsInOrder(u)'
    <3>1. InOrder(u) /\ Desired(u)' = Desired(u)
      BY Zenon, <1>1, <1>4, <2>1 DEF ShownInOrder, Desired
    <3>. QED
      BY Zenon, <1>1, <1>2, <1>4, <3>1 DEF InOrder, SendsInOrder
  <2>. QED
    BY Zenon, <1>1, <2>1 DEF ShownInOrder
<1>5. CASE /\ github' = Processed(reporter) /\ UNCHANGED overtaken
           /\ \/ reporter' = [reporter EXCEPT !.pc = "answered", !.id = IDOf(reporter)]
              \/ ReporterAt("failed")
  <2>1. /\ \A u \in Trigger \ {t} : github'[u] = github[u]
        /\ t \notin overtaken => \A i \in DOMAIN github'[t] : github'[t][i] = reporter.desired
    BY Zenon, <1>0, <1>1, <1>5, GitHubProcesses, SentIsShown
  <2>2. reporter'.trigger = t /\ reporter'.desired = reporter.desired
    BY Zenon, <1>0, <1>1, <1>5 DEF ReporterAt, Request
  <2>3. ASSUME NEW u \in Trigger \ overtaken, u # t
        PROVE  InOrder(u)' /\ SendsInOrder(u)'
    <3>1. InOrder(u) /\ Desired(u)' = Desired(u) /\ github'[u] = github[u]
      BY Zenon, <1>1, <2>1, <2>3 DEF ShownInOrder, Desired
    <3>. QED
      BY Zenon, <1>1, <2>2, <2>3, <3>1 DEF InOrder, SendsInOrder
  <2>4. ASSUME t \notin overtaken
        PROVE  InOrder(t)' /\ SendsInOrder(t)'
    <3>1. /\ Desired(t)' = Desired(t)
          /\ Leads(reported[t], reporter.desired) /\ Leads(reporter.desired, Desired(t))
          /\ Leads(reported[t], Desired(t))
      BY Zenon, <1>0, <1>1, <2>4 DEF ShownInOrder, InOrder, SendsInOrder, Sends, Desired
    <3>2. Leads(reporter.desired, reporter.desired)
      BY Zenon DEF Leads
    <3>3. InOrder(t)'
      BY Zenon, <1>1, <2>1, <2>2, <2>4, <3>1 DEF InOrder
    <3>4. SendsInOrder(t)'
      BY Zenon, <1>1, <2>1, <2>2, <2>4, <3>1, <3>2 DEF SendsInOrder
    <3>. QED
      BY Zenon, <3>3, <3>4
  <2>. QED
    BY Zenon, <1>1, <1>5, <2>3, <2>4 DEF ShownInOrder
<1>. QED
  BY Zenon, <1>0, <1>3, <1>4, <1>5 DEF Send

\* A request that GitHub processes late concerns a run that is excepted.
LEMMA DelayedInOrder ==
  ASSUME CheckInv, ShownInOrder, DelayedRequestArrives
  PROVE  ShownInOrder'
<1>1. PICK d \in Trigger : d = delayed.trigger /\ d \in overtaken
  BY Zenon DEF CheckInv, CheckTypeOK, DelayedRequestArrives
<1>2. /\ delayed \in Request /\ delayed.id <= Len(github[d])
      /\ github \in [Trigger -> Seq(Shows)] /\ github' = Processed(delayed)
      /\ UNCHANGED <<runStatus, reported, reporter, overtaken>>
  BY Zenon, <1>1 DEF CheckInv, CheckTypeOK, KnownChecksExist, DelayedRequestArrives
<1>3. \A u \in Trigger \ {d} : github'[u] = github[u]
  BY Zenon, <1>1, <1>2, GitHubProcesses
<1>4. ASSUME NEW u \in Trigger \ overtaken
      PROVE  InOrder(u)' /\ SendsInOrder(u)'
  <2>1. InOrder(u) /\ SendsInOrder(u) /\ Desired(u)' = Desired(u) /\ github'[u] = github[u]
    BY Zenon, <1>1, <1>2, <1>3 DEF ShownInOrder, Desired
  <2>. QED
    BY Zenon, <1>2, <2>1 DEF InOrder, SendsInOrder, Sends
<1>. QED
  BY Zenon, <1>2, <1>4 DEF ShownInOrder

\* The worker records what it has sent, which GitHub shows.
LEMMA CompleteInOrder ==
  ASSUME CheckInv, ShownInOrder, NEW t \in Trigger,
         reporter.pc = "answered", reporter.trigger = t, reporter' = Waiting,
         reported' = [reported EXCEPT ![t] = Record],
         UNCHANGED <<runStatus, github, overtaken>>
  PROVE  ShownInOrder'
<1>1. reporter.desired \in Shows /\ ~Sends' /\ Sends
  BY Zenon DEF CheckInv, CheckTypeOK, Request, Waiting, Sends
<1>2. /\ reported' \in [Trigger -> Shows] /\ reported'[t] = reporter.desired
      /\ \A u \in Trigger \ {t} : reported'[u] = reported[u]
  BY Zenon, <1>1 DEF ShownInOrder, Record
<1>3. Leads(reporter.desired, reporter.desired)
  BY Zenon DEF Leads
<1>4. ASSUME NEW u \in Trigger \ overtaken
      PROVE  InOrder(u)' /\ SendsInOrder(u)'
  <2>1. InOrder(u) /\ SendsInOrder(u) /\ Desired(u)' = Desired(u)
    BY Zenon DEF ShownInOrder, Desired
  <2>2. CASE u = t
    BY Zenon, <1>1, <1>2, <1>3, <2>1, <2>2 DEF InOrder, SendsInOrder
  <2>3. CASE u # t
    BY Zenon, <1>1, <1>2, <2>1, <2>3 DEF InOrder, SendsInOrder
  <2>. QED
    BY Zenon, <2>2, <2>3
<1>. QED
  BY Zenon, <1>2, <1>4 DEF ShownInOrder

\* A step that leaves the run, GitHub, the record and the worker alone.
LEMMA StillInOrder ==
  ASSUME ShownInOrder, UNCHANGED <<runStatus, reported, github, overtaken, reporter>>
  PROVE  ShownInOrder'
<1>1. \A t \in Trigger : Desired(t)' = Desired(t)
  BY Zenon DEF Desired
<1>2. Sends' = Sends
  BY Zenon DEF Sends
<1>3. \A t \in Trigger : InOrder(t) => InOrder(t)'
  BY Zenon, <1>1 DEF InOrder
<1>4. \A t \in Trigger : SendsInOrder(t) => SendsInOrder(t)'
  BY Zenon, <1>1, <1>2 DEF SendsInOrder
<1>. QED
  BY Zenon, <1>3, <1>4 DEF ShownInOrder

\* Everything else the worker does.
LEMMA ReporterInOrder ==
  ASSUME CheckInv, ShownInOrder,
         \/ Find \/ ReporterCrashes
         \/ \E t \in Trigger : \/ ClaimSCMCheck(t) \/ Complete(t) \/ Fail(t)
                              \/ CheckClaimExpires(t)
  PROVE  ShownInOrder'
<1>1. reporter' = Waiting => ~Sends'
  <2>1. Waiting.pc = "waiting"
    BY Zenon DEF Waiting
  <2>. QED
    BY Zenon, <2>1 DEF Sends
<1>2. CASE Find
  <2>1. /\ reporter.pc = "claimed" /\ reporter \in Request
        /\ UNCHANGED <<runStatus, reported, github, overtaken>>
        /\ \/ reporter' = [reporter EXCEPT !.pc = "found", !.id = FindCheck]
           \/ reporter' = [reporter EXCEPT !.pc = "failed"]
    BY Zenon, <1>2 DEF Find, ReporterAt, CheckInv, CheckTypeOK
  <2>2. /\ reporter'.pc # "answered" /\ Sends
        /\ reporter'.trigger = reporter.trigger /\ reporter'.desired = reporter.desired
    BY Zenon, <2>1 DEF Sends, Request
  <2>. QED
    BY Zenon, <2>1, <2>2, WorkerInOrder
<1>3. ASSUME NEW t \in Trigger, ClaimSCMCheck(t)  PROVE ShownInOrder'
  <2>1. /\ reporter' = [pc |-> "claimed", trigger |-> t, desired |-> Desired(t), id |-> checkID[t]]
        /\ UNCHANGED <<runStatus, reported, github, overtaken>>
    BY Zenon, <1>3 DEF ClaimSCMCheck
  <2>2. reporter'.pc # "answered" /\ reporter'.trigger = t /\ reporter'.desired = Desired(t)
    BY Zenon, <2>1
  <2>. QED
    BY Zenon, <2>1, <2>2, WorkerInOrder
<1>4. ASSUME NEW t \in Trigger, Complete(t)  PROVE ShownInOrder'
  <2>1. /\ reporter.pc = "answered" /\ reporter.trigger = t /\ reporter' = Waiting
        /\ UNCHANGED <<runStatus, github, overtaken>>
        /\ reported' = [reported EXCEPT ![t] = Record] \/ UNCHANGED reported
    BY Zenon, <1>4 DEF Complete
  <2>. QED
    BY Zenon, <1>1, <2>1, CompleteInOrder, WorkerInOrder
<1>5. CASE ReporterCrashes \/ \E t \in Trigger : Fail(t)
  <2>1. reporter' = Waiting /\ UNCHANGED <<runStatus, reported, github, overtaken>>
    BY Zenon, <1>5 DEF ReporterCrashes, Fail
  <2>. QED
    BY Zenon, <1>1, <2>1, WorkerInOrder
<1>6. ASSUME NEW t \in Trigger, CheckClaimExpires(t)  PROVE ShownInOrder'
  BY Zenon, <1>6, StillInOrder DEF CheckClaimExpires
<1>. QED
  BY Zenon, <1>2, <1>3, <1>4, <1>5, <1>6

\* The worker leaves a check alone only while GitHub shows the run as it is,
\* unless GitHub processed a request late.
THEOREM ChecksLeftAloneAreRight == CheckSpec => []LeftAloneIsRight
<1>1. CheckInit => ShownInOrder
  <2>. SUFFICES ASSUME CheckInit PROVE ShownInOrder
    BY Zenon
  <2>1. \A t \in Trigger : DOMAIN github[t] = {} /\ reported[t] = "none"
    BY DEF CheckInit
  <2>2. ~Sends /\ reported \in [Trigger -> Shows]
    BY Zenon DEF CheckInit, Sends, Waiting, Shows
  <2>. QED
    BY Zenon, <2>1, <2>2 DEF ShownInOrder, InOrder, SendsInOrder, Leads
<1>2. CheckInv /\ ShownInOrder /\ [CheckNext]_checkVars => ShownInOrder'
  <2>. SUFFICES ASSUME CheckInv, ShownInOrder, [CheckNext]_checkVars PROVE ShownInOrder'
    BY Zenon
  <2>1. CASE UNCHANGED checkVars
    BY Zenon, <2>1, StillInOrder DEF checkVars
  <2>. QED
    BY Zenon, <2>1, RunMovesInOrder, ReporterInOrder, SendInOrder, DelayedInOrder
       DEF CheckNext, Reconcile
<1>3. CheckInv /\ ShownInOrder => LeftAloneIsRight
  <2>. SUFFICES ASSUME CheckInv, ShownInOrder, NEW t \in Trigger \ overtaken,
                       checkID[t] # 0, reported[t] = Desired(t)
                PROVE  github[t][checkID[t]] = Desired(t)
    BY Zenon DEF LeftAloneIsRight
  <2>1. checkID[t] \in DOMAIN github[t] /\ github[t][checkID[t]] \in Shows
    BY DEF CheckInv, CheckTypeOK, KnownChecksExist
  <2>2. Leads(reported[t], github[t][checkID[t]]) /\ Leads(github[t][checkID[t]], Desired(t))
    BY Zenon, <2>1 DEF ShownInOrder, InOrder
  <2>3. reported[t] \in Shows
    BY Zenon DEF ShownInOrder
  <2>. QED
    BY Zenon, <2>1, <2>2, <2>3, LeadsOn
<1>. QED
  BY <1>1, <1>2, <1>3, CheckInvariance, CheckInvInit, PTL DEF CheckSpec

-----------------------------------------------------------------------------
(***************************************************************************)
(* The three together.                                                     *)
(***************************************************************************)
\* A step of one part is a step of it alone, and none of the others.
LEMMA StepsOfParts ==
  ASSUME [Next]_partVars
  PROVE  /\ [DeliveryNext]_deliveryVars
         /\ [CompilerNext]_compilerVars
         /\ [CheckNext]_checkVars
BY Zenon DEF Next, Compile, Deliver, Check, partVars

\* The parts have their properties together: neither the runs that deliveries
\* create nor the order of their jobs disturbs the checks, nor the other way
\* round.
THEOREM PartsKeepTheirPromises ==
  Spec => []( /\ OnlyTheNewestIsAlive /\ UnheardIsPursued /\ RetriesAreBounded
              /\ OrderIsTopological /\ RefusalIsExact
              /\ OneCheckPerRun /\ LeftAloneIsRight )
<1>1. Init => DeliveryInit /\ CompilerInit /\ CheckInit
  BY Zenon DEF Init
<1>2. Spec => DeliverySpec
  BY <1>1, StepsOfParts, PTL DEF Spec, DeliverySpec
<1>3. Spec => CompilerSpec
  BY <1>1, StepsOfParts, PTL DEF Spec, CompilerSpec
<1>4. Spec => CheckSpec
  BY <1>1, StepsOfParts, PTL DEF Spec, CheckSpec
<1> QED
  BY <1>2, <1>3, <1>4, NewestIsAlive, UnheardRunsArePursued, AttemptsAreBounded,
     CompileOrdersTopologically, CompileRefusesExactly, RunHasOneCheck, ChecksLeftAloneAreRight, PTL
=============================================================================
