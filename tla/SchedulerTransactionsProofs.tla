--------------------- MODULE SchedulerTransactionsProofs ---------------------
(***************************************************************************)
(* The transactions of one run, interleaved statement by statement, keep   *)
(* every runner within its capacity and commit only transitions of the job *)
(* lifecycle: for any number of jobs, runners and overlapping claims, and  *)
(* any dependency graph.                                                   *)
(***************************************************************************)
EXTENDS SchedulerTransactions, TLAPS, FiniteSetTheorems

-----------------------------------------------------------------------------
(***************************************************************************)
(* The inductive invariant.                                                *)
(***************************************************************************)
Statement == {"idle", "select", "lock", "update", "report", "sweep", "cancel",
              "block", "count", "commit"}
Row == Runner \cup Job \cup {ThisRun}

TypeOK ==
  /\ runStatus \in RunStatus /\ cancelRequested \in BOOLEAN
  /\ jobStatus \in [Job -> JobStatus]
  /\ owner \in [Job -> Runner \cup {NoRunner}]
  /\ expired \in SUBSET Job
  /\ pc \in [Tx -> Statement]
  /\ locks \in [Tx -> SUBSET Row]
  /\ write \in [Tx -> [Job -> JobTerminal \cup {"none"}]]
  /\ todo \in [Tx -> SUBSET Job]
  /\ verdict \in [Tx -> RunTerminal \cup {"NONE"}]
  /\ runner \in [Tx -> Runner \cup {NoRunner}]

\* No row is locked twice.
LocksExclude ==
  \A t, u \in Tx : t # u => locks[t] \cap locks[u] = {}

\* A transaction has locked what it has written, the row is as the write
\* found it, and the write is a transition of the job lifecycle.
LegalWrite(t, j) ==
  /\ j \in locks[t]
  /\ \/ jobStatus[j] = "RUNNING" /\ write[t][j] \in Reportable \cup {"ABORTED"}
     \/ jobStatus[j] = "PENDING" /\ write[t][j] = "CANCELED"
     \/ /\ jobStatus[j] = "PENDING" /\ write[t][j] = "BLOCKED"
        /\ \E d \in Needs[j] : Sees(t)[d] \in JobDidNotPass
  /\ write[t][j] = "ABORTED" => j \in expired

WritesAreLegal(t) == \A j \in Job : write[t][j] # "none" => LegalWrite(t, j)

\* Dependents are blocked last.
BlocksLast(t) ==
  pc[t] \notin {"count", "commit"} => \A j \in Job : write[t][j] # "BLOCKED"

\* A claim keeps its runner's row, which keeps the room it found there.
ClaimHasRoom(t) ==
  pc[t] \in {"select", "lock", "update"} =>
    /\ runner[t] \in Runner /\ runner[t] \in locks[t]
    /\ RunningOn(runner[t]) < Capacity[runner[t]]

\* What the sub-select on the predecessors found stays true, ...
CandidatesAreReady(t) ==
  pc[t] \in {"lock", "update"} =>
    \A j \in todo[t] : \A d \in Needs[j] : jobStatus[d] = "PASSED"

\* ... and so does what was checked of the locked rows.
ClaimIsOpen(t) ==
  pc[t] = "update" =>
    /\ ThisRun \in locks[t]
    /\ runStatus \in RunActive /\ ~cancelRequested
    /\ \A j \in todo[t] : j \in locks[t] /\ jobStatus[j] = "PENDING"

\* Cancellation has the run locked all the time.
CancelerLocksRun(t) == t = Canceler /\ pc[t] # "idle" => ThisRun \in locks[t]

\* A verdict is the outcome of jobs that have all ended.
VerdictIsFinal(t) ==
  pc[t] = "commit" /\ verdict[t] # "NONE" =>
    /\ \A j \in Job : Sees(t)[j] \in JobTerminal
    /\ \E cancel \in BOOLEAN : verdict[t] = Outcome(Sees(t), cancel, ThisRun)

InOrder(t) ==
  /\ WritesAreLegal(t) /\ BlocksLast(t)
  /\ ClaimHasRoom(t)
  /\ CandidatesAreReady(t)
  /\ ClaimIsOpen(t)
  /\ CancelerLocksRun(t)
  /\ VerdictIsFinal(t)

TxInv ==
  /\ TypeOK
  /\ LocksExclude
  /\ RunnerCapacity
  /\ \A t \in Tx : InOrder(t)

-----------------------------------------------------------------------------
(***************************************************************************)
(* Statements, which change one transaction and nothing that is committed. *)
(***************************************************************************)

\* Only transaction t makes a step.
Alone(t) ==
  \A u \in Tx \ {t} :
    /\ pc'[u] = pc[u] /\ locks'[u] = locks[u] /\ write'[u] = write[u]
    /\ todo'[u] = todo[u] /\ verdict'[u] = verdict[u] /\ runner'[u] = runner[u]

\* The invariant need only be checked of the transaction that makes the step.
LEMMA StatementKeeps ==
  ASSUME TxInv, UNCHANGED dbVars, NEW t \in Tx, Alone(t), TypeOK', InOrder(t)',
         \A row \in locks'[t] : row \in locks[t] \/ Free(t, row)
  PROVE  TxInv'
<1>1. LocksExclude'
  BY DEF LocksExclude, Alone, Free, TxInv
<1>2. RunnerCapacity'
  BY Zenon DEF TxInv, RunnerCapacity, RunningOn, dbVars
<1>3. ASSUME NEW u \in Tx, u # t PROVE InOrder(u)'
  <2>1. InOrder(u)
    BY Zenon DEF TxInv
  <2>2. /\ pc'[u] = pc[u] /\ locks'[u] = locks[u] /\ write'[u] = write[u]
        /\ todo'[u] = todo[u] /\ verdict'[u] = verdict[u] /\ runner'[u] = runner[u]
    BY Zenon, <1>3 DEF Alone
  <2>3. Sees(u)' = Sees(u)
    BY Zenon, <2>2 DEF Sees, dbVars
  <2>4. WritesAreLegal(u)' /\ BlocksLast(u)'
    BY <2>1, <2>2, <2>3 DEF InOrder, WritesAreLegal, LegalWrite, BlocksLast, dbVars
  <2>5. ClaimHasRoom(u)'
    BY Zenon, <2>1, <2>2 DEF InOrder, ClaimHasRoom, RunningOn, dbVars
  <2>6. CandidatesAreReady(u)' /\ ClaimIsOpen(u)' /\ CancelerLocksRun(u)'
    BY Zenon, <2>1, <2>2 DEF InOrder, CandidatesAreReady, ClaimIsOpen, CancelerLocksRun, dbVars
  <2>7. VerdictIsFinal(u)'
    BY Zenon, <2>1, <2>2, <2>3 DEF InOrder, VerdictIsFinal
  <2> QED
    BY Zenon, <2>4, <2>5, <2>6, <2>7 DEF InOrder
<1> QED
  BY Zenon, <1>1, <1>2, <1>3 DEF TxInv

\* A transaction that ended is in order.
LEMMA EndedIsInOrder ==
  ASSUME TypeOK, NEW t \in Tx, Ends(t)
  PROVE  /\ Alone(t) /\ InOrder(t)'
         /\ pc' \in [Tx -> Statement] /\ locks' \in [Tx -> SUBSET Row]
         /\ write' \in [Tx -> [Job -> JobTerminal \cup {"none"}]] /\ todo' \in [Tx -> SUBSET Job]
         /\ verdict' \in [Tx -> RunTerminal \cup {"NONE"}] /\ runner' \in [Tx -> Runner \cup {NoRunner}]
         /\ locks'[t] = {}
<1>1. /\ pc'[t] = "idle" /\ locks'[t] = {} /\ verdict'[t] = "NONE"
      /\ \A j \in Job : write'[t][j] = "none"
  BY Zenon DEF Ends, TypeOK, NoWrite
<1>2. InOrder(t)'
  BY Zenon, <1>1 DEF InOrder, WritesAreLegal, BlocksLast, ClaimHasRoom, CandidatesAreReady, ClaimIsOpen,
              CancelerLocksRun, VerdictIsFinal
<1>3. Alone(t)
  BY Zenon DEF Ends, TypeOK, Alone
<1>4. /\ pc' \in [Tx -> Statement] /\ locks' \in [Tx -> SUBSET Row]
      /\ write' \in [Tx -> [Job -> JobTerminal \cup {"none"}]] /\ todo' \in [Tx -> SUBSET Job]
      /\ verdict' \in [Tx -> RunTerminal \cup {"NONE"}] /\ runner' \in [Tx -> Runner \cup {NoRunner}]
  BY Zenon DEF Ends, TypeOK, NoWrite, Statement
<1> QED
  BY Zenon, <1>1, <1>2, <1>3, <1>4

\* A transaction that rolls back gives up its locks and its writes.
LEMMA RollbackKeeps ==
  ASSUME TxInv, NEW t \in Tx, Ends(t), UNCHANGED dbVars
  PROVE  TxInv'
<1>1. TypeOK
  BY Zenon DEF TxInv
<1>2. TypeOK'
  BY Zenon, <1>1, EndedIsInOrder DEF TypeOK, dbVars
<1> QED
  BY Zenon, <1>1, <1>2, EndedIsInOrder, StatementKeeps

-----------------------------------------------------------------------------
(***************************************************************************)
(* The statements of a claim.                                              *)
(***************************************************************************)

\* A statement that writes nothing leaves earlier writes legal.
LEMMA ReadKeepsWrites ==
  ASSUME TypeOK, NEW t \in Tx, InOrder(t), UNCHANGED write, UNCHANGED dbVars, NEW rows,
         locks'[t] = locks[t] \cup rows, pc[t] \notin {"count", "commit"} \/ pc'[t] = "commit"
  PROVE  WritesAreLegal(t)' /\ BlocksLast(t)' /\ Sees(t)' = Sees(t)
<1>1. Sees(t)' = Sees(t)
  BY Zenon DEF Sees, dbVars
<1> QED
  BY Zenon, <1>1 DEF InOrder, WritesAreLegal, LegalWrite, BlocksLast, dbVars

\* LeaseJob locks the row of its runner.
LEMMA LockRunnerKeeps ==
  ASSUME TxInv, NEW c \in Claimer, NEW n \in Runner, LockRunner(c, n)
  PROVE  TxInv'
<1>1. c \in Tx /\ c # Canceler /\ TypeOK /\ InOrder(c) /\ UNCHANGED dbVars
  BY Zenon, TransactionsAssumption DEF TxInv, Tx, LockRunner
<1>2. /\ pc' = [pc EXCEPT ![c] = "select"] /\ locks' = [locks EXCEPT ![c] = @ \cup {n}]
      /\ runner' = [runner EXCEPT ![c] = n] /\ UNCHANGED <<write, todo, verdict>>
      /\ pc[c] = "idle" /\ Free(c, n) /\ RunningOn(n) < Capacity[n]
  BY Zenon DEF LockRunner, Goes
<1>3. TypeOK'
  BY Zenon, <1>1, <1>2 DEF TypeOK, Statement, Row, dbVars
<1>4. Alone(c)
  BY Zenon, <1>1, <1>2 DEF TypeOK, Alone
<1>5. pc'[c] = "select" /\ locks'[c] = locks[c] \cup {n} /\ runner'[c] = n
  BY Zenon, <1>1, <1>2 DEF TypeOK
<1>6. WritesAreLegal(c)' /\ BlocksLast(c)'
  BY Zenon, <1>1, <1>2, <1>5, ReadKeepsWrites
<1>7. ClaimHasRoom(c)'
  BY Zenon, <1>1, <1>2, <1>5 DEF ClaimHasRoom, RunningOn, dbVars
<1>8. InOrder(c)'
  BY Zenon, <1>1, <1>5, <1>6, <1>7
     DEF InOrder, CandidatesAreReady, ClaimIsOpen, CancelerLocksRun, VerdictIsFinal
<1> QED
  BY Zenon, <1>1, <1>2, <1>3, <1>4, <1>5, <1>8, StatementKeeps

\* It selects a candidate in a snapshot.
LEMMA SelectSnapshotKeeps ==
  ASSUME TxInv, NEW c \in Claimer, SelectSnapshot(c)
  PROVE  TxInv'
<1>1. c \in Tx /\ c # Canceler /\ TypeOK /\ InOrder(c) /\ UNCHANGED dbVars
  BY Zenon, TransactionsAssumption DEF TxInv, Tx, SelectSnapshot
<1>2. /\ pc' = [pc EXCEPT ![c] = "lock"] /\ locks' = [locks EXCEPT ![c] = @ \cup {}]
      /\ todo' = [todo EXCEPT ![c] = Candidates] /\ UNCHANGED <<write, verdict, runner>>
      /\ pc[c] = "select"
  BY Zenon DEF SelectSnapshot, Goes
<1>3. Candidates \in SUBSET Job /\ \A j \in Candidates : \A d \in Needs[j] : jobStatus[d] = "PASSED"
  BY Zenon DEF Candidates
<1>4. TypeOK'
  BY Zenon, <1>1, <1>2, <1>3 DEF TypeOK, Statement, dbVars
<1>5. Alone(c)
  BY Zenon, <1>1, <1>2 DEF TypeOK, Alone
<1>6. pc'[c] = "lock" /\ locks'[c] = locks[c] /\ todo'[c] = Candidates
  BY Zenon, <1>1, <1>2 DEF TypeOK
<1>7. WritesAreLegal(c)' /\ BlocksLast(c)'
  BY Zenon, <1>1, <1>2, <1>6, ReadKeepsWrites
<1>8. ClaimHasRoom(c)'
  BY Zenon, <1>1, <1>2, <1>6 DEF InOrder, ClaimHasRoom, RunningOn, dbVars
<1>9. CandidatesAreReady(c)'
  BY Zenon, <1>1, <1>3, <1>6 DEF CandidatesAreReady, dbVars
<1>10. InOrder(c)'
  BY Zenon, <1>1, <1>6, <1>7, <1>8, <1>9 DEF InOrder, ClaimIsOpen, CancelerLocksRun, VerdictIsFinal
<1> QED
  BY Zenon, <1>1, <1>4, <1>5, <1>6, <1>10, StatementKeeps

\* It locks the rows of the candidate.
LEMMA LockCandidateKeeps ==
  ASSUME TxInv, NEW c \in Claimer, LockCandidate(c)
  PROVE  TxInv'
<1>1. c \in Tx /\ c # Canceler /\ TypeOK /\ InOrder(c) /\ UNCHANGED dbVars
  BY Zenon, TransactionsAssumption DEF TxInv, Tx, LockCandidate
<1>2. PICK j \in Lockable(c) :
        /\ pc' = [pc EXCEPT ![c] = "update"] /\ locks' = [locks EXCEPT ![c] = @ \cup {ThisRun, j}]
        /\ todo' = [todo EXCEPT ![c] = {j}] /\ UNCHANGED <<write, verdict, runner>>
        /\ pc[c] = "lock"
  BY Zenon DEF LockCandidate, Goes
<1>3. /\ j \in todo[c] /\ j \in Job /\ Free(c, ThisRun) /\ Free(c, j)
      /\ runStatus \in RunActive /\ ~cancelRequested /\ jobStatus[j] = "PENDING"
  BY Zenon, <1>1 DEF Lockable, TypeOK
<1>4. TypeOK'
  BY Zenon, <1>1, <1>2, <1>3 DEF TypeOK, Statement, Row, dbVars
<1>5. Alone(c)
  BY Zenon, <1>1, <1>2 DEF TypeOK, Alone
<1>6. pc'[c] = "update" /\ locks'[c] = locks[c] \cup {ThisRun, j} /\ todo'[c] = {j}
  BY Zenon, <1>1, <1>2 DEF TypeOK
<1>7. WritesAreLegal(c)' /\ BlocksLast(c)'
  BY Zenon, <1>1, <1>2, <1>6, ReadKeepsWrites
<1>8. ClaimHasRoom(c)'
  BY Zenon, <1>1, <1>2, <1>6 DEF InOrder, ClaimHasRoom, RunningOn, dbVars
<1>9. CandidatesAreReady(c)' /\ ClaimIsOpen(c)'
  BY Zenon, <1>1, <1>2, <1>3, <1>6 DEF InOrder, CandidatesAreReady, ClaimIsOpen, dbVars
<1>10. InOrder(c)'
  BY Zenon, <1>1, <1>6, <1>7, <1>8, <1>9 DEF InOrder, CancelerLocksRun, VerdictIsFinal
<1> QED
  BY Zenon, <1>1, <1>3, <1>4, <1>5, <1>6, <1>10, StatementKeeps

-----------------------------------------------------------------------------
(***************************************************************************)
(* The statements that write.                                              *)
(***************************************************************************)

\* The jobs that blockDependents blocks are PENDING, and each has a
\* predecessor that did not pass or is blocked with it.
LEMMA BlockedFacts ==
  ASSUME NEW js, NEW R
  PROVE  \A j \in Blocked(js, R) :
           /\ j \in Job /\ js[j] = "PENDING"
           /\ \E d \in Needs[j] : js[d] \in JobDidNotPass \/ d \in Blocked(js, R)
<1> DEFINE B == Blocked(js, R)
<1>1. BlockClosed(js, R, B)
  <2> SUFFICES ASSUME NEW j \in Job, RunOf[j] \in R, js[j] = "PENDING",
                      NEW d \in Needs[j], js[d] \in JobDidNotPass \/ d \in B,
                      NEW C \in SUBSET Job, BlockClosed(js, R, C)
               PROVE  j \in C
    BY Zenon DEF BlockClosed, Blocked
  <2>1. d \in B => d \in C
    BY Zenon DEF Blocked
  <2> QED
    BY Zenon, <2>1 DEF BlockClosed
<1>2. ASSUME NEW j \in B, \A d \in Needs[j] : js[d] \notin JobDidNotPass /\ d \notin B
      PROVE  FALSE
  <2>1. BlockClosed(js, R, B \ {j}) /\ B \ {j} \in SUBSET Job
    BY Zenon, <1>1, <1>2 DEF BlockClosed, Blocked
  <2> QED
    BY Zenon, <2>1 DEF Blocked
<1> QED
  BY Zenon, <1>2 DEF Blocked

\* Transaction t, which writes to the rows S, may write status to the row of j.
MayWrite(t, S, j, status) ==
  \/ jobStatus[j] = "RUNNING" /\ status \in Reportable
  \/ jobStatus[j] = "RUNNING" /\ status = "ABORTED" /\ j \in expired
  \/ jobStatus[j] = "PENDING" /\ status = "CANCELED"
  \/ /\ jobStatus[j] = "PENDING" /\ status = "BLOCKED"
     /\ \E d \in Needs[j] : Sees(t)[d] \in JobDidNotPass \/ d \in S

\* A transaction that locks the rows S, which are free, and writes to them what
\* it may, stays in order.
LEMMA WriteKeeps ==
  ASSUME TxInv, UNCHANGED dbVars, NEW t \in Tx, NEW S \in SUBSET Job, NEW status \in JobTerminal,
         NEW next \in {"sweep", "block", "count"}, Writes(t, S, status, next),
         todo' \in [Tx -> SUBSET Job], \A u \in Tx \ {t} : todo'[u] = todo[u],
         \A j \in S : Free(t, j),
         \A j \in S : MayWrite(t, S, j, status),
         pc[t] \notin {"idle", "count", "commit"}, status = "BLOCKED" => next = "count"
  PROVE  TxInv'
<1>1. TypeOK /\ InOrder(t)
  BY Zenon DEF TxInv
<1>2. /\ pc' = [pc EXCEPT ![t] = next] /\ locks' = [locks EXCEPT ![t] = @ \cup S]
      /\ write' = [write EXCEPT ![t] = [j \in Job |-> IF j \in S THEN status ELSE write[t][j]]]
      /\ UNCHANGED <<verdict, runner>>
  BY Zenon DEF Writes, Goes
<1>3. TypeOK'
  <2>1. write' \in [Tx -> [Job -> JobTerminal \cup {"none"}]]
    BY Zenon, <1>1, <1>2 DEF TypeOK
  <2> QED
    BY Zenon, <1>1, <1>2, <2>1 DEF TypeOK, Statement, Row, dbVars
<1>4. Alone(t)
  BY Zenon, <1>1, <1>2 DEF TypeOK, Alone
<1>5. /\ pc'[t] = next /\ locks'[t] = locks[t] \cup S
      /\ \A j \in Job : write'[t][j] = IF j \in S THEN status ELSE write[t][j]
  BY Zenon, <1>1, <1>2 DEF TypeOK
<1>6. WritesAreLegal(t)'
  <2> SUFFICES ASSUME NEW j \in Job, write'[t][j] # "none"
               PROVE  LegalWrite(t, j)'
    BY Zenon DEF WritesAreLegal
  <2>1. CASE j \notin S
    <3>1. LegalWrite(t, j) /\ write'[t][j] = write[t][j] /\ write[t][j] # "BLOCKED"
      BY Zenon, <1>1, <1>5, <2>1 DEF InOrder, WritesAreLegal, BlocksLast
    <3> QED
      BY Zenon, <1>5, <3>1 DEF LegalWrite, dbVars
  <2>2. CASE j \in S /\ status # "BLOCKED"
    BY Zenon, <1>5, <2>2 DEF LegalWrite, MayWrite, dbVars, Reportable
  <2>3. CASE j \in S /\ status = "BLOCKED"
    <3>1. jobStatus[j] = "PENDING" /\ j \in locks'[t] /\ write'[t][j] = "BLOCKED"
      BY Zenon, <1>5, <2>3 DEF MayWrite, Reportable
    <3>2. PICK d \in Needs[j] : Sees(t)[d] \in JobDidNotPass \/ d \in S
      BY Zenon, <2>3 DEF MayWrite, Reportable
    <3>3. d \in Job
      BY Zenon, GraphAssumption
    <3>4. Sees(t)'[d] \in JobDidNotPass
      BY Zenon, <1>5, <2>3, <3>2, <3>3 DEF Sees, dbVars, JobDidNotPass
    <3> QED
      BY Zenon, <3>1, <3>4 DEF LegalWrite, dbVars
  <2> QED
    BY Zenon, <2>1, <2>2, <2>3
<1>7. BlocksLast(t)'
  BY Zenon, <1>1, <1>5 DEF InOrder, BlocksLast
<1>8. InOrder(t)'
  BY Zenon, <1>1, <1>5, <1>6, <1>7
     DEF InOrder, ClaimHasRoom, CandidatesAreReady, ClaimIsOpen, CancelerLocksRun, VerdictIsFinal
<1> QED
  BY Zenon, <1>3, <1>4, <1>5, <1>8, StatementKeeps

\* The dependents of a job that failed become BLOCKED.
LEMMA BlockDependentsKeeps ==
  ASSUME TxInv, NEW t \in Tx, BlockDependents(t)
  PROVE  TxInv'
<1> DEFINE B == Blocked(Sees(t), Run)
<1>1. TypeOK
  BY Zenon DEF TxInv
<1>2. /\ pc[t] = "block" /\ \A j \in B : Free(t, j)
      /\ Writes(t, B, "BLOCKED", "count") /\ UNCHANGED <<dbVars, todo>>
  BY Zenon DEF BlockDependents
<1>3. \A j \in B : /\ j \in Job /\ Sees(t)[j] = "PENDING"
                   /\ \E d \in Needs[j] : Sees(t)[d] \in JobDidNotPass \/ d \in B
  BY BlockedFacts, Zenon
<1> HIDE DEF B
<1>4. \A j \in B : jobStatus[j] = "PENDING"
  BY Zenon, <1>1, <1>3 DEF Sees, TypeOK, JobTerminal, JobDidNotPass
<1>5. B \in SUBSET Job /\ todo' \in [Tx -> SUBSET Job] /\ \A u \in Tx \ {t} : todo'[u] = todo[u]
  BY Zenon, <1>1, <1>2, <1>3 DEF TypeOK
<1>6. "BLOCKED" \in JobTerminal
  BY Zenon DEF JobTerminal, JobDidNotPass
<1>7. \A j \in B : MayWrite(t, B, j, "BLOCKED")
  BY Zenon, <1>3, <1>4 DEF MayWrite
<1> QED
  BY Zenon, <1>2, <1>5, <1>6, <1>7, WriteKeeps

\* A report ends a job that is RUNNING.
LEMMA ReportJobKeeps ==
  ASSUME TxInv, NEW j \in Job, NEW status \in Report, ReportJob(j, status)
  PROVE  TxInv'
<1>1. TypeOK /\ j \in Tx /\ status \in Reportable /\ status \in JobTerminal
  BY Zenon, TransactionsAssumption DEF TxInv, Tx, Reportable, JobTerminal, JobDidNotPass
<1>2. CASE Ends(j)
  BY Zenon, <1>1, <1>2, RollbackKeeps DEF ReportJob
<1>3. CASE ~Ends(j)
  <2>1. PICK next \in {"sweep", "block", "count"} : Writes(j, {j}, status, next)
    BY Zenon, <1>3 DEF ReportJob
  <2>2. pc[j] = "report" /\ Free(j, j) /\ jobStatus[j] = "RUNNING" /\ UNCHANGED <<dbVars, todo>>
    BY Zenon, <1>3 DEF ReportJob
  <2>3. todo' \in [Tx -> SUBSET Job] /\ \A u \in Tx \ {j} : todo'[u] = todo[u]
    BY Zenon, <1>1, <2>2 DEF TypeOK
  <2>4. status # "BLOCKED"
    BY Zenon, <1>1 DEF Reportable
  <2>5. {j} \in SUBSET Job /\ \A k \in {j} : Free(j, k) /\ MayWrite(j, {j}, k, status)
    BY Zenon, <1>1, <2>2 DEF MayWrite
  <2> QED
    BY Zenon, <1>1, <2>1, <2>2, <2>3, <2>4, <2>5, WriteKeeps
<1> QED
  BY Zenon, <1>2, <1>3

\* The sweep aborts a job whose lease is still expired, and passes over others.
LEMMA AbortRowKeeps ==
  ASSUME TxInv, NEW j \in Job, AbortRow(j)
  PROVE  TxInv'
<1> DEFINE S == {k \in {j} : StillExpired(k)}
<1>1. TypeOK /\ Sweeper \in Tx /\ "ABORTED" \in JobTerminal
  BY Zenon DEF TxInv, Tx, JobTerminal, JobDidNotPass
<1>2. /\ pc[Sweeper] = "sweep" /\ Free(Sweeper, j) /\ Writes(Sweeper, S, "ABORTED", "sweep")
      /\ todo' = [todo EXCEPT ![Sweeper] = @ \ {j}] /\ UNCHANGED dbVars
  BY Zenon DEF AbortRow
<1>3. S \in SUBSET Job /\ \A k \in S : k = j /\ MayWrite(Sweeper, S, k, "ABORTED")
  BY Zenon DEF StillExpired, MayWrite
<1>4. todo' \in [Tx -> SUBSET Job] /\ \A u \in Tx \ {Sweeper} : todo'[u] = todo[u]
  BY Zenon, <1>1, <1>2 DEF TypeOK
<1> HIDE DEF S
<1> QED
  BY Zenon, <1>1, <1>2, <1>3, <1>4, WriteKeeps

\* Cancellation ends the jobs that are PENDING.
LEMMA CancelPendingKeeps ==
  ASSUME TxInv, CancelPending
  PROVE  TxInv'
<1> DEFINE S == {j \in Job : jobStatus[j] = "PENDING"}
<1>1. TypeOK /\ Canceler \in Tx /\ "CANCELED" \in JobTerminal
  BY Zenon DEF TxInv, Tx, JobTerminal, JobDidNotPass
<1>2. /\ pc[Canceler] = "cancel" /\ \A j \in S : Free(Canceler, j)
      /\ Writes(Canceler, S, "CANCELED", "count") /\ UNCHANGED <<dbVars, todo>>
  BY Zenon DEF CancelPending
<1>3. S \in SUBSET Job /\ \A j \in S : MayWrite(Canceler, S, j, "CANCELED")
  BY Zenon DEF MayWrite
<1>4. todo' \in [Tx -> SUBSET Job] /\ \A u \in Tx \ {Canceler} : todo'[u] = todo[u]
  BY Zenon, <1>1, <1>2 DEF TypeOK
<1> HIDE DEF S
<1> QED
  BY Zenon, <1>1, <1>2, <1>3, <1>4, WriteKeeps

-----------------------------------------------------------------------------
(***************************************************************************)
(* The other statements of a report, the sweeper and a cancellation.       *)
(***************************************************************************)

\* A statement that only locks, or finds rows to visit.
LEMMA ReadKeeps ==
  ASSUME TxInv, UNCHANGED <<dbVars, write, verdict, runner>>, NEW t \in Tx,
         NEW next \in {"report", "sweep", "block", "cancel"}, NEW rows \in SUBSET Row,
         Goes(t, next, rows), \A row \in rows : Free(t, row),
         todo' \in [Tx -> SUBSET Job], \A u \in Tx \ {t} : todo'[u] = todo[u],
         pc[t] \notin {"count", "commit"},
         t = Canceler => ThisRun \in locks'[t]
  PROVE  TxInv'
<1>1. TypeOK /\ InOrder(t) /\ UNCHANGED dbVars
  BY Zenon DEF TxInv
<1>2. pc' = [pc EXCEPT ![t] = next] /\ locks' = [locks EXCEPT ![t] = @ \cup rows]
  BY Zenon DEF Goes
<1>3. TypeOK'
  BY Zenon, <1>1, <1>2 DEF TypeOK, Statement, dbVars
<1>4. Alone(t)
  BY Zenon, <1>1, <1>2 DEF TypeOK, Alone
<1>5. pc'[t] = next /\ locks'[t] = locks[t] \cup rows
  BY Zenon, <1>1, <1>2 DEF TypeOK
<1>6. WritesAreLegal(t)' /\ BlocksLast(t)'
  BY Zenon, <1>1, <1>5, ReadKeepsWrites
<1>7. InOrder(t)'
  BY Zenon, <1>5, <1>6 DEF InOrder, ClaimHasRoom, CandidatesAreReady, ClaimIsOpen, CancelerLocksRun,
                    VerdictIsFinal
<1> QED
  BY Zenon, <1>1, <1>3, <1>4, <1>5, <1>7, StatementKeeps

\* Cancellation and reports lock the row of the run.
LEMMA LockRunKeeps ==
  ASSUME TxInv, LockRunForCancel \/ \E j \in Job : LockRunForReport(j)
  PROVE  TxInv'
<1>1. PICK t \in Tx, next \in {"report", "cancel"} :
        /\ pc[t] = "idle" /\ Free(t, ThisRun) /\ Goes(t, next, {ThisRun})
        /\ UNCHANGED <<dbVars, write, todo, verdict, runner>>
  BY Zenon DEF LockRunForCancel, LockRunForReport, Tx
<1>2. {ThisRun} \in SUBSET Row /\ TypeOK
  BY Zenon DEF Row, TxInv
<1>3. todo' \in [Tx -> SUBSET Job] /\ ThisRun \in locks'[t]
  BY Zenon, <1>1, <1>2 DEF TypeOK, Goes
<1> QED
  BY Zenon, <1>1, <1>2, <1>3, ReadKeeps

\* The sweep finds the expired leases, and goes on when it is through with them.
LEMMA SweepKeeps ==
  ASSUME TxInv, FindExpired \/ SweepDone
  PROVE  TxInv'
<1>1. TypeOK /\ Sweeper \in Tx /\ Sweeper # Canceler /\ {} \in SUBSET Row
  BY Zenon, TransactionsAssumption DEF TxInv, Tx
<1>2. CASE FindExpired
  <2>1. /\ pc[Sweeper] = "idle" /\ Goes(Sweeper, "sweep", {})
        /\ UNCHANGED <<dbVars, write, verdict, runner>>
        /\ todo' = [todo EXCEPT ![Sweeper] = {j \in Job : jobStatus[j] = "RUNNING" /\ j \in expired}]
    BY Zenon, <1>2 DEF FindExpired
  <2>2. todo' \in [Tx -> SUBSET Job] /\ \A u \in Tx \ {Sweeper} : todo'[u] = todo[u]
    BY Zenon, <1>1, <2>1 DEF TypeOK
  <2> QED
    BY Zenon, <1>1, <2>1, <2>2, ReadKeeps
<1>3. CASE SweepDone /\ Ends(Sweeper)
  BY Zenon, <1>1, <1>3, RollbackKeeps DEF SweepDone
<1>4. CASE SweepDone /\ ~Ends(Sweeper)
  <2>1. /\ pc[Sweeper] = "sweep" /\ Goes(Sweeper, "block", {})
        /\ UNCHANGED <<dbVars, write, todo, verdict, runner>>
    BY Zenon, <1>4 DEF SweepDone
  <2>2. todo' \in [Tx -> SUBSET Job]
    BY Zenon, <1>1, <2>1 DEF TypeOK
  <2> QED
    BY Zenon, <1>1, <2>1, <2>2, ReadKeeps
<1> QED
  BY Zenon, <1>2, <1>3, <1>4

\* The verdict that finalizeRun computes from what the transaction sees.
LEMMA CountUnfinishedKeeps ==
  ASSUME TxInv, NEW t \in Tx, CountUnfinished(t)
  PROVE  TxInv'
<1>1. TypeOK /\ InOrder(t) /\ UNCHANGED dbVars
  BY Zenon DEF TxInv, CountUnfinished
<1> DEFINE cancel == cancelRequested \/ t = Canceler
<1>2. /\ pc[t] = "count" /\ pc' = [pc EXCEPT ![t] = "commit"]
      /\ locks' = [locks EXCEPT ![t] = @ \cup {}]
      /\ verdict' = [verdict EXCEPT ![t] =
                       IF \E j \in Job : Sees(t)[j] \in JobUnfinished THEN "NONE"
                       ELSE Outcome(Sees(t), cancel, ThisRun)]
      /\ UNCHANGED <<write, todo, runner>>
  BY Zenon DEF CountUnfinished, Goes
<1>3. Outcome(Sees(t), cancel, ThisRun) \in RunTerminal
  BY Zenon DEF Outcome, RunTerminal
<1>4. cancel \in BOOLEAN
  BY Zenon, <1>1 DEF TypeOK
<1> HIDE DEF cancel
<1>5. TypeOK'
  BY Zenon, <1>1, <1>2, <1>3 DEF TypeOK, Statement, dbVars
<1>6. Alone(t)
  BY Zenon, <1>1, <1>2 DEF TypeOK, Alone
<1>7. pc'[t] = "commit" /\ locks'[t] = locks[t]
  BY Zenon, <1>1, <1>2 DEF TypeOK
<1>8. WritesAreLegal(t)' /\ BlocksLast(t)' /\ Sees(t)' = Sees(t)
  BY Zenon, <1>1, <1>2, <1>7, ReadKeepsWrites
<1>9. VerdictIsFinal(t)'
  <2> SUFFICES ASSUME verdict'[t] # "NONE"
               PROVE  /\ \A j \in Job : Sees(t)[j] \in JobTerminal
                      /\ verdict'[t] = Outcome(Sees(t), cancel, ThisRun)
    BY Zenon, <1>4, <1>8 DEF VerdictIsFinal
  <2>1. \A j \in Job : Sees(t)[j] \in JobStatus
    BY <1>1 DEF Sees, TypeOK, JobStatus
  <2> QED
    BY Zenon, <1>1, <1>2, <2>1 DEF TypeOK, JobStatus
<1>10. InOrder(t)'
  BY Zenon, <1>1, <1>2, <1>7, <1>8, <1>9
     DEF InOrder, ClaimHasRoom, CandidatesAreReady, ClaimIsOpen, CancelerLocksRun
<1> QED
  BY Zenon, <1>1, <1>5, <1>6, <1>7, <1>10, StatementKeeps

-----------------------------------------------------------------------------
(***************************************************************************)
(* Commits.  What one transaction commits leaves the others in order,      *)
(* because of the locks they hold.                                         *)
(***************************************************************************)

\* A step that spares the rows that transaction u has locked, what has ended,
\* and the room on the runner that u is for.
LEMMA UndisturbedByCommit ==
  ASSUME TxInv, TypeOK', NEW u \in Tx,
         pc'[u] = pc[u] /\ locks'[u] = locks[u] /\ write'[u] = write[u],
         todo'[u] = todo[u] /\ verdict'[u] = verdict[u] /\ runner'[u] = runner[u],
         \A j \in Job : j \in locks[u] \/ jobStatus[j] \in JobTerminal => jobStatus'[j] = jobStatus[j],
         \A j \in Job : j \in locks[u] /\ j \in expired /\ write[u][j] = "ABORTED" => j \in expired',
         ThisRun \in locks[u] => /\ cancelRequested' = cancelRequested
                                 /\ runStatus \in RunActive => runStatus' \in RunActive,
         \A n \in Runner : n \in locks[u] => RunningOn(n)' <= RunningOn(n),
         \A n \in Runner : RunningOn(n) \in Nat /\ RunningOn(n)' \in Nat
  PROVE  InOrder(u)'
<1>1. InOrder(u) /\ TypeOK
  BY Zenon DEF TxInv
<1>2. ASSUME NEW d \in Job, Sees(u)[d] \in JobTerminal
      PROVE  Sees(u)'[d] = Sees(u)[d]
  BY Zenon, <1>2 DEF Sees
<1>3. WritesAreLegal(u)'
  <2> SUFFICES ASSUME NEW j \in Job, write[u][j] # "none"
               PROVE  LegalWrite(u, j)'
    BY Zenon DEF WritesAreLegal
  <2>1. LegalWrite(u, j) /\ j \in locks[u] /\ jobStatus'[j] = jobStatus[j]
    BY Zenon, <1>1 DEF InOrder, WritesAreLegal, LegalWrite
  <2>2. write[u][j] = "ABORTED" => j \in expired'
    BY Zenon, <2>1 DEF LegalWrite
  <2>3. ASSUME NEW d \in Needs[j], Sees(u)[d] \in JobDidNotPass
        PROVE  Sees(u)'[d] \in JobDidNotPass
    BY Zenon, <1>2, <2>3, GraphAssumption DEF JobTerminal
  <2> QED
    BY Zenon, <2>1, <2>2, <2>3 DEF LegalWrite
<1>4. BlocksLast(u)' /\ CancelerLocksRun(u)'
  BY Zenon, <1>1 DEF InOrder, BlocksLast, CancelerLocksRun
<1>5. ClaimHasRoom(u)'
  <2> SUFFICES ASSUME pc[u] \in {"select", "lock", "update"}
               PROVE  /\ runner[u] \in Runner /\ runner[u] \in locks[u]
                      /\ RunningOn(runner[u])' < Capacity[runner[u]]
    BY Zenon DEF ClaimHasRoom
  <2> DEFINE n == runner[u]
  <2>1. n \in Runner /\ n \in locks[u] /\ RunningOn(n) < Capacity[n]
    BY Zenon, <1>1 DEF InOrder, ClaimHasRoom
  <2>2. RunningOn(n)' <= RunningOn(n) /\ Capacity[n] \in Nat
    BY Zenon, <2>1, TransactionsAssumption
  <2>3. RunningOn(n) \in Nat /\ RunningOn(n)' \in Nat
    BY Zenon, <2>1
  <2> QED
    BY <2>1, <2>2, <2>3
<1>6. CandidatesAreReady(u)'
  <2>1. \A d \in Job : jobStatus[d] = "PASSED" => jobStatus'[d] = "PASSED"
    BY Zenon DEF JobTerminal
  <2> QED
    BY <1>1, <2>1, GraphAssumption DEF InOrder, CandidatesAreReady, TypeOK
<1>7. ClaimIsOpen(u)'
  BY Zenon, <1>1 DEF InOrder, ClaimIsOpen, TypeOK
<1>8. VerdictIsFinal(u)'
  <2> SUFFICES ASSUME pc[u] = "commit", verdict[u] # "NONE"
               PROVE  /\ \A j \in Job : Sees(u)'[j] \in JobTerminal
                      /\ \E cancel \in BOOLEAN : verdict[u] = Outcome(Sees(u)', cancel, ThisRun)
    BY Zenon DEF VerdictIsFinal
  <2>1. /\ \A j \in Job : Sees(u)[j] \in JobTerminal
        /\ \E cancel \in BOOLEAN : verdict[u] = Outcome(Sees(u), cancel, ThisRun)
    BY Zenon, <1>1 DEF InOrder, VerdictIsFinal
  <2>2. Sees(u)' = Sees(u)
    BY Zenon, <1>2, <2>1 DEF Sees
  <2> QED
    BY Zenon, <2>1, <2>2
<1> QED
  BY Zenon, <1>3, <1>4, <1>5, <1>6, <1>7, <1>8 DEF InOrder

\* The jobs that run on n, and how many they are.
BusyOn(n) == {j \in Job : jobStatus[j] = "RUNNING" /\ owner[j] = n}

\* How the number of jobs of a runner follows the set of them.
LEMMA FewerOrOneMore ==
  ASSUME NEW n \in Runner
  PROVE  /\ RunningOn(n) \in Nat /\ RunningOn(n)' \in Nat
         /\ BusyOn(n)' \subseteq BusyOn(n) => RunningOn(n)' <= RunningOn(n)
         /\ \A j \in Job : BusyOn(n)' = BusyOn(n) \cup {j} => RunningOn(n)' <= RunningOn(n) + 1
<1>1. RunningOn(n) = Cardinality(BusyOn(n)) /\ RunningOn(n)' = Cardinality(BusyOn(n)')
  BY Zenon DEF RunningOn, BusyOn
<1>2. IsFiniteSet(BusyOn(n)) /\ IsFiniteSet(BusyOn(n)')
  BY GraphAssumption, FS_Subset, Zenon DEF BusyOn
<1>3. Cardinality(BusyOn(n)) \in Nat /\ Cardinality(BusyOn(n)') \in Nat
  BY Zenon, <1>2, FS_CardinalityType
<1>4. BusyOn(n)' \subseteq BusyOn(n) => Cardinality(BusyOn(n)') <= Cardinality(BusyOn(n))
  BY Zenon, <1>2, FS_Subset
<1>5. ASSUME NEW j \in Job, BusyOn(n)' = BusyOn(n) \cup {j}
      PROVE  Cardinality(BusyOn(n)') <= Cardinality(BusyOn(n)) + 1
  <2>1. CASE j \in BusyOn(n)
    <3>1. BusyOn(n)' = BusyOn(n)
      BY Zenon, <1>5, <2>1
    <3> QED
      BY <1>3, <3>1
  <2>2. CASE j \notin BusyOn(n)
    <3>1. Cardinality(BusyOn(n) \cup {j}) = Cardinality(BusyOn(n)) + 1
      BY Zenon, <1>2, <2>2, FS_AddElement
    <3> QED
      BY <1>3, <1>5, <3>1
  <2> QED
    BY Zenon, <2>1, <2>2
<1> QED
  BY Zenon, <1>1, <1>3, <1>4, <1>5

\* The locks of the transaction that ends are gone, the others' are as before.
LEMMA EndKeepsLocks ==
  ASSUME TypeOK, LocksExclude, NEW t \in Tx, Ends(t)
  PROVE  LocksExclude'
<1>1. Alone(t) /\ locks'[t] = {}
  BY Zenon, EndedIsInOrder
<1> QED
  BY Zenon, <1>1 DEF LocksExclude, Alone

\* A claim commits while it holds the runner, with room for one more job.
LEMMA CommitClaimKeeps ==
  ASSUME TxInv, NEW c \in Claimer, CommitClaim(c)
  PROVE  TxInv'
<1>1. c \in Tx /\ TypeOK /\ LocksExclude /\ RunnerCapacity /\ InOrder(c) /\ pc[c] = "update" /\ Ends(c)
  BY Zenon DEF TxInv, Tx, CommitClaim
<1>2. PICK j \in todo[c] : /\ jobStatus' = [jobStatus EXCEPT ![j] = "RUNNING"]
                           /\ owner' = [owner EXCEPT ![j] = runner[c]]
  BY Zenon DEF CommitClaim
<1>3. /\ runStatus \in RunActive /\ runStatus' = "RUNNING"
      /\ UNCHANGED <<cancelRequested, expired>>
      /\ j \in Job /\ j \in locks[c] /\ jobStatus[j] = "PENDING"
  BY Zenon, <1>1 DEF CommitClaim, InOrder, ClaimIsOpen, TypeOK, RunActive
<1>4. runner[c] \in Runner /\ runner[c] \in locks[c] /\ RunningOn(runner[c]) < Capacity[runner[c]]
  BY Zenon, <1>1 DEF InOrder, ClaimHasRoom
<1>5. TypeOK'
  <2>1. jobStatus' \in [Job -> JobStatus] /\ owner' \in [Job -> Runner \cup {NoRunner}]
    BY Zenon, <1>1, <1>2, <1>4 DEF TypeOK, JobStatus, JobUnfinished
  <2>2. runStatus' \in RunStatus
    BY Zenon, <1>3 DEF RunStatus, RunActive
  <2> QED
    BY Zenon, <1>1, <1>3, <2>1, <2>2, EndedIsInOrder DEF TypeOK
<1>6. \A k \in Job : k # j => jobStatus'[k] = jobStatus[k] /\ owner'[k] = owner[k]
  BY Zenon, <1>1, <1>2 DEF TypeOK
<1>7. jobStatus'[j] = "RUNNING" /\ owner'[j] = runner[c]
  BY Zenon, <1>1, <1>2, <1>3 DEF TypeOK
<1>8. \A n \in Runner : /\ n # runner[c] => BusyOn(n)' \subseteq BusyOn(n)
                        /\ n = runner[c] => BusyOn(n)' = BusyOn(n) \cup {j}
  BY Zenon, <1>3, <1>6, <1>7 DEF BusyOn
<1>9. \A n \in Runner : RunningOn(n) \in Nat /\ RunningOn(n)' \in Nat
  BY Zenon, FewerOrOneMore
<1>10. \A n \in Runner : n # runner[c] => RunningOn(n)' <= RunningOn(n)
  BY Zenon, <1>8, FewerOrOneMore
<1>11. RunnerCapacity'
  <2> SUFFICES ASSUME NEW n \in Runner PROVE RunningOn(n)' <= Capacity[n]
    BY Zenon DEF RunnerCapacity
  <2>1. RunningOn(n) <= Capacity[n] /\ Capacity[n] \in Nat
    BY Zenon, <1>1, TransactionsAssumption DEF RunnerCapacity
  <2>2. CASE n # runner[c]
    BY <1>9, <1>10, <2>1, <2>2
  <2>3. CASE n = runner[c]
    <3>1. RunningOn(n)' <= RunningOn(n) + 1
      BY Zenon, <1>3, <1>8, <2>3, FewerOrOneMore
    <3>2. RunningOn(n) < Capacity[n]
      BY Zenon, <1>4, <2>3
    <3> QED
      BY <1>9, <2>1, <3>1, <3>2
  <2> QED
    BY Zenon, <2>2, <2>3
<1>12. ASSUME NEW u \in Tx, u # c PROVE InOrder(u)'
  <2>1. /\ pc'[u] = pc[u] /\ locks'[u] = locks[u] /\ write'[u] = write[u]
        /\ todo'[u] = todo[u] /\ verdict'[u] = verdict[u] /\ runner'[u] = runner[u]
    BY Zenon, <1>1, <1>12, EndedIsInOrder DEF Alone
  <2>2. j \notin locks[u] /\ runner[c] \notin locks[u]
    BY Zenon, <1>1, <1>3, <1>4, <1>12 DEF LocksExclude
  <2>3. \A k \in Job : k \in locks[u] \/ jobStatus[k] \in JobTerminal => jobStatus'[k] = jobStatus[k]
    BY Zenon, <1>3, <1>6, <2>2 DEF JobTerminal, JobDidNotPass
  <2>4. \A n \in Runner : n \in locks[u] => RunningOn(n)' <= RunningOn(n)
    BY Zenon, <1>10, <2>2
  <2>5. runStatus' \in RunActive
    BY Zenon, <1>3 DEF RunActive
  <2> QED
    BY Zenon, <1>3, <1>5, <1>9, <2>1, <2>3, <2>4, <2>5, UndisturbedByCommit
<1> QED
  BY Zenon, <1>1, <1>5, <1>11, <1>12, EndedIsInOrder, EndKeepsLocks DEF TxInv

\* A transaction commits its rows and, if it counted no unfinished job, the verdict.
LEMMA FinalizeAndCommitKeeps ==
  ASSUME TxInv, NEW t \in Tx, FinalizeAndCommit(t)
  PROVE  TxInv'
<1>1. /\ TypeOK /\ LocksExclude /\ RunnerCapacity /\ InOrder(t) /\ pc[t] = "commit" /\ Ends(t)
      /\ jobStatus' = Sees(t) /\ UNCHANGED owner
      /\ expired' = {j \in expired : write[t][j] = "none"}
  BY Zenon DEF TxInv, FinalizeAndCommit
<1>2. \A j \in Job : jobStatus'[j] = IF write[t][j] # "none" THEN write[t][j] ELSE jobStatus[j]
  BY Zenon, <1>1 DEF Sees
<1>3. \A j \in Job : write[t][j] # "none" => j \in locks[t] /\ jobStatus[j] \in {"PENDING", "RUNNING"}
  BY Zenon, <1>1 DEF InOrder, WritesAreLegal, LegalWrite
<1>4. TypeOK'
  <2>1. jobStatus' \in [Job -> JobStatus]
    BY <1>1 DEF TypeOK, Sees, JobStatus
  <2>2. runStatus' \in RunStatus /\ cancelRequested' \in BOOLEAN
    BY Zenon, <1>1 DEF FinalizeAndCommit, TypeOK, RunStatus
  <2>3. expired' \in SUBSET Job
    BY Zenon, <1>1 DEF TypeOK
  <2> QED
    BY Zenon, <1>1, <2>1, <2>2, <2>3, EndedIsInOrder DEF TypeOK
<1>5. \A n \in Runner : BusyOn(n)' \subseteq BusyOn(n)
  <2>1. \A j \in Job : jobStatus'[j] = "RUNNING" => jobStatus[j] = "RUNNING"
    BY Zenon, <1>1, <1>2 DEF TypeOK, JobTerminal, JobDidNotPass
  <2> QED
    BY Zenon, <1>1, <2>1 DEF BusyOn
<1>6. \A n \in Runner : RunningOn(n) \in Nat /\ RunningOn(n)' \in Nat /\ RunningOn(n)' <= RunningOn(n)
  BY Zenon, <1>5, FewerOrOneMore
<1>7. RunnerCapacity'
  <2> SUFFICES ASSUME NEW n \in Runner PROVE RunningOn(n)' <= Capacity[n]
    BY Zenon DEF RunnerCapacity
  <2>1. RunningOn(n) <= Capacity[n] /\ Capacity[n] \in Nat
    BY Zenon, <1>1, TransactionsAssumption DEF RunnerCapacity
  <2> QED
    BY <1>6, <2>1
<1>8. ASSUME NEW u \in Tx, u # t PROVE InOrder(u)'
  <2>1. /\ pc'[u] = pc[u] /\ locks'[u] = locks[u] /\ write'[u] = write[u]
        /\ todo'[u] = todo[u] /\ verdict'[u] = verdict[u] /\ runner'[u] = runner[u]
    BY Zenon, <1>1, <1>8, EndedIsInOrder DEF Alone
  <2>2. \A j \in Job : j \in locks[u] \/ jobStatus[j] \in JobTerminal => write[t][j] = "none"
    BY Zenon, <1>1, <1>3, <1>8 DEF LocksExclude, JobTerminal, JobDidNotPass
  <2>3. ThisRun \in locks[u] => /\ cancelRequested' = cancelRequested
                                /\ runStatus \in RunActive => runStatus' \in RunActive
    <3> SUFFICES ASSUME ThisRun \in locks[u]
                 PROVE  /\ cancelRequested' = cancelRequested
                        /\ runStatus \in RunActive => runStatus' \in RunActive
      BY Zenon
    <3>1. t # Canceler
      BY Zenon, <1>1, <1>8 DEF InOrder, CancelerLocksRun, LocksExclude
    <3>2. verdict[t] = "NONE"
      BY Zenon, <1>8 DEF FinalizeAndCommit, Free
    <3> QED
      BY Zenon, <1>1, <3>1, <3>2 DEF FinalizeAndCommit, TypeOK
  <2>4. \A j \in Job : j \in locks[u] /\ j \in expired => j \in expired'
    BY Zenon, <1>1, <2>2
  <2> QED
    BY Zenon, <1>2, <1>4, <1>6, <2>1, <2>2, <2>3, <2>4, UndisturbedByCommit
<1> QED
  BY Zenon, <1>1, <1>4, <1>7, <1>8, EndedIsInOrder, EndKeepsLocks DEF TxInv

\* A lease expires, or is renewed.
LEMMA LeaseTimeKeeps ==
  ASSUME TxInv, NEW j \in Job, Expire(j) \/ Renew(j)
  PROVE  TxInv'
<1>1. /\ TypeOK /\ UNCHANGED <<runStatus, cancelRequested, jobStatus, owner, txVars>>
      /\ expired' \in SUBSET Job
  BY Zenon DEF TxInv, Expire, Renew, TypeOK
<1>2. TypeOK'
  BY Zenon, <1>1 DEF TypeOK, txVars
<1>3. \A n \in Runner : RunningOn(n) \in Nat /\ RunningOn(n)' \in Nat /\ RunningOn(n)' <= RunningOn(n)
  <2>1. \A n \in Runner : BusyOn(n)' \subseteq BusyOn(n)
    BY Zenon, <1>1 DEF BusyOn
  <2> QED
    BY Zenon, <2>1, FewerOrOneMore
<1>4. ASSUME NEW u \in Tx PROVE InOrder(u)'
  <2>1. \A k \in Job : k \in locks[u] /\ k \in expired => k \in expired'
    BY Zenon DEF Expire, Renew
  <2> QED
    BY Zenon, <1>1, <1>2, <1>3, <2>1, UndisturbedByCommit DEF txVars
<1>5. LocksExclude' /\ RunnerCapacity'
  BY Zenon, <1>1 DEF TxInv, LocksExclude, RunnerCapacity, RunningOn, txVars
<1> QED
  BY Zenon, <1>2, <1>4, <1>5 DEF TxInv

-----------------------------------------------------------------------------
(***************************************************************************)
(* The invariant and what it gives.                                        *)
(***************************************************************************)
LEMMA TxInvInit == Init => TxInv
<1> SUFFICES ASSUME Init PROVE TxInv
  BY Zenon
<1>1. TypeOK
  BY Zenon DEF Init, TypeOK, NoWrite, Statement, RunStatus, RunActive, JobStatus, JobUnfinished
<1>2. LocksExclude
  BY Zenon DEF Init, LocksExclude
<1>3. RunnerCapacity
  <2> SUFFICES ASSUME NEW n \in Runner PROVE RunningOn(n) <= Capacity[n]
    BY Zenon DEF RunnerCapacity
  <2>1. {j \in Job : jobStatus[j] = "RUNNING" /\ owner[j] = n} = {}
    BY Zenon DEF Init
  <2>2. RunningOn(n) = 0
    BY Zenon, <2>1, FS_EmptySet DEF RunningOn
  <2> QED
    BY <2>2, TransactionsAssumption
<1>4. ASSUME NEW t \in Tx PROVE InOrder(t)
  BY Zenon DEF Init, NoWrite, InOrder, WritesAreLegal, BlocksLast, ClaimHasRoom, CandidatesAreReady,
         ClaimIsOpen, CancelerLocksRun, VerdictIsFinal
<1> QED
  BY Zenon, <1>1, <1>2, <1>3, <1>4 DEF TxInv

\* Every step of a transaction keeps the invariant.
LEMMA TxInvStep == TxInv /\ [Next]_vars => TxInv'
<1> SUFFICES ASSUME TxInv, [Next]_vars PROVE TxInv'
  BY Zenon
<1>1. CASE \E c \in Claimer : NoCandidate(c)
  BY Zenon, <1>1, RollbackKeeps DEF NoCandidate, Tx
<1>2. CASE \E t \in Tx : Rollback(t)
  BY Zenon, <1>2, RollbackKeeps DEF Rollback
<1>3. CASE UNCHANGED vars
  <2>1. UNCHANGED <<dbVars, txVars>>
    BY Zenon, <1>3 DEF vars
  <2>2. ASSUME NEW u \in Tx PROVE InOrder(u)'
    <3>1. InOrder(u)
      BY Zenon DEF TxInv
    <3>2. Sees(u)' = Sees(u)
      BY Zenon, <2>1 DEF Sees, dbVars, txVars
    <3> QED
      BY Zenon, <2>1, <3>1, <3>2
         DEF InOrder, WritesAreLegal, LegalWrite, BlocksLast, ClaimHasRoom, RunningOn,
             CandidatesAreReady, ClaimIsOpen, CancelerLocksRun, VerdictIsFinal, dbVars, txVars
  <2>3. TypeOK' /\ LocksExclude' /\ RunnerCapacity'
    BY Zenon, <2>1 DEF TxInv, TypeOK, LocksExclude, RunnerCapacity, RunningOn, dbVars, txVars
  <2> QED
    BY Zenon, <2>2, <2>3 DEF TxInv
<1> QED
  BY <1>1, <1>2, <1>3, LockRunnerKeeps, SelectSnapshotKeeps, LockCandidateKeeps, CommitClaimKeeps,
     BlockDependentsKeeps, CountUnfinishedKeeps, FinalizeAndCommitKeeps, LockRunKeeps,
     ReportJobKeeps, AbortRowKeeps, LeaseTimeKeeps, SweepKeeps, CancelPendingKeeps, Zenon
     DEF Next

\* So it always holds.
LEMMA TxInvariance == Spec => []TxInv
BY TxInvInit, TxInvStep, PTL DEF Spec

\* However many requests of a runner overlap, and wherever they are rolled
\* back, its jobs never exceed its capacity.
THEOREM CapacityHolds == Spec => []RunnerCapacity
<1>1. TxInv => RunnerCapacity
  BY Zenon DEF TxInv
<1> QED
  BY <1>1, TxInvariance, PTL

\* The steps that change the committed statuses are the two commits.
LEMMA OnlyCommitsShow ==
  ASSUME [Next]_vars
  PROVE  \/ \E c \in Claimer : CommitClaim(c)
         \/ \E t \in Tx : FinalizeAndCommit(t)
         \/ UNCHANGED <<runStatus, jobStatus>>
BY Zenon DEF Next, LockRunner, SelectSnapshot, LockCandidate, NoCandidate, BlockDependents,
   CountUnfinished, Rollback, LockRunForReport, ReportJob, AbortRow, Expire, Renew, FindExpired,
   SweepDone, LockRunForCancel, CancelPending, dbVars, vars

\* A claim that overlaps the cancellation of its run gets no job.
THEOREM CancellationStopsClaims == Spec => NoClaimAfterCancel
<1>1. ASSUME TxInv, [Next]_vars
      PROVE  \A j \in Job : jobStatus[j] # "RUNNING" /\ jobStatus'[j] = "RUNNING" => ~cancelRequested
  <2> SUFFICES ASSUME NEW j \in Job, jobStatus[j] # "RUNNING", jobStatus'[j] = "RUNNING"
               PROVE  ~cancelRequested
    BY Zenon
  <2>1. CASE \E c \in Claimer : CommitClaim(c)
    BY Zenon, <1>1, <2>1 DEF CommitClaim, TxInv, InOrder, ClaimIsOpen, Tx
  <2>2. CASE \E t \in Tx : FinalizeAndCommit(t)
    <3> PICK t \in Tx : FinalizeAndCommit(t)
      BY Zenon, <2>2
    <3>1. jobStatus'[j] = IF write[t][j] # "none" THEN write[t][j] ELSE jobStatus[j]
      BY Zenon DEF FinalizeAndCommit, Sees
    <3>2. write[t][j] \in JobTerminal \cup {"none"}
      BY Zenon, <1>1 DEF TxInv, TypeOK
    <3> QED
      BY Zenon, <3>1, <3>2 DEF JobTerminal, JobDidNotPass
  <2> QED
    BY Zenon, <1>1, <2>1, <2>2, OnlyCommitsShow
<1> QED
  BY <1>1, TxInvariance, PTL DEF Spec, NoClaimAfterCancel

\* The sweeper aborts no job whose lease was renewed after it was found.
THEOREM RenewalsAreHonoured == Spec => RenewedJobSurvives
<1>1. ASSUME TxInv, [Next]_vars
      PROVE  \A j \in Job : jobStatus'[j] = "ABORTED" /\ jobStatus[j] # "ABORTED" => j \in expired
  <2> SUFFICES ASSUME NEW j \in Job, jobStatus'[j] = "ABORTED", jobStatus[j] # "ABORTED"
               PROVE  j \in expired
    BY Zenon
  <2>1. CASE \E c \in Claimer : CommitClaim(c)
    <3>1. PICK k \in Job : jobStatus' = [jobStatus EXCEPT ![k] = "RUNNING"]
      BY Zenon, <1>1, <2>1 DEF CommitClaim, TxInv, TypeOK, Tx
    <3> QED
      BY Zenon, <1>1, <3>1 DEF TxInv, TypeOK
  <2>2. CASE \E t \in Tx : FinalizeAndCommit(t)
    <3> PICK t \in Tx : FinalizeAndCommit(t)
      BY Zenon, <2>2
    <3>1. jobStatus'[j] = IF write[t][j] # "none" THEN write[t][j] ELSE jobStatus[j]
      BY Zenon DEF FinalizeAndCommit, Sees
    <3>2. write[t][j] # "none" => LegalWrite(t, j)
      BY Zenon, <1>1 DEF TxInv, InOrder, WritesAreLegal
    <3> QED
      BY Zenon, <3>1, <3>2 DEF LegalWrite, Reportable
  <2> QED
    BY Zenon, <1>1, <2>1, <2>2, OnlyCommitsShow
<1> QED
  BY <1>1, TxInvariance, PTL DEF Spec, RenewedJobSurvives

\* The definitions that JobLifecycle takes from PipelineRun are those of
\* SchedulerTransactions.
LEMMA LifecycleDefs ==
  /\ Lifecycle!RunActive = RunActive
  /\ Lifecycle!RunStatus = RunStatus
  /\ Lifecycle!JobStatus = JobStatus
  /\ Lifecycle!JobTerminal = JobTerminal
  /\ \A r : Lifecycle!JobsOf(r) = JobsOf(r)
  /\ \A js, cancel, r : Lifecycle!Outcome(js, cancel, r) = Outcome(js, cancel, r)
<1>1. \A r : Lifecycle!JobsOf(r) = JobsOf(r)
  BY Zenon DEF Lifecycle!JobsOf, JobsOf
<1>2. \A js, cancel, r : Lifecycle!Outcome(js, cancel, r) = Outcome(js, cancel, r)
  BY Zenon, <1>1 DEF Lifecycle!Outcome, Outcome
<1>3. Lifecycle!JobDidNotPass = JobDidNotPass /\ Lifecycle!RunActive = RunActive
  BY Zenon DEF Lifecycle!JobDidNotPass, JobDidNotPass, Lifecycle!RunActive, RunActive
<1>4. Lifecycle!RunTerminal = RunTerminal
  BY Zenon DEF Lifecycle!RunTerminal, RunTerminal
<1>5. Lifecycle!RunStatus = RunStatus /\ Lifecycle!JobTerminal = JobTerminal
  BY Zenon, <1>3, <1>4 DEF Lifecycle!RunStatus, RunStatus, Lifecycle!JobTerminal, JobTerminal
<1>6. Lifecycle!JobUnfinished = JobUnfinished
  BY Zenon DEF Lifecycle!JobUnfinished, JobUnfinished
<1>7. Lifecycle!JobStatus = JobStatus
  BY Zenon, <1>5, <1>6 DEF Lifecycle!JobStatus, JobStatus
<1> QED
  BY Zenon, <1>1, <1>2, <1>3, <1>5, <1>7

\* What a commit writes is a step of the job lifecycle.
LEMMA CommitIsLifecycleStep ==
  TxInv /\ [Next]_vars => [Lifecycle!Next]_(Lifecycle!lifecycleVars)
<1> SUFFICES ASSUME TxInv, [Next]_vars
             PROVE  Lifecycle!Next \/ UNCHANGED <<runStatus, jobStatus>>
  BY Zenon DEF Lifecycle!lifecycleVars
<1>0. Run = {ThisRun} /\ \A j \in Job : RunOf[j] = ThisRun
  BY TransactionsAssumption, GraphAssumption
<1>1. CASE \E c \in Claimer : CommitClaim(c)
  <2> PICK c \in Claimer : CommitClaim(c)
    BY Zenon, <1>1
  <2>1. /\ c \in Tx /\ TypeOK /\ runStatus \in RunActive /\ runStatus' = "RUNNING"
        /\ \A j \in todo[c] : /\ j \in Job /\ jobStatus[j] = "PENDING"
                              /\ \A d \in Needs[j] : jobStatus[d] = "PASSED"
    BY Zenon DEF CommitClaim, TxInv, InOrder, ClaimIsOpen, CandidatesAreReady, TypeOK, RunActive, Tx
  <2>2. PICK j \in todo[c] : jobStatus' = [jobStatus EXCEPT ![j] = "RUNNING"]
    BY Zenon DEF CommitClaim
  <2>3. Lifecycle!Start(j)
    BY Zenon, <1>0, <2>1, <2>2 DEF Lifecycle!Start, Lifecycle!RunActive, RunActive
  <2> QED
    BY Zenon, <2>1, <2>3 DEF Lifecycle!Next
<1>2. CASE \E t \in Tx : FinalizeAndCommit(t)
  <2> PICK t \in Tx : FinalizeAndCommit(t)
    BY Zenon, <1>2
  <2>1. /\ TypeOK /\ WritesAreLegal(t) /\ VerdictIsFinal(t) /\ pc[t] = "commit" /\ jobStatus' = Sees(t)
        /\ runStatus' = IF verdict[t] # "NONE" /\ runStatus \in RunActive THEN verdict[t] ELSE runStatus
    BY Zenon DEF TxInv, InOrder, FinalizeAndCommit
  <2>2. jobStatus' \in [Job -> JobStatus]
    BY <2>1 DEF TypeOK, Sees, JobStatus
  <2>3. [r \in Run |-> runStatus'] \in [Run -> RunStatus]
    BY Zenon, <2>1 DEF TypeOK, RunStatus
  <2>4. ASSUME NEW j \in Job PROVE Lifecycle!EndsLegally(j)
    <3>1. CASE write[t][j] = "none"
      BY Zenon, <2>1, <3>1 DEF Sees, Lifecycle!EndsLegally
    <3>2. CASE write[t][j] # "none"
      <4>1. LegalWrite(t, j) /\ jobStatus'[j] = write[t][j]
        BY Zenon, <2>1, <3>2 DEF WritesAreLegal, Sees
      <4> QED
        BY Zenon, <2>1, <4>1 DEF LegalWrite, Lifecycle!EndsLegally, Lifecycle!Reportable, Reportable,
                          Lifecycle!JobDidNotPass, JobDidNotPass
    <3> QED
      BY Zenon, <3>1, <3>2
  <2>5. ASSUME NEW r \in Run PROVE Lifecycle!DecidedLegally(r)
    <3>1. r = ThisRun
      BY Zenon, <1>0, <2>5
    <3>2. CASE verdict[t] # "NONE" /\ runStatus \in RunActive
      <4>1. \A j \in JobsOf(r) : jobStatus'[j] \in JobTerminal
        BY Zenon, <2>1, <3>2 DEF VerdictIsFinal, JobsOf
      <4>2. \E cancel \in BOOLEAN : runStatus' = Outcome(jobStatus', cancel, r)
        BY Zenon, <2>1, <3>1, <3>2 DEF VerdictIsFinal
      <4> QED
        BY Zenon, <2>5, <3>2, <4>1, <4>2, LifecycleDefs DEF Lifecycle!DecidedLegally
    <3>3. CASE ~(verdict[t] # "NONE" /\ runStatus \in RunActive)
      BY Zenon, <2>1, <2>5, <3>3 DEF Lifecycle!DecidedLegally
    <3> QED
      BY Zenon, <3>2, <3>3
  <2>6. Lifecycle!Settle
    BY <2>2, <2>3, <2>4, <2>5, LifecycleDefs, Zenon DEF Lifecycle!Settle
  <2> QED
    BY Zenon, <2>6 DEF Lifecycle!Next
<1> QED
  BY Zenon, <1>1, <1>2, OnlyCommitsShow

\* Interleaved statement by statement, the transactions commit only what the
\* job lifecycle allows.
THEOREM TransactionsImplementLifecycle == Spec => ImplementsLifecycle
<1>1. Init => Lifecycle!Init
  BY Zenon DEF Init, Lifecycle!Init
<1>2. Spec => Lifecycle!Spec
  BY <1>1, CommitIsLifecycleStep, TxInvariance, PTL DEF Spec, Lifecycle!Spec
<1> QED
  BY Zenon, <1>2 DEF ImplementsLifecycle
=============================================================================
