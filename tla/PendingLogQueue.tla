-------------------------- MODULE PendingLogQueue --------------------------
(***************************************************************************)
(* The output of one remote job on its way to the durable log: the bounded *)
(* PendingLogQueue that the job's stdout and stderr write to, the uploader *)
(* goroutine with its retries, the server's handler and the table          *)
(* job_log_chunks, and the decision of executeLeasedJob once the commands  *)
(* have ended.                                                             *)
(*                                                                         *)
(* A step is one critical section of the queue's mutex, one transaction,   *)
(* or one event of the network.  A request may be lost, answered late (the *)
(* client has given it up), or served although its response is lost.       *)
(***************************************************************************)
EXTENDS Integers, Sequences

CONSTANTS
  Stream,                  \* the writers: stdout and stderr
  Output,                  \* Output[w]: the sizes of the chunks w has to write
  MaxPendingLogBytes,
  MaxLogChunksPerRequest,
  MaxLogAppendBodyBytes,
  logUploadAttempts

\* The size of a chunk in the JSON body, and of the rest of the body.
Encoded(size) == 4 * ((size + 2) \div 3) + 192
Envelope == 512

\* What the constants of the code guarantee: every chunk fits into the queue
\* and into a request.
ChunkSize ==
  {size \in Nat \ {0} : /\ size <= MaxPendingLogBytes
                        /\ Envelope + Encoded(size) <= MaxLogAppendBodyBytes}

ASSUME LogAssumption ==
  /\ Output \in [Stream -> Seq(ChunkSize)]
  /\ MaxPendingLogBytes \in Nat
  /\ MaxLogAppendBodyBytes \in Nat
  /\ MaxLogChunksPerRequest \in Nat \ {0}
  /\ logUploadAttempts \in Nat \ {0}

VARIABLES
  chunks, pending, next, closed, failure,  \* the fields of PendingLogQueue
  writer,    \* writer[w]: "ready", "waiting", "woken", "done" or "failed"
  unwritten, \* unwritten[w]: the chunks that w has not written yet
  uploader,  \* the next step of the uploader goroutine
  batch, attempt,  \* what it uploads, and how often it has tried before
  seen,      \* how much was accepted when it last looked (not in the code)
  ctx,       \* the job's context: "live" or "canceled"
  lease,     \* whether the server would accept the job's lease
  wire,      \* append requests the server may still handle
  stored,    \* job_log_chunks of the job, in sequence order
  accepted,  \* all chunks Enqueue accepted (not in the code)
  result     \* "running", "closed", or the status the job is reported with

queueVars == <<chunks, pending, next, closed, failure>>
writerVars == <<writer, unwritten>>
uploaderVars == <<uploader, batch, attempt, seen>>
vars == <<queueVars, writerVars, uploaderVars, ctx, lease, wire, stored, accepted, result>>

Sum(s) ==
  LET total[n \in 0 .. Len(s)] == IF n = 0 THEN 0 ELSE total[n - 1] + s[n]
  IN  total[Len(s)]
Sizes(s) == [i \in DOMAIN s |-> s[i].size]

\* signalLocked: everyone who waits on the channel wakes up.
Woken(w) == [v \in Stream |-> IF w[v] = "waiting" THEN "woken" ELSE w[v]]
WakeUploader(u) == IF u = "waiting" THEN "woken" ELSE u

UploaderGoes(step) == uploader' = step /\ UNCHANGED <<batch, attempt, seen>>

Init ==
  /\ chunks = <<>> /\ pending = 0 /\ next = 0 /\ closed = FALSE /\ failure = FALSE
  /\ writer = [w \in Stream |-> "ready"] /\ unwritten = Output
  /\ uploader = "peek" /\ batch = <<>> /\ attempt = 0 /\ seen = 0
  /\ ctx = "live" /\ lease = TRUE
  /\ wire = {} /\ stored = <<>> /\ accepted = <<>>
  /\ result = "running"

-----------------------------------------------------------------------------
(***************************************************************************)
(* The writers.                                                            *)
(***************************************************************************)
HasMore(w) == unwritten[w] # <<>>

\* One pass of Enqueue through the mutex.
EnqueueRefused(w) ==
  /\ failure \/ closed
  /\ writer' = [writer EXCEPT ![w] = "failed"]
  /\ UNCHANGED <<queueVars, unwritten, uploaderVars, accepted>>

EnqueueAccepted(w) ==
  LET size == Head(unwritten[w])
      chunk == [sequence |-> next + 1, stream |-> w, size |-> size]
  IN  /\ ~failure /\ ~closed
      /\ pending + size <= MaxPendingLogBytes
      /\ next' = next + 1
      /\ chunks' = Append(chunks, chunk)
      /\ pending' = pending + size
      /\ accepted' = Append(accepted, chunk)
      /\ unwritten' = [unwritten EXCEPT ![w] = Tail(@)]
      /\ writer' = [Woken(writer) EXCEPT ![w] = "ready"]
      /\ UploaderGoes(WakeUploader(uploader))
      /\ UNCHANGED <<closed, failure>>

EnqueueBlocks(w) ==
  /\ ~failure /\ ~closed
  /\ pending + Head(unwritten[w]) > MaxPendingLogBytes
  /\ writer' = [writer EXCEPT ![w] = "waiting"]
  /\ UNCHANGED <<queueVars, unwritten, uploaderVars, accepted>>

Enqueue(w) ==
  /\ writer[w] \in {"ready", "woken"} /\ HasMore(w)
  /\ EnqueueRefused(w) \/ EnqueueAccepted(w) \/ EnqueueBlocks(w)
  /\ UNCHANGED <<ctx, lease, wire, stored, result>>

\* The select of a blocked Enqueue sees the canceled context.
EnqueueCanceled(w) ==
  /\ writer[w] \in {"waiting", "woken"} /\ ctx = "canceled"
  /\ writer' = [writer EXCEPT ![w] = "failed"]
  /\ UNCHANGED <<queueVars, unwritten, uploaderVars, ctx, lease, wire, stored, accepted, result>>

\* The stream ends: the command is through with it, or was killed.
WriterEnds(w) ==
  /\ writer[w] = "ready"
  /\ HasMore(w) => ctx = "canceled"
  /\ writer' = [writer EXCEPT ![w] = "done"]
  /\ UNCHANGED <<queueVars, unwritten, uploaderVars, ctx, lease, wire, stored, accepted, result>>

-----------------------------------------------------------------------------
(***************************************************************************)
(* The uploader: WaitBatch, which takes the mutex twice, then              *)
(* appendLogBatchWithRetry, then Ack or Fail.                              *)
(***************************************************************************)
\* As many chunks as a request takes.
Fits(n) ==
  /\ n <= MaxLogChunksPerRequest
  /\ Envelope + Sum([i \in 1 .. n |-> Encoded(chunks[i].size)]) <= MaxLogAppendBodyBytes

PeekBatch(n) == Fits(n) /\ (n < Len(chunks) => ~Fits(n + 1))

UploaderOnly == UNCHANGED <<queueVars, writerVars, ctx, lease, stored, accepted, result>>

WaitBatchPeek ==
  /\ uploader \in {"peek", "woken"}
  /\ \E n \in 0 .. Len(chunks) :
       /\ PeekBatch(n)
       /\ uploader' = IF n > 0 THEN "send" ELSE "check"
       /\ batch' = SubSeq(chunks, 1, n) /\ attempt' = 0 /\ seen' = Len(accepted)
  /\ UploaderOnly /\ UNCHANGED wire

WaitBatchCheck ==
  /\ uploader = "check"
  /\ UploaderGoes(IF failure \/ closed THEN "done" ELSE "waiting")
  /\ UploaderOnly /\ UNCHANGED wire

WaitBatchCanceled ==
  /\ uploader \in {"waiting", "woken"} /\ ctx = "canceled"
  /\ UploaderGoes("done")
  /\ UploaderOnly /\ UNCHANGED wire

\* With a canceled context the request fails before it is sent.
SendBatch ==
  /\ uploader = "send"
  /\ \/ /\ ctx = "live"
        /\ wire' = wire \cup {[batch |-> batch, attempt |-> attempt, admitted |-> FALSE]}
        /\ UploaderGoes("sent")
     \/ /\ ctx = "canceled"
        /\ UploaderGoes("transient")
        /\ UNCHANGED wire
  /\ UploaderOnly

\* A time-out, a network error, a 5xx, or the context while waiting.
NoResponseTaken ==
  /\ uploader = "sent"
  /\ UploaderGoes("stored")
  /\ UploaderOnly /\ UNCHANGED wire
NoResponse ==
  /\ uploader = "sent"
  /\ UploaderGoes("transient")
  /\ UploaderOnly /\ UNCHANGED wire

\* The delay before the next attempt passes.
Retry ==
  /\ uploader = "transient"
  /\ attempt < logUploadAttempts - 1
  /\ uploader' = "send" /\ attempt' = attempt + 1 /\ UNCHANGED <<batch, seen>>
  /\ UploaderOnly /\ UNCHANGED wire

\* The last attempt failed, the context was canceled during the delay, or the
\* server refused the batch: Fail, and the uploader returns.
Fail ==
  /\ \/ uploader = "refused"
     \/ /\ uploader = "transient"
        /\ attempt = logUploadAttempts - 1 \/ ctx = "canceled"
  /\ failure' = TRUE
  /\ writer' = Woken(writer)
  /\ UploaderGoes("done")
  /\ UNCHANGED <<chunks, pending, next, closed, unwritten, ctx, lease, wire, stored, accepted,
                 result>>

AckQuietly ==
  LET n == Len(batch)
  IN  /\ uploader = "stored"
      /\ pending' = pending - Sum(Sizes(SubSeq(chunks, 1, n)))
      /\ chunks' = SubSeq(chunks, n + 1, Len(chunks))
      /\ uploader' = "peek" /\ batch' = <<>> /\ UNCHANGED <<attempt, seen>>
      /\ UNCHANGED <<next, closed, failure, writerVars, ctx, lease, wire, stored, accepted, result>>
Ack ==
  LET n == Len(batch)
  IN  /\ uploader = "stored"
      /\ pending' = pending - Sum(Sizes(SubSeq(chunks, 1, n)))
      /\ chunks' = SubSeq(chunks, n + 1, Len(chunks))
      /\ writer' = Woken(writer)
      /\ uploader' = "peek" /\ batch' = <<>> /\ UNCHANGED <<attempt, seen>>
      /\ UNCHANGED <<next, closed, failure, unwritten, ctx, lease, wire, stored, accepted, result>>

-----------------------------------------------------------------------------
(***************************************************************************)
(* The server: JobLogAppend looks at the lease, then AppendJobLogs adds    *)
(* the batch in a transaction of its own.                                  *)
(***************************************************************************)
Awaited(m) ==
  /\ uploader = "sent"
  /\ batch = m.batch /\ attempt = m.attempt

\* The response to m reaches the uploader if that still waits for it, unless
\* it is lost.
Answer(m, outcome) ==
  /\ wire' = wire \ {m}
  /\ \/ Awaited(m) /\ UploaderGoes(outcome)
     \/ UNCHANGED uploaderVars
  /\ UNCHANGED <<queueVars, writerVars, ctx, lease, accepted, result>>

Admit(m) ==
  /\ ~m.admitted /\ lease
  /\ wire' = (wire \ {m}) \cup {[batch |-> m.batch, attempt |-> m.attempt, admitted |-> TRUE]}
  /\ UNCHANGED uploaderVars
  /\ UploaderOnly

\* Invalid lease, or an error of the database: both are answered 4xx.
Refuse(m) ==
  /\ Answer(m, "refused")
  /\ UNCHANGED stored

\* Rows that exist, the first n of a batch, must be equal; the others must
\* follow the last one.
FollowsLog(rows, n) ==
  /\ \A i \in 1 .. n : rows[i].sequence \in DOMAIN stored /\ stored[rows[i].sequence] = rows[i]
  /\ \A i \in n + 1 .. Len(rows) : rows[i].sequence = Len(stored) + i - n

\* An error of Commit may hide that it took effect.
AppendJobLogsBlindly(m) ==
  /\ m.admitted
  /\ stored' = stored \o m.batch
  /\ \E outcome \in {"stored", "refused"} : Answer(m, outcome)
AppendJobLogs(m) ==
  /\ m.admitted
  /\ \E n \in 0 .. Len(m.batch) :
       /\ FollowsLog(m.batch, n)
       /\ stored' = stored \o SubSeq(m.batch, n + 1, Len(m.batch))
  /\ \E outcome \in {"stored", "refused"} : Answer(m, outcome)

LoseRequest(m) ==
  /\ wire' = wire \ {m}
  /\ UNCHANGED uploaderVars
  /\ UploaderOnly

\* The lease runs out or the job is aborted; the context is canceled by a
\* heartbeat response, the lease deadline or a shutdown, sooner or later.
LoseLease ==
  /\ lease /\ lease' = FALSE
  /\ UNCHANGED <<queueVars, writerVars, uploaderVars, ctx, wire, stored, accepted, result>>

CancelContext ==
  /\ ctx = "live" /\ ctx' = "canceled"
  /\ UNCHANGED <<queueVars, writerVars, uploaderVars, lease, wire, stored, accepted, result>>

-----------------------------------------------------------------------------
(***************************************************************************)
(* executeLeasedJob after RunJob has returned.                             *)
(***************************************************************************)
CloseQueue ==
  /\ result = "running"
  /\ \A w \in Stream : writer[w] \in {"done", "failed"}
  /\ closed' = TRUE
  /\ UploaderGoes(WakeUploader(uploader))
  /\ result' = "closed"
  /\ UNCHANGED <<chunks, pending, next, failure, writerVars, ctx, lease, wire, stored, accepted>>

\* The commands can have succeeded only if all they wrote was accepted.
CommandsPassed == \A w \in Stream : writer[w] = "done" /\ ~HasMore(w)

StatusIgnoringLogs ==
  (IF CommandsPassed THEN {"PASSED"} ELSE {})
  \cup (IF ctx = "canceled" THEN {"CANCELED"} ELSE {"FAILED", "ERROR"})
Status ==
  (IF CommandsPassed THEN {IF failure THEN "ERROR" ELSE "PASSED"} ELSE {})
  \cup (IF ctx = "canceled" THEN {"CANCELED"} ELSE {"FAILED", "ERROR"})

Report ==
  /\ result = "closed" /\ uploader = "done"
  /\ result' \in Status
  /\ UNCHANGED <<queueVars, writerVars, uploaderVars, ctx, lease, wire, stored, accepted>>

-----------------------------------------------------------------------------
Write(w) == Enqueue(w) \/ EnqueueCanceled(w) \/ WriterEnds(w)

Upload ==
  \/ WaitBatchPeek \/ WaitBatchCheck \/ WaitBatchCanceled
  \/ SendBatch \/ NoResponse \/ Retry \/ Fail \/ Ack

Next ==
  \/ \E w \in Stream : Write(w)
  \/ Upload
  \/ \E m \in wire : Admit(m) \/ Refuse(m) \/ AppendJobLogs(m) \/ LoseRequest(m)
  \/ LoseLease \/ CancelContext
  \/ CloseQueue \/ Report

Spec == Init /\ [][Next]_vars

\* The goroutines run and the HTTP client has a time-out.  Nothing is assumed
\* of the server.
FairSpec ==
  /\ Spec
  /\ \A w \in Stream : WF_vars(Write(w))
  /\ WF_vars(Upload) /\ WF_vars(CloseQueue) /\ WF_vars(Report)

-----------------------------------------------------------------------------
(***************************************************************************)
(* Properties.                                                             *)
(***************************************************************************)
\* The durable log is a prefix of what the job wrote, in order and without
\* gaps or duplicates, whatever requests are repeated, late or lost.
DurableIsPrefix == \E n \in 0 .. Len(accepted) : stored = SubSeq(accepted, 1, n)

\* A chunk leaves the queue only once it is durable.
AcknowledgedIsDurable ==
  \E k \in 0 .. Len(stored) : accepted = SubSeq(stored, 1, k) \o chunks

\* A job that is PASSED has in its durable log all that it had written when the
\* uploader last looked into the queue: what is lost came after that.
PassedLosesOnlyTheEnd == result = "PASSED" => Len(stored) >= seen

\* The count of pending bytes is that of the chunks, whatever is added while a
\* batch is on its way, and never exceeds the limit.
QueueIsBounded == pending = Sum(Sizes(chunks)) /\ pending <= MaxPendingLogBytes

\* A writer is not left waiting: as long as it waits there is no room for its
\* chunk, the queue is neither closed nor failed, and there is something to
\* upload, so that an Ack or a Fail can wake it, and the context in any case.
BlockedForAReason ==
  \A w \in Stream : writer[w] = "waiting" =>
    /\ HasMore(w) /\ pending + Head(unwritten[w]) > MaxPendingLogBytes
    /\ ~failure /\ ~closed /\ chunks # <<>>

Reported == result \notin {"running", "closed"}
Stalled == ctx = "live" /\ uploader = "waiting" /\ chunks # <<>>

\* The job is reported: neither a full queue, nor a failed upload, nor a
\* canceled context leaves the commands or the uploader waiting for ever.  The
\* one exception is a wake-up that WaitBatch missed between its two locks.
EveryJobIsReported == <>Reported \/ <>[]Stalled

=============================================================================
