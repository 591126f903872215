----------------------- MODULE PendingLogQueueProofs ------------------------
(***************************************************************************)
(* The durable log is a prefix of a job's output, nothing leaves the queue *)
(* before it is durable, and a job that is PASSED loses at most what came  *)
(* after the uploader's last look, for any output, limits and number of    *)
(* attempts, and whatever happens to the requests.                         *)
(*                                                                         *)
(* The invariant follows a chunk by its sequence number, which is its      *)
(* place in the output: the queue holds the end of the output, the batch   *)
(* is the front of the queue, a request holds rows of the output, however  *)
(* late it is, and what has left the queue is in the log.                  *)
(*                                                                         *)
(* The queue is also within its limit, and a writer waits only while there *)
(* is no room for its chunk.                                               *)
(***************************************************************************)
EXTENDS PendingLogQueue, TLAPS, WellFoundedInduction

Chunk == [sequence : Nat, stream : Stream, size : ChunkSize]

Sending == {"send", "sent", "transient", "refused", "stored"}
Looked == {"check", "waiting", "woken"}

TypeOK ==
  /\ chunks \in Seq(Chunk) /\ accepted \in Seq(Chunk) /\ stored \in Seq(Chunk)
  /\ batch \in Seq(Chunk)
  /\ unwritten \in [Stream -> Seq(ChunkSize)]
  /\ next \in Nat /\ seen \in Nat
  /\ failure \in BOOLEAN
  /\ uploader \in Sending \cup Looked \cup {"peek", "done"}
  /\ \A m \in wire : m.batch \in Seq(Chunk)

\* How many chunks have left the queue.
Acked == Len(accepted) - Len(chunks)

Numbered ==
  /\ next = Len(accepted)
  /\ \A i \in 1 .. Len(accepted) : accepted[i].sequence = i

QueueIsTheEnd ==
  /\ Len(chunks) <= Len(accepted)
  /\ \A i \in 1 .. Len(chunks) : chunks[i] = accepted[Acked + i]

LogIsTheBeginning ==
  /\ Len(stored) <= Len(accepted)
  /\ \A i \in 1 .. Len(stored) : stored[i] = accepted[i]

\* Nothing leaves the queue, and nothing is about to, before it is stored.
AckedIsStored ==
  /\ Acked <= Len(stored)
  /\ uploader = "stored" => Acked + Len(batch) <= Len(stored)

BatchIsTheFront ==
  uploader \in Sending =>
    /\ 0 < Len(batch) /\ Len(batch) <= Len(chunks)
    /\ \A i \in 1 .. Len(batch) : batch[i] = chunks[i]

\* The rows of a request are rows of the output.
OfTheOutput(rows) ==
  \A i \in 1 .. Len(rows) : /\ rows[i].sequence \in 1 .. Len(accepted)
                            /\ rows[i] = accepted[rows[i].sequence]

RequestsAreOutput == \A m \in wire : OfTheOutput(m.batch)

\* The uploader waits, or returns without a failure, only when all that it
\* has seen has left the queue.
SeenIsAcked ==
  /\ uploader \in Looked \/ (uploader = "done" /\ ~failure) => seen <= Acked
  /\ result = "PASSED" => uploader = "done" /\ ~failure

LogInv ==
  /\ TypeOK /\ Numbered /\ QueueIsTheEnd /\ LogIsTheBeginning /\ AckedIsStored
  /\ BatchIsTheFront /\ RequestsAreOutput /\ SeenIsAcked

-----------------------------------------------------------------------------
\* The length of a sequence is a number.
LEMMA LengthIsNat ==
  ASSUME NEW S, NEW s \in Seq(S)
  PROVE  Len(s) \in Nat
OBVIOUS

\* Sequences with the same elements are the same.
LEMMA SameSequence ==
  ASSUME NEW S, NEW s \in Seq(S), NEW t \in Seq(S), Len(s) = Len(t),
         \A i \in 1 .. Len(s) : s[i] = t[i]
  PROVE  s = t
OBVIOUS

\* The end of a sequence.
LEMMA SuffixFacts ==
  ASSUME NEW S, NEW s \in Seq(S), NEW n \in 0 .. Len(s)
  PROVE  /\ SubSeq(s, n + 1, Len(s)) \in Seq(S)
         /\ Len(SubSeq(s, n + 1, Len(s))) = Len(s) - n
         /\ \A i \in 1 .. Len(s) - n : SubSeq(s, n + 1, Len(s))[i] = s[n + i]
<1>1. Len(s) \in Nat /\ n \in Nat /\ n <= Len(s)
  OBVIOUS
<1>2. Len(SubSeq(s, n + 1, Len(s))) = Len(s) - n
  BY <1>1
<1>3. \A i \in 1 .. Len(s) - n : SubSeq(s, n + 1, Len(s))[i] = s[n + i]
  BY <1>1, <1>2
<1>4. SubSeq(s, n + 1, Len(s)) \in Seq(S)
  BY <1>1
<1> QED
  BY Zenon, <1>2, <1>3, <1>4

\* The beginning of a sequence.
LEMMA PrefixFacts ==
  ASSUME NEW S, NEW s \in Seq(S), NEW n \in 0 .. Len(s)
  PROVE  /\ SubSeq(s, 1, n) \in Seq(S)
         /\ Len(SubSeq(s, 1, n)) = n
         /\ \A i \in 1 .. n : SubSeq(s, 1, n)[i] = s[i]
<1>1. Len(s) \in Nat /\ n \in Nat /\ n <= Len(s)
  OBVIOUS
<1>2. Len(SubSeq(s, 1, n)) = n
  BY <1>1
<1>3. \A i \in 1 .. n : SubSeq(s, 1, n)[i] = s[i]
  BY <1>1, <1>2
<1>4. SubSeq(s, 1, n) \in Seq(S)
  BY <1>1
<1> QED
  BY Zenon, <1>2, <1>3, <1>4

\* Two sequences, one after the other.
LEMMA ConcatFacts ==
  ASSUME NEW S, NEW s \in Seq(S), NEW t \in Seq(S)
  PROVE  /\ s \o t \in Seq(S)
         /\ Len(s \o t) = Len(s) + Len(t)
         /\ \A i \in 1 .. Len(s) : (s \o t)[i] = s[i]
         /\ \A i \in 1 .. Len(t) : (s \o t)[Len(s) + i] = t[i]
OBVIOUS

\* The sum of one number.
LEMMA SumOfOne ==
  ASSUME NEW x \in Nat
  PROVE  Sum([i \in 1 .. 1 |-> x]) = x
<1> DEFINE s == [i \in 1 .. 1 |-> x]
           Totals(f) == f = [n \in 0 .. Len(s) |-> IF n = 0 THEN 0 ELSE f[n - 1] + s[n]]
<1>1. Len(s) = 1 /\ s[1] = x
  OBVIOUS
<1>2. \E f : Totals(f)
  <2>1. Totals([n \in 0 .. 1 |-> IF n = 0 THEN 0 ELSE x])
    BY <1>1
  <2> QED
    BY Zenon, <2>1
<1>3. PICK f : f = (CHOOSE g : Totals(g)) /\ Totals(f)
  BY Zenon, <1>2
<1>4. f[0] = 0 /\ f[1] = x
  BY <1>1, <1>3
<1>5. Sum(s) = f[Len(s)]
  BY Zenon, <1>3 DEF Sum
<1> QED
  BY Zenon, <1>1, <1>4, <1>5

\* A request takes at least one chunk.
LEMMA OneFits ==
  ASSUME TypeOK, Len(chunks) > 0
  PROVE  Fits(1)
<1>1. chunks[1] \in Chunk
  BY DEF TypeOK
<1>2. PICK x \in Nat : x = Encoded(chunks[1].size) /\ Envelope + x <= MaxLogAppendBodyBytes
  BY <1>1 DEF Chunk, ChunkSize, Encoded
<1>3. [i \in 1 .. 1 |-> Encoded(chunks[i].size)] = [i \in 1 .. 1 |-> x]
  BY <1>2
<1> QED
  BY <1>2, <1>3, SumOfOne, LogAssumption DEF Fits

-----------------------------------------------------------------------------
(***************************************************************************)
(* The steps that leave the output, the queue and the log alone.           *)
(***************************************************************************)
Undisturbed ==
  /\ UNCHANGED <<chunks, accepted, next, stored, unwritten, batch, seen>>
  /\ failure' \in BOOLEAN /\ uploader' \in Sending \cup Looked \cup {"peek", "done"}
  /\ \A m \in wire' : \/ \E k \in wire : m.batch = k.batch
                      \/ uploader \in Sending /\ m.batch = batch
  /\ uploader' \in Sending => uploader \in Sending
  /\ uploader' = "stored" => uploader = "stored"
  /\ uploader' \in Looked \/ (uploader' = "done" /\ ~failure') =>
       uploader \in Looked \/ (uploader = "done" /\ ~failure)
  /\ result' = "PASSED" => uploader' = "done" /\ ~failure'

\* A step that leaves the chunks, the batch and the log alone keeps the invariant.
LEMMA UndisturbedKeeps == LogInv /\ Undisturbed => LogInv'
<1> SUFFICES ASSUME LogInv, Undisturbed PROVE LogInv'
  BY Zenon
<1>1. OfTheOutput(batch) \/ uploader \notin Sending
  <2> SUFFICES ASSUME uploader \in Sending, NEW i \in 1 .. Len(batch)
               PROVE  /\ batch[i].sequence \in 1 .. Len(accepted)
                      /\ batch[i] = accepted[batch[i].sequence]
    BY Zenon DEF OfTheOutput
  <2>1. i \in 1 .. Len(chunks) /\ batch[i] = accepted[Acked + i] /\ Len(chunks) <= Len(accepted)
    BY DEF LogInv, BatchIsTheFront, QueueIsTheEnd, TypeOK
  <2>2. Acked + i \in 1 .. Len(accepted)
    BY <2>1 DEF Acked, LogInv, TypeOK
  <2> QED
    BY Zenon, <2>1, <2>2 DEF LogInv, Numbered
<1>2. TypeOK' /\ RequestsAreOutput'
  <2>1. ASSUME NEW m \in wire' PROVE m.batch \in Seq(Chunk) /\ OfTheOutput(m.batch)
    BY Zenon, <1>1 DEF Undisturbed, LogInv, RequestsAreOutput, TypeOK
  <2>2. \A rows : OfTheOutput(rows)' <=> OfTheOutput(rows)
    BY Zenon DEF OfTheOutput, Undisturbed
  <2> QED
    BY Zenon, <2>1, <2>2 DEF Undisturbed, LogInv, TypeOK, RequestsAreOutput
<1>3. Numbered' /\ QueueIsTheEnd' /\ LogIsTheBeginning'
  BY Zenon DEF LogInv, Undisturbed, Numbered, QueueIsTheEnd, LogIsTheBeginning, Acked
<1>4. AckedIsStored' /\ BatchIsTheFront'
  BY Zenon DEF LogInv, Undisturbed, AckedIsStored, BatchIsTheFront, Acked
<1>5. SeenIsAcked'
  BY Zenon DEF LogInv, Undisturbed, SeenIsAcked, Acked
<1> QED
  BY Zenon, <1>2, <1>3, <1>4, <1>5 DEF LogInv

\* These steps are of that kind.
LEMMA QuietSteps ==
  ASSUME LogInv,
         \/ \E w \in Stream : \/ EnqueueCanceled(w) \/ WriterEnds(w)
                              \/ Enqueue(w) /\ (EnqueueRefused(w) \/ EnqueueBlocks(w))
         \/ WaitBatchCheck \/ WaitBatchCanceled \/ NoResponse \/ Retry \/ Fail
         \/ LoseLease \/ CancelContext \/ CloseQueue \/ Report
         \/ UNCHANGED vars
  PROVE  LogInv'
<1>1. /\ failure \in BOOLEAN /\ uploader \in Sending \cup Looked \cup {"peek", "done"}
      /\ result = "PASSED" => uploader = "done" /\ ~failure
  BY Zenon DEF LogInv, TypeOK, SeenIsAcked
<1>2. CASE \E w \in Stream : \/ EnqueueCanceled(w) \/ WriterEnds(w)
                             \/ Enqueue(w) /\ (EnqueueRefused(w) \/ EnqueueBlocks(w))
  <2>1. UNCHANGED <<queueVars, unwritten, uploaderVars, wire, stored, accepted, result>>
    BY Zenon, <1>2 DEF EnqueueCanceled, WriterEnds, Enqueue, EnqueueRefused, EnqueueBlocks
  <2> QED
    BY Zenon, <1>1, <2>1, UndisturbedKeeps DEF Undisturbed, queueVars, uploaderVars
<1>3. CASE WaitBatchCheck \/ WaitBatchCanceled \/ NoResponse \/ Retry
  <2>1. /\ UNCHANGED <<queueVars, unwritten, batch, seen, wire, stored, accepted, result>>
        /\ \/ uploader \in {"check", "waiting", "woken"} /\ uploader' \in {"done", "waiting"}
           \/ uploader \in {"sent", "transient"} /\ uploader' \in {"transient", "send"}
    BY Zenon, <1>3 DEF WaitBatchCheck, WaitBatchCanceled, NoResponse, Retry, UploaderOnly, UploaderGoes,
                writerVars
  <2> QED
    BY Zenon, <1>1, <2>1, UndisturbedKeeps DEF Undisturbed, queueVars, Sending, Looked
<1>4. CASE Fail
  <2>1. /\ UNCHANGED <<chunks, next, unwritten, batch, seen, wire, stored, accepted, result>>
        /\ failure' = TRUE /\ uploader \in Sending /\ uploader' = "done"
    BY Zenon, <1>4 DEF Fail, UploaderGoes, Sending
  <2> QED
    BY Zenon, <1>1, <2>1, UndisturbedKeeps DEF Undisturbed, Sending, Looked
<1>5. CASE LoseLease \/ CancelContext \/ CloseQueue \/ UNCHANGED vars
  <2>1. /\ UNCHANGED <<chunks, next, failure, unwritten, batch, seen, wire, stored, accepted>>
        /\ uploader' = uploader \/ (uploader = "waiting" /\ uploader' = "woken")
        /\ result' = result \/ result' = "closed"
    BY Zenon, <1>5 DEF LoseLease, CancelContext, CloseQueue, UploaderGoes, WakeUploader, vars, queueVars,
                writerVars, uploaderVars
  <2> QED
    BY Zenon, <1>1, <2>1, UndisturbedKeeps DEF Undisturbed, Sending, Looked
<1>6. CASE Report
  <2>1. /\ UNCHANGED <<queueVars, writerVars, uploaderVars, wire, stored, accepted>>
        /\ uploader = "done" /\ (result' = "PASSED" => ~failure)
    BY Zenon, <1>6 DEF Report, Status
  <2> QED
    BY Zenon, <1>1, <2>1, UndisturbedKeeps DEF Undisturbed, queueVars, writerVars, uploaderVars, Sending, Looked
<1> QED
  BY Zenon, <1>2, <1>3, <1>4, <1>5, <1>6

\* Sending, and what happens to requests, short of storing their rows.
LEMMA RequestSteps ==
  ASSUME LogInv,
         SendBatch \/ \E m \in wire : Admit(m) \/ Refuse(m) \/ LoseRequest(m)
  PROVE  LogInv'
<1>1. /\ failure \in BOOLEAN /\ uploader \in Sending \cup Looked \cup {"peek", "done"}
      /\ result = "PASSED" => uploader = "done" /\ ~failure
  BY Zenon DEF LogInv, TypeOK, SeenIsAcked
<1>2. CASE SendBatch
  <2>1. /\ UNCHANGED <<queueVars, unwritten, batch, seen, stored, accepted, result>>
        /\ uploader = "send" /\ uploader' \in {"sent", "transient"}
        /\ wire' \subseteq wire \cup {[batch |-> batch, attempt |-> attempt, admitted |-> FALSE]}
    BY Zenon, <1>2 DEF SendBatch, UploaderOnly, UploaderGoes, writerVars
  <2> QED
    BY <1>1, <2>1, UndisturbedKeeps DEF Undisturbed, queueVars, Sending, Looked
<1>3. CASE \E m \in wire : Admit(m) \/ LoseRequest(m)
  <2>1. PICK m \in wire : Admit(m) \/ LoseRequest(m)
    BY Zenon, <1>3
  <2>2. /\ UNCHANGED <<queueVars, unwritten, uploaderVars, stored, accepted, result>>
        /\ wire' \subseteq wire \cup {[batch |-> m.batch, attempt |-> m.attempt, admitted |-> TRUE]}
    BY Zenon, <2>1 DEF Admit, LoseRequest, UploaderOnly, writerVars
  <2> QED
    BY <1>1, <2>2, UndisturbedKeeps DEF Undisturbed, queueVars, uploaderVars
<1>4. CASE \E m \in wire : Refuse(m)
  <2>1. /\ UNCHANGED <<queueVars, unwritten, batch, seen, stored, accepted, result>>
        /\ wire' \subseteq wire
        /\ uploader' = uploader \/ (uploader = "sent" /\ uploader' = "refused")
    BY Zenon, <1>4 DEF Refuse, Answer, Awaited, UploaderGoes, writerVars, uploaderVars
  <2> QED
    BY Zenon, <1>1, <2>1, UndisturbedKeeps DEF Undisturbed, queueVars, Sending, Looked
<1> QED
  BY Zenon, <1>2, <1>3, <1>4

-----------------------------------------------------------------------------
(***************************************************************************)
(* The steps that move chunks: into the queue, into a batch, into the log, *)
(* and out of the queue.                                                   *)
(***************************************************************************)
LEMMA EnqueueAcceptedKeeps ==
  ASSUME LogInv, NEW w \in Stream, Enqueue(w), EnqueueAccepted(w)
  PROVE  LogInv'
<1>1. unwritten[w] \in Seq(ChunkSize) /\ unwritten[w] # <<>>
  BY Zenon DEF LogInv, TypeOK, Enqueue, HasMore
<1>2. PICK chunk \in Chunk : /\ chunk.sequence = Len(accepted) + 1
                             /\ chunks' = Append(chunks, chunk)
                             /\ accepted' = Append(accepted, chunk)
  <2>1. Head(unwritten[w]) \in ChunkSize
    BY <1>1
  <2>2. next \in Nat /\ next = Len(accepted)
    BY Zenon DEF LogInv, Numbered, TypeOK
  <2>3. PICK c : c = [sequence |-> next + 1, stream |-> w, size |-> Head(unwritten[w])]
    BY Zenon
  <2>4. c \in Chunk /\ c.sequence = Len(accepted) + 1
    BY <2>1, <2>2, <2>3 DEF Chunk
  <2>5. chunks' = Append(chunks, c) /\ accepted' = Append(accepted, c)
    BY <2>3, Zenon DEF EnqueueAccepted
  <2> QED
    BY <2>4, <2>5, Zenon
<1>3. /\ next' = next + 1 /\ UNCHANGED <<failure, batch, seen, wire, stored, result>>
      /\ uploader' = uploader \/ (uploader = "waiting" /\ uploader' = "woken")
      /\ unwritten' \in [Stream -> Seq(ChunkSize)]
  <2>1. Tail(unwritten[w]) \in Seq(ChunkSize)
    BY <1>1
  <2> QED
    BY Zenon, <2>1 DEF EnqueueAccepted, Enqueue, UploaderGoes, WakeUploader, LogInv, TypeOK
<1>4. /\ chunks \in Seq(Chunk) /\ accepted \in Seq(Chunk) /\ stored \in Seq(Chunk) /\ batch \in Seq(Chunk)
      /\ Len(chunks) <= Len(accepted) /\ Len(stored) <= Len(accepted)
  BY Zenon DEF LogInv, TypeOK, QueueIsTheEnd, LogIsTheBeginning
<1>5. /\ chunks' \in Seq(Chunk) /\ Len(chunks') = Len(chunks) + 1
      /\ chunks'[Len(chunks) + 1] = chunk
      /\ \A i \in 1 .. Len(chunks) : chunks'[i] = chunks[i]
  BY <1>2, <1>4
<1>6. /\ accepted' \in Seq(Chunk) /\ Len(accepted') = Len(accepted) + 1
      /\ accepted'[Len(accepted) + 1] = chunk
      /\ \A i \in 1 .. Len(accepted) : accepted'[i] = accepted[i]
  BY <1>2, <1>4
<1>7. Acked' = Acked /\ Acked \in Nat
  BY <1>4, <1>5, <1>6 DEF Acked
<1>8. TypeOK'
  BY <1>3, <1>5, <1>6 DEF LogInv, TypeOK, Sending, Looked
<1>9. Numbered'
  BY <1>2, <1>3, <1>4, <1>6 DEF LogInv, Numbered
<1>10. QueueIsTheEnd'
  <2>1. Len(chunks') <= Len(accepted')
    BY <1>4, <1>5, <1>6
  <2>2. ASSUME NEW i \in 1 .. Len(chunks') PROVE chunks'[i] = accepted'[Acked + i]
    <3>1. CASE i = Len(chunks) + 1
      BY <1>4, <1>5, <1>6, <3>1 DEF Acked
    <3>2. CASE i \in 1 .. Len(chunks)
      <4>1. Acked + i \in 1 .. Len(accepted)
        BY <1>4, <3>2 DEF Acked
      <4> QED
        BY Zenon, <1>5, <1>6, <3>2, <4>1 DEF LogInv, QueueIsTheEnd
    <3> QED
      BY <1>4, <1>5, <3>1, <3>2
  <2> QED
    BY Zenon, <1>7, <2>1, <2>2 DEF QueueIsTheEnd
<1>11. LogIsTheBeginning'
  <2>1. LogIsTheBeginning /\ stored' = stored
    BY Zenon, <1>3 DEF LogInv
  <2>2. Len(stored) \in Nat /\ Len(accepted) \in Nat
    BY <1>4
  <2>3. Len(stored) <= Len(accepted')
    BY <2>2, <1>4, <1>6
  <2>4. ASSUME NEW i \in 1 .. Len(stored) PROVE stored[i] = accepted'[i]
    <3>1. i \in 1 .. Len(accepted)
      BY <2>2, <1>4
    <3> QED
      BY Zenon, <2>1, <3>1, <1>6 DEF LogIsTheBeginning
  <2> QED
    BY Zenon, <2>1, <2>3, <2>4 DEF LogIsTheBeginning
<1>12. AckedIsStored'
  BY Zenon, <1>3, <1>7 DEF LogInv, AckedIsStored
<1>13. BatchIsTheFront'
  BY <1>3, <1>4, <1>5 DEF LogInv, BatchIsTheFront, Sending
<1>14. RequestsAreOutput'
  <2> SUFFICES ASSUME NEW m \in wire, NEW i \in 1 .. Len(m.batch)
               PROVE  /\ m.batch[i].sequence \in 1 .. Len(accepted')
                      /\ m.batch[i] = accepted'[m.batch[i].sequence]
    BY Zenon, <1>3 DEF RequestsAreOutput, OfTheOutput
  <2>1. /\ m.batch[i].sequence \in 1 .. Len(accepted)
        /\ m.batch[i] = accepted[m.batch[i].sequence]
    BY Zenon DEF LogInv, RequestsAreOutput, OfTheOutput
  <2> QED
    BY <1>4, <1>6, <2>1
<1>15. SeenIsAcked'
  BY Zenon, <1>3, <1>7 DEF LogInv, SeenIsAcked, Looked
<1> QED
  BY Zenon, <1>8, <1>9, <1>10, <1>11, <1>12, <1>13, <1>14, <1>15 DEF LogInv

\* The batch that WaitBatch takes is the front of the queue.
LEMMA PeekKeeps ==
  ASSUME LogInv, WaitBatchPeek
  PROVE  LogInv'
<1>1. PICK n \in 0 .. Len(chunks) : /\ PeekBatch(n)
                                    /\ uploader' = IF n > 0 THEN "send" ELSE "check"
                                    /\ batch' = SubSeq(chunks, 1, n) /\ seen' = Len(accepted)
  BY Zenon DEF WaitBatchPeek
<1>2. /\ UNCHANGED <<chunks, next, failure, unwritten, wire, stored, accepted, result>>
      /\ uploader # "done"
  BY Zenon DEF WaitBatchPeek, UploaderOnly, queueVars, writerVars
<1>3. /\ chunks \in Seq(Chunk) /\ accepted \in Seq(Chunk)
      /\ Len(chunks) \in Nat /\ Len(accepted) \in Nat /\ Len(chunks) <= Len(accepted)
  BY DEF LogInv, TypeOK, QueueIsTheEnd
<1>4. /\ batch' \in Seq(Chunk) /\ Len(batch') = n
      /\ \A i \in 1 .. n : batch'[i] = chunks[i]
  BY <1>1, <1>3
<1>5. n = 0 => Len(chunks) = 0
  <2> SUFFICES ASSUME n = 0, Len(chunks) > 0 PROVE FALSE
    BY <1>3
  <2>1. Fits(1)
    BY Zenon, OneFits DEF LogInv
  <2> QED
    BY <1>1, <2>1 DEF PeekBatch
<1>6. TypeOK'
  BY Zenon, <1>1, <1>2, <1>3, <1>4 DEF LogInv, TypeOK, Sending, Looked
<1>7. Numbered' /\ QueueIsTheEnd' /\ LogIsTheBeginning'
  BY Zenon, <1>2 DEF LogInv, Numbered, QueueIsTheEnd, LogIsTheBeginning, Acked
<1>8. AckedIsStored'
  BY Zenon, <1>1, <1>2 DEF LogInv, AckedIsStored, Acked
<1>9. BatchIsTheFront'
  BY <1>1, <1>2, <1>4 DEF BatchIsTheFront, Sending
<1>10. RequestsAreOutput'
  BY Zenon, <1>2 DEF LogInv, RequestsAreOutput, OfTheOutput
<1>11. SeenIsAcked'
  BY <1>1, <1>2, <1>3, <1>5 DEF LogInv, SeenIsAcked, Looked, Acked
<1> QED
  BY Zenon, <1>6, <1>7, <1>8, <1>9, <1>10, <1>11 DEF LogInv

\* The server adds the rows of a batch that follow the last one, or none.
LEMMA AppendKeeps ==
  ASSUME LogInv, NEW m \in wire, AppendJobLogs(m)
  PROVE  LogInv'
<1>1. PICK n \in 0 .. Len(m.batch) :
        /\ FollowsLog(m.batch, n)
        /\ stored' = stored \o SubSeq(m.batch, n + 1, Len(m.batch))
  BY Zenon DEF AppendJobLogs
<1>2. /\ UNCHANGED <<chunks, next, failure, unwritten, accepted, batch, seen, result>>
      /\ wire' \subseteq wire
      /\ \/ uploader' = uploader
         \/ uploader = "sent" /\ batch = m.batch /\ uploader' \in {"stored", "refused"}
  BY Zenon DEF AppendJobLogs, Answer, Awaited, UploaderGoes, queueVars, writerVars, uploaderVars
<1>3. /\ m.batch \in Seq(Chunk) /\ stored \in Seq(Chunk) /\ accepted \in Seq(Chunk)
      /\ batch \in Seq(Chunk) /\ chunks \in Seq(Chunk)
      /\ Len(chunks) <= Len(accepted) /\ Len(stored) <= Len(accepted)
  BY Zenon DEF LogInv, TypeOK, QueueIsTheEnd, LogIsTheBeginning
<1>4. PICK new \in Seq(Chunk) :
        /\ stored' = stored \o new /\ Len(new) = Len(m.batch) - n
        /\ \A i \in 1 .. Len(new) : new[i] = m.batch[n + i]
  <2> DEFINE rest == SubSeq(m.batch, n + 1, Len(m.batch))
  <2>1. rest \in Seq(Chunk) /\ Len(rest) = Len(m.batch) - n
    BY Zenon, <1>1, <1>3, SuffixFacts
  <2>2. \A i \in 1 .. Len(m.batch) - n : rest[i] = m.batch[n + i]
    BY Zenon, <1>1, <1>3, SuffixFacts
  <2>3. stored' = stored \o rest
    BY Zenon, <1>1
  <2> HIDE DEF rest
  <2> QED
    BY Zenon, <2>1, <2>2, <2>3
<1>5. /\ stored' \in Seq(Chunk) /\ Len(stored') = Len(stored) + Len(new)
      /\ \A i \in 1 .. Len(stored) : stored'[i] = stored[i]
      /\ \A i \in 1 .. Len(new) : stored'[Len(stored) + i] = new[i]
  <2> DEFINE all == stored \o new
  <2>1. /\ all \in Seq(Chunk) /\ Len(all) = Len(stored) + Len(new)
        /\ \A i \in 1 .. Len(stored) : all[i] = stored[i]
        /\ \A i \in 1 .. Len(new) : all[Len(stored) + i] = new[i]
    BY <1>3, ConcatFacts
  <2>2. stored' = all
    BY Zenon, <1>4
  <2> HIDE DEF all
  <2> QED
    BY Zenon, <2>1, <2>2
<1>6. ASSUME NEW i \in 1 .. Len(new)
      PROVE  Len(stored) + i \in 1 .. Len(accepted) /\ new[i] = accepted[Len(stored) + i]
  <2>1. n + i \in 1 .. Len(m.batch) /\ new[i] = m.batch[n + i]
    BY <1>1, <1>3, <1>4
  <2>2. m.batch[n + i].sequence = Len(stored) + i
    BY <1>1, <1>3, <1>4, <2>1 DEF FollowsLog
  <2> QED
    BY Zenon, <2>1, <2>2 DEF LogInv, RequestsAreOutput, OfTheOutput
<1>7. LogIsTheBeginning'
  <2>1. Len(stored') <= Len(accepted)
    <3>1. CASE Len(new) = 0
      BY <1>3, <1>4, <1>5, <3>1
    <3>2. CASE Len(new) > 0
      <4>1. Len(new) \in 1 .. Len(new)
        BY <1>4, <3>2
      <4> QED
        BY <1>5, <1>6, <4>1
    <3> QED
      BY <1>4, <3>1, <3>2
  <2>2. ASSUME NEW i \in 1 .. Len(stored') PROVE stored'[i] = accepted[i]
    <3>1. CASE i \in 1 .. Len(stored)
      BY Zenon, <1>5, <3>1 DEF LogInv, LogIsTheBeginning
    <3>2. CASE i \notin 1 .. Len(stored)
      <4>1. PICK k \in 1 .. Len(new) : i = Len(stored) + k
        <5>0. PICK a \in Nat, b \in Nat : a = Len(stored) /\ b = Len(new)
          BY Zenon, <1>3, LengthIsNat
        <5>a. i \in 1 .. a + b /\ i \notin 1 .. a
          BY Zenon, <1>5, <3>2, <5>0
        <5>b. i - a \in 1 .. b /\ i = a + (i - a)
          BY <5>a
        <5>1. i - Len(stored) \in 1 .. Len(new) /\ i = Len(stored) + (i - Len(stored))
          BY Zenon, <5>0, <5>b
        <5> QED
          BY Zenon, <5>1
      <4> QED
        BY Zenon, <1>5, <1>6, <4>1
    <3> QED
      BY Zenon, <3>1, <3>2
  <2> QED
    BY Zenon, <1>2, <2>1, <2>2 DEF LogIsTheBeginning
<1>8. AckedIsStored'
  <2>1. Acked' = Acked /\ Acked \in Nat /\ Acked <= Len(stored) /\ Len(stored) <= Len(stored')
    BY <1>1, <1>2, <1>3, <1>5 DEF LogInv, AckedIsStored, Acked
  <2>2. CASE uploader' = uploader
    BY <1>2, <1>3, <1>5, <2>1, <2>2 DEF LogInv, AckedIsStored
  <2>3. CASE uploader = "sent" /\ batch = m.batch
    <3>1. /\ Len(batch) \in 1 .. Len(batch) /\ Len(batch) \in 1 .. Len(chunks)
          /\ batch[Len(batch)] = chunks[Len(batch)]
      <4>1. /\ 0 < Len(batch) /\ Len(batch) <= Len(chunks)
            /\ \A i \in 1 .. Len(batch) : batch[i] = chunks[i]
        BY Zenon, <2>3 DEF LogInv, BatchIsTheFront, Sending
      <4>2. Len(batch) \in Nat /\ Len(chunks) \in Nat
        BY <1>3
      <4> QED
        BY <4>1, <4>2
    <3>2. batch[Len(batch)].sequence = Acked + Len(batch)
      <4>1. Acked + Len(batch) \in 1 .. Len(accepted)
        BY <1>3, <3>1 DEF Acked
      <4> QED
        BY Zenon, <3>1, <4>1 DEF LogInv, QueueIsTheEnd, Numbered
    <3>3. batch[Len(batch)].sequence <= Len(stored')
      <4>1. CASE n = Len(batch)
        <5>1. batch[Len(batch)].sequence \in DOMAIN stored
          BY Zenon, <1>1, <2>3, <3>1, <4>1 DEF FollowsLog
        <5> QED
          BY <1>3, <1>5, <2>1, <5>1
      <4>2. CASE n # Len(batch)
        <5>1. Len(batch) \in n + 1 .. Len(batch)
          BY <1>1, <1>3, <2>3, <4>2
        <5>2. batch[Len(batch)].sequence = Len(stored) + Len(batch) - n
          BY Zenon, <1>1, <2>3, <5>1 DEF FollowsLog
        <5> QED
          BY <1>1, <1>3, <1>4, <1>5, <2>3, <5>2
      <4> QED
        BY Zenon, <4>1, <4>2
    <3> QED
      BY <1>2, <1>3, <1>5, <2>1, <3>2, <3>3 DEF AckedIsStored
  <2> QED
    BY Zenon, <1>2, <2>2, <2>3
<1>9. TypeOK'
  BY Zenon, <1>2, <1>5 DEF LogInv, TypeOK, Sending
<1>10. Numbered' /\ QueueIsTheEnd' /\ BatchIsTheFront'
  BY Zenon, <1>2 DEF LogInv, Numbered, QueueIsTheEnd, BatchIsTheFront, Acked, Sending
<1>11. RequestsAreOutput'
  BY Zenon, <1>2 DEF LogInv, RequestsAreOutput, OfTheOutput
<1>12. SeenIsAcked'
  BY Zenon, <1>2 DEF LogInv, SeenIsAcked, Acked, Looked
<1> QED
  BY Zenon, <1>7, <1>8, <1>9, <1>10, <1>11, <1>12 DEF LogInv

\* Ack removes the batch, which is stored.
LEMMA AckKeeps ==
  ASSUME LogInv, Ack
  PROVE  LogInv'
<1>1. /\ uploader = "stored" /\ uploader' = "peek" /\ batch' = <<>>
      /\ chunks' = SubSeq(chunks, Len(batch) + 1, Len(chunks))
      /\ UNCHANGED <<next, failure, unwritten, wire, stored, accepted, seen, result>>
  BY Zenon DEF Ack
<1>2. /\ chunks \in Seq(Chunk) /\ batch \in Seq(Chunk) /\ accepted \in Seq(Chunk) /\ stored \in Seq(Chunk)
      /\ Len(batch) <= Len(chunks) /\ Len(chunks) <= Len(accepted)
      /\ Acked + Len(batch) <= Len(stored)
  BY Zenon, <1>1 DEF LogInv, TypeOK, BatchIsTheFront, QueueIsTheEnd, AckedIsStored, Sending
<1>3. /\ chunks' \in Seq(Chunk) /\ Len(chunks') = Len(chunks) - Len(batch)
      /\ \A i \in 1 .. Len(chunks') : chunks'[i] = chunks[Len(batch) + i]
  BY <1>1, <1>2, SuffixFacts
<1>4. Acked' = Acked + Len(batch) /\ Acked \in Nat
  <2>1. Len(chunks) \in Nat /\ Len(batch) \in Nat /\ Len(accepted) \in Nat
    BY <1>2
  <2>2. accepted' = accepted
    BY Zenon, <1>1
  <2>3. Len(batch) <= Len(chunks) /\ Len(chunks) <= Len(accepted) /\ Len(chunks') = Len(chunks) - Len(batch)
    BY Zenon, <1>2, <1>3
  <2> QED
    BY <2>1, <2>2, <2>3 DEF Acked
<1>5. TypeOK'
  BY <1>1, <1>3 DEF LogInv, TypeOK
<1>6. QueueIsTheEnd'
  <2>1. ASSUME NEW i \in 1 .. Len(chunks') PROVE chunks'[i] = accepted[Acked + Len(batch) + i]
    <3>1. Len(batch) + i \in 1 .. Len(chunks)
      BY <1>2, <1>3
    <3>2. chunks[Len(batch) + i] = accepted[Acked + (Len(batch) + i)]
      BY Zenon, <3>1 DEF LogInv, QueueIsTheEnd
    <3>3. Acked + (Len(batch) + i) = Acked + Len(batch) + i
      BY <1>2, <1>3, <1>4
    <3> QED
      BY Zenon, <1>3, <3>2, <3>3
  <2>2. Len(chunks') <= Len(accepted')
    <3>1. Len(chunks) \in Nat /\ Len(batch) \in Nat /\ Len(accepted) \in Nat
      BY <1>2
    <3> QED
      BY <1>1, <1>2, <1>3, <3>1
  <2> QED
    BY Zenon, <1>1, <1>4, <2>1, <2>2 DEF QueueIsTheEnd
<1>7. Numbered' /\ LogIsTheBeginning' /\ RequestsAreOutput'
  BY Zenon, <1>1 DEF LogInv, Numbered, LogIsTheBeginning, RequestsAreOutput, OfTheOutput
<1>8. AckedIsStored' /\ BatchIsTheFront'
  BY Zenon, <1>1, <1>2, <1>4 DEF AckedIsStored, BatchIsTheFront, Sending
<1>9. SeenIsAcked'
  BY Zenon, <1>1 DEF LogInv, SeenIsAcked, Looked
<1> QED
  BY Zenon, <1>5, <1>6, <1>7, <1>8, <1>9 DEF LogInv

-----------------------------------------------------------------------------
(***************************************************************************)
(* The invariant and what it gives.                                        *)
(***************************************************************************)
LEMMA LogInvInit == Init => LogInv
<1> SUFFICES ASSUME Init PROVE LogInv
  BY Zenon
<1>1. TypeOK
  <2>1. chunks = <<>> /\ accepted = <<>> /\ stored = <<>> /\ batch = <<>> /\ wire = {}
    BY Zenon DEF Init
  <2>2. unwritten \in [Stream -> Seq(ChunkSize)]
    BY Zenon, LogAssumption DEF Init
  <2>3. /\ next \in Nat /\ seen \in Nat /\ failure \in BOOLEAN
        /\ uploader \in Sending \cup Looked \cup {"peek", "done"}
    BY Zenon DEF Init
  <2> QED
    BY <2>1, <2>2, <2>3 DEF TypeOK
<1>2. Len(chunks) = 0 /\ Len(accepted) = 0 /\ Len(stored) = 0 /\ Acked = 0
  BY DEF Init, Acked
<1>3. Numbered /\ QueueIsTheEnd /\ LogIsTheBeginning
  BY <1>2 DEF Init, Numbered, QueueIsTheEnd, LogIsTheBeginning
<1>4. AckedIsStored /\ BatchIsTheFront /\ RequestsAreOutput /\ SeenIsAcked
  BY <1>2 DEF Init, AckedIsStored, BatchIsTheFront, RequestsAreOutput, SeenIsAcked, Sending, Looked
<1> QED
  BY Zenon, <1>1, <1>3, <1>4 DEF LogInv

\* Every step keeps the invariant.
LEMMA LogInvStep == LogInv /\ [Next]_vars => LogInv'
<1> SUFFICES ASSUME LogInv, [Next]_vars PROVE LogInv'
  BY Zenon
<1>1. CASE \E w \in Stream : Enqueue(w)
  BY Zenon, <1>1, QuietSteps, EnqueueAcceptedKeeps DEF Enqueue
<1> QED
  BY Zenon, <1>1, QuietSteps, RequestSteps, PeekKeeps, AppendKeeps, AckKeeps DEF Next, Write, Upload

\* So it always holds.
LEMMA LogInvariance == Spec => []LogInv
BY LogInvInit, LogInvStep, PTL DEF Spec

\* Whatever requests are repeated, late or lost, job_log_chunks holds the
\* beginning of what the job wrote.
THEOREM LogIsAPrefix == Spec => []DurableIsPrefix
<1>1. LogInv => DurableIsPrefix
  <2> SUFFICES ASSUME LogInv PROVE \E n \in 0 .. Len(accepted) : stored = SubSeq(accepted, 1, n)
    BY Zenon DEF DurableIsPrefix
  <2>1. /\ stored \in Seq(Chunk) /\ accepted \in Seq(Chunk) /\ Len(stored) \in 0 .. Len(accepted)
        /\ \A i \in 1 .. Len(stored) : stored[i] = accepted[i]
    BY DEF LogInv, TypeOK, LogIsTheBeginning
  <2> DEFINE front == SubSeq(accepted, 1, Len(stored))
  <2>2. /\ front \in Seq(Chunk) /\ Len(front) = Len(stored)
        /\ \A i \in 1 .. Len(stored) : front[i] = accepted[i]
    BY Zenon, <2>1, PrefixFacts
  <2> HIDE DEF front
  <2>3. stored = front
    BY <2>1, <2>2
  <2> QED
    BY Zenon, <2>1, <2>3 DEF front
<1> QED
  BY <1>1, LogInvariance, PTL

\* A chunk leaves the queue only once it is in the log.
THEOREM AcknowledgedMeansDurable == Spec => []AcknowledgedIsDurable
<1>1. LogInv => AcknowledgedIsDurable
  <2> SUFFICES ASSUME LogInv PROVE AcknowledgedIsDurable
    BY Zenon
  <2>1. /\ stored \in Seq(Chunk) /\ accepted \in Seq(Chunk) /\ chunks \in Seq(Chunk)
        /\ Acked \in 0 .. Len(stored) /\ Acked + Len(chunks) = Len(accepted)
        /\ \A i \in 1 .. Len(stored) : stored[i] = accepted[i]
        /\ \A i \in 1 .. Len(chunks) : chunks[i] = accepted[Acked + i]
    BY DEF LogInv, TypeOK, LogIsTheBeginning, QueueIsTheEnd, AckedIsStored, Acked
  <2> DEFINE front == SubSeq(stored, 1, Acked)
             all == front \o chunks
  <2>2. front \in Seq(Chunk) /\ Len(front) = Acked /\ \A i \in 1 .. Acked : front[i] = stored[i]
    BY Zenon, <2>1, PrefixFacts
  <2> HIDE DEF front
  <2>c. front \in Seq(Chunk) /\ chunks \in Seq(Chunk)
    BY Zenon, <2>1, <2>2
  <2>3. /\ all \in Seq(Chunk) /\ Len(all) = Len(front) + Len(chunks)
        /\ \A i \in 1 .. Len(front) : all[i] = front[i]
        /\ \A i \in 1 .. Len(chunks) : all[Len(front) + i] = chunks[i]
    BY <2>c, ConcatFacts
  <2> HIDE DEF all
  <2>a. PICK a \in Nat, b \in Nat : a = Acked /\ b = Len(chunks) /\ Len(accepted) = a + b /\ a <= Len(stored)
    <3>1. Len(stored) \in Nat /\ Len(chunks) \in Nat
      BY <2>1
    <3>2. Acked \in Nat /\ Acked <= Len(stored)
      BY <2>1, <3>1
    <3> QED
      BY Zenon, <2>1, <3>1, <3>2
  <2>4. ASSUME NEW i \in 1 .. Len(accepted) PROVE all[i] = accepted[i]
    <3>1. CASE i \in 1 .. a
      <4>1. all[i] = front[i] /\ front[i] = stored[i]
        BY Zenon, <2>2, <2>3, <2>a, <3>1
      <4>2. i \in 1 .. Len(stored)
        BY <2>1, <2>a, <3>1
      <4> QED
        BY Zenon, <2>1, <4>1, <4>2
    <3>2. CASE i \notin 1 .. a
      <4>1. i - a \in 1 .. b /\ i = a + (i - a)
        BY <2>a, <3>2
      <4>2. PICK k \in 1 .. b : i = a + k
        BY Zenon, <4>1
      <4>3. all[a + k] = chunks[k]
        BY Zenon, <2>2, <2>3, <2>a
      <4>4. chunks[k] = accepted[a + k]
        BY Zenon, <2>1, <2>a
      <4> QED
        BY Zenon, <4>2, <4>3, <4>4
    <3> QED
      BY Zenon, <3>1, <3>2
  <2>b. Len(all) = Len(accepted)
    BY Zenon, <2>2, <2>3, <2>a
  <2>5. accepted = all
    BY Zenon, <2>1, <2>3, <2>4, <2>b, SameSequence
  <2>6. accepted = SubSeq(stored, 1, Acked) \o chunks
    BY Zenon, <2>5 DEF all, front
  <2> QED
    BY Zenon, <2>1, <2>6 DEF AcknowledgedIsDurable
<1> QED
  BY <1>1, LogInvariance, PTL

\* A job that is PASSED has all in its log that the uploader saw when it last
\* looked into the queue.
THEOREM PassedKeepsWhatWasSeen == Spec => []PassedLosesOnlyTheEnd
<1>1. LogInv => PassedLosesOnlyTheEnd
  BY DEF LogInv, TypeOK, SeenIsAcked, AckedIsStored, Acked, PassedLosesOnlyTheEnd
<1> QED
  BY <1>1, LogInvariance, PTL

-----------------------------------------------------------------------------
(***************************************************************************)
(* The bytes of the queue.  What Sum computes is shown by induction over   *)
(* the places of the sequence, in the form that a set of places with the   *)
(* first one, and with each its successor, has all.                        *)
(***************************************************************************)

\* A nonempty set of numbers has a least one.
LEMMA LeastOf ==
  ASSUME NEW S \in SUBSET Nat, S # {}
  PROVE  \E k \in S : \A l \in S : k <= l
<1>. DEFINE less == {p \in Nat \X Nat : p[1] < p[2]}
<1>1. IsWellFoundedOn(less, Nat)
  BY Zenon, NatLessThanWellFounded DEF OpToRel
<1>2. PICK k \in S : \A l \in S : <<l, k>> \notin less
  BY Zenon, <1>1, WFMin
<1>3. ASSUME NEW l \in S, l < k  PROVE FALSE
  <2>1. <<l, k>> \in less
    BY Zenon, <1>3
  <2>. QED
    BY Zenon, <1>2, <2>1
<1>4. k \in Int /\ \A l \in S : l \in Int /\ ~(l < k)
  <2>. HIDE DEF less
  <2>. QED
    BY <1>3
<1>5. \A l \in S : k <= l
  BY <1>4
<1>. QED
  BY Zenon, <1>5

\* Induction over the places of a sequence.
LEMMA AllPlaces ==
  ASSUME NEW n \in Nat, NEW T \in SUBSET (0 .. n), 0 \in T,
         \A i \in 1 .. n : i - 1 \in T => i \in T
  PROVE  T = 0 .. n
<1>. SUFFICES ASSUME T # 0 .. n PROVE FALSE
  BY Zenon
<1>. DEFINE Rest == (0 .. n) \ T
<1>1. Rest \in SUBSET Nat /\ Rest # {}
  <2>1. 0 .. n \subseteq Nat
    OBVIOUS
  <2>. QED
    BY Zenon, <2>1
<1>2. PICK k \in Rest : \A l \in Rest : k <= l
  BY Zenon, <1>1, LeastOf
<1>3. k \in 1 .. n /\ k - 1 \in 0 .. n /\ ~(k <= k - 1)
  BY <1>2
<1>. QED
  BY Zenon, <1>2, <1>3

\* The totals of a sequence of numbers, up to each place.
TotalsUpTo(s, m) ==
  {f \in [0 .. m -> Int] : f[0] = 0 /\ \A i \in 1 .. m : f[i] = f[i - 1] + s[i]}
TotalsOf(s) == TotalsUpTo(s, Len(s))

\* They exist.
LEMMA TotalsExist ==
  ASSUME NEW s \in Seq(Int)
  PROVE  TotalsOf(s) # {}
<1>. DEFINE n == Len(s)
            T == {m \in 0 .. n : TotalsUpTo(s, m) # {}}
<1>0. n \in Nat /\ \A i \in 1 .. n : s[i] \in Int
  OBVIOUS
<1>. HIDE DEF n
<1>1. 0 \in T
  <2>1. [i \in 0 .. 0 |-> 0] \in TotalsUpTo(s, 0)
    BY DEF TotalsUpTo
  <2>2. 0 \in 0 .. n
    BY <1>0
  <2>. QED
    BY Zenon, <2>1, <2>2
<1>2. ASSUME NEW m \in 1 .. n, m - 1 \in T  PROVE m \in T
  <2>1. PICK g : g \in TotalsUpTo(s, m - 1)
    BY Zenon, <1>2
  <2>2. /\ g \in [0 .. m - 1 -> Int] /\ g[0] = 0
        /\ \A i \in 1 .. m - 1 : g[i] = g[i - 1] + s[i]
    BY Zenon, <2>1 DEF TotalsUpTo
  <2>. DEFINE h == [i \in 0 .. m |-> IF i = m THEN g[m - 1] + s[m] ELSE g[i]]
  <2>3. /\ \A i \in 0 .. m : i = m \/ i \in 0 .. m - 1
        /\ m - 1 \in 0 .. m - 1 /\ m \notin 0 .. m - 1 /\ 0 \in 0 .. m - 1
        /\ m \in 0 .. n /\ s[m] \in Int
    BY <1>0
  <2>4. h \in [0 .. m -> Int] /\ h[0] = 0
    BY <2>2, <2>3
  <2>5. ASSUME NEW i \in 1 .. m  PROVE h[i] = h[i - 1] + s[i]
    <3>1. i \in 0 .. m /\ i - 1 \in 0 .. m - 1 /\ i - 1 \in 0 .. m /\ i - 1 # m
      BY <1>0
    <3>2. h[i - 1] = g[i - 1]
      BY Zenon, <3>1
    <3>3. CASE i = m
      BY Zenon, <3>1, <3>2, <3>3
    <3>4. CASE i # m
      <4>1. i \in 1 .. m - 1
        BY <1>0, <3>4
      <4>2. h[i] = g[i]
        BY Zenon, <3>1, <3>4
      <4>. QED
        BY Zenon, <2>2, <3>2, <4>1, <4>2
    <3>. QED
      BY Zenon, <3>3, <3>4
  <2>. HIDE DEF h
  <2>6. h \in TotalsUpTo(s, m)
    BY Zenon, <2>4, <2>5 DEF TotalsUpTo
  <2>. QED
    BY Zenon, <2>3, <2>6
<1>3. T \in SUBSET (0 .. n)
  BY Zenon
<1>. HIDE DEF T
<1>4. T = 0 .. n
  BY Zenon, <1>0, <1>1, <1>2, <1>3, AllPlaces
<1>5. n \in T
  BY <1>0, <1>4
<1>. QED
  BY Zenon, <1>5 DEF T, TotalsOf, n

\* Sum is the last of them.
LEMMA SumIsTheTotal ==
  ASSUME NEW s \in Seq(Int), NEW f \in TotalsOf(s)
  PROVE  Sum(s) = f[Len(s)]
<1>. DEFINE n == Len(s)
            Total(g) == g = [i \in 0 .. n |-> IF i = 0 THEN 0 ELSE g[i - 1] + s[i]]
<1>0. n \in Nat /\ \A i \in 1 .. n : s[i] \in Int
  OBVIOUS
<1>1. /\ f \in [0 .. n -> Int] /\ f[0] = 0
      /\ \A i \in 1 .. n : f[i] = f[i - 1] + s[i]
  BY Zenon DEF TotalsOf, TotalsUpTo
<1>. HIDE DEF n
<1>2. Total(f)
  <2>1. ASSUME NEW i \in 0 .. n  PROVE f[i] = IF i = 0 THEN 0 ELSE f[i - 1] + s[i]
    <3>1. CASE i = 0
      BY Zenon, <1>1, <3>1
    <3>2. CASE i # 0
      <4>1. i \in 1 .. n
        BY <1>0, <3>2
      <4>. QED
        BY Zenon, <1>1, <3>2, <4>1
    <3>. QED
      BY Zenon, <3>1, <3>2
  <2>2. f = [i \in 0 .. n |-> f[i]]
    BY Zenon, <1>1
  <2>. QED
    BY Zenon, <2>1, <2>2
<1>3. PICK g : g = (CHOOSE h : Total(h)) /\ Total(g)
  BY Zenon, <1>2
<1>4. Sum(s) = g[n]
  BY Zenon, <1>3 DEF Sum, n
<1>5. g[0] = 0 /\ \A i \in 1 .. n : g[i] = g[i - 1] + s[i]
  <2>1. \A i \in 0 .. n : g[i] = IF i = 0 THEN 0 ELSE g[i - 1] + s[i]
    BY Zenon, <1>3
  <2>2. 0 \in 0 .. n /\ \A i \in 1 .. n : i \in 0 .. n /\ i # 0
    BY <1>0
  <2>. QED
    BY Zenon, <2>1, <2>2
<1>. DEFINE T == {i \in 0 .. n : g[i] = f[i]}
<1>6. T = 0 .. n
  <2>1. T \in SUBSET (0 .. n)
    BY Zenon
  <2>2. 0 \in T
    <3>1. 0 \in 0 .. n
      BY <1>0
    <3>. QED
      BY Zenon, <1>1, <1>5, <3>1
  <2>3. ASSUME NEW i \in 1 .. n, i - 1 \in T  PROVE i \in T
    <3>1. i \in 0 .. n
      BY <1>0
    <3>. QED
      BY Zenon, <1>1, <1>5, <2>3, <3>1
  <2>. HIDE DEF T
  <2>. QED
    BY Zenon, <1>0, <2>1, <2>2, <2>3, AllPlaces
<1>7. n \in 0 .. n
  BY <1>0
<1>8. g[n] = f[n]
  BY Zenon, <1>6, <1>7
<1>. QED
  BY Zenon, <1>4, <1>8 DEF n

\* What is appended is added.
LEMMA SumAppend ==
  ASSUME NEW s \in Seq(Int), NEW x \in Int
  PROVE  Sum(Append(s, x)) = Sum(s) + x
<1>. DEFINE n == Len(s)
            t == Append(s, x)
<1>0. /\ n \in Nat /\ t \in Seq(Int) /\ Len(t) = n + 1 /\ t[n + 1] = x
      /\ \A i \in 1 .. n : t[i] = s[i]
  OBVIOUS
<1>1. PICK f : f \in TotalsOf(s)
  BY Zenon, TotalsExist
<1>2. Sum(s) = f[n]
  BY Zenon, <1>1, SumIsTheTotal
<1>3. /\ f \in [0 .. n -> Int] /\ f[0] = 0
      /\ \A i \in 1 .. n : f[i] = f[i - 1] + s[i]
  BY Zenon, <1>1 DEF TotalsOf, TotalsUpTo
<1>. HIDE DEF n, t
<1>. DEFINE h == [i \in 0 .. n + 1 |-> IF i = n + 1 THEN f[n] + x ELSE f[i]]
<1>4. /\ \A i \in 0 .. n + 1 : i = n + 1 \/ i \in 0 .. n
      /\ n \in 0 .. n /\ 0 \in 0 .. n + 1 /\ 0 # n + 1 /\ n + 1 \in 0 .. n + 1
  BY <1>0
<1>5. f[n] \in Int /\ f[n] + x \in Int
  BY <1>3, <1>4
<1>6. h \in [0 .. n + 1 -> Int] /\ h[0] = 0 /\ h[n + 1] = f[n] + x
  BY Zenon, <1>3, <1>4, <1>5
<1>7. ASSUME NEW i \in 1 .. n + 1  PROVE h[i] = h[i - 1] + t[i]
  <2>1. i \in 0 .. n + 1 /\ i - 1 \in 0 .. n /\ i - 1 \in 0 .. n + 1 /\ i - 1 # n + 1
    BY <1>0
  <2>2. h[i - 1] = f[i - 1]
    BY Zenon, <2>1
  <2>3. CASE i = n + 1
    <3>1. i - 1 = n
      BY <1>0, <2>3
    <3>. QED
      BY Zenon, <1>0, <1>6, <2>2, <2>3, <3>1
  <2>4. CASE i # n + 1
    <3>1. i \in 1 .. n
      BY <1>0, <2>4
    <3>2. h[i] = f[i]
      BY Zenon, <2>1, <2>4
    <3>. QED
      BY Zenon, <1>0, <1>3, <2>2, <3>1, <3>2
  <2>. QED
    BY Zenon, <2>3, <2>4
<1>. HIDE DEF h
<1>8. h \in TotalsOf(t)
  BY Zenon, <1>0, <1>6, <1>7 DEF TotalsOf, TotalsUpTo
<1>9. Sum(t) = h[n + 1]
  BY Zenon, <1>0, <1>8, SumIsTheTotal
<1>. QED
  BY Zenon, <1>2, <1>6, <1>9 DEF t

\* The sum of a sequence is that of its beginning and that of its end.
LEMMA SumSplit ==
  ASSUME NEW s \in Seq(Int), NEW n \in 0 .. Len(s)
  PROVE  Sum(s) = Sum(SubSeq(s, 1, n)) + Sum(SubSeq(s, n + 1, Len(s)))
<1>. DEFINE a == SubSeq(s, 1, n)
            b == SubSeq(s, n + 1, Len(s))
<1>1. PICK m \in Nat : m = Len(s) /\ n \in 0 .. m
  OBVIOUS
<1>2. a \in Seq(Int) /\ Len(a) = n /\ \A i \in 1 .. n : a[i] = s[i]
  BY Zenon, PrefixFacts
<1>3. b \in Seq(Int) /\ Len(b) = m - n /\ \A i \in 1 .. m - n : b[i] = s[n + i]
  BY Zenon, <1>1, SuffixFacts
<1>. HIDE DEF a, b
<1>4. PICK f : f \in TotalsOf(s)
  BY Zenon, TotalsExist
<1>5. Sum(s) = f[m]
  BY Zenon, <1>1, <1>4, SumIsTheTotal
<1>6. /\ f \in [0 .. m -> Int] /\ f[0] = 0
      /\ \A i \in 1 .. m : f[i] = f[i - 1] + s[i]
  BY Zenon, <1>1, <1>4 DEF TotalsOf, TotalsUpTo
<1>7. Sum(a) = f[n]
  <2>. DEFINE g == [i \in 0 .. n |-> f[i]]
  <2>1. /\ \A i \in 0 .. n : i \in 0 .. m
        /\ \A i \in 1 .. n : i \in 1 .. m /\ i \in 0 .. n /\ i - 1 \in 0 .. n
        /\ 0 \in 0 .. n /\ n \in 0 .. n
    BY <1>1
  <2>2. g \in [0 .. n -> Int] /\ g[0] = 0
    BY Zenon, <1>6, <2>1
  <2>3. \A i \in 1 .. n : g[i] = g[i - 1] + a[i]
    BY Zenon, <1>2, <1>6, <2>1
  <2>4. g[n] = f[n]
    BY Zenon, <2>1
  <2>. HIDE DEF g
  <2>5. g \in TotalsOf(a)
    BY Zenon, <1>2, <2>2, <2>3 DEF TotalsOf, TotalsUpTo
  <2>. QED
    BY Zenon, <1>2, <2>4, <2>5, SumIsTheTotal
<1>8. Sum(b) = f[m] - f[n]
  <2>. DEFINE g == [i \in 0 .. m - n |-> f[n + i] - f[n]]
  <2>1. /\ n \in 0 .. m
        /\ \A i \in 0 .. m - n : n + i \in 0 .. m
        /\ \A i \in 1 .. m - n : /\ n + i \in 1 .. m /\ i \in 0 .. m - n /\ i - 1 \in 0 .. m - n
                                 /\ n + (i - 1) = (n + i) - 1
        /\ 0 \in 0 .. m - n /\ m - n \in 0 .. m - n /\ n + 0 = n /\ n + (m - n) = m
    BY <1>1
  <2>2. \A i \in 0 .. m : f[i] \in Int
    BY Zenon, <1>6
  <2>3. \A i \in 0 .. m - n : f[n + i] - f[n] \in Int
    BY <2>1, <2>2
  <2>4. g \in [0 .. m - n -> Int]
    BY Zenon, <2>3
  <2>5. g[0] = 0
    <3>1. g[0] = f[n] - f[n]
      BY Zenon, <2>1
    <3>. QED
      BY <2>1, <2>2, <3>1
  <2>6. ASSUME NEW i \in 1 .. m - n  PROVE g[i] = g[i - 1] + b[i]
    <3>1. g[i] = f[n + i] - f[n] /\ g[i - 1] = f[(n + i) - 1] - f[n]
      BY Zenon, <2>1
    <3>2. f[n + i] = f[(n + i) - 1] + b[i]
      BY Zenon, <1>3, <1>6, <2>1
    <3>3. (n + i) - 1 \in 0 .. m
      BY <1>1
    <3>4. PICK x \in Int, y \in Int : x = f[n] /\ y = f[(n + i) - 1]
      BY Zenon, <2>1, <2>2, <3>3
    <3>5. b[i] \in Int
      BY <1>3
    <3>6. PICK z \in Int : z = b[i]
      BY Zenon, <3>5
    <3>7. (y + z) - x = (y - x) + z
      OBVIOUS
    <3>. QED
      BY Zenon, <3>1, <3>2, <3>4, <3>6, <3>7
  <2>7. g[m - n] = f[m] - f[n]
    BY Zenon, <2>1
  <2>. HIDE DEF g
  <2>8. g \in TotalsOf(b)
    BY Zenon, <1>3, <2>4, <2>5, <2>6 DEF TotalsOf, TotalsUpTo
  <2>. QED
    BY Zenon, <1>3, <2>7, <2>8, SumIsTheTotal
<1>a. m \in 0 .. m /\ n \in 0 .. m
  BY <1>1
<1>9. f[m] \in Int /\ f[n] \in Int
  BY Zenon, <1>6, <1>a
<1>10. f[m] = f[n] + (f[m] - f[n])
  BY <1>9
<1>. QED
  BY Zenon, <1>5, <1>7, <1>8, <1>10 DEF a, b

\* The sum of natural numbers is one.
LEMMA SumIsNat ==
  ASSUME NEW s \in Seq(Nat)
  PROVE  s \in Seq(Int) /\ Sum(s) \in Nat
<1>1. PICK n \in Nat : n = Len(s) /\ \A i \in 1 .. n : s[i] \in Nat
  OBVIOUS
<1>2. s \in Seq(Int)
  OBVIOUS
<1>3. PICK f : f \in TotalsOf(s)
  BY Zenon, <1>2, TotalsExist
<1>4. Sum(s) = f[n]
  BY Zenon, <1>1, <1>2, <1>3, SumIsTheTotal
<1>5. /\ f \in [0 .. n -> Int] /\ f[0] = 0
      /\ \A i \in 1 .. n : f[i] = f[i - 1] + s[i]
  BY Zenon, <1>1, <1>3 DEF TotalsOf, TotalsUpTo
<1>. DEFINE T == {i \in 0 .. n : f[i] \in Nat}
<1>6. T = 0 .. n
  <2>1. T \in SUBSET (0 .. n)
    BY Zenon
  <2>2. 0 \in T
    BY <1>5
  <2>3. ASSUME NEW i \in 1 .. n, i - 1 \in T  PROVE i \in T
    <3>1. i \in 0 .. n /\ f[i - 1] \in Nat /\ s[i] \in Nat /\ f[i] = f[i - 1] + s[i]
      BY <1>1, <1>5, <2>3
    <3>2. f[i] \in Nat
      BY <3>1
    <3>. QED
      BY Zenon, <3>1, <3>2
  <2>. HIDE DEF T
  <2>. QED
    BY Zenon, <2>1, <2>2, <2>3, AllPlaces
<1>7. n \in T
  BY <1>6
<1>. QED
  BY Zenon, <1>2, <1>4, <1>7

\* The sum of nothing is nothing.
LEMMA SumOfNone == Sum(<<>>) = 0
<1>1. <<>> \in Seq(Int) /\ Len(<<>>) = 0
  OBVIOUS
<1>2. PICK f : f \in TotalsOf(<<>>)
  BY Zenon, <1>1, TotalsExist
<1>3. f[0] = 0
  BY Zenon, <1>2 DEF TotalsOf, TotalsUpTo
<1>. QED
  BY Zenon, <1>1, <1>2, <1>3, SumIsTheTotal

-----------------------------------------------------------------------------
(***************************************************************************)
(* The limit of the queue and those who wait for it.                       *)
(***************************************************************************)
SizedChunk == [sequence : Nat, stream : Stream, size : Nat]

\* The bytes of chunks.
BytesOf(s) == Sum(Sizes(s))

\* The sizes of chunks are a sequence of numbers.
LEMMA SizesFacts ==
  ASSUME NEW s \in Seq(SizedChunk)
  PROVE  /\ Sizes(s) \in Seq(Nat) /\ Len(Sizes(s)) = Len(s)
         /\ \A i \in 1 .. Len(s) : Sizes(s)[i] = s[i].size
<1>1. PICK n \in Nat : n = Len(s) /\ DOMAIN s = 1 .. n /\ \A i \in 1 .. n : s[i] \in SizedChunk
  OBVIOUS
<1>2. \A i \in 1 .. n : s[i].size \in Nat
  BY Zenon, <1>1 DEF SizedChunk
<1>3. Sizes(s) = [i \in 1 .. n |-> s[i].size]
  BY Zenon, <1>1 DEF Sizes
<1>. QED
  BY <1>1, <1>2, <1>3

\* A chunk that is appended adds its size.
LEMMA BytesAppend ==
  ASSUME NEW s \in Seq(SizedChunk), NEW c \in SizedChunk
  PROVE  BytesOf(Append(s, c)) = BytesOf(s) + c.size
<1>. DEFINE t == Append(s, c)
            u == Append(Sizes(s), c.size)
<1>1. c.size \in Nat /\ c.size \in Int
  BY DEF SizedChunk
<1>2. PICK n \in Nat : n = Len(s)
  OBVIOUS
<1>3. /\ t \in Seq(SizedChunk) /\ Len(t) = n + 1 /\ t[n + 1] = c
      /\ \A i \in 1 .. n : t[i] = s[i]
  BY <1>2
<1>4. /\ Sizes(s) \in Seq(Nat) /\ Len(Sizes(s)) = n
      /\ \A i \in 1 .. n : Sizes(s)[i] = s[i].size
  BY Zenon, <1>2, SizesFacts
<1>5. /\ u \in Seq(Nat) /\ Len(u) = n + 1 /\ u[n + 1] = c.size
      /\ \A i \in 1 .. n : u[i] = Sizes(s)[i]
  BY <1>1, <1>4
<1>. HIDE DEF t, u
<1>6. /\ Sizes(t) \in Seq(Nat) /\ Len(Sizes(t)) = n + 1
      /\ \A i \in 1 .. n + 1 : Sizes(t)[i] = t[i].size
  BY Zenon, <1>3, SizesFacts
<1>7. \A i \in 1 .. n + 1 : i = n + 1 \/ i \in 1 .. n
  OBVIOUS
<1>8. ASSUME NEW i \in 1 .. n + 1  PROVE Sizes(t)[i] = u[i]
  <2>1. CASE i = n + 1
    BY Zenon, <1>3, <1>5, <1>6, <2>1
  <2>2. CASE i \in 1 .. n
    BY Zenon, <1>3, <1>4, <1>5, <1>6, <2>2
  <2>. QED
    BY Zenon, <1>7, <2>1, <2>2
<1>9. Sizes(t) = u
  BY Zenon, <1>5, <1>6, <1>8, SameSequence
<1>10. Sizes(s) \in Seq(Int)
  BY Zenon, <1>4, SumIsNat
<1>11. Sum(u) = Sum(Sizes(s)) + c.size
  BY Zenon, <1>1, <1>10, SumAppend DEF u
<1>. QED
  BY Zenon, <1>9, <1>11 DEF BytesOf, t

\* The bytes that leave with the front are missing from the rest.
LEMMA BytesSplit ==
  ASSUME NEW s \in Seq(SizedChunk), NEW n \in 0 .. Len(s)
  PROVE  /\ BytesOf(SubSeq(s, 1, n)) \in Nat
         /\ BytesOf(SubSeq(s, n + 1, Len(s))) = BytesOf(s) - BytesOf(SubSeq(s, 1, n))
<1>. DEFINE a == SubSeq(s, 1, n)
            b == SubSeq(s, n + 1, Len(s))
            z == Sizes(s)
            za == SubSeq(z, 1, n)
            zb == SubSeq(z, n + 1, Len(z))
<1>1. PICK m \in Nat : m = Len(s) /\ n \in 0 .. m
  OBVIOUS
<1>2. a \in Seq(SizedChunk) /\ Len(a) = n /\ \A i \in 1 .. n : a[i] = s[i]
  BY Zenon, PrefixFacts
<1>3. b \in Seq(SizedChunk) /\ Len(b) = m - n /\ \A i \in 1 .. m - n : b[i] = s[n + i]
  BY Zenon, <1>1, SuffixFacts
<1>4. z \in Seq(Nat) /\ Len(z) = m /\ \A i \in 1 .. m : z[i] = s[i].size
  BY Zenon, <1>1, SizesFacts
<1>. HIDE DEF z
<1>a. n \in 0 .. Len(z)
  BY Zenon, <1>1, <1>4
<1>5. za \in Seq(Nat) /\ Len(za) = n /\ \A i \in 1 .. n : za[i] = z[i]
  BY Zenon, <1>4, <1>a, PrefixFacts
<1>6. zb \in Seq(Nat) /\ Len(zb) = m - n /\ \A i \in 1 .. m - n : zb[i] = z[n + i]
  BY Zenon, <1>4, <1>a, SuffixFacts
<1>. HIDE DEF a, b, za, zb
<1>7. /\ \A i \in 1 .. n : i \in 1 .. m
      /\ \A i \in 1 .. m - n : n + i \in 1 .. m
  BY <1>1
<1>8. Sizes(a) = za
  <2>1. /\ Sizes(a) \in Seq(Nat) /\ Len(Sizes(a)) = n
        /\ \A i \in 1 .. n : Sizes(a)[i] = a[i].size
    BY Zenon, <1>2, SizesFacts
  <2>2. \A i \in 1 .. n : Sizes(a)[i] = za[i]
    BY Zenon, <1>2, <1>4, <1>5, <1>7, <2>1
  <2>. QED
    BY Zenon, <1>5, <2>1, <2>2, SameSequence
<1>9. Sizes(b) = zb
  <2>1. /\ Sizes(b) \in Seq(Nat) /\ Len(Sizes(b)) = m - n
        /\ \A i \in 1 .. m - n : Sizes(b)[i] = b[i].size
    BY Zenon, <1>3, SizesFacts
  <2>2. ASSUME NEW i \in 1 .. m - n  PROVE Sizes(b)[i] = zb[i]
    <3>1. Sizes(b)[i] = s[n + i].size
      BY Zenon, <1>3, <2>1
    <3>2. zb[i] = s[n + i].size
      BY Zenon, <1>4, <1>6, <1>7
    <3>. QED
      BY Zenon, <3>1, <3>2
  <2>. QED
    BY Zenon, <1>6, <2>1, <2>2, SameSequence
<1>10. /\ Sum(za) \in Nat /\ Sum(zb) \in Nat /\ z \in Seq(Int)
  BY Zenon, <1>4, <1>5, <1>6, SumIsNat
<1>11. Sum(z) = Sum(za) + Sum(zb)
  BY Zenon, <1>a, <1>10, SumSplit DEF za, zb
<1>12. Sum(zb) = Sum(z) - Sum(za)
  BY <1>10, <1>11
<1>. QED
  BY Zenon, <1>8, <1>9, <1>10, <1>12 DEF BytesOf, a, b, z

\* Why a writer waits.
Waits(w) ==
  /\ HasMore(w) /\ pending + Head(unwritten[w]) > MaxPendingLogBytes
  /\ ~failure /\ ~closed

WriterState == {"ready", "waiting", "woken", "done", "failed"}

QueueInv ==
  /\ writer \in [Stream -> WriterState]
  /\ QueueIsBounded
  /\ \A w \in Stream : writer[w] = "waiting" => Waits(w)

\* The chunks of the model have sizes that are numbers.
LEMMA ChunksAreSized == Seq(Chunk) \subseteq Seq(SizedChunk)
<1>1. ChunkSize \subseteq Nat
  BY Zenon DEF ChunkSize
<1>2. Chunk \subseteq SizedChunk
  BY Zenon, <1>1 DEF Chunk, SizedChunk
<1>. QED
  BY <1>2

\* Whoever waited is awake after a signal.
LEMMA NobodyWaits ==
  ASSUME writer \in [Stream -> WriterState]
  PROVE  /\ Woken(writer) \in [Stream -> WriterState \ {"waiting"}]
         /\ \A w \in Stream :
              [Woken(writer) EXCEPT ![w] = "ready"] \in [Stream -> WriterState \ {"waiting"}]
<1>1. Woken(writer) \in [Stream -> WriterState \ {"waiting"}]
  <2>1. \A v \in Stream : writer[v] \in WriterState
    BY Zenon
  <2>2. \A v \in Stream :
          (IF writer[v] = "waiting" THEN "woken" ELSE writer[v]) \in WriterState \ {"waiting"}
    BY Zenon, <2>1 DEF WriterState
  <2>. QED
    BY Zenon, <2>2 DEF Woken
<1>2. "ready" \in WriterState \ {"waiting"}
  BY Zenon DEF WriterState
<1>. QED
  BY Zenon, <1>1, <1>2

\* With nobody waiting, the limit is all there is to keep.
LEMMA AwakeKeeps ==
  ASSUME writer' \in [Stream -> WriterState \ {"waiting"}], QueueIsBounded'
  PROVE  QueueInv'
BY Zenon DEF QueueInv

\* A step that leaves the queue alone changes at most one writer.
OneWriter(w, x) ==
  /\ writer' = [writer EXCEPT ![w] = x]
  /\ UNCHANGED <<queueVars, unwritten>>

\* A writer may end, fail, or wait with a reason.
LEMMA OneWriterKeeps ==
  ASSUME QueueInv, NEW w \in Stream, NEW x \in WriterState, OneWriter(w, x),
         x = "waiting" => Waits(w)
  PROVE  QueueInv'
<1>1. writer \in [Stream -> WriterState]
  BY Zenon DEF QueueInv
<1>2. /\ writer' = [writer EXCEPT ![w] = x]
      /\ chunks' = chunks /\ pending' = pending /\ closed' = closed /\ failure' = failure
      /\ unwritten' = unwritten
  BY Zenon DEF OneWriter, queueVars
<1>3. writer' \in [Stream -> WriterState]
  BY Zenon, <1>1, <1>2
<1>4. QueueIsBounded'
  BY Zenon, <1>2 DEF QueueInv, QueueIsBounded
<1>5. \A v \in Stream : Waits(v) => Waits(v)'
  BY Zenon, <1>2 DEF Waits, HasMore
<1>6. ASSUME NEW v \in Stream, writer'[v] = "waiting"  PROVE Waits(v)
  <2>1. CASE v = w
    BY Zenon, <1>1, <1>2, <1>6, <2>1
  <2>2. CASE v # w
    BY Zenon, <1>1, <1>2, <1>6, <2>2 DEF QueueInv
  <2>. QED
    BY Zenon, <2>1, <2>2
<1>. QED
  BY Zenon, <1>3, <1>4, <1>5, <1>6 DEF QueueInv

\* Enqueue adds a chunk for which there is room, and wakes all.
LEMMA AcceptedKeepsQueue ==
  ASSUME LogInv, QueueInv, NEW w \in Stream, HasMore(w), EnqueueAccepted(w)
  PROVE  QueueInv'
<1>1. chunks \in Seq(SizedChunk) /\ next \in Nat /\ unwritten[w] \in Seq(ChunkSize)
  BY Zenon, ChunksAreSized DEF LogInv, TypeOK
<1>2. PICK size \in Nat : size = Head(unwritten[w])
  <2>1. Head(unwritten[w]) \in ChunkSize
    BY <1>1 DEF HasMore
  <2>. QED
    BY Zenon, <2>1 DEF ChunkSize
<1>3. PICK c : c = [sequence |-> next + 1, stream |-> w, size |-> size]
  BY Zenon
<1>4. c \in SizedChunk /\ c.size = size
  BY <1>1, <1>3 DEF SizedChunk
<1>5. /\ pending + size <= MaxPendingLogBytes
      /\ chunks' = Append(chunks, c) /\ pending' = pending + size
      /\ writer' = [Woken(writer) EXCEPT ![w] = "ready"]
  BY Zenon, <1>2, <1>3 DEF EnqueueAccepted
<1>6. writer' \in [Stream -> WriterState \ {"waiting"}]
  BY Zenon, <1>5, NobodyWaits DEF QueueInv
<1>7. BytesOf(Append(chunks, c)) = BytesOf(chunks) + c.size
  BY Zenon, <1>1, <1>4, BytesAppend
<1>8. QueueIsBounded'
  BY Zenon, <1>4, <1>5, <1>7 DEF QueueInv, QueueIsBounded, BytesOf
<1>. QED
  BY Zenon, <1>6, <1>8, AwakeKeeps

\* Ack frees the bytes of the batch, and wakes all.
LEMMA AckKeepsQueue ==
  ASSUME LogInv, QueueInv, Ack
  PROVE  QueueInv'
<1>1. PICK n : n = Len(batch)
  BY Zenon
<1>2. chunks \in Seq(SizedChunk)
  BY Zenon, ChunksAreSized DEF LogInv, TypeOK
<1>3. n \in 0 .. Len(chunks)
  <2>1. batch \in Seq(Chunk) /\ Len(batch) <= Len(chunks)
    BY Zenon DEF LogInv, TypeOK, BatchIsTheFront, Ack, Sending
  <2>. QED
    BY <1>1, <1>2, <2>1
<1>4. /\ pending' = pending - BytesOf(SubSeq(chunks, 1, n))
      /\ chunks' = SubSeq(chunks, n + 1, Len(chunks))
      /\ writer' = Woken(writer)
  BY Zenon, <1>1 DEF Ack, BytesOf
<1>5. writer' \in [Stream -> WriterState \ {"waiting"}]
  BY Zenon, <1>4, NobodyWaits DEF QueueInv
<1>6. /\ BytesOf(SubSeq(chunks, 1, n)) \in Nat
      /\ BytesOf(SubSeq(chunks, n + 1, Len(chunks))) = BytesOf(chunks) - BytesOf(SubSeq(chunks, 1, n))
  BY Zenon, <1>2, <1>3, BytesSplit
<1>7. pending = BytesOf(chunks) /\ pending <= MaxPendingLogBytes
  BY Zenon DEF QueueInv, QueueIsBounded, BytesOf
<1>8. pending' = BytesOf(chunks')
  BY Zenon, <1>4, <1>6, <1>7
<1>9. BytesOf(chunks) \in Nat
  BY Zenon, <1>2, SizesFacts, SumIsNat DEF BytesOf
<1>10. PICK p \in Nat, q \in Nat : p = pending /\ q = BytesOf(SubSeq(chunks, 1, n))
  BY Zenon, <1>6, <1>7, <1>9
<1>11. p <= MaxPendingLogBytes => p - q <= MaxPendingLogBytes
  BY LogAssumption
<1>12. pending' <= MaxPendingLogBytes
  BY Zenon, <1>4, <1>7, <1>10, <1>11
<1>13. QueueIsBounded'
  BY Zenon, <1>8, <1>12 DEF QueueIsBounded, BytesOf
<1>. QED
  BY Zenon, <1>5, <1>13, AwakeKeeps

\* Fail wakes all.
LEMMA FailKeepsQueue ==
  ASSUME QueueInv, Fail
  PROVE  QueueInv'
<1>1. writer' = Woken(writer) /\ chunks' = chunks /\ pending' = pending
  BY Zenon DEF Fail
<1>2. writer' \in [Stream -> WriterState \ {"waiting"}]
  BY Zenon, <1>1, NobodyWaits DEF QueueInv
<1>3. QueueIsBounded'
  BY Zenon, <1>1 DEF QueueInv, QueueIsBounded
<1>. QED
  BY Zenon, <1>2, <1>3, AwakeKeeps

\* The queue is closed when every writer has ended.
LEMMA CloseKeepsQueue ==
  ASSUME QueueInv, CloseQueue
  PROVE  QueueInv'
<1>1. /\ writer' = writer /\ chunks' = chunks /\ pending' = pending
      /\ \A w \in Stream : writer[w] \in {"done", "failed"}
  BY Zenon DEF CloseQueue, writerVars
<1>2. \A w \in Stream : writer[w] # "waiting"
  <2>1. "waiting" # "done" /\ "waiting" # "failed"
    BY Zenon
  <2>. QED
    BY Zenon, <1>1, <2>1
<1>3. QueueIsBounded'
  BY Zenon, <1>1 DEF QueueInv, QueueIsBounded
<1>. QED
  BY Zenon, <1>1, <1>2, <1>3 DEF QueueInv

\* Whatever else happens leaves the reasons as they are.
LEMMA ApartKeepsQueue ==
  ASSUME QueueInv, UNCHANGED <<queueVars, writerVars>>
  PROVE  QueueInv'
<1>1. /\ chunks' = chunks /\ pending' = pending /\ closed' = closed /\ failure' = failure
      /\ writer' = writer /\ unwritten' = unwritten
  BY Zenon DEF queueVars, writerVars
<1>2. QueueIsBounded'
  BY Zenon, <1>1 DEF QueueInv, QueueIsBounded
<1>3. \A v \in Stream : Waits(v) => Waits(v)'
  BY Zenon, <1>1 DEF Waits, HasMore
<1>. QED
  BY Zenon, <1>1, <1>2, <1>3 DEF QueueInv

\* Every step of a writer keeps the limit and the reasons.
LEMMA WriteKeepsQueue ==
  ASSUME LogInv, QueueInv, NEW w \in Stream, Write(w)
  PROVE  QueueInv'
<1>. USE DEF WriterState
<1>0. "failed" \in WriterState /\ "done" \in WriterState /\ "waiting" \in WriterState
      /\ "failed" # "waiting" /\ "done" # "waiting"
  BY Zenon
<1>1. CASE HasMore(w) /\ EnqueueRefused(w)
  <2>1. OneWriter(w, "failed")
    BY Zenon, <1>1 DEF EnqueueRefused, OneWriter
  <2>. QED
    BY Zenon, <1>0, <2>1, OneWriterKeeps
<1>2. CASE HasMore(w) /\ EnqueueAccepted(w)
  BY Zenon, <1>2, AcceptedKeepsQueue
<1>3. CASE HasMore(w) /\ EnqueueBlocks(w)
  <2>1. OneWriter(w, "waiting") /\ Waits(w)
    BY Zenon, <1>3 DEF EnqueueBlocks, OneWriter, Waits
  <2>. QED
    BY Zenon, <1>0, <2>1, OneWriterKeeps
<1>4. CASE EnqueueCanceled(w)
  <2>1. OneWriter(w, "failed")
    BY Zenon, <1>4 DEF EnqueueCanceled, OneWriter
  <2>. QED
    BY Zenon, <1>0, <2>1, OneWriterKeeps
<1>5. CASE WriterEnds(w)
  <2>1. OneWriter(w, "done")
    BY Zenon, <1>5 DEF WriterEnds, OneWriter
  <2>. QED
    BY Zenon, <1>0, <2>1, OneWriterKeeps
<1>. QED
  BY Zenon, <1>1, <1>2, <1>3, <1>4, <1>5 DEF Write, Enqueue

\* So does every step.
LEMMA QueueStep == LogInv /\ QueueInv /\ [Next]_vars => QueueInv'
<1>. SUFFICES ASSUME LogInv, QueueInv, [Next]_vars PROVE QueueInv'
  BY Zenon
<1>. DEFINE Apart == UNCHANGED <<queueVars, writerVars>>
<1>0. Apart => QueueInv'
  BY Zenon, ApartKeepsQueue
<1>1. CASE \E w \in Stream : Write(w)
  BY Zenon, <1>1, WriteKeepsQueue
<1>2. CASE Upload
  <2>1. WaitBatchPeek \/ WaitBatchCheck \/ WaitBatchCanceled => Apart
    BY Zenon DEF WaitBatchPeek, WaitBatchCheck, WaitBatchCanceled, UploaderOnly
  <2>2. SendBatch \/ NoResponse \/ Retry => Apart
    BY Zenon DEF SendBatch, NoResponse, Retry, UploaderOnly
  <2>3. Fail => QueueInv'
    BY Zenon, FailKeepsQueue
  <2>4. Ack => QueueInv'
    BY Zenon, AckKeepsQueue
  <2>. QED
    BY Zenon, <1>0, <1>2, <2>1, <2>2, <2>3, <2>4 DEF Upload
<1>3. CASE \E m \in wire : Admit(m) \/ Refuse(m) \/ AppendJobLogs(m) \/ LoseRequest(m)
  <2>1. Apart
    BY Zenon, <1>3 DEF Admit, Refuse, AppendJobLogs, LoseRequest, Answer, UploaderOnly
  <2>. QED
    BY Zenon, <1>0, <2>1
<1>4. LoseLease \/ CancelContext \/ Report => Apart
  BY Zenon DEF LoseLease, CancelContext, Report
<1>5. CloseQueue => QueueInv'
  BY Zenon, CloseKeepsQueue
<1>6. UNCHANGED vars => Apart
  BY Zenon DEF vars
<1>. QED
  BY Zenon, <1>0, <1>1, <1>2, <1>3, <1>4, <1>5, <1>6 DEF Next

\* The queue starts empty, with nobody waiting.
LEMMA QueueInvInit == Init => QueueInv
<1>. SUFFICES ASSUME Init PROVE QueueInv
  BY Zenon
<1>1. writer = [w \in Stream |-> "ready"] /\ chunks = <<>> /\ pending = 0
  BY Zenon DEF Init
<1>2. "ready" \in WriterState /\ "ready" # "waiting"
  BY Zenon DEF WriterState
<1>3. writer \in [Stream -> WriterState] /\ \A w \in Stream : writer[w] # "waiting"
  BY Zenon, <1>1, <1>2
<1>4. Sizes(<<>>) = <<>>
  BY DEF Sizes
<1>5. 0 <= MaxPendingLogBytes
  BY LogAssumption
<1>6. QueueIsBounded
  BY Zenon, <1>1, <1>4, <1>5, SumOfNone DEF QueueIsBounded
<1>. QED
  BY Zenon, <1>3, <1>6 DEF QueueInv

\* The two invariants always hold.
LEMMA QueueInvariance == Spec => [](LogInv /\ QueueInv)
<1>1. Init => LogInv /\ QueueInv
  BY Zenon, LogInvInit, QueueInvInit
<1>2. LogInv /\ QueueInv /\ [Next]_vars => (LogInv /\ QueueInv)'
  BY Zenon, LogInvStep, QueueStep
<1>. QED
  BY <1>1, <1>2, PTL DEF Spec

\* The count of pending bytes is exact and within the limit, whatever the
\* writers add while a batch is being uploaded.
THEOREM PendingIsBounded == Spec => []QueueIsBounded
<1>1. QueueInv => QueueIsBounded
  BY Zenon DEF QueueInv
<1>. QED
  BY <1>1, QueueInvariance, PTL

\* No wake-up of a writer is lost: one that waits could not go on, and there
\* is something in the queue whose upload, or its failure, wakes it.
THEOREM WritersBlockForAReason == Spec => []BlockedForAReason
<1>1. LogInv /\ QueueInv => BlockedForAReason
  <2>. SUFFICES ASSUME LogInv, QueueInv, NEW w \in Stream, writer[w] = "waiting"
                PROVE  Waits(w) /\ chunks # <<>>
    BY Zenon DEF BlockedForAReason, Waits
  <2>1. Waits(w)
    BY Zenon DEF QueueInv
  <2>2. PICK size \in ChunkSize : size = Head(unwritten[w])
    <3>1. unwritten[w] \in Seq(ChunkSize) /\ unwritten[w] # <<>>
      BY Zenon, <2>1 DEF LogInv, TypeOK, Waits, HasMore
    <3>2. Head(unwritten[w]) \in ChunkSize
      BY <3>1
    <3>. QED
      BY Zenon, <3>2
  <2>3. ASSUME chunks = <<>>  PROVE FALSE
    <3>1. Sizes(<<>>) = <<>>
      BY DEF Sizes
    <3>2. pending = 0
      BY Zenon, <2>3, <3>1, SumOfNone DEF QueueInv, QueueIsBounded
    <3>3. 0 + size > MaxPendingLogBytes
      BY Zenon, <2>1, <2>2, <3>2 DEF Waits
    <3>. QED
      BY <3>3, LogAssumption DEF ChunkSize
  <2>. QED
    BY Zenon, <2>1, <2>3
<1>. QED
  BY <1>1, QueueInvariance, PTL
=============================================================================
