---------------------------- MODULE ArtifactBlobs ---------------------------
(***************************************************************************)
(* Artifacts: a job uploads the files it declares and commits their rows;  *)
(* other jobs of the run and users download them; the run's end starts     *)
(* their retention, and the collector removes what has run out.            *)
(*                                                                         *)
(* A job p of this module stands for a job and its run: other jobs may     *)
(* keep the run going after p has ended.                                   *)
(***************************************************************************)
EXTENDS ContentStore

CONSTANTS
  Producer,      \* the jobs that declare artifacts
  Outputs,       \* Outputs[p]: the digests of what p declares, in order
  LocalJob,      \* the jobs executed by the server itself
  Retention

ASSUME OutputsAssumption ==
  Retention \in Nat /\ LocalJob \subseteq Producer /\ Outputs \in [Producer -> Seq(Digest)]

VARIABLES
  running,       \* the jobs whose job_runs.status is RUNNING
  over,          \* the jobs whose run is terminal
  row,           \* row[p]: the rows of p: "none", "live" or "deleted"
  retained,      \* retained[p]: how long the rows are kept, -1: no expiry
  publishing,    \* publishing[p]: how far Publish has come
  took,          \* took[p]: the time from the first upload to the commit, or -1
  reader,        \* a download: the job, the digest of its artifact, the outcome
  late           \* the jobs that committed since the collector, in its pass,
                 \* last read the table (to state what it may remove)

artifactVars == <<running, over, row, retained, publishing, took, reader, late>>

Blobs(p) == Range(Outputs[p])
Refers(p, d) == row[p] = "live" /\ d \in Blobs(p)

NoReader == [pc |-> "none"]

ArtifactInit ==
  /\ running = Producer /\ over = {}
  /\ row = [p \in Producer |-> "none"] /\ retained = [p \in Producer |-> -1]
  /\ publishing = [p \in Producer |-> 1] /\ took = [p \in Producer |-> -1]
  /\ reader = NoReader
  /\ late = {}

-----------------------------------------------------------------------------
(***************************************************************************)
(* Publish.  The steps of a job are numbered: upload 1, ..., upload n, the *)
(* check of the commit handler, the transaction; 0 is the end.             *)
(***************************************************************************)
uploads(p) == Len(Outputs[p])
PublishAt(p, i) == publishing' = [publishing EXCEPT ![p] = i]

\* An error of any kind ends the publication, and the job fails.
PublishFails(p) ==
  /\ publishing[p] > 0
  /\ PublishAt(p, 0)
  /\ running' = running \ {p}
  /\ took' = [took EXCEPT ![p] = -1]
  /\ UNCHANGED <<storeVars, over, row, retained, reader, late>>

Upload(p) ==
  /\ publishing[p] \in 1 .. uploads(p)
  /\ p \in running
  /\ Put(Outputs[p][publishing[p]])
  /\ PublishAt(p, publishing[p] + 1)
  /\ took' = [took EXCEPT ![p] = IF @ < 0 THEN 0 ELSE @]
  /\ UNCHANGED <<running, over, row, retained, reader, late>>

\* ArtifactCommit looks for the files before the transaction; the server's own
\* jobs call the transaction at once.
HasBlobs(p) ==
  /\ publishing[p] = uploads(p) + 1
  /\ p \notin LocalJob => p \in running /\ \A d \in Blobs(p) : Present(d)
  /\ PublishAt(p, publishing[p] + 1)
  /\ UNCHANGED <<storeVars, running, over, row, retained, took, reader, late>>

CommitArtifacts(p) ==
  /\ publishing[p] = uploads(p) + 2
  /\ p \in running
  /\ row' = [row EXCEPT ![p] = "live"]
  /\ PublishAt(p, 0)
  /\ late' = IF pass = "idle" THEN {} ELSE late \cup {p}
  /\ UNCHANGED <<storeVars, running, over, retained, took, reader>>

\* The job passes, which it can once its rows are there, or fails, or is lost
\* with its lease, or with the server.
JobEnds(p) ==
  /\ p \in running
  /\ running' = running \ {p}
  /\ UNCHANGED <<storeVars, over, row, retained, publishing, took, reader, late>>

\* The run ends; its rows get their expiry.
RunEnds(p) ==
  /\ p \notin over /\ p \notin running
  /\ over' = over \cup {p}
  /\ retained' = [retained EXCEPT ![p] = IF row[p] = "live" THEN Retention ELSE @]
  /\ took' = [took EXCEPT ![p] = -1]
  /\ UNCHANGED <<storeVars, running, row, publishing, reader, late>>

-----------------------------------------------------------------------------
(***************************************************************************)
(* Downloads: the row, then the file.                                      *)
(***************************************************************************)

\* GetArtifact, for a user, or GetArtifactForLease, for a job that needs p, which
\* asks in addition that p has passed and the run goes on.
GetArtifact(p) ==
  /\ reader = NoReader /\ row[p] = "live"
  /\ \E d \in Blobs(p) : reader' = [pc |-> "found", job |-> p, digest |-> d]
  /\ UNCHANGED <<storeVars, running, over, row, retained, publishing, took, late>>

OpenBlob ==
  /\ reader.pc = "found"
  /\ reader' = IF Present(reader.digest) THEN NoReader ELSE [reader EXCEPT !.pc = "unavailable"]
  /\ UNCHANGED <<storeVars, running, over, row, retained, publishing, took, late>>

-----------------------------------------------------------------------------
(***************************************************************************)
(* The collector.                                                          *)
(***************************************************************************)
expired == {p \in Producer : row[p] = "live" /\ retained[p] = 0}
candidates == UNION {Blobs(p) : p \in expired}
removableUnchecked == candidates
removable == {d \in candidates : \A p \in Producer \ expired : ~Refers(p, d)}

ExpireArtifacts ==
  /\ BeginPass("remove")
  /\ row' = [p \in Producer |-> IF p \in expired THEN "deleted" ELSE row[p]]
  /\ doomed' = removable
  /\ late' = {}
  /\ UNCHANGED <<running, over, retained, publishing, took, reader>>

ReferredEver == UNION {Blobs(p) : p \in {q \in Producer : row[q] # "none"}}
Referred == UNION {Blobs(p) : p \in {q \in Producer : row[q] = "live"}}

LiveArtifactBlobs ==
  /\ CleanupOrphans(Referred)
  /\ late' = {}
  /\ UNCHANGED <<running, over, row, retained, publishing, took, reader>>

ArtifactSweep ==
  /\ \/ RemoveBlob /\ UNCHANGED late
     \/ EndPass /\ late' = {}
  /\ UNCHANGED <<running, over, row, retained, publishing, took, reader>>

ArtifactGC == ExpireArtifacts \/ LiveArtifactBlobs \/ ArtifactSweep

ArtifactTick ==
  /\ file' = Older
  /\ retained' = [p \in Producer |-> IF retained[p] > 0 THEN retained[p] - 1 ELSE retained[p]]
  /\ took' = [p \in Producer |-> IF publishing[p] # 0 /\ took[p] \in 0 .. Grace - 1
                                 THEN took[p] + 1 ELSE took[p]]
  /\ UNCHANGED <<pass, doomed, old, running, over, row, publishing, reader, late>>

PublishStep(p) == PublishFails(p) \/ Upload(p) \/ HasBlobs(p) \/ CommitArtifacts(p)

ArtifactNext ==
  \/ \E p \in Producer :
       PublishStep(p) \/ JobEnds(p) \/ RunEnds(p) \/ GetArtifact(p)
  \/ OpenBlob
  \/ ArtifactGC
  \/ ArtifactTick

-----------------------------------------------------------------------------
(***************************************************************************)
(* Properties.                                                             *)
(***************************************************************************)

\* ExpireArtifacts and CleanupOrphans decide first and remove later, while jobs
\* commit; still, what the collector removes is in use only by jobs that
\* committed after it had read the table.
CollectorSparesWhatItSaw ==
  [][\A d \in Digest : Present(d) /\ file'[d] = -1 =>
        \A p \in Producer : Refers(p, d) => p \in late]_<<storeVars, artifactVars>>

\* The grace period does its work: as long as the run goes on, what a job
\* committed within the grace of its first upload can be downloaded, unless
\* another job produced the same content.
PromptArtifactIsReadable ==
  reader.pc = "unavailable" =>
    \/ took[reader.job] = Grace
    \/ \E q \in Producer \ {reader.job} : reader.digest \in Blobs(q)
    \/ reader.job \in over
=============================================================================
