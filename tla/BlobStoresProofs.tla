-------------------------- MODULE BlobStoresProofs --------------------------
(***************************************************************************)
(* What the collectors of the two content stores may remove, for any jobs, *)
(* outputs, keys and periods.                                              *)
(***************************************************************************)
EXTENDS BlobStores, TLAPS

StoreType ==
  /\ file \in [Digest -> -1 .. Grace]
  /\ doomed \subseteq Digest /\ old \subseteq Digest

-----------------------------------------------------------------------------
(***************************************************************************)
(* The artifacts.                                                          *)
(***************************************************************************)
Reading == [pc : {"found", "unavailable"}, job : Producer, digest : Digest]

ArtifactType ==
  /\ StoreType
  /\ over \subseteq Producer
  /\ row \in [Producer -> {"none", "live", "deleted"}]
  /\ retained \in [Producer -> -1 .. Retention]
  /\ publishing \in [Producer -> Nat]
  /\ took \in [Producer -> -1 .. Grace]
  /\ reader \in {NoReader} \cup Reading

\* A job has rows once its publication is over, and they expire only after the
\* run's end.
RowInv ==
  \A p \in Producer :
    /\ row[p] # "none" => publishing[p] = 0
    /\ p \notin over => retained[p] = -1 /\ row[p] # "deleted"

\* What the collector has yet to remove is in use only by jobs that committed
\* after it read the table.
DoomedArtifacts ==
  /\ pass = "idle" => doomed = {}
  /\ \A d \in doomed, p \in Producer : Refers(p, d) => p \in late

\* d is a digest that, of all the jobs, only p produces; p is in time, and its run
\* goes on.
Prompt(p, d) ==
  /\ d \in Blobs(p) /\ \A q \in Producer \ {p} : d \notin Blobs(q)
  /\ p \notin over /\ took[p] # Grace

Uploaded(p, d) == \E i \in DOMAIN Outputs[p] : i < publishing[p] /\ Outputs[p][i] = d

\* The file of such a digest is no older than the publication, so that no pass
\* finds it old before there is a row; and once uploaded it stays.
PromptIsKept ==
  \A p \in Producer, d \in Digest :
    Prompt(p, d) =>
      /\ publishing[p] > 0 => d \notin old \cup doomed /\ file[d] <= took[p]
      /\ publishing[p] > 0 /\ Uploaded(p, d) => Present(d)
      /\ row[p] = "live" => d \notin doomed /\ Present(d)

\* A download is of something that had a row, and ends without it only as
\* PromptArtifactIsReadable says.
ReaderInv ==
  reader # NoReader =>
    /\ reader.digest \in Blobs(reader.job)
    /\ row[reader.job] # "none"
    /\ reader.pc = "unavailable" => ~Prompt(reader.job, reader.digest)

ArtifactInv == ArtifactType /\ RowInv /\ DoomedArtifacts /\ PromptIsKept /\ ReaderInv

-----------------------------------------------------------------------------
(***************************************************************************)
(* The cache.                                                              *)
(***************************************************************************)
CacheType ==
  /\ StoreType
  /\ entry \in [Key -> Digest \cup {NoDigest}]
  /\ fresh \in [Key -> Nat]
  /\ deletedRows \subseteq Digest
  /\ user \in [User -> {"lookup", "open", "fetch", "run", "commit"}]
  /\ found \in [User -> Digest \cup {NoDigest}]
  /\ \A u \in User : user[u] \in {"lookup", "open", "fetch"} => Restores[u] \in Key

DoomedEntries ==
  /\ pass \in {"idle", "expired"} => doomed = {}
  /\ \A d \in doomed, k \in Key : entry[k] = d => k \in recent \/ fresh[k] = 0

CacheInv == CacheType /\ DoomedEntries

\* Of the two stores, one is at work; the other's tables are as they were.
StoresInv ==
  /\ store \in {"artifacts", "cache"}
  /\ store = "artifacts" => ArtifactInv /\ entry = [k \in Key |-> NoDigest]
  /\ store = "cache" => CacheInv /\ row = [p \in Producer |-> "none"] /\ reader = NoReader
-----------------------------------------------------------------------------
(***************************************************************************)
(* The artifacts, action by action.                                        *)
(***************************************************************************)

\* What Outputs lists is what Blobs collects.
LEMMA BlobsOf ==
  ASSUME NEW p \in Producer
  PROVE  /\ Blobs(p) \subseteq Digest
         /\ DOMAIN Outputs[p] = 1 .. uploads(p) /\ uploads(p) \in Nat
         /\ \A i \in 1 .. uploads(p) : Outputs[p][i] \in Blobs(p) /\ Outputs[p][i] \in Digest
         /\ \A d \in Blobs(p) : \E i \in 1 .. uploads(p) : Outputs[p][i] = d
<1>1. Outputs[p] \in Seq(Digest)
  BY Zenon, OutputsAssumption
<1>2. DOMAIN Outputs[p] = 1 .. uploads(p) /\ uploads(p) \in Nat
  BY <1>1 DEF uploads
<1>3. \A i \in 1 .. uploads(p) : Outputs[p][i] \in Digest
  BY <1>1, <1>2
<1> QED
  BY Zenon, <1>2, <1>3 DEF Blobs, Range

\* Initially there is nothing.
LEMMA ArtifactsStart == StoreInit /\ ArtifactInit => ArtifactInv
<1> SUFFICES ASSUME StoreInit, ArtifactInit PROVE ArtifactInv
  BY Zenon
<1> USE GraceAssumption, OutputsAssumption
<1>1. ArtifactType
  BY DEF StoreInit, ArtifactInit, ArtifactType, StoreType
<1>2. RowInv
  BY Zenon DEF StoreInit, ArtifactInit, RowInv
<1>3. DoomedArtifacts
  BY Zenon DEF StoreInit, ArtifactInit, DoomedArtifacts
<1>4. PromptIsKept
  <2> SUFFICES ASSUME NEW p \in Producer, NEW d \in Digest
               PROVE  /\ d \notin old \cup doomed /\ file[d] <= took[p]
                      /\ ~Uploaded(p, d)
                      /\ row[p] # "live"
    BY Zenon DEF PromptIsKept
  <2>1. ~Uploaded(p, d)
    BY BlobsOf DEF ArtifactInit, Uploaded
  <2> QED
    BY <2>1 DEF StoreInit, ArtifactInit
<1>5. ReaderInv
  BY Zenon DEF ArtifactInit, ReaderInv
<1> QED
  BY Zenon, <1>1, <1>2, <1>3, <1>4, <1>5 DEF ArtifactInv

\* A publication that fails leaves its files to the collector.
LEMMA PublishFailsKeeps ==
  ASSUME ArtifactInv, NEW p \in Producer, PublishFails(p)
  PROVE  ArtifactInv'
<1> USE GraceAssumption, OutputsAssumption
<1>0. ArtifactType /\ RowInv /\ DoomedArtifacts /\ PromptIsKept /\ ReaderInv
  BY Zenon DEF ArtifactInv
<1>a. /\ publishing[p] > 0 /\ row[p] = "none"
      /\ publishing' = [publishing EXCEPT ![p] = 0] /\ took' = [took EXCEPT ![p] = -1]
      /\ UNCHANGED <<file, pass, doomed, old, over, row, retained, reader, late>>
  BY <1>0 DEF PublishFails, PublishAt, storeVars, ArtifactType, RowInv
<1>1. ArtifactType'
  BY <1>0, <1>a DEF ArtifactType, StoreType
<1>2. RowInv'
  BY Zenon, <1>0, <1>a DEF ArtifactType, RowInv
<1>3. DoomedArtifacts'
  BY Zenon, <1>0, <1>a DEF DoomedArtifacts, Refers
<1>4. PromptIsKept'
  <2> SUFFICES ASSUME NEW q \in Producer, NEW d \in Digest, q # p, Prompt(q, d)'
               PROVE  /\ publishing[q] > 0 => d \notin old \cup doomed /\ file[d] <= took[q]
                      /\ publishing[q] > 0 /\ Uploaded(q, d) => Present(d)
                      /\ row[q] = "live" => d \notin doomed /\ Present(d)
    BY <1>0, <1>a DEF PromptIsKept, ArtifactType, Uploaded, Present
  <2>1. Prompt(q, d)
    BY Zenon, <1>0, <1>a DEF Prompt, ArtifactType
  <2> QED
    BY Zenon, <2>1, <1>0 DEF PromptIsKept
<1>5. ReaderInv'
  BY Zenon, <1>0, <1>a DEF ReaderInv, Prompt, ArtifactType, Reading
<1> QED
  BY Zenon, <1>1, <1>2, <1>3, <1>4, <1>5 DEF ArtifactInv

\* The age of a new file is 0, and the publication began no later.
LEMMA UploadKeeps ==
  ASSUME ArtifactInv, NEW p \in Producer, Upload(p)
  PROVE  ArtifactInv'
<1> USE GraceAssumption, OutputsAssumption
<1>0. ArtifactType /\ RowInv /\ DoomedArtifacts /\ PromptIsKept /\ ReaderInv
  BY Zenon DEF ArtifactInv
<1>b. PICK e : e = Outputs[p][publishing[p]]
  BY Zenon
<1>a. /\ publishing[p] \in 1 .. uploads(p)
      /\ file' = [file EXCEPT ![e] = IF file[e] >= 0 THEN @ ELSE 0]
      /\ publishing' = [publishing EXCEPT ![p] = publishing[p] + 1]
      /\ took' = [took EXCEPT ![p] = IF @ < 0 THEN 0 ELSE @]
      /\ UNCHANGED <<pass, doomed, old, over, row, retained, reader, late>>
  BY Zenon, <1>b DEF Upload, Put, Present, PublishAt
<1>c. e \in Blobs(p) /\ e \in Digest
  BY Zenon, <1>a, <1>b, BlobsOf
<1>d. row[p] = "none" /\ publishing[p] > 0
  BY <1>0, <1>a DEF RowInv, ArtifactType
<1>1. ArtifactType'
  BY <1>0, <1>a, <1>c DEF ArtifactType, StoreType
<1>2. RowInv'
  BY Zenon, <1>0, <1>a, <1>d DEF ArtifactType, RowInv
<1>3. DoomedArtifacts'
  BY Zenon, <1>0, <1>a DEF DoomedArtifacts, Refers
<1>4. PromptIsKept'
  <2> SUFFICES ASSUME NEW q \in Producer, NEW d \in Digest, Prompt(q, d)'
               PROVE  /\ publishing'[q] > 0 => d \notin old \cup doomed /\ file'[d] <= took'[q]
                      /\ publishing'[q] > 0 /\ Uploaded(q, d)' => file'[d] >= 0
                      /\ row[q] = "live" => d \notin doomed /\ file'[d] >= 0
    BY Zenon, <1>a DEF PromptIsKept, Present
  <2>1. Prompt(q, d)
    BY <1>0, <1>a DEF Prompt, ArtifactType
  <2>2. file[d] \in -1 .. Grace /\ took[q] \in -1 .. Grace
    BY Zenon, <1>0 DEF ArtifactType, StoreType
  <2>3. CASE q # p
    <3>1. d # e
      BY Zenon, <2>1, <2>3, <1>c DEF Prompt
    <3>2. file'[d] = file[d] /\ took'[q] = took[q] /\ publishing'[q] = publishing[q]
      BY Zenon, <3>1, <2>3, <1>0, <1>a DEF ArtifactType, StoreType
    <3> QED
      BY Zenon, <3>2, <2>1, <1>0 DEF PromptIsKept, Uploaded, Present
  <2>4. CASE q = p
    <3>1. d \notin old \cup doomed /\ file[d] <= took[p] /\ (Uploaded(p, d) => file[d] >= 0)
      BY Zenon, <2>1, <2>4, <1>0, <1>d DEF PromptIsKept, Present
    <3>2. took'[p] \in Nat /\ took[p] <= took'[p]
      BY <2>2, <2>4, <1>0, <1>a DEF ArtifactType
    <3>3. file'[d] = (IF d = e /\ file[e] < 0 THEN 0 ELSE file[d])
      BY <2>2, <1>0, <1>a, <1>c DEF ArtifactType, StoreType
    <3>4. file'[d] <= took'[p]
      BY <3>1, <3>2, <3>3, <2>2, <2>4
    <3>5. ASSUME Uploaded(p, d)' PROVE file'[d] >= 0
      <4>1. PICK i \in DOMAIN Outputs[p] : i < publishing[p] + 1 /\ Outputs[p][i] = d
        BY Zenon, <3>5, <1>0, <1>a DEF Uploaded, ArtifactType
      <4>2. i < publishing[p] \/ i = publishing[p]
        <5>1. i \in Int /\ publishing[p] \in Int
          BY <4>1, <1>0, BlobsOf DEF ArtifactType
        <5> QED
          BY <4>1, <5>1
      <4>3. CASE i < publishing[p]
        BY <4>1, <4>3, <3>1, <3>3, <2>2 DEF Uploaded
      <4>4. CASE i = publishing[p]
        BY <4>1, <4>4, <1>b, <3>3, <2>2
      <4> QED
        BY Zenon, <4>2, <4>3, <4>4
    <3> QED
      BY Zenon, <3>1, <3>4, <3>5, <2>4, <1>d
  <2> QED
    BY Zenon, <2>3, <2>4
<1>5. ReaderInv'
  <2>1. reader # NoReader => reader.job # p
    BY Zenon, <1>0, <1>d DEF ReaderInv
  <2> QED
    BY Zenon, <2>1, <1>0, <1>a DEF ReaderInv, Prompt, ArtifactType, Reading
<1> QED
  BY Zenon, <1>1, <1>2, <1>3, <1>4, <1>5 DEF ArtifactInv

\* The check of the commit handler changes nothing but the job's place.
LEMMA HasBlobsKeeps ==
  ASSUME ArtifactInv, NEW p \in Producer, HasBlobs(p)
  PROVE  ArtifactInv'
<1> USE GraceAssumption, OutputsAssumption
<1>0. ArtifactType /\ RowInv /\ DoomedArtifacts /\ PromptIsKept /\ ReaderInv
  BY Zenon DEF ArtifactInv
<1>a. /\ publishing[p] = uploads(p) + 1
      /\ publishing' = [publishing EXCEPT ![p] = publishing[p] + 1]
      /\ UNCHANGED <<file, pass, doomed, old, over, row, retained, took, reader, late>>
  BY Zenon DEF HasBlobs, PublishAt, storeVars
<1>d. row[p] = "none" /\ publishing[p] \in Nat /\ publishing[p] > 0
  BY <1>0, <1>a, BlobsOf DEF RowInv, ArtifactType
<1>1. ArtifactType'
  BY <1>0, <1>a, <1>d DEF ArtifactType, StoreType
<1>2. RowInv'
  BY Zenon, <1>0, <1>a, <1>d DEF ArtifactType, RowInv
<1>3. DoomedArtifacts'
  BY Zenon, <1>0, <1>a DEF DoomedArtifacts, Refers
<1>4. PromptIsKept'
  <2> SUFFICES ASSUME NEW q \in Producer, NEW d \in Digest, Prompt(q, d)
               PROVE  /\ publishing'[q] > 0 => d \notin old \cup doomed /\ file[d] <= took[q]
                      /\ publishing'[q] > 0 /\ Uploaded(q, d)' => file[d] >= 0
                      /\ row[q] = "live" => d \notin doomed /\ file[d] >= 0
    BY Zenon, <1>a DEF PromptIsKept, Present, Prompt
  <2>1. publishing'[q] > 0 => publishing[q] > 0
    BY Zenon, <1>0, <1>a, <1>d DEF ArtifactType
  <2>2. Uploaded(q, d)' => Uploaded(q, d)
    BY <1>0, <1>a, BlobsOf DEF Uploaded, ArtifactType
  <2> QED
    BY Zenon, <2>1, <2>2, <1>0 DEF PromptIsKept, Present
<1>5. ReaderInv'
  BY Zenon, <1>0, <1>a DEF ReaderInv, Prompt
<1> QED
  BY Zenon, <1>1, <1>2, <1>3, <1>4, <1>5 DEF ArtifactInv

\* The transaction: every file that the rows refer to has been uploaded.
LEMMA CommitArtifactsKeeps ==
  ASSUME ArtifactInv, NEW p \in Producer, CommitArtifacts(p)
  PROVE  ArtifactInv'
<1> USE GraceAssumption, OutputsAssumption
<1>0. ArtifactType /\ RowInv /\ DoomedArtifacts /\ PromptIsKept /\ ReaderInv
  BY Zenon DEF ArtifactInv
<1>a. /\ publishing[p] = uploads(p) + 2
      /\ row' = [row EXCEPT ![p] = "live"]
      /\ publishing' = [publishing EXCEPT ![p] = 0]
      /\ late' = IF pass = "idle" THEN {} ELSE late \cup {p}
      /\ UNCHANGED <<file, pass, doomed, old, over, retained, took, reader>>
  BY Zenon DEF CommitArtifacts, PublishAt, storeVars
<1>d. row[p] = "none" /\ publishing[p] \in Nat /\ publishing[p] > 0
  BY <1>0, <1>a, BlobsOf DEF RowInv, ArtifactType
<1>1. ArtifactType'
  BY Zenon, <1>0, <1>a DEF ArtifactType, StoreType
<1>2. RowInv'
  BY Zenon, <1>0, <1>a DEF ArtifactType, RowInv
<1>3. DoomedArtifacts'
  BY Zenon, <1>0, <1>a DEF DoomedArtifacts, Refers, ArtifactType
<1>4. PromptIsKept'
  <2> SUFFICES ASSUME NEW q \in Producer, NEW d \in Digest, Prompt(q, d)
               PROVE  /\ publishing'[q] > 0 => d \notin old \cup doomed /\ file[d] <= took[q]
                      /\ publishing'[q] > 0 /\ Uploaded(q, d)' => file[d] >= 0
                      /\ row'[q] = "live" => d \notin doomed /\ file[d] >= 0
    BY Zenon, <1>a DEF PromptIsKept, Present, Prompt
  <2>1. CASE q # p
    <3>1. publishing'[q] = publishing[q] /\ row'[q] = row[q]
      BY Zenon, <2>1, <1>0, <1>a DEF ArtifactType
    <3> QED
      BY Zenon, <3>1, <1>0 DEF PromptIsKept, Uploaded, Present
  <2>2. CASE q = p
    <3>1. publishing'[p] = 0
      BY Zenon, <1>0, <1>a DEF ArtifactType
    <3>2. Uploaded(p, d)
      <4>1. PICK j \in 1 .. uploads(p) : Outputs[p][j] = d
        BY Zenon, <2>2, BlobsOf DEF Prompt
      <4> QED
        BY <4>1, <1>a, BlobsOf DEF Uploaded
    <3>3. d \notin doomed /\ file[d] >= 0
      BY Zenon, <3>2, <2>2, <1>0, <1>d DEF PromptIsKept, Present
    <3> QED
      BY <3>1, <3>3, <2>2
  <2> QED
    BY Zenon, <2>1, <2>2
<1>5. ReaderInv'
  BY Zenon, <1>0, <1>a DEF ReaderInv, Prompt, ArtifactType, Reading
<1> QED
  BY Zenon, <1>1, <1>2, <1>3, <1>4, <1>5 DEF ArtifactInv

\* The end of a job is nothing to the store.
LEMMA JobEndsKeeps ==
  ASSUME ArtifactInv, NEW p \in Producer, JobEnds(p)
  PROVE  ArtifactInv'
<1>a. UNCHANGED <<file, pass, doomed, old, over, row, retained, publishing, took, reader, late>>
  BY Zenon DEF JobEnds, storeVars
<1> QED
  BY Zenon, <1>a DEF ArtifactInv, ArtifactType, StoreType, RowInv, DoomedArtifacts, Refers, PromptIsKept,
              Prompt, Uploaded, Present, ReaderInv

\* After the end of its run a job's artifacts are no longer prompt.
LEMMA RunEndsKeeps ==
  ASSUME ArtifactInv, NEW p \in Producer, RunEnds(p)
  PROVE  ArtifactInv'
<1> USE GraceAssumption, OutputsAssumption
<1>0. ArtifactType /\ RowInv /\ DoomedArtifacts /\ PromptIsKept /\ ReaderInv
  BY Zenon DEF ArtifactInv
<1>a. /\ p \notin over /\ over' = over \cup {p}
      /\ retained' = [retained EXCEPT ![p] = IF row[p] = "live" THEN Retention ELSE @]
      /\ took' = [took EXCEPT ![p] = -1]
      /\ UNCHANGED <<file, pass, doomed, old, row, publishing, reader, late>>
  BY Zenon DEF RunEnds, storeVars
<1>b. ASSUME NEW q \in Producer, NEW d, Prompt(q, d)'
      PROVE  q # p /\ took'[q] = took[q] /\ Prompt(q, d)
  BY Zenon, <1>b, <1>0, <1>a DEF Prompt, ArtifactType
<1>1. ArtifactType'
  BY <1>0, <1>a DEF ArtifactType, StoreType
<1>2. RowInv'
  BY Zenon, <1>0, <1>a DEF ArtifactType, RowInv
<1>3. DoomedArtifacts'
  BY Zenon, <1>0, <1>a DEF DoomedArtifacts, Refers
<1>4. PromptIsKept'
  <2> SUFFICES ASSUME NEW q \in Producer, NEW d \in Digest, Prompt(q, d)'
               PROVE  /\ publishing[q] > 0 => d \notin old \cup doomed /\ file[d] <= took'[q]
                      /\ publishing[q] > 0 /\ Uploaded(q, d) => Present(d)
                      /\ row[q] = "live" => d \notin doomed /\ Present(d)
    BY Zenon, <1>a DEF PromptIsKept, Present, Uploaded
  <2> QED
    BY Zenon, <1>b, <1>0 DEF PromptIsKept
<1>5. ReaderInv'
  BY Zenon, <1>0, <1>a, <1>b DEF ReaderInv, ArtifactType, Reading
<1> QED
  BY Zenon, <1>1, <1>2, <1>3, <1>4, <1>5 DEF ArtifactInv

\* A download finds a row.
LEMMA GetArtifactKeeps ==
  ASSUME ArtifactInv, NEW p \in Producer, GetArtifact(p)
  PROVE  ArtifactInv'
<1> USE GraceAssumption, OutputsAssumption
<1>0. ArtifactType /\ RowInv /\ DoomedArtifacts /\ PromptIsKept /\ ReaderInv
  BY Zenon DEF ArtifactInv
<1>a. PICK d \in Blobs(p) : reader' = [pc |-> "found", job |-> p, digest |-> d]
  BY Zenon DEF GetArtifact
<1>b. /\ row[p] = "live"
      /\ UNCHANGED <<file, pass, doomed, old, over, row, retained, publishing, took, late>>
  BY Zenon DEF GetArtifact, storeVars
<1>c. d \in Digest
  BY Zenon, <1>a, BlobsOf
<1>1. ArtifactType'
  <2>1. reader' \in {NoReader} \cup Reading
    BY Zenon, <1>a, <1>c DEF Reading
  <2> QED
    BY Zenon, <2>1, <1>0, <1>b DEF ArtifactType, StoreType
<1>2. RowInv'
  BY Zenon, <1>0, <1>b DEF RowInv
<1>3. DoomedArtifacts'
  BY Zenon, <1>0, <1>b DEF DoomedArtifacts, Refers
<1>4. PromptIsKept'
  BY Zenon, <1>0, <1>b DEF PromptIsKept, Prompt, Uploaded, Present
<1>5. ReaderInv'
  BY Zenon, <1>a, <1>b DEF ReaderInv
<1> QED
  BY Zenon, <1>1, <1>2, <1>3, <1>4, <1>5 DEF ArtifactInv

\* The file is there, if its digest is prompt.
LEMMA OpenBlobKeeps ==
  ASSUME ArtifactInv, OpenBlob
  PROVE  ArtifactInv'
<1> USE GraceAssumption, OutputsAssumption
<1>0. ArtifactType /\ RowInv /\ DoomedArtifacts /\ PromptIsKept /\ ReaderInv
  BY Zenon DEF ArtifactInv
<1>b. /\ reader.pc = "found" /\ UNCHANGED <<file, pass, doomed, old, over, row, retained, publishing, took, late>>
      /\ reader' = IF Present(reader.digest) THEN NoReader ELSE [reader EXCEPT !.pc = "unavailable"]
  BY Zenon DEF OpenBlob, storeVars
<1>c. reader \in Reading /\ reader # NoReader
  BY <1>0, <1>b DEF ArtifactType, NoReader, Reading
<1>d. PICK q \in Producer, d \in Digest : q = reader.job /\ d = reader.digest
  BY Zenon, <1>c DEF Reading
<1>e. reader' = IF Present(d) THEN NoReader ELSE [pc |-> "unavailable", job |-> q, digest |-> d]
  BY <1>b, <1>c, <1>d DEF Reading
<1>f. d \in Blobs(q) /\ row[q] # "none"
  BY Zenon, <1>0, <1>c, <1>d DEF ReaderInv
<1>g. Prompt(q, d) => Present(d)
  <2> SUFFICES ASSUME Prompt(q, d) PROVE Present(d)
    BY Zenon
  <2>1. q \notin over
    BY Zenon DEF Prompt
  <2>2. row[q] \in {"none", "live", "deleted"}
    BY Zenon, <1>0 DEF ArtifactType
  <2>3. row[q] = "live"
    BY Zenon, <2>1, <2>2, <1>0, <1>f DEF RowInv
  <2> QED
    BY Zenon, <2>3, <1>0 DEF PromptIsKept
<1>1. ArtifactType'
  <2>1. reader' \in {NoReader} \cup Reading
    BY Zenon, <1>e DEF Reading
  <2> QED
    BY Zenon, <2>1, <1>0, <1>b DEF ArtifactType, StoreType
<1>2. RowInv'
  BY Zenon, <1>0, <1>b DEF RowInv
<1>3. DoomedArtifacts'
  BY Zenon, <1>0, <1>b DEF DoomedArtifacts, Refers
<1>4. PromptIsKept'
  BY Zenon, <1>0, <1>b DEF PromptIsKept, Prompt, Uploaded, Present
<1>5. ReaderInv'
  <2>1. Prompt(q, d)' <=> Prompt(q, d)
    BY Zenon, <1>b DEF Prompt
  <2>2. CASE Present(d)
    BY Zenon, <2>2, <1>e DEF ReaderInv
  <2>3. CASE ~Present(d)
    <3>1. reader'.job = q /\ reader'.digest = d
      BY Zenon, <2>3, <1>e
    <3> QED
      BY Zenon, <3>1, <2>1, <2>3, <1>b, <1>f, <1>g DEF ReaderInv, Prompt
  <2> QED
    BY Zenon, <2>2, <2>3
<1> QED
  BY Zenon, <1>1, <1>2, <1>3, <1>4, <1>5 DEF ArtifactInv

\* The transaction that begins a pass spares the blobs of every row that stays; and
\* what it finds old was not uploaded for a job that is still in time.
LEMMA ExpireArtifactsKeeps ==
  ASSUME ArtifactInv, ExpireArtifacts
  PROVE  ArtifactInv'
<1> USE GraceAssumption, OutputsAssumption
<1>0. ArtifactType /\ RowInv /\ DoomedArtifacts /\ PromptIsKept /\ ReaderInv
  BY Zenon DEF ArtifactInv
<1>a. /\ pass = "idle" /\ pass' = "remove" /\ old' = {d \in Digest : file[d] = Grace}
      /\ row' = [p \in Producer |-> IF p \in expired THEN "deleted" ELSE row[p]]
      /\ doomed' = removable /\ late' = {}
      /\ UNCHANGED <<file, over, retained, publishing, took, reader>>
  BY Zenon DEF ExpireArtifacts, BeginPass
<1>b. expired \subseteq over
  BY <1>0 DEF expired, RowInv
<1>c. removable \subseteq Digest
  BY BlobsOf DEF removable, candidates, expired
<1>d. ASSUME NEW d \in removable, NEW p \in Producer \ expired
      PROVE  ~Refers(p, d)
  BY Zenon DEF removable
<1>e. \A p \in Producer : /\ p \in expired => row[p] = "live"
                         /\ row'[p] = IF p \in expired THEN "deleted" ELSE row[p]
  BY Zenon, <1>a DEF expired
<1>1. ArtifactType'
  <2>1. row' \in [Producer -> {"none", "live", "deleted"}]
    BY Zenon, <1>0, <1>a DEF ArtifactType
  <2> QED
    BY Zenon, <2>1, <1>0, <1>a, <1>c DEF ArtifactType, StoreType
<1>2. RowInv'
  BY Zenon, <1>0, <1>a, <1>b, <1>e DEF RowInv
<1>3. DoomedArtifacts'
  <2> SUFFICES ASSUME NEW d \in removable, NEW p \in Producer, Refers(p, d)'
               PROVE  FALSE
    BY Zenon, <1>a DEF DoomedArtifacts
  <2>1. p \notin expired /\ Refers(p, d)
    BY Zenon, <1>e DEF Refers
  <2> QED
    BY Zenon, <2>1, <1>d
<1>4. PromptIsKept'
  <2> SUFFICES ASSUME NEW p \in Producer, NEW d \in Digest, Prompt(p, d)
               PROVE  /\ publishing[p] > 0 => d \notin old' \cup removable /\ file[d] <= took[p]
                      /\ publishing[p] > 0 /\ Uploaded(p, d) => Present(d)
                      /\ row'[p] = "live" => d \notin removable /\ Present(d)
    BY Zenon, <1>a DEF PromptIsKept, Prompt, Uploaded, Present
  <2>1. p \notin expired /\ row'[p] = row[p]
    BY Zenon, <1>b, <1>e DEF Prompt
  <2>2. d \notin removable
    BY Zenon, <2>1 DEF removable, candidates, expired, Prompt
  <2>3. ASSUME publishing[p] > 0 PROVE d \notin old' /\ file[d] <= took[p]
    <3>1. file[d] <= took[p]
      BY Zenon, <2>3, <1>0 DEF PromptIsKept
    <3>2. took[p] \in -1 .. Grace /\ took[p] # Grace /\ file[d] \in -1 .. Grace
      BY Zenon, <1>0 DEF ArtifactType, StoreType, Prompt
    <3> QED
      BY <3>1, <3>2, <1>a
  <2> QED
    BY Zenon, <2>1, <2>2, <2>3, <1>0 DEF PromptIsKept
<1>5. ReaderInv'
  BY Zenon, <1>0, <1>a, <1>e DEF ReaderInv, Prompt, ArtifactType, Reading
<1> QED
  BY Zenon, <1>1, <1>2, <1>3, <1>4, <1>5 DEF ArtifactInv

\* The second query spares the blobs of every row there is.
LEMMA LiveArtifactBlobsKeeps ==
  ASSUME ArtifactInv, LiveArtifactBlobs
  PROVE  ArtifactInv'
<1> USE GraceAssumption, OutputsAssumption
<1>0. ArtifactType /\ RowInv /\ DoomedArtifacts /\ PromptIsKept /\ ReaderInv
  BY Zenon DEF ArtifactInv
<1>a. /\ pass' = "orphans" /\ doomed' = old \ Referred /\ old' = {} /\ late' = {}
      /\ UNCHANGED <<file, over, row, retained, publishing, took, reader>>
  BY Zenon DEF LiveArtifactBlobs, CleanupOrphans, orphans
<1>b. \A p \in Producer : \A d \in Blobs(p) : row[p] = "live" => d \in Referred
  BY Zenon DEF Referred
<1>1. ArtifactType'
  BY Zenon, <1>0, <1>a DEF ArtifactType, StoreType
<1>2. RowInv'
  BY Zenon, <1>0, <1>a DEF RowInv
<1>3. DoomedArtifacts'
  BY Zenon, <1>a, <1>b DEF DoomedArtifacts, Refers
<1>4. PromptIsKept'
  <2> SUFFICES ASSUME NEW p \in Producer, NEW d \in Digest, Prompt(p, d)
               PROVE  /\ publishing[p] > 0 => d \notin old \ Referred /\ file[d] <= took[p]
                      /\ publishing[p] > 0 /\ Uploaded(p, d) => Present(d)
                      /\ row[p] = "live" => d \notin old \ Referred /\ Present(d)
    BY Zenon, <1>a DEF PromptIsKept, Prompt, Uploaded, Present
  <2>1. d \in Blobs(p)
    BY Zenon DEF Prompt
  <2> QED
    BY Zenon, <2>1, <1>0, <1>b DEF PromptIsKept
<1>5. ReaderInv'
  BY Zenon, <1>0, <1>a DEF ReaderInv, Prompt
<1> QED
  BY Zenon, <1>1, <1>2, <1>3, <1>4, <1>5 DEF ArtifactInv

\* The removal of a file, or the end of the pass.
LEMMA ArtifactSweepKeeps ==
  ASSUME ArtifactInv, ArtifactSweep
  PROVE  ArtifactInv'
<1> USE GraceAssumption, OutputsAssumption
<1>0. ArtifactType /\ RowInv /\ DoomedArtifacts /\ PromptIsKept /\ ReaderInv
  BY Zenon DEF ArtifactInv
<1>a. UNCHANGED <<over, row, retained, publishing, took, reader>>
  BY Zenon DEF ArtifactSweep
<1>b. CASE RemoveBlob /\ UNCHANGED late
  <2>1. PICK e \in doomed : /\ file' = [file EXCEPT ![e] = -1]
                            /\ doomed' = doomed \ {e} /\ old' = old \ {e}
    BY Zenon, <1>b DEF RemoveBlob
  <2>2. UNCHANGED <<pass, late>>
    BY Zenon, <1>b DEF RemoveBlob
  <2>3. ArtifactType'
    BY <2>1, <1>0, <1>a DEF ArtifactType, StoreType
  <2>4. RowInv'
    BY Zenon, <1>0, <1>a DEF RowInv
  <2>5. DoomedArtifacts'
    BY Zenon, <2>1, <2>2, <1>0, <1>a DEF DoomedArtifacts, Refers
  <2>6. PromptIsKept'
    <3> SUFFICES ASSUME NEW p \in Producer, NEW d \in Digest, Prompt(p, d)
                 PROVE  /\ publishing[p] > 0 => d \notin old' \cup doomed' /\ file'[d] <= took[p]
                        /\ publishing[p] > 0 /\ Uploaded(p, d) => file'[d] >= 0
                        /\ row[p] = "live" => d \notin doomed' /\ file'[d] >= 0
      BY Zenon, <1>a DEF PromptIsKept, Prompt, Uploaded, Present
    <3>1. ASSUME d # e PROVE file'[d] = file[d]
      BY Zenon, <3>1, <2>1, <1>0 DEF ArtifactType, StoreType
    <3>2. publishing[p] > 0 \/ row[p] = "live" => d # e
      BY Zenon, <2>1, <1>0 DEF PromptIsKept
    <3> QED
      BY Zenon, <3>1, <3>2, <2>1, <1>0 DEF PromptIsKept, Present
  <2>7. ReaderInv'
    BY Zenon, <1>0, <1>a DEF ReaderInv, Prompt
  <2> QED
    BY Zenon, <2>3, <2>4, <2>5, <2>6, <2>7 DEF ArtifactInv
<1>c. CASE EndPass /\ late' = {}
  <2>1. UNCHANGED <<file, doomed, old>> /\ doomed = {}
    BY Zenon, <1>c DEF EndPass
  <2>2. ArtifactType' /\ RowInv' /\ DoomedArtifacts'
    BY Zenon, <2>1, <1>0, <1>a DEF ArtifactType, StoreType, RowInv, DoomedArtifacts
  <2>3. PromptIsKept' /\ ReaderInv'
    BY Zenon, <2>1, <1>0, <1>a DEF PromptIsKept, Prompt, Uploaded, Present, ReaderInv
  <2> QED
    BY Zenon, <2>2, <2>3 DEF ArtifactInv
<1> QED
  BY Zenon, <1>b, <1>c DEF ArtifactSweep

\* Time passes for a file and for the publication it belongs to alike.
LEMMA ArtifactTickKeeps ==
  ASSUME ArtifactInv, ArtifactTick
  PROVE  ArtifactInv'
<1> USE GraceAssumption, OutputsAssumption
<1>0. ArtifactType /\ RowInv /\ DoomedArtifacts /\ PromptIsKept /\ ReaderInv
  BY Zenon DEF ArtifactInv
<1>a. /\ file' = [d \in Digest |-> IF file[d] \in 0 .. Grace - 1 THEN file[d] + 1 ELSE file[d]]
      /\ retained' = [p \in Producer |-> IF retained[p] > 0 THEN retained[p] - 1 ELSE retained[p]]
      /\ took' = [p \in Producer |-> IF publishing[p] # 0 /\ took[p] \in 0 .. Grace - 1
                                     THEN took[p] + 1 ELSE took[p]]
      /\ UNCHANGED <<pass, doomed, old, over, row, publishing, reader, late>>
  BY Zenon DEF ArtifactTick, Older
<1>b. ASSUME NEW p \in Producer, NEW d, Prompt(p, d)'
      PROVE  Prompt(p, d)
  <2>1. took[p] \in -1 .. Grace /\ took'[p] # Grace
    BY Zenon, <1>b, <1>0 DEF ArtifactType, Prompt
  <2>2. took[p] # Grace
    BY <2>1, <1>a
  <2> QED
    BY Zenon, <2>2, <1>b, <1>a DEF Prompt
<1>1. ArtifactType'
  <2>1. file' \in [Digest -> -1 .. Grace]
    BY <1>0, <1>a DEF ArtifactType, StoreType
  <2>2. retained' \in [Producer -> -1 .. Retention]
    BY <1>0, <1>a DEF ArtifactType
  <2>3. took' \in [Producer -> -1 .. Grace]
    BY <1>0, <1>a DEF ArtifactType
  <2> QED
    BY Zenon, <2>1, <2>2, <2>3, <1>0, <1>a DEF ArtifactType, StoreType
<1>2. RowInv'
  BY <1>0, <1>a DEF RowInv, ArtifactType
<1>3. DoomedArtifacts'
  BY Zenon, <1>0, <1>a DEF DoomedArtifacts, Refers
<1>4. PromptIsKept'
  <2> SUFFICES ASSUME NEW p \in Producer, NEW d \in Digest, Prompt(p, d)'
               PROVE  /\ publishing[p] > 0 => d \notin old \cup doomed /\ file'[d] <= took'[p]
                      /\ publishing[p] > 0 /\ Uploaded(p, d) => file'[d] >= 0
                      /\ row[p] = "live" => d \notin doomed /\ file'[d] >= 0
    BY Zenon, <1>a DEF PromptIsKept, Uploaded, Present
  <2>1. Prompt(p, d)
    BY Zenon, <1>b
  <2>2. took[p] \in -1 .. Grace /\ took[p] # Grace /\ file[d] \in -1 .. Grace /\ publishing[p] \in Nat
    BY Zenon, <2>1, <1>0 DEF ArtifactType, StoreType, Prompt
  <2>3. file[d] >= 0 => file'[d] >= 0
    BY <2>2, <1>a
  <2>4. ASSUME publishing[p] > 0, file[d] <= took[p] PROVE file'[d] <= took'[p]
    BY <2>2, <2>4, <1>a
  <2> QED
    BY Zenon, <2>1, <2>3, <2>4, <1>0 DEF PromptIsKept, Present
<1>5. ReaderInv'
  BY Zenon, <1>0, <1>a, <1>b DEF ReaderInv, ArtifactType, Reading
<1> QED
  BY Zenon, <1>1, <1>2, <1>3, <1>4, <1>5 DEF ArtifactInv

\* ArtifactInv is inductive.
LEMMA ArtifactsKeep ==
  ASSUME ArtifactInv, [ArtifactNext]_<<storeVars, artifactVars>>
  PROVE  ArtifactInv'
<1>1. CASE UNCHANGED <<storeVars, artifactVars>>
  BY Zenon, <1>1 DEF storeVars, artifactVars, ArtifactInv, ArtifactType, StoreType, RowInv, DoomedArtifacts,
              Refers, PromptIsKept, Prompt, Uploaded, Present, ReaderInv
<1>2. CASE ArtifactNext
  BY <1>2, PublishFailsKeeps, UploadKeeps, HasBlobsKeeps, CommitArtifactsKeeps, JobEndsKeeps,
     RunEndsKeeps, GetArtifactKeeps, OpenBlobKeeps, ExpireArtifactsKeeps, LiveArtifactBlobsKeeps,
     ArtifactSweepKeeps, ArtifactTickKeeps, Zenon DEF ArtifactNext, PublishStep, ArtifactGC
<1> QED
  BY Zenon, <1>1, <1>2

-----------------------------------------------------------------------------
(***************************************************************************)
(* The cache, action by action.                                            *)
(***************************************************************************)

\* Initially there is nothing.
LEMMA CacheStarts == StoreInit /\ CacheInit => CacheInv
  BY GraceAssumption, CacheAssumption
     DEF StoreInit, CacheInit, CacheInv, CacheType, StoreType, DoomedEntries, First

\* A use of a row that can be used, as the lookups make it, dooms no entry.
LEMMA LookupKeeps ==
  ASSUME CacheInv, NEW k,
         IF Usable(k) THEN Used(k) ELSE UNCHANGED <<fresh, recency>>,
         UNCHANGED <<storeVars, entry, deletedRows, recent>>
  PROVE  /\ fresh' \in [Key -> Nat]
         /\ DoomedEntries'
<1>1. DoomedEntries /\ fresh \in [Key -> Nat] /\ CacheRetention \in Nat
  BY Zenon, CacheAssumption DEF CacheInv, CacheType
<1>2. UNCHANGED <<pass, doomed, entry, recent>>
  BY Zenon DEF storeVars
<1>3. /\ fresh' \in [Key -> Nat]
      /\ \A x \in Key : fresh[x] = 0 => fresh'[x] = 0
  <2>1. CASE Usable(k)
    <3>1. fresh' = [fresh EXCEPT ![k] = CacheRetention] /\ fresh[k] > 0
      BY Zenon, <2>1 DEF Used, Usable
    <3>2. \A x \in Key : fresh'[x] = IF x = k THEN CacheRetention ELSE fresh[x]
      BY Zenon, <3>1, <1>1
    <3>3. fresh' \in [Key -> Nat]
      BY Zenon, <3>1, <1>1
    <3> QED
      BY <3>1, <3>2, <3>3, <1>1
  <2>2. CASE ~Usable(k)
    BY Zenon, <2>2, <1>1
  <2> QED
    BY Zenon, <2>1, <2>2
<1> QED
  BY Zenon, <1>1, <1>2, <1>3 DEF DoomedEntries

\* The jobs: only a commit makes an entry, and during a pass it is a recent one.
LEMMA UserKeeps ==
  ASSUME CacheInv, NEW u \in User,
         \/ \E remote \in BOOLEAN : Lookup(u, remote)
         \/ Download(u) \/ Bypass(u) \/ CacheUpload(u) \/ CommitCache(u) \/ EndWithoutSave(u)
  PROVE  CacheInv'
<1> USE GraceAssumption, CacheAssumption
<1>0. CacheType /\ DoomedEntries
  BY Zenon DEF CacheInv
<1> DEFINE Users == /\ user' \in [User -> {"lookup", "open", "fetch", "run", "commit"}]
                    /\ found' \in [User -> Digest \cup {NoDigest}]
                    /\ \A v \in User : user'[v] \in {"lookup", "open", "fetch"} => Restores[v] \in Key
<1>t. ASSUME NEW s \in {"lookup", "open", "fetch", "run", "commit"}, NEW d \in Digest \cup {NoDigest},
             UserAt(u, s), About(u, d), s \in {"lookup", "open", "fetch"} => Restores[u] \in Key
      PROVE  Users
  <2>1. user' = [user EXCEPT ![u] = s] /\ found' = [found EXCEPT ![u] = d]
    BY Zenon, <1>t DEF UserAt, About
  <2> QED
    BY Zenon, <2>1, <1>t, <1>0 DEF CacheType
<1>o. ASSUME JobOver(u) PROVE Users
  <2>1. /\ First(u) \in {"lookup", "run"}
        /\ First(u) = "lookup" => Restores[u] \in Key
    BY Zenon DEF First
  <2>2. UserAt(u, First(u)) /\ About(u, NoDigest)
    BY Zenon, <1>o DEF JobOver
  <2>3. PICK s : s = First(u)
    BY Zenon
  <2> HIDE DEF Users
  <2> QED
    BY Zenon, <2>1, <2>2, <2>3, <1>t
<1> HIDE DEF Users
<1>1. ASSUME NEW remote \in BOOLEAN, Lookup(u, remote) PROVE CacheInv'
  <2>1. /\ IF Usable(Restores[u]) THEN Used(Restores[u]) ELSE UNCHANGED <<fresh, recency>>
        /\ UNCHANGED <<storeVars, entry, deletedRows, recent>>
    BY Zenon, <1>1 DEF Lookup
  <2>2. fresh' \in [Key -> Nat] /\ DoomedEntries'
    BY Zenon, <2>1, LookupKeeps
  <2>3. PICK hit \in BOOLEAN : hit <=> Usable(Restores[u]) /\ (remote => Present(entry[Restores[u]]))
    BY Zenon
  <2>4. /\ About(u, IF hit THEN entry[Restores[u]] ELSE NoDigest)
        /\ UserAt(u, IF ~hit THEN "run" ELSE IF remote THEN "fetch" ELSE "open")
        /\ user[u] = "lookup"
    BY <2>3, <1>1, Zenon DEF Lookup
  <2>5. PICK d, s : /\ d = IF hit THEN entry[Restores[u]] ELSE NoDigest
                    /\ s = IF ~hit THEN "run" ELSE IF remote THEN "fetch" ELSE "open"
    BY Zenon
  <2>6. Restores[u] \in Key
    BY Zenon, <2>4, <1>0 DEF CacheType
  <2>7. d \in Digest \cup {NoDigest} /\ s \in {"lookup", "open", "fetch", "run", "commit"}
    BY Zenon, <2>5, <2>6, <1>0 DEF CacheType
  <2>8. Users
    BY Zenon, <2>4, <2>5, <2>6, <2>7, <1>t
  <2> QED
    BY Zenon, <2>1, <2>2, <2>8, <1>0 DEF Users, CacheInv, CacheType, StoreType, storeVars
<1>2. ASSUME Download(u) PROVE CacheInv'
  <2>1. /\ user[u] \in {"open", "fetch"}
        /\ About(u, Extract(u, Served(u))) /\ UserAt(u, "run")
        /\ UNCHANGED <<storeVars, entry, deletedRows, recent>>
        /\ IF user[u] = "fetch" /\ Usable(Restores[u]) THEN Used(Restores[u]) ELSE UNCHANGED <<fresh, recency>>
    BY Zenon, <1>2 DEF Download
  <2>2. fresh' \in [Key -> Nat] /\ DoomedEntries'
    <3>1. CASE user[u] = "fetch"
      BY Zenon, <2>1, <3>1, LookupKeeps
    <3>2. CASE user[u] # "fetch"
      BY Zenon, <2>1, <3>2, <1>0 DEF CacheType, DoomedEntries, storeVars
    <3> QED
      BY Zenon, <3>1, <3>2
  <2>3. Extract(u, Served(u)) \in {found[u], NoDigest}
    BY Zenon DEF Extract
  <2>4. PICK d : d = Extract(u, Served(u))
    BY Zenon
  <2>5. d \in Digest \cup {NoDigest}
    BY Zenon, <2>3, <2>4, <1>0 DEF CacheType
  <2>6. Users
    BY Zenon, <2>1, <2>4, <2>5, <1>t
  <2> QED
    BY Zenon, <2>1, <2>2, <2>6, <1>0 DEF Users, CacheInv, CacheType, StoreType, storeVars
<1>3. ASSUME Bypass(u) \/ EndWithoutSave(u) PROVE CacheInv'
  <2>1. UNCHANGED <<storeVars, entry, fresh, recency, deletedRows, recent>>
    BY Zenon, <1>3 DEF Bypass, EndWithoutSave
  <2>2. (About(u, NoDigest) /\ UserAt(u, "run")) \/ JobOver(u)
    BY Zenon, <1>3 DEF Bypass, EndWithoutSave
  <2>3. Users
    BY Zenon, <2>2, <1>t, <1>o
  <2> QED
    BY Zenon, <2>1, <2>3, <1>0 DEF Users, CacheInv, CacheType, StoreType, DoomedEntries, storeVars
<1>4. ASSUME CacheUpload(u) PROVE CacheInv'
  <2>1. PICK e \in Makes[u] : Put(e) /\ About(u, e)
    BY Zenon, <1>4 DEF CacheUpload
  <2>2. UserAt(u, "commit") /\ UNCHANGED <<entry, fresh, recency, deletedRows, recent>>
    BY Zenon, <1>4 DEF CacheUpload
  <2>3. e \in Digest
    BY Zenon, CacheAssumption
  <2>4. file' \in [Digest -> -1 .. Grace] /\ UNCHANGED <<pass, doomed, old>>
    BY <2>1, <2>3, <1>0 DEF Put, Present, CacheType, StoreType
  <2>5. Users
    BY Zenon, <2>1, <2>2, <2>3, <1>t
  <2> QED
    BY Zenon, <2>2, <2>4, <2>5, <1>0 DEF Users, CacheInv, CacheType, StoreType, DoomedEntries
<1>5. ASSUME CommitCache(u) PROVE CacheInv'
  <2>1. PICK k \in Key : k = Saves[u]
    BY Zenon, CacheAssumption
  <2>2. JobOver(u) /\ UNCHANGED <<file, pass, doomed, old, deletedRows>>
    BY Zenon, <1>5 DEF CommitCache, storeVars
  <2>3. Users
    BY Zenon, <2>2, <1>o
  <2>4. CASE Live(k)
    <3>1. UNCHANGED <<entry, fresh, recent>>
      BY Zenon, <2>1, <2>4, <1>5 DEF CommitCache
    <3> QED
      BY Zenon, <3>1, <2>2, <2>3, <1>0 DEF Users, CacheInv, CacheType, StoreType, DoomedEntries
  <2>5. CASE ~Live(k)
    <3>1. /\ entry' = [entry EXCEPT ![k] = found[u]]
          /\ recent' = IF pass \in {"idle", "expired"} THEN {} ELSE recent \cup {k}
          /\ fresh' = [fresh EXCEPT ![k] = CacheRetention]
      BY Zenon, <2>1, <2>5, <1>5 DEF CommitCache, Used
    <3>2. /\ entry' \in [Key -> Digest \cup {NoDigest}]
          /\ fresh' \in [Key -> Nat]
          /\ \A x \in Key \ {k} : entry'[x] = entry[x] /\ fresh'[x] = fresh[x]
      BY Zenon, <3>1, <1>0 DEF CacheType
    <3>3. DoomedEntries'
      <4>1. CASE pass \in {"idle", "expired"}
        BY Zenon, <4>1, <2>2, <1>0 DEF DoomedEntries
      <4>2. CASE pass \notin {"idle", "expired"}
        BY <4>2, <3>1, <3>2, <2>2, <1>0 DEF DoomedEntries
      <4> QED
        BY Zenon, <4>1, <4>2
    <3> QED
      BY Zenon, <3>2, <3>3, <2>2, <2>3, <1>0 DEF Users, CacheInv, CacheType, StoreType
  <2> QED
    BY Zenon, <2>4, <2>5
<1> QED
  BY Zenon, <1>1, <1>2, <1>3, <1>4, <1>5

\* The marks of deletion take entries away and nothing else.
LEMMA DeleteKeeps ==
  ASSUME CacheType, NEW K, Delete(K)
  PROVE  /\ entry' \in [Key -> Digest \cup {NoDigest}]
         /\ fresh' \in [Key -> Nat]
         /\ K \subseteq Key => deletedRows' \subseteq Digest
         /\ \A k \in Key : k \in K => entry'[k] = NoDigest
         /\ \A k \in Key \ K : entry'[k] = entry[k] /\ fresh'[k] = fresh[k]
         /\ \A k \in Key \ K : k \in recent => k \in recent'
<1> USE CacheAssumption
<1>1. /\ entry' = [k \in Key |-> IF k \in K THEN NoDigest ELSE entry[k]]
      /\ fresh' = [k \in Key |-> IF k \in K THEN 0 ELSE fresh[k]]
      /\ recent' = recent \ K
  BY Zenon DEF Delete
<1>2. entry' \in [Key -> Digest \cup {NoDigest}] /\ fresh' \in [Key -> Nat]
  BY Zenon, <1>1 DEF CacheType
<1>3. deletedRows' = deletedRows \cup {entry[k] : k \in {x \in K : entry[x] # NoDigest}}
  BY Zenon DEF Delete, Live
<1>4. K \subseteq Key => deletedRows' \subseteq Digest
  BY <1>3 DEF CacheType
<1> QED
  BY Zenon, <1>1, <1>2, <1>4

\* DELETE of an entry, at any time.
LEMMA DeleteCacheKeeps ==
  ASSUME CacheInv, NEW k \in Key, DeleteCache(k)
  PROVE  CacheInv'
<1>0. CacheType /\ DoomedEntries
  BY Zenon DEF CacheInv
<1>1. Delete({k}) /\ UNCHANGED <<file, pass, doomed, old, user, found>>
  BY Zenon DEF DeleteCache, storeVars
<1>2. PICK K : K = {k}
  BY Zenon
<1>a. Delete(K) /\ K \subseteq Key
  BY Zenon, <1>1, <1>2
<1>3. /\ entry' \in [Key -> Digest \cup {NoDigest}]
      /\ fresh' \in [Key -> Nat]
      /\ deletedRows' \subseteq Digest
      /\ \A x \in Key : x \in K => entry'[x] = NoDigest
      /\ \A x \in Key \ K : entry'[x] = entry[x] /\ fresh'[x] = fresh[x]
      /\ \A x \in Key \ K : x \in recent => x \in recent'
  BY Zenon, <1>0, <1>a, DeleteKeeps
<1>4. CacheType'
  BY Zenon, <1>0, <1>1, <1>3 DEF CacheType, StoreType
<1>5. DoomedEntries'
  <2> SUFFICES ASSUME NEW d \in doomed, NEW x \in Key, entry'[x] = d
               PROVE  x \in recent' \/ fresh'[x] = 0
    BY Zenon, <1>0, <1>1 DEF DoomedEntries
  <2>1. d # NoDigest
    BY Zenon, <1>0, CacheAssumption DEF CacheType, StoreType
  <2>2. x \notin K
    BY Zenon, <2>1, <1>3
  <2>3. x \in Key \ K
    BY Zenon, <2>2
  <2>4. entry'[x] = entry[x] /\ fresh'[x] = fresh[x] /\ (x \in recent => x \in recent')
    BY Zenon, <2>3, <1>3
  <2> QED
    BY Zenon, <2>4, <1>0 DEF DoomedEntries
<1> QED
  BY Zenon, <1>4, <1>5 DEF CacheInv

\* The collector reads the table twice, and dooms nothing that either reading shows
\* in use.
LEMMA CacheGCKeeps ==
  ASSUME CacheInv, CacheGC
  PROVE  CacheInv'
<1> USE GraceAssumption, CacheAssumption
<1>0. CacheType /\ DoomedEntries
  BY Zenon DEF CacheInv
<1>1. ASSUME ExpireCache PROVE CacheInv'
  <2>1. PICK K : K = stale \cup (KeysOf(evicted) \ stale)
    BY Zenon
  <2>2. K \subseteq Key
    BY Zenon, <2>1 DEF stale, KeysOf
  <2>3. Delete(K) /\ UNCHANGED <<file, doomed, user, found>>
    BY Zenon, <2>1, <1>1 DEF ExpireCache, BeginPass
  <2>4. pass = "idle" /\ pass' = "expired" /\ old' \subseteq Digest
    BY Zenon, <1>1 DEF ExpireCache, BeginPass
  <2>5. /\ entry' \in [Key -> Digest \cup {NoDigest}]
        /\ fresh' \in [Key -> Nat]
        /\ deletedRows' \subseteq Digest
    BY Zenon, <1>0, <2>2, <2>3, DeleteKeeps
  <2> QED
    BY Zenon, <1>0, <2>3, <2>4, <2>5 DEF CacheInv, CacheType, StoreType, DoomedEntries
<1>2. ASSUME unreferencedCacheBlobs PROVE CacheInv'
  <2>1. /\ pass' = "remove" /\ doomed' = unreferenced
        /\ UNCHANGED <<file, old, entry, fresh, deletedRows, user, found>>
    BY Zenon, <1>2 DEF unreferencedCacheBlobs
  <2>2. unreferenced \subseteq Digest /\ \A d \in unreferenced, k \in Key : entry[k] # d
    BY Zenon, <1>0 DEF unreferenced, InUse, CacheType
  <2> QED
    BY Zenon, <1>0, <2>1, <2>2 DEF CacheInv, CacheType, StoreType, DoomedEntries
<1>3. ASSUME LiveCacheBlobs PROVE CacheInv'
  <2>1. PICK L : L = {entry[k] : k \in {x \in Key : Usable(x)}}
    BY Zenon
  <2>2. /\ pass' = "orphans" /\ doomed' = old \ L /\ old' = {}
        /\ UNCHANGED <<file, entry, fresh, deletedRows, user, found>>
    BY Zenon, <2>1, <1>3 DEF LiveCacheBlobs, CleanupOrphans, orphans
  <2>3. \A d \in old \ L, k \in Key : entry[k] = d => fresh[k] = 0
    <3> SUFFICES ASSUME NEW d \in old \ L, NEW k \in Key, entry[k] = d PROVE fresh[k] = 0
      BY Zenon
    <3>1. ~Usable(k)
      BY Zenon, <2>1
    <3> QED
      BY <3>1, <1>0 DEF Usable, Live, CacheType, StoreType
  <2> QED
    BY Zenon, <1>0, <2>2, <2>3 DEF CacheInv, CacheType, StoreType, DoomedEntries
<1>4. ASSUME CacheSweep PROVE CacheInv'
  <2>1. UNCHANGED <<entry, fresh, deletedRows, user, found>>
    BY Zenon, <1>4 DEF CacheSweep
  <2>2. CASE RemoveBlob /\ UNCHANGED recent
    <3>1. PICK e \in doomed : /\ file' = [file EXCEPT ![e] = -1]
                              /\ doomed' = doomed \ {e} /\ old' = old \ {e}
      BY Zenon, <2>2 DEF RemoveBlob
    <3>2. UNCHANGED <<pass, recent>>
      BY Zenon, <2>2 DEF RemoveBlob
    <3>3. CacheType'
      BY <1>0, <2>1, <3>1 DEF CacheType, StoreType
    <3>4. DoomedEntries'
      BY Zenon, <1>0, <2>1, <3>1, <3>2 DEF DoomedEntries
    <3> QED
      BY Zenon, <3>3, <3>4 DEF CacheInv
  <2>3. CASE EndPass /\ recent' = {}
    BY Zenon, <1>0, <2>1, <2>3 DEF EndPass, CacheInv, CacheType, StoreType, DoomedEntries
  <2> QED
    BY Zenon, <2>2, <2>3, <1>4 DEF CacheSweep
<1> QED
  BY Zenon, <1>1, <1>2, <1>3, <1>4 DEF CacheGC

\* Time makes no entry usable.
LEMMA CacheTickKeeps ==
  ASSUME CacheInv, CacheTick
  PROVE  CacheInv'
<1>0. CacheType /\ DoomedEntries
  BY Zenon DEF CacheInv
<1>1. /\ file' = [d \in Digest |-> IF file[d] \in 0 .. Grace - 1 THEN file[d] + 1 ELSE file[d]]
      /\ fresh' = [k \in Key |-> IF fresh[k] > 0 THEN fresh[k] - 1 ELSE 0]
      /\ UNCHANGED <<pass, doomed, old, entry, deletedRows, user, found, recent>>
  BY Zenon DEF CacheTick, Older
<1>2. file' \in [Digest -> -1 .. Grace]
  BY <1>0, <1>1, GraceAssumption DEF CacheType, StoreType
<1>3. fresh' \in [Key -> Nat] /\ \A k \in Key : fresh[k] = 0 => fresh'[k] = 0
  BY <1>0, <1>1 DEF CacheType
<1> QED
  BY Zenon, <1>0, <1>1, <1>2, <1>3 DEF CacheInv, CacheType, StoreType, DoomedEntries

\* CacheInv is inductive.
LEMMA CacheKeeps ==
  ASSUME CacheInv, [CacheNext]_<<storeVars, cacheVars>>
  PROVE  CacheInv'
<1>1. CASE UNCHANGED <<storeVars, cacheVars>>
  BY Zenon, <1>1 DEF storeVars, cacheVars, CacheInv, CacheType, StoreType, DoomedEntries
<1>2. CASE CacheNext
  BY <1>2, UserKeeps, DeleteCacheKeeps, CacheGCKeeps, CacheTickKeeps, Zenon DEF CacheNext
<1> QED
  BY Zenon, <1>1, <1>2

-----------------------------------------------------------------------------
(***************************************************************************)
(* The theorems.                                                           *)
(***************************************************************************)

\* Only the collector takes a file away, and only one that it has doomed.
LEMMA OnlyTheDoomedGo ==
  ASSUME StoreType, NEW d \in Digest, Present(d), file'[d] = -1,
         ArtifactNext \/ CacheNext
  PROVE  d \in doomed
<1> USE GraceAssumption, CacheAssumption
<1>1. file[d] \in 0 .. Grace
  BY DEF StoreType, Present
<1>2. ASSUME NEW e \in Digest, Put(e) PROVE FALSE
  BY <1>1, <1>2 DEF Put, Present, StoreType
<1>3. ASSUME file' = Older PROVE FALSE
  BY <1>1, <1>3 DEF Older
<1>4. ~UNCHANGED file
  BY <1>1
<1>5. ASSUME RemoveBlob PROVE d \in doomed
  <2>1. PICK e \in doomed : file' = [file EXCEPT ![e] = -1]
    BY Zenon, <1>5 DEF RemoveBlob
  <2> QED
    BY <2>1, <1>1 DEF StoreType
<1>6. CASE ArtifactNext
  <2>1. ASSUME NEW p \in Producer, Upload(p) PROVE FALSE
    <3>1. publishing[p] \in 1 .. uploads(p) /\ Put(Outputs[p][publishing[p]])
      BY Zenon, <2>1 DEF Upload
    <3> QED
      BY Zenon, <3>1, <1>2, BlobsOf
  <2>2. ASSUME NEW p \in Producer,
               PublishFails(p) \/ HasBlobs(p) \/ CommitArtifacts(p) \/ JobEnds(p) \/ RunEnds(p) \/ GetArtifact(p)
        PROVE  FALSE
    BY Zenon, <2>2, <1>4 DEF PublishFails, HasBlobs, CommitArtifacts, JobEnds, RunEnds, GetArtifact, storeVars
  <2>3. ASSUME OpenBlob \/ ExpireArtifacts \/ LiveArtifactBlobs PROVE FALSE
    BY Zenon, <2>3, <1>4 DEF OpenBlob, storeVars, ExpireArtifacts, BeginPass, LiveArtifactBlobs, CleanupOrphans
  <2>4. ASSUME ArtifactSweep PROVE d \in doomed
    BY Zenon, <2>4, <1>4, <1>5 DEF ArtifactSweep, EndPass
  <2>5. ASSUME ArtifactTick PROVE FALSE
    BY Zenon, <2>5, <1>3 DEF ArtifactTick
  <2> QED
    BY <1>6, <2>1, <2>2, <2>3, <2>4, <2>5, Zenon DEF ArtifactNext, PublishStep, ArtifactGC
<1>7. CASE CacheNext
  <2>1. ASSUME NEW u \in User, CacheUpload(u) PROVE FALSE
    <3>1. PICK e \in Makes[u] : Put(e)
      BY Zenon, <2>1 DEF CacheUpload
    <3> QED
      BY Zenon, <3>1, <1>2
  <2>2. ASSUME NEW u \in User,
               \/ \E remote \in BOOLEAN : Lookup(u, remote)
               \/ Download(u) \/ Bypass(u) \/ CommitCache(u) \/ EndWithoutSave(u)
        PROVE  FALSE
    BY Zenon, <2>2, <1>4 DEF Lookup, Download, Bypass, CommitCache, EndWithoutSave, storeVars
  <2>3. ASSUME NEW k \in Key, DeleteCache(k) PROVE FALSE
    BY Zenon, <2>3, <1>4 DEF DeleteCache, storeVars
  <2>4. ASSUME ExpireCache \/ unreferencedCacheBlobs \/ LiveCacheBlobs PROVE FALSE
    BY Zenon, <2>4, <1>4 DEF ExpireCache, BeginPass, unreferencedCacheBlobs, LiveCacheBlobs, CleanupOrphans
  <2>5. ASSUME CacheSweep PROVE d \in doomed
    BY Zenon, <2>5, <1>4, <1>5 DEF CacheSweep, EndPass
  <2>6. ASSUME CacheTick PROVE FALSE
    BY Zenon, <2>6, <1>3 DEF CacheTick
  <2> QED
    BY <1>7, <2>1, <2>2, <2>3, <2>4, <2>5, <2>6, Zenon DEF CacheNext, CacheGC
<1> QED
  BY Zenon, <1>6, <1>7

\* A step is one of the artifacts, one of the cache, or none.
LEMMA StepOfOne ==
  ASSUME StoresInv, [Next]_vars
  PROVE  /\ store' = store
         /\ store = "artifacts" => [ArtifactNext]_<<storeVars, artifactVars>> /\ UNCHANGED cacheVars
         /\ store = "cache" => [CacheNext]_<<storeVars, cacheVars>> /\ UNCHANGED artifactVars
  BY Zenon DEF StoresInv, Next, ArtifactsDo, CacheDoes, vars

\* The stores start in the invariant.
LEMMA StoresStart == Init => StoresInv
<1> SUFFICES ASSUME Init PROVE StoresInv
  BY Zenon
<1>1. StoreInit /\ ArtifactInit /\ CacheInit /\ store \in {"artifacts", "cache"}
  BY Zenon DEF Init
<1>2. ArtifactInv /\ CacheInv
  BY Zenon, <1>1, ArtifactsStart, CacheStarts
<1>3. /\ entry = [k \in Key |-> NoDigest]
      /\ row = [p \in Producer |-> "none"] /\ reader = NoReader
  BY Zenon, <1>1 DEF ArtifactInit, CacheInit
<1> QED
  BY Zenon, <1>1, <1>2, <1>3 DEF StoresInv

\* Every step of the two stores and of their users keeps it.
LEMMA StoresKeep ==
  ASSUME StoresInv, [Next]_vars
  PROVE  StoresInv'
<1>1. store \in {"artifacts", "cache"} /\ store' = store
  BY Zenon, StepOfOne DEF StoresInv
<1>2. CASE store = "artifacts"
  <2>1. ArtifactInv'
    BY Zenon, <1>2, StepOfOne, ArtifactsKeep DEF StoresInv
  <2>2. entry' = [k \in Key |-> NoDigest]
    BY Zenon, <1>2, StepOfOne DEF StoresInv, cacheVars
  <2> QED
    BY Zenon, <1>1, <1>2, <2>1, <2>2 DEF StoresInv
<1>3. CASE store = "cache"
  <2>1. CacheInv'
    BY Zenon, <1>3, StepOfOne, CacheKeeps DEF StoresInv
  <2>2. row' = [p \in Producer |-> "none"] /\ reader' = NoReader
    BY Zenon, <1>3, StepOfOne DEF StoresInv, artifactVars
  <2> QED
    BY Zenon, <1>1, <1>3, <2>1, <2>2 DEF StoresInv
<1> QED
  BY Zenon, <1>1, <1>2, <1>3

\* So it always holds.
LEMMA StoresInvariant == Spec => []StoresInv
  BY StoresStart, StoresKeep, PTL DEF Spec

\* An artifact that its job committed within the grace of the first upload, and
\* that no other job produces, is served to whoever has found its row, for as long
\* as the run goes on: whatever Publish, CommitArtifacts, ExpireArtifacts,
\* CleanupOrphans and the downloads do, and in whatever order.
THEOREM PromptArtifactsAreReadable == Spec => []PromptArtifactIsReadable
<1>1. StoresInv => PromptArtifactIsReadable
  <2> SUFFICES ASSUME StoresInv, reader.pc = "unavailable"
               PROVE  \/ took[reader.job] = Grace
                      \/ \E q \in Producer \ {reader.job} : reader.digest \in Blobs(q)
                      \/ reader.job \in over
    BY Zenon DEF PromptArtifactIsReadable
  <2>1. reader # NoReader
    BY DEF NoReader
  <2>2. ReaderInv
    BY Zenon, <2>1 DEF StoresInv, ArtifactInv
  <2> QED
    BY Zenon, <2>1, <2>2 DEF ReaderInv, Prompt
<1> QED
  BY <1>1, StoresInvariant, PTL

\* ExpireArtifacts and CleanupOrphans never remove a file that a row referred to
\* when they last read the table, though they remove after the transaction.
THEOREM ArtifactCollectorIsSafe == Spec => CollectorSparesWhatItSaw
<1>1. ASSUME StoresInv, [Next]_vars
      PROVE  [\A d \in Digest : Present(d) /\ file'[d] = -1 =>
                \A p \in Producer : Refers(p, d) => p \in late]_<<storeVars, artifactVars>>
  <2> SUFFICES ASSUME ~UNCHANGED <<storeVars, artifactVars>>,
                      NEW d \in Digest, Present(d), file'[d] = -1,
                      NEW p \in Producer, Refers(p, d)
               PROVE  p \in late
    BY Zenon
  <2>1. store = "artifacts"
    BY Zenon, <1>1 DEF StoresInv, Refers
  <2>2. ArtifactNext /\ ArtifactInv
    BY Zenon, <1>1, <2>1, StepOfOne DEF StoresInv
  <2>3. d \in doomed
    BY Zenon, <2>2, OnlyTheDoomedGo DEF ArtifactInv, ArtifactType
  <2> QED
    BY Zenon, <2>2, <2>3 DEF ArtifactInv, DoomedArtifacts
<1> QED
  BY <1>1, StoresInvariant, PTL DEF Spec, CollectorSparesWhatItSaw

\* Likewise for the cache: neither the unreferenced digests nor the orphans that
\* the collector removes belong to an entry that it could have seen and that has
\* not expired.
THEOREM CacheCollectorIsSafe == Spec => CollectorSparesEntries
<1>1. ASSUME StoresInv, [Next]_vars
      PROVE  [\A d \in Digest : Present(d) /\ file'[d] = -1 =>
                \A k \in Key : entry[k] = d => k \in recent \/ fresh[k] = 0]_<<storeVars, cacheVars>>
  <2> SUFFICES ASSUME ~UNCHANGED <<storeVars, cacheVars>>,
                      NEW d \in Digest, Present(d), file'[d] = -1,
                      NEW k \in Key, entry[k] = d
               PROVE  k \in recent \/ fresh[k] = 0
    BY Zenon
  <2>1. store = "cache"
    BY Zenon, <1>1, CacheAssumption DEF StoresInv
  <2>2. CacheNext /\ CacheInv
    BY Zenon, <1>1, <2>1, StepOfOne DEF StoresInv
  <2>3. d \in doomed
    BY Zenon, <2>2, OnlyTheDoomedGo DEF CacheInv, CacheType
  <2> QED
    BY Zenon, <2>2, <2>3 DEF CacheInv, DoomedEntries
<1> QED
  BY <1>1, StoresInvariant, PTL DEF Spec, CollectorSparesEntries

\* What a job unpacks is what its first lookup described, or nothing, however the
\* entry changed before the download.
THEOREM CacheHitsAreExact == Spec => HitIsWhatWasFound
<1>1. ASSUME StoresInv, [Next]_vars
      PROVE  [\A u \in User :
                user[u] \in {"open", "fetch"} /\ user'[u] = "run" => found'[u] \in {found[u], NoDigest}
             ]_<<storeVars, cacheVars>>
  <2> SUFFICES ASSUME ~UNCHANGED <<storeVars, cacheVars>>,
                      NEW u \in User, user[u] \in {"open", "fetch"}, user'[u] = "run"
               PROVE  found'[u] \in {found[u], NoDigest}
    BY Zenon
  <2>1. store = "cache"
    BY Zenon, <1>1, StepOfOne DEF StoresInv, cacheVars
  <2>2. CacheNext /\ CacheType
    BY Zenon, <1>1, <2>1, StepOfOne DEF StoresInv, CacheInv
  <2>3. user[u] # "run" /\ user[u] # "lookup" /\ user[u] # "commit"
    BY Zenon
  <2>4. ~UNCHANGED user
    BY Zenon, <2>3
  <2>5. ASSUME NEW v \in User, NEW s, UserAt(v, s) PROVE v = u
    BY Zenon, <2>2, <2>3, <2>5 DEF UserAt, CacheType
  <2>6. ASSUME NEW v \in User, NEW d, About(v, d), v = u PROVE found'[u] = d
    BY Zenon, <2>2, <2>6 DEF About, CacheType
  <2>7. ASSUME NEW v \in User, NEW remote \in BOOLEAN, Lookup(v, remote) PROVE FALSE
    <3>1. user[v] = "lookup" /\ \E s : UserAt(v, s)
      BY Zenon, <2>7 DEF Lookup
    <3> QED
      BY Zenon, <3>1, <2>3, <2>5
  <2>8. ASSUME NEW v \in User, CacheUpload(v) \/ CommitCache(v) \/ EndWithoutSave(v) PROVE FALSE
    <3>1. user[v] \in {"run", "commit"} /\ \E s : UserAt(v, s)
      BY Zenon, <2>8 DEF CacheUpload, CommitCache, EndWithoutSave, JobOver
    <3> QED
      BY Zenon, <3>1, <2>3, <2>5
  <2>9. ASSUME NEW v \in User, Download(v) PROVE found'[u] \in {found[u], NoDigest}
    <3>1. UserAt(v, "run") /\ About(v, Extract(v, Served(v)))
      BY Zenon, <2>9 DEF Download
    <3>2. v = u
      BY Zenon, <3>1, <2>5
    <3>3. PICK d : d = Extract(v, Served(v))
      BY Zenon
    <3>4. found'[u] = d
      BY Zenon, <3>1, <3>2, <3>3, <2>6
    <3> QED
      BY Zenon, <3>2, <3>3, <3>4 DEF Extract
  <2>10. ASSUME NEW v \in User, Bypass(v) PROVE found'[u] = NoDigest
    BY Zenon, <2>5, <2>6, <2>10 DEF Bypass
  <2>11. ASSUME (\E k \in Key : DeleteCache(k)) \/ CacheGC \/ CacheTick PROVE FALSE
    BY Zenon, <2>4, <2>11 DEF DeleteCache, CacheGC, ExpireCache, unreferencedCacheBlobs, LiveCacheBlobs,
                       CacheSweep, CacheTick
  <2> QED
    BY <2>2, <2>7, <2>8, <2>9, <2>10, <2>11, Zenon DEF CacheNext
<1> QED
  BY <1>1, StoresInvariant, PTL DEF Spec, HitIsWhatWasFound
=============================================================================
