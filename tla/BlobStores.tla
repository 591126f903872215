----------------------------- MODULE BlobStores -----------------------------
(***************************************************************************)
(* The two content stores of a server.  They are separate directories with *)
(* separate tables and collectors, so that each can be looked at while     *)
(* nothing happens in the other: a behaviour is one of the artifacts or    *)
(* one of the cache.                                                       *)
(***************************************************************************)
EXTENDS ArtifactBlobs, CacheBlobs

VARIABLE store

vars == <<store, storeVars, artifactVars, cacheVars>>

Init ==
  /\ store \in {"artifacts", "cache"}
  /\ StoreInit /\ ArtifactInit /\ CacheInit

ArtifactsDo(A) == store = "artifacts" /\ A /\ UNCHANGED <<store, cacheVars>>
CacheDoes(A) == store = "cache" /\ A /\ UNCHANGED <<store, artifactVars>>

Next == ArtifactsDo(ArtifactNext) \/ CacheDoes(CacheNext)

Spec == Init /\ [][Next]_vars

GC == ArtifactsDo(ArtifactGC) \/ CacheDoes(CacheGC)
Tick == ArtifactsDo(ArtifactTick) \/ CacheDoes(CacheTick)

\* Time passes, and the collector makes its passes.
FairSpec == Spec /\ WF_vars(GC) /\ WF_vars(Tick)

-----------------------------------------------------------------------------
\* Nothing is left on the disk for ever: a file that no row refers to, whether
\* its upload was never committed or its rows have been deleted or run out, is
\* removed by the collector, or is put to use by another job.
Unreferenced(d) == Present(d) /\ ~InUse(d) /\ \A p \in Producer : ~Refers(p, d)
OrphansAreCollected == \A d \in Digest : []<>~Unreferenced(d)
=============================================================================
