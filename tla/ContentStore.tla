---------------------------- MODULE ContentStore ----------------------------
(***************************************************************************)
(* artifact.Store: a directory of immutable files named by the digest of   *)
(* their content, and the collector's pass over it.  The artifacts and the *)
(* build cache have one store each, and a collector each, that differ in   *)
(* the tables that say which digests are in use.                           *)
(*                                                                         *)
(* Only the age of a file matters, and only up to the grace period.  The   *)
(* contents are what the digests say: Put compares them before it links    *)
(* the file, and again afterwards.                                         *)
(***************************************************************************)
EXTENDS Integers, Sequences, FiniteSets, Functions

CONSTANTS
  Digest,
  Grace          \* the orphan grace, in units of time

ASSUME GraceAssumption == Grace \in Nat \ {0}

VARIABLES
  file,          \* file[d]: the age of the file, at most Grace, or -1: no file
  pass,          \* where the collector is
  doomed,        \* the files it is removing one by one
  old            \* the files whose age was Grace when its pass began

storeVars == <<file, pass, doomed, old>>

Present(d) == file[d] >= 0

StoreInit ==
  /\ file = [d \in Digest |-> -1]
  /\ pass = "idle" /\ doomed = {} /\ old = {}

\* Put: the upload is linked to its final name, with the time of its last
\* write; if that name exists, the file that is there stays, with its own.
Put(d) ==
  /\ file' = [file EXCEPT ![d] = IF Present(d) THEN @ ELSE 0]
  /\ UNCHANGED <<pass, doomed, old>>

-----------------------------------------------------------------------------
(***************************************************************************)
(* One pass of the collector: the transaction that says which files are no *)
(* longer needed, their removal, the query for the digests in use, and the *)
(* removal of the old files that are not among them.                       *)
(***************************************************************************)
BeginPass(next) ==
  /\ pass = "idle"
  /\ pass' = next
  /\ old' = {d \in Digest : file[d] = Grace}
  /\ UNCHANGED file

RemoveBlob ==
  \E d \in doomed :
    /\ pass \in {"remove", "orphans"}
    /\ file' = [file EXCEPT ![d] = -1]
    /\ doomed' = doomed \ {d}
    /\ old' = old \ {d}
    /\ UNCHANGED pass

\* What CleanupOrphans removes when the digests in use are live.
orphansOfAnyAge(live) == {d \in Digest : Present(d)} \ live
orphans(live) == old \ live

CleanupOrphans(live) ==
  /\ pass = "remove" /\ doomed = {}
  /\ pass' = "orphans"
  /\ doomed' = orphans(live)
  /\ old' = {}
  /\ UNCHANGED file

EndPass ==
  /\ pass = "orphans" /\ doomed = {}
  /\ pass' = "idle"
  /\ UNCHANGED <<file, doomed, old>>

Older == [d \in Digest |-> IF file[d] \in 0 .. Grace - 1 THEN file[d] + 1 ELSE file[d]]
=============================================================================
