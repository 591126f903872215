---------------------------- MODULE MCBlobStores ----------------------------
(***************************************************************************)
(* The instance of BlobStores that TLC checks.                             *)
(***************************************************************************)
EXTENDS BlobStores

CONSTANTS p1, p2, k1, k2, u1, u2, x, y

\* p1 and p2 produce one artifact in common; p1 is a job of a remote runner.
MCOutputs == [p \in Producer |-> IF p = p1 THEN <<x>> ELSE <<x, y>>]

\* u1 restores what u2 saves; the two keys may get the same content, and one of
\* them either; there is room for one of the two.
MCRestores == [u \in User |-> IF u = u1 THEN k1 ELSE NoKey]
MCSaves == [u \in User |-> IF u = u1 THEN k2 ELSE k1]
MCMakes == [u \in User |-> IF u = u1 THEN {x} ELSE {x, y}]
MCSize == [d \in Digest |-> IF d = x THEN 1 ELSE 2]
=============================================================================
