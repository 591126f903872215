--------------------------- MODULE MCRemoteRunner ---------------------------
(***************************************************************************)
(* The instances of RemoteRunner that TLC checks.                          *)
(***************************************************************************)
EXTENDS RemoteRunner, TLC

CONSTANTS r1, a, b, n1

\* One run, a uploads what b downloads.
PairRunOf == [j \in {a, b} |-> r1]
PairNeeds == (a :> {}) @@ (b :> {a})

\* One run, two independent jobs.
FreeNeeds == [j \in {a, b} |-> {}]

\* A single job.
OneRunOf == (a :> r1)
OneNeeds == (a :> {})

TwoAtOnce == (r1 :> 2)
OneSlot == (n1 :> {[capacity |-> 1, docker |-> TRUE]})
TwoSlots == (n1 :> {[capacity |-> 2, docker |-> TRUE]})
=============================================================================
