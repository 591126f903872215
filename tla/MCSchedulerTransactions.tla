----------------------- MODULE MCSchedulerTransactions -----------------------
(***************************************************************************)
(* The instances of SchedulerTransactions that TLC checks.                 *)
(***************************************************************************)
EXTENDS SchedulerTransactions

CONSTANTS a, b, d, n1, n2, c1, c2

MCRunOf == [j \in Job |-> ThisRun]

\* b needs a; d, where it exists, is independent.
MCNeeds == [j \in Job |-> IF j = b THEN {a} ELSE {}]
NoNeeds == [j \in Job |-> {}]

MCCapacity == [n \in Runner |-> 1]
=============================================================================
