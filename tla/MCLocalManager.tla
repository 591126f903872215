--------------------------- MODULE MCLocalManager ---------------------------
(***************************************************************************)
(* The instances of LocalManager that TLC checks.                          *)
(***************************************************************************)
EXTENDS LocalManager

CONSTANTS r1, r2, j1, j2, j3, j4, k1

\* Run r1: j3 needs j1 and j2; two jobs at a time.  Run r2 is one job,
\* and its max_parallel is not positive.
TwoRunOf == [j \in Job |-> IF j = j4 THEN r2 ELSE r1]
TwoNeeds == [j \in Job |-> CASE j = j3 -> {j1, j2} [] OTHER -> {}]
TwoOrder == [r \in Run |-> IF r = r1 THEN <<j1, j2, j3>> ELSE <<j4>>]
TwoParallel == [r \in Run |-> IF r = r1 THEN 2 ELSE 0]
MCBacklog == <<r1>>
=============================================================================
