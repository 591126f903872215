--------------------------- MODULE MCJobScheduler ---------------------------
(***************************************************************************)
(* The instances of JobScheduler that TLC checks.                          *)
(***************************************************************************)
EXTENDS JobScheduler, TLC

CONSTANTS r1, r2, a, b, c, d, n1, n2

\* One run with a chain a, b, c and a job d beside it; one job at a time,
\* although the runner has room for two.
ChainRunOf == [j \in Job |-> r1]
ChainNeeds == [j \in Job |-> CASE j = b -> {a} [] j = c -> {b} [] OTHER -> {}]
ChainMaxParallel == (r1 :> 1)
ChainRegistration == (n1 :> {[capacity |-> 2, docker |-> TRUE]})

\* Run r1 has a job b that needs a; run r2 is the single job d.
TwoRunOf == (a :> r1) @@ (b :> r1) @@ (d :> r2)
TwoNeeds == (a :> {}) @@ (b :> {a}) @@ (d :> {})
TwoMaxParallel == (r1 :> 1) @@ (r2 :> 1)

\* Runner n1 has Docker and may come back with another capacity; n2 has no
\* Docker.
MCRegistration ==
  (n1 :> {[capacity |-> 1, docker |-> TRUE], [capacity |-> 2, docker |-> TRUE]})
  @@ (n2 :> {[capacity |-> 1, docker |-> FALSE]})
=============================================================================
