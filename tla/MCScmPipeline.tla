---------------------------- MODULE MCScmPipeline ---------------------------
(***************************************************************************)
(* Two heads of a pull request and its end, with two workers; the check    *)
(* of a run; every pipeline of four jobs of which none needs itself, and   *)
(* two that Validate refuses.                                              *)
(***************************************************************************)
EXTENDS ScmPipeline

CONSTANTS d1, d2, d3, pr, c1, c2, t1, w1, w2

MCKind == [d \in Delivery |-> IF d = d3 THEN "closed" ELSE "head"]
MCPullRequest == [d \in Delivery |-> pr]
MCCommit == [d \in Delivery |-> IF d = d1 THEN c1 ELSE c2]

MCPipelines ==
  {p \in [Name -> SUBSET Name] : \A j \in Name : j \notin p[j]}
  \cup {[j \in Name |-> IF j = 1 THEN {1} ELSE {}], [j \in Name |-> IF j = 2 THEN {0} ELSE {}]}
=============================================================================
