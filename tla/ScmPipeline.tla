----------------------------- MODULE ScmPipeline ----------------------------
(***************************************************************************)
(* What the server does for GitHub: from webhooks to runs (ScmDeliveries), *)
(* inside of which a worker orders the jobs of the pipeline that it        *)
(* prepares (PipelineCompiler), and from runs to checks (ScmChecks).  The  *)
(* three share nothing but the rows of runs, of which the first creates    *)
(* them and the last reads their status.  A behaviour is about one of      *)
(* them.                                                                   *)
(***************************************************************************)
EXTENDS ScmDeliveries, ScmChecks, PipelineCompiler

VARIABLE part

partVars == <<part, deliveryVars, checkVars, compilerVars>>

Init ==
  /\ part \in {"compiler", "deliveries", "checks"}
  /\ DeliveryInit /\ CheckInit
  /\ CompilerInit /\ (part # "compiler" => needs = [j \in Name |-> {}])

Compile == part = "compiler" /\ CompilerNext /\ UNCHANGED <<part, deliveryVars, checkVars>>
Deliver == part = "deliveries" /\ DeliveryNext /\ UNCHANGED <<part, checkVars, compilerVars>>
Check == part = "checks" /\ CheckNext /\ UNCHANGED <<part, deliveryVars, compilerVars>>

Next == Compile \/ Deliver \/ Check

Spec == Init /\ [][Next]_partVars

\* The goroutines of the workers go on, and so does the clock, which ends the
\* claims that nobody holds.  Webhooks and runs may stop anywhere.
Work == part = "deliveries" /\ \E w \in Worker : Process(w)
ClaimsEnd == part = "deliveries" /\ \E d \in Delivery : AbandonedClaimExpires(d)
Report == part = "checks" /\ (Reconcile \/ \E t \in Trigger : ClaimSCMCheck(t))
CheckClaimsEnd ==
  part = "checks" /\ \E t \in Trigger : reporter.trigger # t /\ CheckClaimExpires(t)

FairSpec ==
  /\ Spec
  /\ WF_deliveryVars(Work) /\ WF_deliveryVars(ClaimsEnd)
  /\ WF_checkVars(Report) /\ WF_checkVars(CheckClaimsEnd)
=============================================================================
