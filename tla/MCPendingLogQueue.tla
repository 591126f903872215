------------------------- MODULE MCPendingLogQueue -------------------------
(***************************************************************************)
(* The instance of PendingLogQueue that TLC checks: stdout writes two      *)
(* chunks and stderr one; two of the three can fill the queue.             *)
(***************************************************************************)
EXTENDS PendingLogQueue

CONSTANTS stdout, stderr

MCOutput == [w \in Stream |-> IF w = stdout THEN <<1, 2>> ELSE <<1>>]
=============================================================================
