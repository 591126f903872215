---------------------------- MODULE DirectRunner ----------------------------
(***************************************************************************)
(* runner.Runner.Run: the event loop that executes one run inside a        *)
(* process, for `forge run` and for the server in local mode.  One         *)
(* goroutine owns the states of the jobs; it starts a goroutine for every  *)
(* job it admits, and each of these sends one completion.                  *)
(*                                                                         *)
(* A step makes at most one state change, so that the caller can follow    *)
(* each of them as the observer of the code does.  The context and the     *)
(* outcome of a job depend on the caller too: the actions leave ctx and    *)
(* the choice of outcome to the module that composes them.                 *)
(***************************************************************************)
EXTENDS PipelineRun, Sequences, Functions

CONSTANTS
  NoRun,
  Order,         \* Order[r]: graph.Order of run r
  MaxParallel    \* MaxParallel[r]: how many jobs of r may run at once

\* What Compile returns: every job of the run once, after its predecessors.
ASSUME OrderAssumption ==
  /\ NoRun \notin Run
  /\ MaxParallel \in [Run -> Int]
  /\ \A r \in Run :
       /\ Order[r] \in Seq(Job) /\ IsInjective(Order[r]) /\ Range(Order[r]) = JobsOf(r)
       /\ \A i \in DOMAIN Order[r] :
            Needs[Order[r][i]] \subseteq Range(SubSeq(Order[r], 1, i - 1))

VARIABLES
  current,       \* the run that Run executes, or NoRun
  states,        \* result.States of that run
  ctx,           \* its context: "live" or "canceled"
  loop,          \* where the loop is
  pos,           \* how far the pass over graph.Order has come
  interrupted,   \* canceling, which result.Interrupted equals
  internalError, \* result.InternalError
  working,       \* the jobs whose goroutines have not sent their completion
  completions    \* the buffered channel

loopVars == <<current, states, loop, pos, interrupted, internalError, working, completions>>

\* The outcomes of executeJob: the state and whether it is an internal error.
Completed(j, s, internal) == [name |-> j, state |-> s, internal |-> internal]

LoopInit ==
  /\ current = NoRun
  /\ states = [j \in Job |-> "PENDING"]
  /\ ctx = "live"
  /\ loop = "returned" /\ pos = 1
  /\ interrupted = FALSE /\ internalError = FALSE
  /\ working = {} /\ completions = <<>>

\* Run is called.
RunLoop(r) ==
  /\ current' = r
  /\ states' = [j \in Job |-> "PENDING"]
  /\ loop' = "top" /\ pos' = 1
  /\ interrupted' = FALSE /\ internalError' = FALSE
  /\ working' = {} /\ completions' = <<>>

\* Its result has been used, or the process is gone.
LoopDone ==
  /\ current' = NoRun
  /\ states' = [j \in Job |-> "PENDING"]
  /\ loop' = "returned" /\ pos' = 1
  /\ interrupted' = FALSE /\ internalError' = FALSE
  /\ working' = {} /\ completions' = <<>>

-----------------------------------------------------------------------------
graphOrder == Order[current]
active == {j \in Job : states[j] = "RUNNING"}
unfinished == {j \in JobsOf(current) : states[j] \in JobUnfinished}
maxParallelUnchecked == MaxParallel[current]
maxParallel == IF MaxParallel[current] < 1 THEN 1 ELSE MaxParallel[current]

hasFailedDependency(j) == \E d \in Needs[j] : states[d] \in {"FAILED", "BLOCKED"}

readyWhenUnfailed(j) ==
  states[j] = "PENDING" /\ \A d \in Needs[j] : states[d] \in {"PASSED", "RUNNING"}
ready(j) == states[j] = "PENDING" /\ \A d \in Needs[j] : states[d] = "PASSED"

\* Where the loops over graph.Order stop first, when S are the places they look for.
First(S) == CHOOSE k \in S : \A l \in S : k <= l

SetState(j, s) == states' = [states EXCEPT ![j] = s]
BackToTop == loop' = "top" /\ pos' = 1

\* The head of the loop: is there work left, and has the context been canceled?
Top ==
  /\ loop = "top"
  /\ interrupted' = (interrupted \/ (unfinished # {} /\ ctx = "canceled"))
  /\ loop' = IF unfinished = {} THEN "returned" ELSE "body"
  /\ UNCHANGED <<current, states, pos, internalError, working, completions>>

\* What the pass over graph.Order has still to block, and what nextReadyJob
\* finds.
toBlock == {k \in DOMAIN graphOrder : /\ k >= pos /\ states[graphOrder[k]] = "PENDING"
                                      /\ hasFailedDependency(graphOrder[k])}
toStart == {k \in DOMAIN graphOrder : ready(graphOrder[k])}
freeSlot == Cardinality(active) < maxParallel

\* Without a cancellation: first block what depends on a failure, ...
Block ==
  /\ loop = "body" /\ ~interrupted
  /\ toBlock # {}
  /\ SetState(graphOrder[First(toBlock)], "BLOCKED")
  /\ pos' = First(toBlock) + 1
  /\ UNCHANGED <<current, loop, interrupted, internalError, working, completions>>

\* ... then start what is ready, while there is a free slot.
Start ==
  /\ loop = "body" /\ ~interrupted
  /\ toBlock = {} /\ freeSlot /\ toStart # {}
  /\ SetState(graphOrder[First(toStart)], "RUNNING")
  /\ working' = working \cup {graphOrder[First(toStart)]}
  /\ UNCHANGED <<current, loop, pos, interrupted, internalError, completions>>

admitted ==
  /\ loop = "body"
  /\ interrupted \/ (toBlock = {} /\ ~(freeSlot /\ toStart # {}))

\* Nothing runs: what never started is canceled.  A loop that has pending jobs
\* and was not canceled is stuck; it fails them and reports an internal error.
Idle ==
  LET left == {k \in DOMAIN graphOrder : states[graphOrder[k]] = "PENDING"}
  IN  /\ admitted /\ active = {}
      /\ \/ /\ left # {}
            /\ SetState(graphOrder[First(left)], IF interrupted THEN "CANCELED" ELSE "FAILED")
            /\ internalError' = (internalError \/ ~interrupted)
            /\ UNCHANGED loop
         \/ left = {} /\ loop' = "returned" /\ UNCHANGED <<states, internalError>>
      /\ UNCHANGED <<current, pos, interrupted, working, completions>>

\* The select: a completion, or the canceled context unless that is known.
Receive ==
  LET c == Head(completions)
  IN  /\ admitted /\ active # {} /\ completions # <<>>
      /\ SetState(c.name, c.state)
      /\ internalError' = (internalError \/ c.internal)
      /\ completions' = Tail(completions)
      /\ BackToTop
      /\ UNCHANGED <<current, interrupted, working>>

NoticeCancel ==
  /\ admitted /\ active # {} /\ ~interrupted /\ ctx = "canceled"
  /\ BackToTop
  /\ UNCHANGED <<current, states, interrupted, internalError, working, completions>>

LoopStep == Top \/ Block \/ Start \/ Idle \/ Receive \/ NoticeCancel

\* The goroutine of j sends its completion and ends.
Send(c) ==
  /\ c.name \in working
  /\ working' = working \ {c.name}
  /\ completions' = Append(completions, c)
  /\ UNCHANGED <<current, states, loop, pos, interrupted, internalError>>

\* executeJob and finishJob: an error counts as a cancellation once the context
\* is canceled; an error of the durable log is an internal one all the same.
Outcomes(j) ==
  {Completed(j, "PASSED", FALSE), Completed(j, "FAILED", TRUE),
   Completed(j, IF ctx = "canceled" THEN "CANCELED" ELSE "FAILED", FALSE)}

Succeeded ==
  /\ ~interrupted /\ ~internalError
  /\ \A j \in JobsOf(current) : states[j] = "PASSED"
=============================================================================
