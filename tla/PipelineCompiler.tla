-------------------------- MODULE PipelineCompiler --------------------------
(***************************************************************************)
(* From the jobs of a pipeline to their order: the checks of Validate on   *)
(* the dependencies, and the loop of Compile, which orders the jobs or     *)
(* finds a cycle.  Job names are numbers, in the order of the names.       *)
(*                                                                         *)
(* The dependencies of a job are a set; Validate refuses a list with a     *)
(* duplicate.  The other checks of Validate look at one job only and at    *)
(* the syntax of names and paths.                                          *)
(***************************************************************************)
EXTENDS Integers, Sequences, FiniteSets

CONSTANTS
  Name,          \* the names of the jobs
  Pipelines      \* the pipelines: the dependencies of every job

ASSUME PipelineAssumption ==
  /\ Name \subseteq Int /\ IsFiniteSet(Name)
  /\ \A needs \in Pipelines : DOMAIN needs = Name /\ \A j \in Name : needs[j] \subseteq Int

VARIABLES
  needs,         \* job.Needs
  stage,         \* "validate", "compile", or how it ended
  indegree,
  ready,         \* the list, which is kept sorted, and has no duplicates
  order,         \* graph.Order
  cyclic         \* the jobs that the error names

compilerVars == <<needs, stage, indegree, ready, order, cyclic>>

CompilerInit ==
  /\ needs \in Pipelines
  /\ stage = "validate"
  /\ indegree = [j \in Name |-> 0] /\ ready = {} /\ order = <<>> /\ cyclic = {}

\* No job needs itself or a job that does not exist.
ValidNeeds == \A j \in Name : needs[j] \subseteq Name \ {j}

Validate ==
  /\ stage = "validate"
  /\ \/ /\ ValidNeeds
        /\ stage' = "compile"
        /\ indegree' = [j \in Name |-> Cardinality(needs[j])]
        /\ ready' = {j \in Name : needs[j] = {}}
     \/ /\ ~ValidNeeds
        /\ stage' = "invalid" /\ UNCHANGED <<indegree, ready>>
  /\ UNCHANGED <<needs, order, cyclic>>

ordered == {order[i] : i \in DOMAIN order}
Dependents(name) == {j \in Name : name \in needs[j]}

\* One round of the loop: the first ready job is next, and its dependents have
\* one dependency less.
ReleasedAtFirst(name) == Dependents(name) \ ordered
Released(name) == {j \in Dependents(name) : indegree[j] = 1}

Take(name) ==
  /\ stage = "compile" /\ name \in ready /\ \A other \in ready : name <= other
  /\ order' = Append(order, name)
  /\ indegree' = [j \in Name |-> IF j \in Dependents(name) THEN indegree[j] - 1 ELSE indegree[j]]
  /\ ready' = (ready \ {name}) \cup Released(name)
  /\ UNCHANGED <<needs, stage, cyclic>>

\* The jobs that the error names.
cyclicJobsBeyondOne == {j \in Name : indegree[j] > 1}
cyclicJobs == {j \in Name : indegree[j] > 0}

\* The list is empty: every job is ordered, or the rest is not without a cycle.
Leave ==
  /\ stage = "compile" /\ ready = {}
  /\ \/ Len(order) = Cardinality(Name) /\ stage' = "ordered" /\ UNCHANGED cyclic
     \/ /\ Len(order) # Cardinality(Name) /\ stage' = "refused"
        /\ cyclic' = cyclicJobs
  /\ UNCHANGED <<needs, indegree, ready, order>>

CompilerNext == Validate \/ (\E name \in Name : Take(name)) \/ Leave

CompilerSpec == CompilerInit /\ [][CompilerNext]_compilerVars

-----------------------------------------------------------------------------
(***************************************************************************)
(* Properties.                                                             *)
(***************************************************************************)

\* What the schedulers rely on: every job is in the order once, after all that
\* it needs.
OrderIsTopological ==
  stage = "ordered" =>
    /\ ordered = Name
    /\ \A i, k \in DOMAIN order : order[i] = order[k] => i = k
    /\ \A i \in DOMAIN order : needs[order[i]] \subseteq {order[k] : k \in 1 .. i - 1}

\* Jobs that wait for each other: each needs one of them.
Knots == {S \in SUBSET Name : \A j \in S : needs[j] \cap S # {}}

\* A pipeline is refused exactly if some jobs wait for each other, and the
\* message names all of those, with the jobs that wait for them, and no other.
RefusalIsExact ==
  /\ stage = "ordered" => UNION Knots = {}
  /\ stage = "refused" => cyclic # {} /\ cyclic = UNION Knots
=============================================================================
