SPECIFICATION Spec
CONSTANTS
  a = a
  b = b
  d = d
  n1 = n1
  n2 = n2
  c1 = c1
  c2 = c2
  Run = {p}
  ThisRun = p
  Job = {a, b}
  RunOf <- MCRunOf
  Needs <- NoNeeds
  MaxParallel = 2
  Runner = {n1, n2}
  NoRunner = NoRunner
  Capacity <- MCCapacity
  Claimer = {c1, c2}
  Sweeper = Sweeper
  Canceler = Canceler
  Report = {"PASSED", "FAILED"}
INVARIANTS
  FinalizedWhenDone
CHECK_DEADLOCK FALSE
