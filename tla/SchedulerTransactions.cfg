SPECIFICATION Spec
CONSTANTS
  a = a
  b = b
  d = d
  n1 = n1
  n2 = n2
  c1 = c1
  c2 = c2
  Run = {p}
  ThisRun = p
  Job = {a, b, d}
  RunOf <- MCRunOf
  Needs <- MCNeeds
  MaxParallel = 2
  Runner = {n1, n2}
  NoRunner = NoRunner
  Capacity <- MCCapacity
  Claimer = {c1, c2}
  Sweeper = Sweeper
  Canceler = Canceler
  Report = {"PASSED", "FAILED"}
INVARIANTS
  RunnerCapacity
PROPERTIES
  NoClaimAfterCancel
  RenewedJobSurvives
  ImplementsLifecycle
CHECK_DEADLOCK FALSE
