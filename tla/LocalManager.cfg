SPECIFICATION FairSpec
CONSTANTS
  r1 = r1  r2 = r2  j1 = j1  j2 = j2  j3 = j3  j4 = j4  k1 = k1
  NoRun = NoRun
  Run = {r1, r2}
  Job = {j1, j2, j3, j4}
  RunOf <- TwoRunOf
  Needs <- TwoNeeds
  Order <- TwoOrder
  MaxParallel <- TwoParallel
  UploadJob = {j1}
  Client = {k1}
  Backlog <- MCBacklog
  MaxFailures = 1
CHECK_DEADLOCK FALSE
INVARIANTS
  
  PassedIsEarned
  AdmissionHolds
PROPERTIES
  NeverStuck
  EveryLocalRunEnds
