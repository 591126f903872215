SPECIFICATION FairSpec
CONSTANTS
  r1 = r1  r2 = r2  a = a  b = b  c = c  d = d  n1 = n1  n2 = n2
  Run = {r1}
  Job = {a, b, c, d}
  Runner = {n1}
  NoRunner = NoRunner
  RunOf <- ChainRunOf
  Needs <- ChainNeeds
  MaxParallel <- ChainMaxParallel
  ImageJob = {c}
  UploadJob = {a}
  PullRequestRun = {}
  Generation = {1}
  Registration <- ChainRegistration
  LeaseTTL = 1
INVARIANTS
  DependencyOrder
  InputsAvailable
  VerdictMatchesJobs
  NoDeadEnd
  
PROPERTIES
  EveryRunEnds
  ImplementsLifecycle
