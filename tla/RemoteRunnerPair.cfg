SPECIFICATION SystemSpec
CONSTANTS
  r1 = r1  a = a  b = b  n1 = n1
  Run = {r1}
  Job = {a, b}
  Runner = {n1}
  NoRunner = NoRunner
  RunOf <- PairRunOf
  Needs <- PairNeeds
  MaxParallel <- TwoAtOnce
  ImageJob = {}
  UploadJob = {a}
  PullRequestRun = {}
  Generation = {1}
  Registration <- OneSlot
  LeaseTTL = 2
INVARIANTS
  ExecutionIsAccounted
  DeadlineNotLate
