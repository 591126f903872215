SPECIFICATION FairSystemSpec
CONSTANTS
  r1 = r1  a = a  b = b  n1 = n1
  Run = {r1}
  Job = {a}
  Runner = {n1}
  NoRunner = NoRunner
  RunOf <- OneRunOf
  Needs <- OneNeeds
  MaxParallel <- TwoAtOnce
  ImageJob = {}
  UploadJob = {a}
  PullRequestRun = {}
  Generation = {1}
  Registration <- OneSlot
  LeaseTTL = 2
PROPERTIES
  LostWorkStops
  EveryJobSettles
