SPECIFICATION FairSpec
CONSTANTS
  r1 = r1  r2 = r2  a = a  b = b  c = c  d = d  n1 = n1  n2 = n2
  Run = {r1}
  Job = {a, b, d}
  Runner = {n1}
  NoRunner = NoRunner
  RunOf <- ChainRunOf
  Needs <- ChainNeeds
  MaxParallel <- ChainMaxParallel
  ImageJob = {d}
  UploadJob = {a}
  PullRequestRun = {r1}
  Generation = {1}
  Registration <- ChainRegistration
  LeaseTTL = 1
PROPERTIES
  SupersededRunStops
