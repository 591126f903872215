SPECIFICATION SystemSpec
CONSTANTS
  r1 = r1  a = a  b = b  n1 = n1
  Run = {r1}
  Job = {a, b}
  Runner = {n1}
  NoRunner = NoRunner
  RunOf <- PairRunOf
  Needs <- FreeNeeds
  MaxParallel <- TwoAtOnce
  ImageJob = {}
  UploadJob = {}
  PullRequestRun = {}
  Generation = {1}
  Registration <- TwoSlots
  LeaseTTL = 1
PROPERTIES
  HeartbeatCancelsItsLeases
