SPECIFICATION Spec
CONSTANTS
  r1 = r1  r2 = r2  a = a  b = b  c = c  d = d  n1 = n1  n2 = n2
  Run = {r1, r2}
  Job = {a, b, d}
  Runner = {n1, n2}
  NoRunner = NoRunner
  RunOf <- TwoRunOf
  Needs <- TwoNeeds
  MaxParallel <- TwoMaxParallel
  ImageJob = {d}
  UploadJob = {a, d}
  PullRequestRun = {r1}
  Generation = {1}
  Registration <- MCRegistration
  LeaseTTL = 1
INVARIANTS
  NeverReassigned
PROPERTIES
  TerminalIsFinal
  ExpiredLeaseOnlyAborts
