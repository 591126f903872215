SPECIFICATION FairSpec
CONSTANTS
  d1 = d1  d2 = d2  d3 = d3  pr = pr  c1 = c1  c2 = c2  t1 = t1  w1 = w1  w2 = w2
  NoDelivery = NoDelivery  NoTrigger = NoTrigger
  Delivery = {d1, d2, d3}
  Kind <- MCKind
  PullRequest <- MCPullRequest
  Commit <- MCCommit
  Broken = {d2}
  Worker = {w1, w2}
  MaxAttempts = 2
  MaxFailures = 2
  MaxEvents = 4
  Trigger = {t1}
  MaxCheckFailures = 3
  Name = {1, 2, 3, 4}
  Pipelines <- MCPipelines
INVARIANTS
  OnlyTheNewestIsAlive
  
  OrderIsTopological
  RefusalIsExact
PROPERTIES
  EveryDeliverySettles
  EveryRunIsAnnounced
  ChecksConverge
CHECK_DEADLOCK FALSE
