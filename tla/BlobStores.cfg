SPECIFICATION FairSpec
CONSTANTS
  p1 = p1  p2 = p2  k1 = k1  k2 = k2  u1 = u1  u2 = u2  x = x  y = y
  NoDigest = NoDigest  NoKey = NoKey
  Digest = {x, y}
  Grace = 1
  Producer = {p1, p2}
  Outputs <- MCOutputs
  LocalJob = {p2}
  Retention = 1
  Key = {k1, k2}
  User = {u1, u2}
  Restores <- MCRestores
  Saves <- MCSaves
  Makes <- MCMakes
  Size <- MCSize
  MaxBytes = 2
  CacheRetention = 1
INVARIANTS
  PromptArtifactIsReadable
PROPERTIES
  
  
  OrphansAreCollected
  EvictionIsFrugal
  CollectorSparesEntries
