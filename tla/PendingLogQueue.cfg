SPECIFICATION FairSpec
CONSTANTS
  stdout = stdout  stderr = stderr
  Stream = {stdout, stderr}
  Output <- MCOutput
  MaxPendingLogBytes = 3
  MaxLogChunksPerRequest = 3
  MaxLogAppendBodyBytes = 1000
  logUploadAttempts = 2
CHECK_DEADLOCK FALSE
INVARIANTS
  DurableIsPrefix
  AcknowledgedIsDurable
  
PROPERTIES
  EveryJobIsReported
