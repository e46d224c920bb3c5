CONSTANTS
  Runs = {1, 2}
  Servers = {s1, s2, s3}
  Limit = 2
  None = None
SPECIFICATION FairPoolSpec
INVARIANTS
  PoolTypeOK
  EveryTargetOnce
PROPERTIES
  BulkPromise
