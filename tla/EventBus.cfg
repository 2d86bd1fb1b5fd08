SPECIFICATION FairSpec
CONSTANTS
  Events = {e1, e2}
  SyncEvents = {y1}
  Tokens = {u1}
  Keys = {k1}
  keyOf <- OneKey
  Buffer = 1
  SelfUnsub = {u1}
  MaxBuckets = 2
  None = None
CHECK_DEADLOCK FALSE
INVARIANTS OneBucketPerKey RemovedNeverCalled
PROPERTIES CloseStopsWorkers PublishProgress
