SPECIFICATION FairStorageSpec
CONSTANTS
  j1 = j1
  j2 = j2
  m1 = m1
  m2 = m2
  Jobs = {j1, j2}
  NoJob = NoJob
  MaxStalls = 1
  Models = {m1, m2}
  ModelOf <- SameModel
  SidecarJobs = {j1}
  RedisConfigured = FALSE
  KeepFailed = FALSE
  MaxCrashes = 1
CHECK_DEADLOCK FALSE
INVARIANT ExecutorsTracked
INVARIANT FailedLeavesNoDir
INVARIANT RowHasModel
PROPERTY CancelInFetchSticks
PROPERTY LifecycleSpec
PROPERTY RunEnds
PROPERTY CleanupLeavesNoOrphanDir
