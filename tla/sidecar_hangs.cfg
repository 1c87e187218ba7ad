SPECIFICATION FairSpec
CONSTANTS
  j1 = j1
  j2 = j2
  m1 = m1
  m2 = m2
  Jobs = {j1, j2}
  NoJob = NoJob
  MaxStalls = 1
  Models = {m1, m2}
  ModelOf <- OwnModel
  SidecarJobs = {j1, j2}
  RedisConfigured = FALSE
  KeepFailed = FALSE
  MaxCrashes = 0
CHECK_DEADLOCK FALSE
PROPERTY RunningSettles
