SPECIFICATION FairSpec
CONSTANTS
  Instances = {i1, i2}
  Sessions = {s1, s2, s3, s4}
  NoSession = NoSession
  UseLeaderElection = TRUE
  SessionsMayBeLost = FALSE
  AcquireMayFail = FALSE
  PersistMayFail = TRUE
  MaxRuns = 2
  MaxStops = 2
PROPERTIES TakeOver LoopOutlivesBadRun
