SPECIFICATION Spec
CONSTANTS
  Instances = {i1, i2}
  Sessions = {s1, s2, s3, s4}
  NoSession = NoSession
  UseLeaderElection = TRUE
  SessionsMayBeLost = TRUE
  AcquireMayFail = TRUE
  PersistMayFail = TRUE
  MaxRuns = 2
  MaxStops = 2
SYMMETRY InstanceSymmetry
INVARIANTS IInv RunnerHoldsLockOrLostIt CacheInHistory
CHECK_DEADLOCK FALSE
