SPECIFICATION Spec
CONSTANTS
  Instances = {i1, i2}
  Sessions = {s1, s2, s3, s4}
  NoSession = NoSession
  UseLeaderElection = TRUE
  SessionsMayBeLost = TRUE
  AcquireMayFail = FALSE
  PersistMayFail = FALSE
  MaxRuns = 2
  MaxStops = 0
INVARIANT AtMostOneRunner
