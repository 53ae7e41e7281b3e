SPECIFICATION Spec
CONSTANTS
  Instances = {i1, i2, i3}
  Sessions = {s1, s2, s3, s4}
  NoSession = NoSession
  UseLeaderElection = TRUE
  SessionsMayBeLost = FALSE
  AcquireMayFail = TRUE
  PersistMayFail = TRUE
  MaxRuns = 3
  MaxStops = 2
SYMMETRY SessionSymmetry
INVARIANTS AtMostOneRunner ServedIsNewest
PROPERTIES HistoryAppends OneLeaderAtATime
CHECK_DEADLOCK FALSE
