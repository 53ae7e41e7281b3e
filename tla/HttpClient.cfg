SPECIFICATION FairSpec
CONSTANTS
  Calls = {c1, c2, c3}
  Keys = {k1}
  Interval = 1
  TTL = 1
  MaxRetries = 1
  Backoff = 2
  MaxLate = 0
  MaxTime = 3
INVARIANT IInv
PROPERTIES RequestsSpaced RetriesBackOff EveryCallEnds
\* every call made and ended: the client waits for the next one
CHECK_DEADLOCK FALSE
