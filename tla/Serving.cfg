SPECIFICATION FairSpec
CONSTANTS
  Instances = {i1, i2}
  Symbols = {a, b}
  Threads = {t}
  PageLimit = 3
  MaxEvents = 2
  MaxRuns = 3
  MaxFaults = 1
INVARIANTS TimeNearRows HistoryShowsWholeRuns EvidenceNeverGoesBack
PROPERTY EventIsRanked
\* the bounded runs and events run out
CHECK_DEADLOCK FALSE
