SPECIFICATION FairSpec
CONSTANTS
  MaxPause = 6
  MaxMessages = 2
  MaxEvents = 3
  MaxBreaks = 5
INVARIANTS IInv PausesDouble DeliversInOrder
PROPERTY StreamRecovers
\* the consumer may stop, and the bounded messages run out
CHECK_DEADLOCK FALSE
