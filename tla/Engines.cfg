SPECIFICATION Spec
CONSTANTS
  None = None
  MinSample = 2
  Window = 2
  Timeframes = {D, H}
  Baselines <- BaselinesDef
  SnapshotValues <- SnapshotValuesDef
  MockValues <- MockValuesDef
  ReadValues <- ReadValuesDef
  Bars <- BarsDef
  Outcomes <- OutcomesDef
  Articles <- ArticlesDef
  BarLimit = 5
  MaxTrades = 4
  MaxNews = 2
  MaxChanges = 3
INVARIANTS ScoresConstructible NoProbabilityBelowSample SampleGatesAgree BetterRecordNeverHurts BlendsStayBetween LostEvidenceLowersConfidence WiderSpreadNeverHelps NarrowingNeverHelps
\* the bounded changes run out
CHECK_DEADLOCK FALSE
