SPECIFICATION Spec
CONSTANTS
  UniverseSize = 3
  Timeframes = 2
  ShownHeadlines = 1
  MaxNews = 2
  Scores = {1, 2}
INVARIANTS IInv RankingIsOrdered EveryCandidateRanked OnlyNewsFactorsEscape
\* the pass ends
CHECK_DEADLOCK FALSE
