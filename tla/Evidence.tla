------------------------------ MODULE Evidence ------------------------------
(***************************************************************************)
(* What build_ranking knows of one symbol, from one ranking run to the     *)
(* next, and the scores it gives it (app/engines/ranking.py:68-91).        *)
(*                                                                         *)
(* Between two runs anything may change: the vendors' answers, the         *)
(* sensor's read, the recorded trades.  A step changes one thing, and the  *)
(* properties compare the scores of what is known with those of slightly   *)
(* different evidence.                                                     *)
(***************************************************************************)
EXTENDS Engines, Parsers

CONSTANTS
  Baselines,       \* what may be known at first
  SnapshotValues,  \* the values of each field of the market snapshot
  MockValues,      \* those of the fields only the mock provider fills
  ReadValues,      \* those of each field of a behavioral read
  Bars,            \* bars a series may grow by
  Outcomes,        \* <<r_multiple, is_win>> of a closed trade
  Articles,        \* articles the news vendor may publish
  BarLimit,        \* limit of get_bars (60 in the code)
  MaxTrades,       \* bound on the recorded trades
  MaxNews,         \* bound on the articles
  MaxChanges       \* bound on the steps

(* What the vendors, the sensor and the database may answer: prices, volumes
   and counts are not negative, and what may be missing is None. *)
Optional(S) == S \union {None}

SnapshotTypes ==
  [f \in {"trade", "close", "volume", "bid", "ask", "vwap", "high", "low",
          "open", "prevClose", "exchange"} |->
     IF f = "exchange" THEN STRING ELSE Optional(Nat)]

MockTypes == [f \in {"relativeVolume", "atr", "float"} |-> Optional(Nat)]

ReadTypes ==
  [f \in {"state", "direction", "scenario", "bo", "mc", "acceptance", "pressure",
          "bias", "bars", "transitions"} |->
     IF f = "pressure" THEN Int
     ELSE IF f \in {"bars", "transitions"} THEN Optional(Nat)
     ELSE IF f = "bias" THEN Optional(STRING) ELSE STRING]

HasTypes(record, types) ==
  DOMAIN record = DOMAIN types /\ \A f \in DOMAIN types : record[f] \in types[f]

TradeType   == [condition : STRING \X STRING \X STRING,
                r : Optional(Int), win : Optional(BOOLEAN)]
BarType     == [high : Nat, low : Nat, close : Nat]
InsightType == [ticker : STRING, sentiment : Optional(STRING)]
ArticleType == [insights : Seq(InsightType), tickers : SUBSET STRING]
HistoryType == [occurrences : Nat, winRate : Optional(Nat \X (Nat \ {0})),
                profitFactor : Optional(Nat \X (Nat \ {0}))]

WellTyped(known) ==
  /\ HasTypes(known.raw, SnapshotTypes)
  /\ HasTypes(known.mock, MockTypes)
  /\ HasTypes(known.behavior, ReadTypes)
  /\ known.trades \in Seq(TradeType)
  /\ known.series \in [Timeframes -> Seq(BarType)]
  /\ known.articles \in Seq(ArticleType)

ASSUME EvidenceAssumption ==
  /\ BarLimit \in Nat \ {0}
  /\ {MaxTrades, MaxNews, MaxChanges} \subseteq Nat
  /\ None \notin Int /\ None \notin Int \X Int /\ None \notin HistoryType

ASSUME ValuesAreTyped ==
  /\ \A b \in Baselines : WellTyped(b)
  /\ \A f \in DOMAIN SnapshotTypes : SnapshotValues[f] \subseteq SnapshotTypes[f]
  /\ \A f \in DOMAIN MockTypes : MockValues[f] \subseteq MockTypes[f]
  /\ \A f \in DOMAIN ReadTypes : ReadValues[f] \subseteq ReadTypes[f]
  /\ Bars \subseteq BarType /\ Articles \subseteq ArticleType
  /\ Outcomes \subseteq Int \X Optional(BOOLEAN)

VARIABLES
  raw,       \* the market snapshot, as the vendor answers it
  mock,      \* relative volume, ATR and float: None unless the data is mocked
  behavior,  \* the latest behavioral read
  trades,    \* the trade_outcomes joined with their snapshot's condition
  series,    \* the bars of each timeframe, <<>> when it cannot be fetched
  articles,  \* the news about the symbol
  changes    \* steps so far

vars == <<raw, mock, behavior, trades, series, articles, changes>>

Init ==
  \E b \in Baselines :
    /\ raw = b.raw /\ mock = b.mock /\ behavior = b.behavior
    /\ trades = b.trades /\ series = b.series /\ articles = b.articles
    /\ changes = 0
-----------------------------------------------------------------------------
ConditionKey == <<behavior.state, behavior.direction, behavior.scenario>>

MarketOf(snapshot, extra) ==
  [ParseSnapshotTicker(snapshot) EXCEPT !.relativeVolume = extra.relativeVolume,
                                        !.atr = extra.atr, !.float = extra.float]
Market == MarketOf(raw, mock)

History(recorded) == StatsForCondition(recorded, ConditionKey)
News == [i \in DOMAIN articles |-> ParseNewsArticle(articles[i], "symbol")]

Trend(bars) == TrendScore(bars, behavior.direction)

(* historical_expectancy is shown, and a small sample listed among the risks.
   There is an average R whenever there is a win rate.  The mutant asks for
   more than the minimum. *)
ShowsAboveMinimum(h) == Occurrences(h) > MinSample /\ h.winRate # None
Shows(h)             == Occurrences(h) >= MinSample /\ h.winRate # None
FlagsSample(h)       == Occurrences(h) < MinSample

Scores ==
  LET md == Market
      h  == History(trades)
  IN [behavior   |-> BehaviorScore(behavior, h),
      structure  |-> StructureScore(md),
      liquidity  |-> LiquidityScore(md),
      historical |-> HistoricalScore(h),
      trend      |-> Trend(series),
      news       |-> NewsScore(News)]
-----------------------------------------------------------------------------
Step == changes < MaxChanges /\ changes' = changes + 1

SnapshotChanges ==
  /\ Step
  /\ \E f \in DOMAIN raw : \E v \in SnapshotValues[f] : raw' = [raw EXCEPT ![f] = v]
  /\ UNCHANGED <<mock, behavior, trades, series, articles>>

MockChanges ==
  /\ Step
  /\ \E f \in DOMAIN mock : \E v \in MockValues[f] : mock' = [mock EXCEPT ![f] = v]
  /\ UNCHANGED <<raw, behavior, trades, series, articles>>

ReadChanges ==
  /\ Step
  /\ \E f \in DOMAIN behavior : \E v \in ReadValues[f] :
       behavior' = [behavior EXCEPT ![f] = v]
  /\ UNCHANGED <<raw, mock, trades, series, articles>>

(* A trade is recorded under the condition it was opened in. *)
TradeOpens ==
  /\ Step
  /\ Len(trades) < MaxTrades
  /\ trades' = Append(trades, [condition |-> ConditionKey, r |-> None, win |-> None])
  /\ UNCHANGED <<raw, mock, behavior, series, articles>>

TradeCloses ==
  /\ Step
  /\ \E i \in DOMAIN trades, o \in Outcomes :
       /\ trades[i].r = None
       /\ trades' = [trades EXCEPT ![i].r = o[1], ![i].win = o[2]]
  /\ UNCHANGED <<raw, mock, behavior, series, articles>>

BarCloses ==
  /\ Step
  /\ \E tf \in Timeframes, bar \in Bars :
       series' = [series EXCEPT ![tf] = GetBars(Append(@, bar), BarLimit)]
  /\ UNCHANGED <<raw, mock, behavior, trades, articles>>

TimeframeFails ==
  /\ Step
  /\ \E tf \in Timeframes : series' = [series EXCEPT ![tf] = <<>>]
  /\ UNCHANGED <<raw, mock, behavior, trades, articles>>

NewsArrives ==
  /\ Step
  /\ Len(articles) < MaxNews
  /\ \E a \in Articles : articles' = <<a>> \o articles
  /\ UNCHANGED <<raw, mock, behavior, trades, series>>

Next ==
  \/ SnapshotChanges \/ MockChanges \/ ReadChanges
  \/ TradeOpens \/ TradeCloses
  \/ BarCloses \/ TimeframeFails
  \/ NewsArrives

Spec == Init /\ [][Next]_vars
-----------------------------------------------------------------------------
TypeOK ==
  /\ WellTyped([raw |-> raw, mock |-> mock, behavior |-> behavior, trades |-> trades,
                series |-> series, articles |-> articles])
  /\ changes \in 0..MaxChanges

(* Scores are computed for what the filter accepts. *)
Qualified == Qualifies(Market)

Below(high, low) == None \notin {high, low} /\ high < low
Inverted == Below(raw.ask, raw.bid) \/ Below(raw.high, raw.low)

(* evidence.py:32-36: every score of a qualified symbol is one that can be
   constructed, whatever is missing, zero or extreme in its evidence, so no
   symbol ends the ranking of all others with a ValueError.  A crossed quote
   is the exception, and a day's high below its low: nothing bounds what a
   negative spread or range is worth. *)
ScoresConstructible ==
  LET scores == Scores IN
  Qualified /\ ~Inverted =>
    /\ \A c \in Components : Constructible(scores[c])
    /\ Constructible(CapitalEfficiencyScore(Market))
    /\ Constructible(OpportunityScore(scores))
    /\ Constructible(ConfidenceScore(scores))

ClosedHere == {i \in DOMAIN trades : trades[i].condition = ConditionKey
                                     /\ trades[i].r # None}
WithOutcome(i, o) == [trades EXCEPT ![i].r = o[1], ![i].win = o[2]]

(* historical.py:12-14 and behavioral.py:39-40: below the minimum of closed
   trades under the condition, how these ended shows in no score. *)
NoProbabilityBelowSample ==
  Cardinality(ClosedHere) < MinSample =>
    \A i \in ClosedHere, o \in Outcomes :
      LET before == History(trades)
          after  == History(WithOutcome(i, o))
      IN /\ HistoricalScore(after) = HistoricalScore(before)
         /\ BehaviorScore(behavior, after) = BehaviorScore(behavior, before)

(* Four lines in three files compare the sample with its minimum, and agree:
   from the same number of closed trades on, whatever else is open, the
   expectancy is shown (ranking.py:96), the risks have no warning of a small
   sample (ranking.py:116), the historical score has a confidence
   (historical.py:12) and a forecast counts as calibrated (behavioral.py:39).
   A symbol is never both warned about and backed by its record. *)
SampleGatesAgree ==
  LET h       == History(trades)
      reached == Cardinality(ClosedHere) >= MinSample
  IN /\ Shows(h) <=> reached
     /\ FlagsSample(h) <=> ~reached
     /\ HistoricalScore(h).confidence > 0 <=> reached
     /\ behavior.bias \notin {None, "Neutral"} =>
          (ForecastReliability(behavior, h) >= 700 <=> reached)

(* A trade that would have won instead of lost makes the record no worse,
   unless it is the last loss: without losses there is no profit factor, and
   historical.py:35 counts it as zero. *)
BetterRecordNeverHurts ==
  LET lost == {i \in ClosedHere : trades[i].r < 0} IN
  \A i \in lost, o \in Outcomes :
    lost # {i} /\ o[1] > 0 /\ o[2] = TRUE
      => HistoricalScore(History(WithOutcome(i, o))).value
           >= HistoricalScore(History(trades)).value

(* scoring.py:23-26 and confidence.py:20-23: a blend is never below its lowest
   component nor above its highest, so no component is counted twice, left
   out or weighted past its share. *)
BlendsStayBetween ==
  LET scores == Scores
      Between(x, measure) == /\ \E c \in Components : measure[c] <= x
                             /\ \E c \in Components : measure[c] >= x
      values      == [c \in Components |-> scores[c].value]
      confidences == [c \in Components |-> scores[c].confidence]
      inTenths    == [c \in Components |-> 10 * confidences[c]]
  IN /\ Between(OpportunityScore(scores).value, values)
     /\ Between(OpportunityScore(scores).confidence, confidences)
     /\ Between(ConfidenceScore(scores).value, inTenths)

(* multi_timeframe.py:9 and every engine's confidence: with one field, one
   timeframe or one optional input less, a score degrades "with reduced
   confidence", and never with more.  News are left out: none at all is given
   0.2, which is more than one weak item gets. *)
Without(known, field) == [known EXCEPT ![field] = None]
LostEvidenceLowersConfidence ==
  LET md     == Market
      h      == History(trades)
      poorer == {MarketOf(Without(raw, f), mock) : f \in DOMAIN raw \ {"exchange"}}
                \union {MarketOf(raw, Without(mock, f)) : f \in DOMAIN mock}
  IN /\ \A less \in poorer :
          /\ StructureScore(less).confidence <= StructureScore(md).confidence
          /\ LiquidityScore(less).confidence <= LiquidityScore(md).confidence
          /\ CapitalEfficiencyScore(less).confidence
               <= CapitalEfficiencyScore(md).confidence
     /\ \A f \in {"bias", "bars", "transitions"} :
          BehaviorConfidence(Without(behavior, f), h) <= BehaviorConfidence(behavior, h)
     /\ BehaviorConfidence(behavior, None) <= BehaviorConfidence(behavior, h)
     /\ \A tf \in Timeframes :
          Trend([series EXCEPT ![tf] = <<>>]).confidence <= Trend(series).confidence

(* structure.py:8-9, capital_efficiency.py:24: of two quotes, the one whose
   ask is farther above its bid never scores higher for it. *)
WiderSpreadNeverHelps ==
  LET md == Market IN
  Qualified /\ None \notin {raw.bid, raw.ask} =>
    \A ask \in SnapshotValues.ask \ {None} :
      LET wider == MarketOf([raw EXCEPT !.ask = ask], mock) IN
      ask >= raw.ask /\ raw.ask >= raw.bid =>
        /\ StructureScore(wider).value <= StructureScore(md).value
        /\ CapitalEfficiencyScore(wider).value <= CapitalEfficiencyScore(md).value

(* multi_timeframe.py:60-73: had the last bar of a timeframe closed the same
   in a narrower range, the trend would not score higher: exhaustion counts
   against it, in its factor and in the penalty. *)
NarrowingNeverHelps ==
  \A tf \in Timeframes : \A bar \in Bars :
    LET n == Len(series[tf])
        last == series[tf][n]
        narrower == [series EXCEPT ![tf][n].high = bar.high, ![tf][n].low = bar.low]
    IN (n > 0 /\ bar.high - bar.low <= last.high - last.low)
       => Trend(narrower).value <= Trend(series).value
=============================================================================
