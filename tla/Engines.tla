------------------------------ MODULE Engines -------------------------------
(***************************************************************************)
(* The scoring engines of app/engines: pure functions from the evidence of *)
(* one symbol to scores.                                                   *)
(*                                                                         *)
(* Integers stand for the floats of the code: a score or a factor is in    *)
(* tenths of a point (0..1000), to which the code rounds it, a confidence  *)
(* in hundredths, a weight in percent; a price is in cents, a share volume *)
(* in 100 000 shares, a dollar volume in 1 000 dollars, a float in million *)
(* shares, a relative volume in hundredths, a news weight in twentieths.   *)
(* A ratio is a pair.  Exact halves round up here and to even in Python.   *)
(***************************************************************************)
EXTENDS Values

CONSTANTS
  MinSample,  \* HISTORICAL_MIN_SAMPLE_SIZE
  Window,     \* bars of a window of the trend engine (5 in the code)
  Timeframes  \* _TIMEFRAME_ORDER

(* A minimum of 0 is accepted by the configuration and divides by zero. *)
ASSUME EnginesAssumption ==
  /\ MinSample \in Nat \ {0}
  /\ Window \in Nat \ {0}
  /\ IsFiniteSet(Timeframes)

Unit == 20  \* 1.0 of a news relevance, confidence or reliability

Score(value, confidence) == [value |-> value, confidence |-> confidence]

(* ScoreExplanation.__post_init__ raises for any other score. *)
Constructible(s) == s.value \in 0..1000 /\ s.confidence \in 0..100

(* sum(f.value * f.weight for f in factors), of rounded factors. *)
Blend(factors) ==
  Round(SumFunction([i \in DOMAIN factors |-> factors[i][1] * factors[i][2]]), 100)
-----------------------------------------------------------------------------
(* filter_universe with the configuration the scheduler passes. *)
Qualifies(md) ==
  /\ ~md.otc /\ ~md.bankrupt /\ ~md.leveraged
  /\ md.halt \in {None, "Trading"}
  /\ md.exchange \in {"NYSE", "NASDAQ", "AMEX"}
  /\ md.last <= 5000
  /\ md.volume >= 3
  /\ md.dollarVolume >= 5000
  /\ md.relativeVolume # None => md.relativeVolume >= 100

(* No quote scores as the tightest one, a crossed one above 100 points. *)
SpreadQuality(md) ==
  IF ~Truthy(md.spread) \/ md.last = 0 THEN 1000
  ELSE AtLeast(0, Round(1000 * md.last - 500000 * md.spread, md.last))

(* Mutant: the cap on the volatility proxy is missing. *)
RangeExpansionUncapped(md) ==
  IF Truthy(md.range) /\ md.last # 0 THEN Round(12000 * md.range, md.last) ELSE 0
RangeExpansion(md) ==
  IF Truthy(md.range) /\ md.last # 0
  THEN AtMost(1000, Round(12000 * md.range, md.last)) ELSE 0

VwapRelationship(md) ==
  IF Truthy(md.vwap) /\ md.last # 0
  THEN AtLeast(0, Round(1000 * md.vwap - 20000 * Distance(md.last, md.vwap), md.vwap))
  ELSE 500

GapQuality(md) ==
  IF md.gap = None THEN 0
  ELSE AtMost(1000, Round(10000 * Distance(md.gap[1], 0), md.gap[2]))

StructureScore(md) ==
  Score(Blend(<< <<SpreadQuality(md), 25>>,
                 <<IF md.relativeVolume = None THEN 0
                   ELSE AtMost(1000, 3 * md.relativeVolume), 30>>,
                 <<RangeExpansion(md), 20>>,
                 <<VwapRelationship(md), 15>>,
                 <<GapQuality(md), 10>> >>),
        IF None \notin {md.spread, md.relativeVolume, md.vwap} THEN 90 ELSE 55)

LiquidityScore(md) ==
  Score(Blend(<< <<AtMost(1000, Round(md.dollarVolume, 20)), 45>>,
                 <<AtMost(1000, Round(1000 * md.volume, 30)), 35>>,
                 <<IF Truthy(md.float) THEN Clamp(0, 1000, 1000 - 10 * md.float)
                   ELSE 500, 20>> >>),
        IF Truthy(md.float) THEN 90 ELSE 60)

CapitalEfficiencyScore(md) ==
  IF md.spread = None \/ ~Truthy(md.atr) THEN Score(500, 20)
  ELSE LET efficiency ==
             Clamp(0, 1000, Round(1000 * md.atr - 2000 * md.spread, md.atr))
           bonus == IF md.relativeVolume = None THEN 0
                    ELSE Clamp(0, 200, md.relativeVolume - 100)
       IN  Score(AtMost(1000, efficiency + bonus), 75)
-----------------------------------------------------------------------------
(* behavioral.py.  h is the HistoricalStats of the condition, or None. *)
StateMaturity      == [Expansion |-> 850, Negotiation |-> 550, Compression |-> 400]
AcceptanceStrength == [Strong |-> 950, Moderate |-> 700, Weak |-> 400,
                       Testing |-> 250, Failed |-> 50]
BoConfirmation     == [Confirmed |-> 1000, Confirming |-> 550, Candidate |-> 300,
                       Rejected |-> 100, NO_CYCLE |-> 0]
McMaturity         == [Locked |-> 900, Provisional |-> 600]
TransitionRiskBase == [Expansion |-> 150, Negotiation |-> 450, Compression |-> 550]
AcceptancePenalty  == [Strong |-> -100, Moderate |-> 0, Weak |-> 100,
                       Testing |-> 150, Failed |-> 200]

StructureValue(data) ==
  Round(3 * Lookup(StateMaturity, data.state, 500)
        + 4 * Lookup(BoConfirmation, data.bo, 200)
        + 3 * Lookup(McMaturity, data.mc, 0), 10)

Occurrences(h) == IF h = None THEN 0 ELSE h.occurrences

(* The gate of both users of the sample; the mutant opens it at once. *)
AnySample(h)  == Occurrences(h) > 0
Sufficient(h) == h # None /\ Occurrences(h) >= MinSample

ForecastReliability(data, h) ==
  IF data.bias \in {None, "Neutral"} THEN 300
  ELSE IF ~Sufficient(h) THEN 250
  ELSE 700 + AtMost(300, Round(300 * h.occurrences, 4 * MinSample))

StabilityValue(data) ==
  IF data.bars = None THEN 400 ELSE AtMost(1000, 50 * data.bars)

TransitionRisk(data) ==
  Clamp(0, 1000, Lookup(TransitionRiskBase, data.state, 400)
                 + Lookup(AcceptancePenalty, data.acceptance, 100)
                 + (IF data.transitions = None THEN 0
                    ELSE AtMost(200, 40 * data.transitions)))

HistoricalSimilarity(h) == AtMost(1000, 10 * Occurrences(h))

(* The optional inputs there are; the mutant counts those missing. *)
Missing(inputs) == {i \in DOMAIN inputs : inputs[i] = None}
Present(inputs) == {i \in DOMAIN inputs : inputs[i] # None}

BehaviorConfidence(data, h) ==
  LET lifecycle == 6000000 + 7 * Lookup(BoConfirmation, data.bo, 0)
                               * (1000 + Lookup(McMaturity, data.mc, 0))
      inputs    == <<data.bias, data.bars, data.transitions, h>>
      present   == Cardinality(Present(inputs))
  IN  AtMost(100, Round(3 * lifecycle + 5000000 * (4 + present), 1000000))

BehaviorScore(data, h) ==
  Score(Blend(<< <<Lookup(AcceptanceStrength, data.acceptance, 300), 22>>,
                 <<Clamp(0, 1000, data.pressure), 18>>,
                 <<StructureValue(data), 19>>,
                 <<ForecastReliability(data, h), 14>>,
                 <<StabilityValue(data), 9>>,
                 <<1000 - TransitionRisk(data), 8>>,
                 <<HistoricalSimilarity(h), 10>> >>),
        BehaviorConfidence(data, h))
-----------------------------------------------------------------------------
(* multi_timeframe.py.  A series is a sequence of bars, oldest first; the
   snapshot maps each timeframe to its series, empty when it has none. *)
Direction(bars) ==
  LET change == bars[Len(bars)].close - bars[1].close IN
  IF change > 0 THEN "Bullish" ELSE IF change < 0 THEN "Bearish" ELSE "Neutral"

Rises(bars, i) == bars[i].close >= bars[i - 1].close

(* Trailing bars that go the way of the last one. *)
Persistence(bars) ==
  Cardinality({i \in 2..Len(bars) :
                 \A j \in i..Len(bars) : Rises(bars, j) = Rises(bars, Len(bars))})

(* Change over the window that ends at bar e, times Window. *)
WindowChange(bars, e) == bars[e].close - bars[e - Window + 1].close
WindowRange(bars, e) ==
  SumFunction([i \in e - Window + 1..e |-> bars[i].high - bars[i].low])

Acceleration(bars) ==
  LET n == Len(bars) IN
  IF n < 2 * Window THEN 0
  ELSE WindowChange(bars, n) - WindowChange(bars, n - Window)

(* In hundredths of a point.  Only the ranges count, not the direction.  The
   mutant takes growing ranges for exhaustion. *)
Growth(prior, recent)    == Clamp(0, 10000, Round(15000 * (recent - prior), prior))
Shrinkage(prior, recent) == Clamp(0, 10000, Round(15000 * (prior - recent), prior))

Exhaustion(bars) ==
  LET n == Len(bars) IN
  IF n < 2 * Window \/ WindowRange(bars, n - Window) <= 0 THEN 0
  ELSE Shrinkage(WindowRange(bars, n - Window), WindowRange(bars, n))

Available(series) == {tf \in Timeframes : Len(series[tf]) >= 2}

Going(series, direction) ==
  Cardinality({tf \in Available(series) : Direction(series[tf]) = direction})

(* Every average is a sum over the available timeframes divided by n. *)
TrendFactors(series, confirmed) ==
  LET n == Cardinality(Available(series))
      Total(measure(_)) ==
        SumFunction([tf \in Available(series) |-> measure(series[tf])])
      rising   == Going(series, "Bullish")
      falling  == Going(series, "Bearish")
  IN << <<Round(1000 * (IF rising > falling THEN rising ELSE falling), n), 30>>,
        <<AtMost(1000, Round(80 * Total(Persistence), n)), 20>>,
        <<500 + Clamp(-500, 500, Round(50 * Total(Acceleration), Window * n)), 15>>,
        <<1000 - Round(Total(Exhaustion), 10 * n), 15>>,
        <<IF confirmed \in {"Bullish", "Bearish"}
          THEN Round(1000 * Going(series, confirmed), n) ELSE 500, 20>> >>

TrendConfidence(n) ==
  AtMost(90, Round(35 * Cardinality(Timeframes) + 55 * n, Cardinality(Timeframes)))

(* Exhaustion counts twice: as a factor, and as a penalty on the blend. *)
TrendScore(series, confirmed) ==
  LET n       == Cardinality(Available(series))
      factors == TrendFactors(series, confirmed)
      blend   == SumFunction([i \in DOMAIN factors |-> factors[i][1] * factors[i][2]])
      penalty == 3 * SumFunction([tf \in Available(series) |-> Exhaustion(series[tf])])
  IN  IF n = 0 THEN Score(500, 15)
      ELSE Score(Clamp(0, 1000, Round(n * blend - penalty, 100 * n)),
                 TrendConfidence(n))
-----------------------------------------------------------------------------
ImpactMap == [Supportive |-> 1000, Neutral |-> 500, Conflicting |-> 100]

(* news_score.py: the weights are not normalised in the confidence. *)
NewsScore(news) ==
  LET w      == [i \in DOMAIN news |->
                   news[i].relevance * news[i].confidence
                   * (IF news[i].reliability = None THEN 12 ELSE news[i].reliability)]
      weight == SumFunction(w)
      impact == SumFunction([i \in DOMAIN news |-> w[i]
                               * Lookup(ImpactMap, news[i].impact, 500)])
  IN  IF news = <<>> THEN Score(0, 20)
      ELSE Score(IF weight > 0 THEN Round(impact, weight) ELSE 500,
                 AtMost(90, Round(100 * weight, Unit * Unit * Unit * Len(news))))

(* A record without losses has no profit factor and scores 0 for it. *)
HistoricalScore(h) ==
  IF ~Sufficient(h) \/ h.winRate = None THEN Score(0, 0)
  ELSE LET won    == Round(1000 * h.winRate[1], h.winRate[2])
           factor == IF h.profitFactor = None THEN 0
                     ELSE AtMost(1000, Round(400 * h.profitFactor[1], h.profitFactor[2]))
           depth  == AtMost(1000, Round(1000 * h.occurrences, 3 * MinSample))
           full   == 4 * MinSample
       IN  Score(Blend(<< <<won, 45>>, <<factor, 35>>, <<depth, 20>> >>),
                 AtMost(95, Round(40 * full + 55 * AtMost(full, h.occurrences), full)))
-----------------------------------------------------------------------------
Components == {"behavior", "structure", "liquidity", "historical", "trend", "news"}

OpportunityWeights == [behavior |-> 30, structure |-> 15, liquidity |-> 15,
                       historical |-> 20, trend |-> 10, news |-> 10]

Lowest(scores) == Min({scores[c].confidence : c \in Components})

(* sum(score * weight), the weights being normalised by their total.  The
   mutant adds the scores up without their weights. *)
Unweighted(measure) == SumFunction([c \in Components |-> measure[c] * 100])
Weighted(measure) ==
  SumFunction([c \in Components |-> measure[c] * OpportunityWeights[c]])

OpportunityScore(scores) ==
  LET total == SumFunction(OpportunityWeights)
      conf  == Weighted([c \in Components |-> scores[c].confidence])
  IN  Score(Round(Weighted([c \in Components |-> scores[c].value]), total),
            AtMost(100, Round(7 * conf + 3 * Lowest(scores) * total, 10 * total)))

(* In tenths of a point, of confidences in hundredths. *)
ConfidenceScore(scores) ==
  LET sum == SumFunction([c \in Components |-> scores[c].confidence])
      n   == Cardinality(Components)
  IN  Score(Round(6 * sum + 4 * n * Lowest(scores), n), Lowest(scores))
=============================================================================
