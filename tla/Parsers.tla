------------------------------ MODULE Parsers -------------------------------
(***************************************************************************)
(* From what the vendors and the database answer to the evidence of the    *)
(* engines: app/providers/parsers.py and app/providers/db_historical_stats.*)
(***************************************************************************)
EXTENDS Values

(* parse_snapshot_ticker.  The day's volume so far stands in for both
   averages; relative volume, ATR, float and halt status stay unknown.  The
   mutant swaps the sides of the quote. *)
AskBelowBid(raw) == IF None \in {raw.bid, raw.ask} THEN None ELSE raw.bid - raw.ask
Spread(raw)      == IF None \in {raw.bid, raw.ask} THEN None ELSE raw.ask - raw.bid

ParseSnapshotTicker(raw) ==
  LET last   == Or(raw.trade, Or(raw.close, 0))
      volume == Or(raw.volume, 0)
  IN [exchange |-> raw.exchange, last |-> last,
      volume |-> volume, dollarVolume |-> volume * last,
      spread |-> Spread(raw), vwap |-> raw.vwap,
      range |-> IF None \in {raw.high, raw.low} THEN None ELSE raw.high - raw.low,
      gap |-> IF Truthy(raw.prevClose) /\ Truthy(raw.open)
              THEN <<raw.open - raw.prevClose, raw.prevClose>> ELSE None,
      relativeVolume |-> None, atr |-> None, float |-> None, halt |-> None,
      otc |-> FALSE, bankrupt |-> FALSE, leveraged |-> FALSE]

(* get_bars: the newest `limit` of the bars the vendor answers with. *)
GetBars(answer, limit) ==
  SubSeq(answer, AtLeast(1, Len(answer) - limit + 1), Len(answer))

SentimentToImpact ==
  [positive |-> "Supportive", negative |-> "Conflicting", neutral |-> "Neutral"]

(* parse_news_article: the first insight about the symbol that has a
   sentiment decides. *)
ParseNewsArticle(raw, symbol) ==
  LET about == {i \in DOMAIN raw.insights :
                  raw.insights[i].ticker = symbol /\ raw.insights[i].sentiment # None}
  IN [impact |-> IF about = {} THEN "Neutral"
                 ELSE Lookup(SentimentToImpact,
                             raw.insights[Min(about)].sentiment, "Neutral"),
      confidence |-> IF about = {} THEN 6 ELSE 15,
      relevance |-> IF symbol \in raw.tickers THEN 20 ELSE 10,
      reliability |-> None]

(* get_stats_for_condition: closed trades (those with an r_multiple) of the
   condition.  An outcome without is_win is not a win.  The mutant divides the
   losses by the gains. *)
LossFactor(gain, loss)   == IF gain = 0 THEN None ELSE <<loss, gain>>
ProfitFactor(gain, loss) == IF loss = 0 THEN None ELSE <<gain, loss>>

Tracked(trades, condition) ==
  {i \in DOMAIN trades : trades[i].condition = condition /\ trades[i].r # None}

StatsForCondition(trades, condition) ==
  LET closed == Tracked(trades, condition)
      wins   == {i \in closed : trades[i].win = TRUE}
      Gross(sign) == SumFunction([i \in closed |-> AtLeast(0, sign * Or(trades[i].r, 0))])
      n      == Cardinality(closed)
  IN [occurrences |-> n,
      winRate |-> IF n = 0 THEN None ELSE <<Cardinality(wins), n>>,
      profitFactor |-> ProfitFactor(Gross(1), Gross(-1))]
=============================================================================
