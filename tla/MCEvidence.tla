----------------------------- MODULE MCEvidence -----------------------------
(* A small instance of Evidence for TLC: a fully quoted symbol as the mock
   provider knows it, and one as the vendors do. *)
EXTENDS Evidence

SnapshotValuesDef ==
  [trade |-> {None, 1000}, close |-> {None, 1005}, volume |-> {None, 4, 40},
   bid |-> {None, 990, 999, 1001}, ask |-> {None, 1000, 1030},
   vwap |-> {None, 0, 1000, 900}, high |-> {None, 1300}, low |-> {None, 990},
   open |-> {None, 1020}, prevClose |-> {None, 0, 900},
   exchange |-> {"NYSE", "OTC"}]

MockValuesDef ==
  [relativeVolume |-> {None, 90, 500}, atr |-> {None, 0, 25}, float |-> {None, 0, 200}]

ReadValuesDef ==
  [state |-> {"Expansion", "Compression", "other"}, direction |-> {"Bullish", "Neutral"},
   scenario |-> {"BES-1"}, bo |-> {"Confirmed", "NO_CYCLE", "other"},
   mc |-> {"Locked", "None"}, acceptance |-> {"Strong", "Failed", "other"},
   pressure |-> {0, 1000}, bias |-> {None, "Neutral", "Continuation"},
   bars |-> {None, 0, 30}, transitions |-> {None, 0, 9}]

BarsDef ==
  {[high |-> 1010, low |-> 990, close |-> 1000], [high |-> 1012, low |-> 1008, close |-> 1011],
   [high |-> 1030, low |-> 980, close |-> 981]}

OutcomesDef == {<<-10, FALSE>>, <<-10, None>>, <<0, FALSE>>, <<25, TRUE>>}

ArticlesDef ==
  {[insights |-> <<[ticker |-> "symbol", sentiment |-> "negative"]>>, tickers |-> {"symbol"}],
   [insights |-> <<[ticker |-> "other", sentiment |-> "positive"],
                   [ticker |-> "symbol", sentiment |-> None]>>, tickers |-> {}],
   [insights |-> <<[ticker |-> "symbol", sentiment |-> "positive"]>>, tickers |-> {"symbol"}]}

Quoted == [trade |-> 1000, close |-> 1005, volume |-> 40, bid |-> 999, ask |-> 1000,
           vwap |-> 1000, high |-> 1010, low |-> 990, open |-> 1000,
           prevClose |-> 1000, exchange |-> "NYSE"]
Read == [state |-> "Expansion", direction |-> "Bullish", scenario |-> "BES-1",
         bo |-> "Confirmed", mc |-> "Locked", acceptance |-> "Strong",
         pressure |-> 600, bias |-> "Continuation", bars |-> 10, transitions |-> 1]
Here == <<"Expansion", "Bullish", "BES-1">>
Closed(r, win) == [condition |-> Here, r |-> r, win |-> win]
Rising == [i \in 1..4 |-> [high |-> 1000 + 5 * i, low |-> 985 + 5 * i, close |-> 990 + 5 * i]]

BaselinesDef ==
  {[raw |-> Quoted, mock |-> [relativeVolume |-> 150, atr |-> 40, float |-> 10],
    behavior |-> Read, trades |-> <<Closed(-60, FALSE), Closed(-10, FALSE), Closed(20, TRUE)>>,
    series |-> [tf \in Timeframes |-> Rising], articles |-> <<>>],
   [raw |-> Quoted, mock |-> [relativeVolume |-> None, atr |-> None, float |-> None],
    behavior |-> [Read EXCEPT !.bias = None, !.bars = None, !.transitions = None],
    trades |-> <<Closed(-10, FALSE)>>,
    series |-> [tf \in Timeframes |-> <<>>], articles |-> <<>>]}
=============================================================================
