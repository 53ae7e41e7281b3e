------------------------------ MODULE Ranking -------------------------------
(***************************************************************************)
(* One ranking pass: build_ranking (app/engines/ranking.py) with the       *)
(* universe filter, the multi-timeframe fetch and the language safeguard it*)
(* calls.                                                                  *)
(*                                                                         *)
(* A step is what the pass does up to its next await.  Symbols are numbered*)
(* in the order of the universe; a score is a number that only orders.  Of *)
(* the texts an await brings, what counts is which have one of the words   *)
(* the safeguard forbids, and into which fields of the output they flow.   *)
(***************************************************************************)
EXTENDS Naturals, Sequences, FiniteSets

CONSTANTS
  UniverseSize,    \* symbols of the market snapshot
  Timeframes,      \* _MTF_TIMEFRAMES: bar series fetched per symbol
  ShownHeadlines,  \* headlines copied to recent_news (5 in the code)
  MaxNews,         \* bound on the news items of a symbol
  Scores           \* opportunity scores considered

ASSUME RankingAssumption ==
  /\ {UniverseSize, Timeframes, ShownHeadlines, MaxNews} \subseteq Nat
  /\ Timeframes > 0
  /\ Scores \subseteq Nat

VARIABLES
  step,      \* the await the pass is in, or how it ended
  failedAt,  \* the await or check that raised, "" when none did
  qualified, \* the symbols filter_universe accepted
  todo,      \* those the loop has not finished
  skipped,   \* those without a behavioral read
  frame,     \* timeframes of the symbol asked for
  news,      \* its headlines: TRUE has a forbidden word
  score,     \* its opportunity score
  texts,     \* its other sources of text that have a forbidden word
  ranked,    \* finished candidates, in the order of the loop
  result     \* what build_ranking returned

local == <<frame, news, score, texts>>
vars == <<step, failedAt, qualified, todo, skipped, local, ranked, result>>

Symbols   == 1..UniverseSize
Awaits    == {"universe", "behavior", "news", "history", "bars", "earnings",
              "insider", "analysts"}
Checks    == {"scores", "language"}
Ends      == {"done", "failed", "cancelled"}
Headlines == UNION {[1..n -> BOOLEAN] : n \in 0..MaxNews}

(* Free texts of the webhook: the confirmed state, the acceptance status, and
   the BO and MC status; confirmed_direction is one of three words. *)
ReadTexts == {"state", "acceptance", "lifecycle"}
(* The publisher of a news item, the role of an insider, the firm and action
   of an analyst revision. *)
Sources   == ReadTexts \union {"publisher", "insider", "firm"}
(* Headlines up to the fifth, and after it. *)
Texts     == Sources \union {"shown", "late"}

Init ==
  /\ step = "universe" /\ failedAt = ""
  /\ qualified = {} /\ todo = {} /\ skipped = {}
  /\ frame = 0 /\ news = <<>> /\ score = 0 /\ texts = {}
  /\ ranked = <<>> /\ result = <<>>
-----------------------------------------------------------------------------
(* The candidate the loop is at; the mutant pops the last one. *)
PopLast == CHOOSE s \in todo : \A t \in todo : s >= t
Current == CHOOSE s \in todo : \A t \in todo : s <= t

(* ranked.sort(key=score, reverse=True): higher scores first.  Python's sort
   is stable, with reverse=True too; the mutant sorts and then reverses. *)
BeatsReversed(rs, i, j) == rs[i].score > rs[j].score
                           \/ (rs[i].score = rs[j].score /\ i > j)
Beats(rs, i, j)         == rs[i].score > rs[j].score
                           \/ (rs[i].score = rs[j].score /\ i < j)

RankOf(rs, j) == 1 + Cardinality({i \in DOMAIN rs : Beats(rs, i, j)})
Sorted(rs) ==
  [k \in DOMAIN rs |-> rs[CHOOSE j \in DOMAIN rs : RankOf(rs, j) = k]]

(* The loop goes on, or the pass sorts, ranks and returns. *)
Continue ==
  IF todo' = {}
  THEN step' = "done" /\ result' = Sorted(ranked')
  ELSE step' = "behavior" /\ UNCHANGED result

(* Locals are overwritten before they are read again. *)
Forget == frame' = 0 /\ news' = <<>> /\ score' = 0 /\ texts' = {}

(* Mutant: the loop leaves at the first symbol without a read. *)
LeaveLoop == todo' = {}
NextSymbol == todo' = todo \ {Current}

Raise(what) ==
  /\ step' = "failed" /\ failedAt' = what
  /\ UNCHANGED <<qualified, todo, skipped, local, ranked, result>>

(* The filter may accept any part of the universe; it keeps its order. *)
FilterUniverse == SUBSET Symbols

FetchUniverse ==
  /\ step = "universe"
  /\ qualified' \in FilterUniverse
  /\ todo' = qualified'
  /\ UNCHANGED <<failedAt, skipped, local, ranked>>
  /\ Continue

(* No confirmed behavioral read: the symbol is skipped. *)
SkipSymbol ==
  /\ step = "behavior"
  /\ skipped' = skipped \union {Current}
  /\ NextSymbol
  /\ UNCHANGED ranked
  /\ Continue
  /\ UNCHANGED <<failedAt, qualified, local>>

ReadBehavior ==
  /\ step = "behavior"
  /\ texts' \in SUBSET ReadTexts
  /\ step' = "news"
  /\ UNCHANGED <<failedAt, qualified, todo, skipped, frame, news, score,
                 ranked, result>>

FetchNews ==
  /\ step = "news"
  /\ news' \in Headlines
  /\ \/ texts' = texts
     \/ news' # <<>> /\ texts' = texts \union {"publisher"}
  /\ step' = "history"
  /\ UNCHANGED <<failedAt, qualified, todo, skipped, frame, score, ranked,
                 result>>

(* The statistics are numbers: they bear on the score, and bring no text. *)
FetchHistory ==
  /\ step = "history"
  /\ frame' = 1
  /\ step' = "bars"
  /\ UNCHANGED <<failedAt, qualified, todo, skipped, news, score, texts,
                 ranked, result>>

(* All timeframes asked for: the engines score the symbol.  A score outside
   its range cannot be constructed (ValueError). *)
ScoreSymbol ==
  \/ Raise("scores")
  \/ /\ score' \in Scores
     /\ step' = "earnings"
     /\ UNCHANGED <<failedAt, qualified, todo, skipped, frame, news, texts,
                    ranked, result>>

(* A timeframe answers, or raises and is left out (`except Exception:
   continue`): the pass goes on to the next either way. *)
FetchBars ==
  /\ step = "bars"
  /\ IF frame < Timeframes
     THEN /\ frame' = frame + 1
          /\ UNCHANGED <<step, failedAt, qualified, todo, skipped, news, score,
                         texts, ranked, result>>
     ELSE ScoreSymbol

FetchEarnings ==
  /\ step = "earnings"
  /\ step' = "insider"
  /\ UNCHANGED <<failedAt, qualified, todo, skipped, local, ranked, result>>

(* A transaction's type is reworded, the insider's role is not. *)
FetchInsider ==
  /\ step = "insider"
  /\ texts' \in {texts, texts \union {"insider"}}
  /\ step' = "analysts"
  /\ UNCHANGED <<failedAt, qualified, todo, skipped, frame, news, score,
                 ranked, result>>
----
(* The fields of the output that take a text from outside, and the texts each
   takes: the factors of the scores name headlines and their publisher. *)
Holds ==
  [behavior_state      |-> {"state"},
   acceptance          |-> {"acceptance"},
   recent_news         |-> {"shown"},
   primary_risks       |-> {"firm"},
   supporting_evidence |-> ReadTexts \union {"insider", "firm"},
   factors             |-> ReadTexts \union {"shown", "late", "publisher"}]

(* Those validate_ranked_symbol scans; the mutant leaves one out. *)
ScannedWithoutEvidence ==
  {"behavior_state", "acceptance", "recent_news", "primary_risks"}
ScannedFields ==
  {"behavior_state", "acceptance", "recent_news", "primary_risks",
   "supporting_evidence"}

PassesScan(forbidden) == \A f \in ScannedFields : Holds[f] \intersect forbidden = {}

Published == UNION {Holds[f] : f \in DOMAIN Holds}

(* recent_news is news[:5]. *)
ForbiddenHeadlines ==
  {IF i <= ShownHeadlines THEN "shown" ELSE "late" : i \in {k \in DOMAIN news : news[k]}}

Candidate(forbidden) ==
  [symbol |-> Current, score |-> score, forbidden |-> forbidden \intersect Published]

FinishSymbol(forbidden) ==
  /\ ranked' = Append(ranked, Candidate(forbidden))
  /\ todo' = todo \ {Current}
  /\ Forget
  /\ Continue
  /\ UNCHANGED <<failedAt, qualified, skipped>>

(* The last await of a symbol; its texts are scanned and it joins the list. *)
FetchAnalysts ==
  /\ step = "analysts"
  /\ \E firm \in SUBSET {"firm"} :
       LET forbidden == texts \union firm \union ForbiddenHeadlines
       IN IF PassesScan(forbidden) THEN FinishSymbol(forbidden)
          ELSE Raise("language")
-----------------------------------------------------------------------------
(* Every other await of a provider raises through build_ranking. *)
ProviderFails == step \in Awaits \ {"bars"} /\ Raise(step)

(* The scheduler task is cancelled; `except Exception` does not catch it. *)
Cancel ==
  /\ step \in Awaits
  /\ step' = "cancelled"
  /\ UNCHANGED <<failedAt, qualified, todo, skipped, local, ranked, result>>

Next == \/ FetchUniverse \/ SkipSymbol \/ ReadBehavior \/ FetchNews
        \/ FetchHistory \/ FetchBars \/ FetchEarnings \/ FetchInsider
        \/ FetchAnalysts \/ ProviderFails \/ Cancel

Spec == Init /\ [][Next]_vars
-----------------------------------------------------------------------------
Rows == [symbol : Symbols, score : Scores, forbidden : SUBSET Texts]

(* Every variable keeps its type. *)
TypeOK ==
  /\ step \in Awaits \union Ends
  /\ failedAt \in Awaits \union Checks \union {""}
  /\ qualified \subseteq Symbols
  /\ todo \subseteq qualified
  /\ skipped \subseteq qualified
  /\ frame \in 0..Timeframes
  /\ news \in Headlines
  /\ score \in Scores \union {0}
  /\ texts \subseteq Sources
  /\ ranked \in Seq(Rows)
  /\ result \in Seq(Rows)

(* The result is the loop's candidates, each once, ranked by falling score;
   equal scores stay in the order of the universe, so two runs over the same
   evidence agree (ranking.py:190-192). *)
RankingIsOrdered ==
  step = "done" =>
    /\ Len(result) = Len(ranked)
    /\ \A i, j \in DOMAIN result :
         i < j => \/ result[i].score > result[j].score
                  \/ /\ result[i].score = result[j].score
                     /\ result[i].symbol < result[j].symbol

(* Whatever is missing about a symbol, it does not cost another one its rank:
   a pass that returns ranks exactly the qualified symbols that have a
   behavioral read (ranking.py:63-66). *)
EveryCandidateRanked ==
  step = "done" =>
    {result[i].symbol : i \in DOMAIN result} = qualified \ skipped

(* Whichever await brought a text, and into however many fields it was copied,
   a forbidden word in it ends the pass; the only texts that escape are those
   that no field but a factor of the News Score holds, headlines after the
   fifth and publishers (safeguards.py:58-70, news_score.py:31-37). *)
OnlyNewsFactorsEscape ==
  \A i \in DOMAIN result : result[i].forbidden \subseteq {"late", "publisher"}

(* The parts of the inductive invariant behind these properties. *)
LocalsAreKnown ==
  /\ step \in Awaits \ {"universe"} => todo # {}
  /\ step \in {"earnings", "insider", "analysts"} => score \in Scores

RankedSymbols == {ranked[i].symbol : i \in DOMAIN ranked}

(* Every qualified symbol is ranked, skipped or still to do. *)
Accounted ==
  /\ qualified = RankedSymbols \union skipped \union todo
  /\ RankedSymbols \intersect skipped = {}
  /\ step = "universe" => qualified = {}

(* The loop goes through the universe in order. *)
LoopInOrder ==
  /\ \A i, j \in DOMAIN ranked : i < j => ranked[i].symbol < ranked[j].symbol
  /\ \A i \in DOMAIN ranked : \A t \in todo : ranked[i].symbol < t
  /\ \A s \in skipped : \A t \in todo : s < t

RankedAreScanned ==
  \A i \in DOMAIN ranked : ranked[i].forbidden \subseteq {"late", "publisher"}

ResultIsSorted ==
  IF step = "done" THEN todo = {} /\ result = Sorted(ranked) ELSE result = <<>>

(* The inductive invariant: what became of each qualified symbol, in which
   order, and what a candidate was checked for (ranking.py:63-194). *)
IInv == /\ TypeOK
        /\ LocalsAreKnown
        /\ Accounted
        /\ LoopInOrder
        /\ RankedAreScanned
        /\ ResultIsSorted

(* README.md:120: "scans every output-facing string before build_ranking()
   returns it": no text of a returned symbol has a forbidden word. *)
EveryTextIsScanned ==
  \A i \in DOMAIN result : result[i].forbidden = {}
=============================================================================
