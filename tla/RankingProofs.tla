--------------------------- MODULE RankingProofs ----------------------------
(***************************************************************************)
(* Proofs about Ranking for any universe, timeframes, headlines and scores.*)
(* First the sort: ranks are a permutation of the candidates.  Then what   *)
(* the scan lets through, and one lemma per conjunct of IInv.              *)
(***************************************************************************)
EXTENDS Ranking, FiniteSetTheorems, WellFoundedInduction, TLAPS

(* Every nonempty set of natural numbers has a least one. *)
LEMMA LeastExists ==
  ASSUME NEW T, T \subseteq Nat, T # {}
  PROVE  \E x \in T : \A y \in T : x <= y
<1>1. PICK x \in T : \A y \in T : ~ (<<y, x>> \in OpToRel(<, Nat))
  BY NatLessThanWellFounded, WFMin
<1>2. \A y \in T : <<y, x>> \in Nat \X Nat /\ ~(y < x)
  BY <1>1 DEF OpToRel
<1>3. ASSUME NEW y \in T PROVE x <= y
  <2>1. x \in Nat /\ y \in Nat /\ ~(y < x)
    BY <1>2
  <2> QED BY <2>1
<1> QED BY <1>3

(* There are n positions in a list of n. *)
LEMMA PositionsAreFinite ==
  ASSUME NEW n \in Nat
  PROVE  IsFiniteSet(1..n) /\ Cardinality(1..n) = n
<1>1. IsFiniteSet(1..n) /\ Cardinality(1..n) = IF 1 > n THEN 0 ELSE n - 1 + 1
  BY FS_Interval
<1>2. (IF 1 > n THEN 0 ELSE n - 1 + 1) = n
  OBVIOUS
<1> QED BY <1>1, <1>2

(* Beats is a strict total order of the candidates: sort by falling score,
   equal scores in the order of the loop. *)
LEMMA BeatsIsStrictOrder ==
  ASSUME NEW rs \in Seq(Rows), NEW i \in DOMAIN rs, NEW j \in DOMAIN rs
  PROVE  /\ ~Beats(rs, i, i)
         /\ i # j => Beats(rs, i, j) \/ Beats(rs, j, i)
         /\ \A k \in DOMAIN rs :
              Beats(rs, i, j) /\ Beats(rs, j, k) => Beats(rs, i, k)
<1>1. Scores \subseteq Nat
  BY RankingAssumption
<1>2. \A k \in DOMAIN rs : k \in Nat /\ rs[k] \in Rows
  OBVIOUS
<1>3. \A k \in DOMAIN rs : k \in Nat /\ rs[k].score \in Nat
  BY <1>1, <1>2 DEF Rows
<1> QED BY <1>3 DEF Beats

(* A rank is a position. *)
LEMMA RankIsPosition ==
  ASSUME NEW rs \in Seq(Rows), NEW j \in DOMAIN rs
  PROVE  RankOf(rs, j) \in 1..Len(rs)
<1> DEFINE Better == {x \in DOMAIN rs : Beats(rs, x, j)}
<1>1. DOMAIN rs = 1..Len(rs) /\ Len(rs) \in Nat
  OBVIOUS
<1>2. IsFiniteSet(DOMAIN rs) /\ Cardinality(DOMAIN rs) = Len(rs)
  BY <1>1, PositionsAreFinite
<1>3. Better \in SUBSET DOMAIN rs /\ j \notin Better
  BY BeatsIsStrictOrder
<1>4. /\ IsFiniteSet(Better)
      /\ Cardinality(Better) <= Len(rs)
      /\ Cardinality(Better) # Len(rs)
  BY <1>2, <1>3, FS_Subset
<1>5. Cardinality(Better) \in Nat
  BY <1>4, FS_CardinalityType
<1> QED BY <1>1, <1>4, <1>5 DEF RankOf

(* Who beats another has the smaller rank. *)
LEMMA RankGrows ==
  ASSUME NEW rs \in Seq(Rows), NEW i \in DOMAIN rs, NEW j \in DOMAIN rs,
         Beats(rs, i, j)
  PROVE  RankOf(rs, i) < RankOf(rs, j)
<1> DEFINE Better(k) == {x \in DOMAIN rs : Beats(rs, x, k)}
<1>1. IsFiniteSet(DOMAIN rs)
  <2>1. DOMAIN rs = 1..Len(rs) /\ Len(rs) \in Nat
    OBVIOUS
  <2> QED BY <2>1, PositionsAreFinite
<1>2. /\ IsFiniteSet(Better(i)) /\ Cardinality(Better(i)) \in Nat
      /\ IsFiniteSet(Better(j)) /\ Cardinality(Better(j)) \in Nat
  <2>1. Better(i) \in SUBSET DOMAIN rs /\ Better(j) \in SUBSET DOMAIN rs
    OBVIOUS
  <2>2. IsFiniteSet(Better(i)) /\ IsFiniteSet(Better(j))
    BY <1>1, <2>1, FS_Subset
  <2> QED BY <2>2, FS_CardinalityType
<1>3. Better(i) \in SUBSET Better(j) /\ Better(i) # Better(j)
  BY BeatsIsStrictOrder
<1>4. Cardinality(Better(i)) < Cardinality(Better(j))
  BY <1>2, <1>3, FS_Subset
<1> QED BY <1>2, <1>4 DEF RankOf

(* Every position is the rank of one candidate: n ranks within 1..n, all
   different, leave no position out. *)
LEMMA EveryRankTaken ==
  ASSUME NEW rs \in Seq(Rows), NEW k \in 1..Len(rs)
  PROVE  \E j \in DOMAIN rs : RankOf(rs, j) = k
<1> SUFFICES ASSUME \A j \in DOMAIN rs : RankOf(rs, j) # k
             PROVE  FALSE
  OBVIOUS
<1> DEFINE D == 1..Len(rs)
           f == [j \in D |-> RankOf(rs, j)]
<1>1. DOMAIN rs = D /\ Len(rs) \in Nat
  OBVIOUS
<1>2. f \in [D -> D \ {k}]
  BY <1>1, RankIsPosition
<1>3. IsFiniteSet(D) /\ Cardinality(D) = Len(rs)
  BY <1>1, PositionsAreFinite
<1>4. IsFiniteSet(D \ {k}) /\ Cardinality(D \ {k}) < Cardinality(D)
  <2>1. /\ IsFiniteSet(D \ {k})
        /\ Cardinality(D \ {k}) = Cardinality(D) - 1
    BY <1>3, FS_RemoveElement
  <2> QED BY <1>1, <1>3, <2>1
<1> HIDE DEF f, D
<1>5. PICK x, y \in D : x # y /\ f[x] = f[y]
  BY <1>2, <1>3, <1>4, FS_PigeonHole
<1>6. RankOf(rs, x) = RankOf(rs, y)
  BY <1>5 DEF f
<1>7. Beats(rs, x, y) \/ Beats(rs, y, x)
  BY <1>1, <1>5, BeatsIsStrictOrder
<1>8. RankOf(rs, x) \in Nat /\ RankOf(rs, y) \in Nat
  BY <1>1, <1>5, RankIsPosition DEF D
<1> QED BY <1>1, <1>5, <1>6, <1>7, <1>8, RankGrows

(* The candidate at a position of the sorted list. *)
PlaceOf(rs, k) == CHOOSE j \in DOMAIN rs : RankOf(rs, j) = k

LEMMA SortedByPlace ==
  ASSUME NEW rs \in Seq(Rows)
  PROVE  /\ Sorted(rs) \in Seq(Rows)
         /\ Len(Sorted(rs)) = Len(rs)
         /\ \A k \in 1..Len(rs) : /\ PlaceOf(rs, k) \in DOMAIN rs
                                  /\ RankOf(rs, PlaceOf(rs, k)) = k
                                  /\ Sorted(rs)[k] = rs[PlaceOf(rs, k)]
<1>1. DOMAIN rs = 1..Len(rs) /\ Len(rs) \in Nat
  OBVIOUS
<1>2. \A k \in 1..Len(rs) : /\ PlaceOf(rs, k) \in DOMAIN rs
                            /\ RankOf(rs, PlaceOf(rs, k)) = k
  BY EveryRankTaken DEF PlaceOf
<1>3. Sorted(rs) = [k \in 1..Len(rs) |-> rs[PlaceOf(rs, k)]]
  BY <1>1 DEF Sorted, PlaceOf
<1>4. \A k \in 1..Len(rs) : rs[PlaceOf(rs, k)] \in Rows
  BY <1>2
<1> HIDE DEF PlaceOf
<1>5. Sorted(rs) \in Seq(Rows) /\ Len(Sorted(rs)) = Len(rs)
  BY <1>1, <1>3, <1>4
<1> QED BY <1>1, <1>2, <1>3, <1>5
-----------------------------------------------------------------------------
(* The loop takes the least symbol still to do. *)
LEMMA CurrentIsLeast ==
  ASSUME todo \subseteq Symbols, todo # {}
  PROVE  Current \in todo /\ \A t \in todo : Current <= t
<1>1. todo \subseteq Nat
  BY DEF Symbols
<1>2. \E x \in todo : \A t \in todo : x <= t
  BY <1>1, LeastExists
<1> QED BY <1>2 DEF Current

(* Every text of the output is in a scanned field or only in a news factor. *)
LEMMA ScanCovers ==
  ASSUME NEW forbidden \in SUBSET Texts, PassesScan(forbidden)
  PROVE  forbidden \intersect Published \subseteq {"late", "publisher"}
<1>1. /\ "state" \notin forbidden /\ "acceptance" \notin forbidden
      /\ "shown" \notin forbidden /\ "firm" \notin forbidden
  BY DEF PassesScan, ScannedFields, Holds
<1>2. "lifecycle" \notin forbidden /\ "insider" \notin forbidden
  BY DEF PassesScan, ScannedFields, Holds, ReadTexts
<1> QED BY <1>1, <1>2 DEF Texts, Sources, ReadTexts

(* The texts the last await scans. *)
LEMMA ScannedAreTexts ==
  ASSUME TypeOK, NEW firm \in SUBSET {"firm"}
  PROVE  texts \union firm \union ForbiddenHeadlines \in SUBSET Texts
BY DEF TypeOK, Texts, Sources, ForbiddenHeadlines

(* What a candidate is when it joins the list: typed and scanned. *)
LEMMA CandidateIsGood ==
  ASSUME TypeOK, LocalsAreKnown, step = "analysts",
         NEW forbidden \in SUBSET Texts, PassesScan(forbidden)
  PROVE  /\ Candidate(forbidden) \in Rows
         /\ Candidate(forbidden).symbol = Current
         /\ Candidate(forbidden).forbidden \subseteq {"late", "publisher"}
<1>1. todo # {} /\ score \in Scores
  BY DEF LocalsAreKnown, Awaits
<1>2. Current \in Symbols
  BY <1>1, CurrentIsLeast DEF TypeOK
<1>3. forbidden \intersect Published \in SUBSET Texts
  OBVIOUS
<1>4. Candidate(forbidden) \in Rows
  BY <1>1, <1>2, <1>3 DEF Candidate, Rows
<1> QED BY <1>4, ScanCovers DEF Candidate

(* A step that neither takes a symbol nor returns the list. *)
Quiet ==
  /\ UNCHANGED <<qualified, todo, skipped, ranked, result>>
  /\ step' = "done" <=> step = "done"
  /\ step' = "universe" => step = "universe"
  /\ step' \in Awaits \ {"universe"} => step \in Awaits \ {"universe"}

Finish ==
  /\ step = "analysts"
  /\ \E forbidden \in SUBSET Texts :
       PassesScan(forbidden) /\ FinishSymbol(forbidden)

(* Only three actions are not quiet. *)
LEMMA LoopOrQuiet ==
  ASSUME TypeOK, [Next]_vars
  PROVE  FetchUniverse \/ SkipSymbol \/ Finish \/ Quiet
<1>1. ASSUME NEW w, Raise(w), step # "done" PROVE Quiet
  BY <1>1 DEF Raise, Quiet, Awaits
<1>2. ASSUME ReadBehavior \/ FetchNews \/ FetchHistory PROVE Quiet
  BY <1>2 DEF ReadBehavior, FetchNews, FetchHistory, Quiet, Awaits
<1>3. ASSUME ScoreSymbol, step = "bars" PROVE Quiet
  BY <1>1, <1>3 DEF ScoreSymbol, Quiet, Awaits
<1>4. ASSUME FetchBars PROVE Quiet
  BY <1>3, <1>4 DEF FetchBars, Quiet, Awaits
<1>5. ASSUME FetchEarnings \/ FetchInsider PROVE Quiet
  BY <1>5 DEF FetchEarnings, FetchInsider, Quiet, Awaits
<1>6. ASSUME FetchAnalysts PROVE Finish \/ Quiet
  <2>1. PICK firm \in SUBSET {"firm"} :
          LET forbidden == texts \union firm \union ForbiddenHeadlines
          IN IF PassesScan(forbidden) THEN FinishSymbol(forbidden)
             ELSE Raise("language")
    BY <1>6 DEF FetchAnalysts
  <2> DEFINE forbidden == texts \union firm \union ForbiddenHeadlines
  <2>2. forbidden \in SUBSET Texts /\ step = "analysts"
    BY <1>6, ScannedAreTexts DEF FetchAnalysts
  <2>3. IF PassesScan(forbidden) THEN FinishSymbol(forbidden)
        ELSE Raise("language")
    BY <2>1
  <2> HIDE DEF forbidden
  <2> QED BY <1>1, <2>2, <2>3 DEF Finish
<1>7. ASSUME ProviderFails PROVE Quiet
  BY <1>1, <1>7 DEF ProviderFails, Awaits
<1>8. ASSUME Cancel PROVE Quiet
  BY <1>8 DEF Cancel, Quiet, Awaits
<1>9. CASE UNCHANGED vars
  BY <1>9 DEF vars, Quiet
<1> QED BY <1>2, <1>4, <1>5, <1>6, <1>7, <1>8, <1>9 DEF Next
-----------------------------------------------------------------------------
LEMMA ContinueKeepsTypes ==
  ASSUME ranked' \in Seq(Rows), result \in Seq(Rows), Continue
  PROVE  step' \in Awaits \union Ends /\ result' \in Seq(Rows)
<1>1. Sorted(ranked') \in Seq(Rows)
  BY SortedByPlace
<1> QED BY <1>1 DEF Continue, Awaits, Ends

(* Locals after Forget. *)
LEMMA ForgetKeepsTypes ==
  ASSUME Forget
  PROVE  /\ frame' \in 0..Timeframes
         /\ news' \in Headlines
         /\ score' \in Scores \union {0}
         /\ texts' \subseteq Sources
<1>1. Timeframes \in Nat /\ MaxNews \in Nat
  BY RankingAssumption
<1>2. <<>> \in Headlines
  <2>1. 0 \in 0..MaxNews /\ 1..0 = {}
    BY <1>1
  <2>2. <<>> \in [1..0 -> BOOLEAN]
    BY <2>1
  <2> QED BY <2>1, <2>2 DEF Headlines
<1>3. 0 \in 0..Timeframes
  BY <1>1
<1> QED BY <1>2, <1>3 DEF Forget

(* Every step keeps the variables within their types. *)
LEMMA TypeStep ==
  ASSUME TypeOK, LocalsAreKnown, Accounted, [Next]_vars
  PROVE  TypeOK'
<1>0. Timeframes \in Nat /\ 1 \in 0..Timeframes
  BY RankingAssumption
<1>1. ASSUME FetchUniverse PROVE TypeOK'
  <2>1. step' \in Awaits \union Ends /\ result' \in Seq(Rows)
    BY <1>1, ContinueKeepsTypes DEF FetchUniverse, TypeOK
  <2>2. skipped = {}
    BY <1>1 DEF FetchUniverse, Accounted
  <2> QED BY <1>1, <2>1, <2>2
          DEF FetchUniverse, FilterUniverse, TypeOK, local
<1>2. ASSUME SkipSymbol PROVE TypeOK'
  <2>1. step' \in Awaits \union Ends /\ result' \in Seq(Rows)
    BY <1>2, ContinueKeepsTypes DEF SkipSymbol, TypeOK
  <2>2. Current \in todo
    BY <1>2, CurrentIsLeast DEF SkipSymbol, LocalsAreKnown, Awaits, TypeOK
  <2> QED BY <1>2, <2>1, <2>2 DEF SkipSymbol, NextSymbol, TypeOK, local
<1>3. ASSUME Finish PROVE TypeOK'
  <2>1. PICK forbidden \in SUBSET Texts :
          PassesScan(forbidden) /\ FinishSymbol(forbidden)
    BY <1>3 DEF Finish
  <2>2. Candidate(forbidden) \in Rows
    BY <1>3, <2>1, CandidateIsGood DEF Finish
  <2>3. ranked' \in Seq(Rows)
    <3>1. ranked \in Seq(Rows) /\ ranked' = Append(ranked, Candidate(forbidden))
      BY <2>1 DEF FinishSymbol, TypeOK
    <3> QED BY <2>2, <3>1
  <2>4. step' \in Awaits \union Ends /\ result' \in Seq(Rows)
    BY <2>1, <2>3, ContinueKeepsTypes DEF FinishSymbol, TypeOK
  <2> QED BY <2>1, <2>3, <2>4, ForgetKeepsTypes DEF FinishSymbol, TypeOK
<1>4. ASSUME NEW w \in Awaits \union Checks, Raise(w) PROVE TypeOK'
  BY <1>4 DEF Raise, TypeOK, local, Ends
<1>5. ASSUME ReadBehavior \/ FetchNews \/ FetchHistory PROVE TypeOK'
  BY <1>0, <1>5
     DEF ReadBehavior, FetchNews, FetchHistory, TypeOK, Awaits, Sources
<1>6. ASSUME ScoreSymbol PROVE TypeOK'
  BY <1>4, <1>6 DEF ScoreSymbol, TypeOK, Awaits, Checks
<1>7. ASSUME FetchBars PROVE TypeOK'
  <2>1. CASE frame < Timeframes
    <3>1. frame \in 0..Timeframes
      BY DEF TypeOK
    <3>2. frame + 1 \in 0..Timeframes
      BY <1>0, <2>1, <3>1
    <3> QED BY <1>7, <2>1, <3>2 DEF FetchBars, TypeOK
  <2>2. CASE ~(frame < Timeframes)
    BY <1>6, <1>7, <2>2 DEF FetchBars
  <2> QED BY <2>1, <2>2
<1>8. ASSUME FetchEarnings \/ FetchInsider PROVE TypeOK'
  BY <1>8 DEF FetchEarnings, FetchInsider, TypeOK, Awaits, local, Sources
<1>9. ASSUME FetchAnalysts PROVE TypeOK'
  BY <1>3, <1>4, <1>9, ScannedAreTexts DEF FetchAnalysts, Finish, Checks
<1>10. ASSUME ProviderFails PROVE TypeOK'
  BY <1>4, <1>10 DEF ProviderFails
<1>11. ASSUME Cancel PROVE TypeOK'
  BY <1>11 DEF Cancel, TypeOK, local, Ends
<1>12. CASE UNCHANGED vars
  BY <1>12 DEF vars, local, TypeOK
<1> QED BY <1>1, <1>2, <1>5, <1>7, <1>8, <1>9, <1>10, <1>11, <1>12
        DEF Next
-----------------------------------------------------------------------------
(* Every step leaves known what the next await relies on. *)
LEMMA LocalsStep ==
  ASSUME TypeOK, LocalsAreKnown, [Next]_vars
  PROVE  LocalsAreKnown'
<1>1. step' \in Awaits \ {"universe"} => todo' # {}
  <2>1. ASSUME Continue PROVE step' \in Awaits \ {"universe"} => todo' # {}
    BY <2>1 DEF Continue, Awaits
  <2>2. CASE Quiet
    BY <2>2 DEF Quiet, LocalsAreKnown
  <2> QED BY <2>1, <2>2, LoopOrQuiet
          DEF FetchUniverse, SkipSymbol, Finish, FinishSymbol
<1> DEFINE Known ==
      step \in {"earnings", "insider", "analysts"} => score \in Scores
<1>2. Known
  BY DEF LocalsAreKnown
<1>3. ASSUME Continue PROVE Known'
  BY <1>3 DEF Continue
<1>4. ASSUME NEW w, Raise(w) PROVE Known'
  BY <1>4 DEF Raise
<1>5. ASSUME ReadBehavior \/ FetchNews \/ FetchHistory PROVE Known'
  BY <1>5 DEF ReadBehavior, FetchNews, FetchHistory
<1>6. ASSUME ScoreSymbol, step = "bars" PROVE Known'
  BY <1>2, <1>4, <1>6 DEF ScoreSymbol
<1>7. ASSUME FetchBars PROVE Known'
  BY <1>2, <1>6, <1>7 DEF FetchBars
<1>8. ASSUME FetchEarnings \/ FetchInsider PROVE Known'
  BY <1>2, <1>8 DEF FetchEarnings, FetchInsider, local
<1>9. ASSUME FetchUniverse \/ SkipSymbol PROVE Known'
  BY <1>3, <1>9 DEF FetchUniverse, SkipSymbol
<1>10. ASSUME FetchAnalysts PROVE Known'
  BY <1>3, <1>4, <1>10 DEF FetchAnalysts, FinishSymbol
<1>11. ASSUME ProviderFails \/ Cancel PROVE Known'
  BY <1>4, <1>11 DEF ProviderFails, Cancel
<1>12. ASSUME UNCHANGED vars PROVE Known'
  BY <1>2, <1>12 DEF vars, local
<1>13. Known'
  BY <1>5, <1>7, <1>8, <1>9, <1>10, <1>11, <1>12 DEF Next
<1> QED BY <1>1, <1>13 DEF LocalsAreKnown

(* A finished symbol is appended to the list and taken from the rest. *)
LEMMA FinishAppends ==
  ASSUME TypeOK, LocalsAreKnown, Finish
  PROVE  \E c \in Rows :
           /\ ranked' = Append(ranked, c)
           /\ DOMAIN ranked' = DOMAIN ranked \union {Len(ranked) + 1}
           /\ \A i \in DOMAIN ranked : ranked'[i] = ranked[i]
           /\ ranked'[Len(ranked) + 1] = c
           /\ c.symbol = Current /\ Current \in todo
           /\ \A t \in todo : Current <= t
           /\ todo' = todo \ {Current}
           /\ UNCHANGED <<qualified, skipped>>
           /\ Continue
           /\ c.forbidden \subseteq {"late", "publisher"}
<1>1. PICK forbidden \in SUBSET Texts :
        PassesScan(forbidden) /\ FinishSymbol(forbidden)
  BY DEF Finish
<1>2. step = "analysts" /\ todo # {} /\ todo \subseteq Symbols
  BY DEF Finish, LocalsAreKnown, Awaits, TypeOK
<1>3. Current \in todo /\ \A t \in todo : Current <= t
  BY <1>2, CurrentIsLeast
<1> DEFINE c == Candidate(forbidden)
<1>4. /\ c \in Rows /\ c.symbol = Current
      /\ c.forbidden \subseteq {"late", "publisher"}
  BY <1>1, <1>2, CandidateIsGood
<1>5. /\ ranked' = Append(ranked, c) /\ todo' = todo \ {Current}
      /\ UNCHANGED <<qualified, skipped>> /\ Continue
  BY <1>1 DEF FinishSymbol
<1> HIDE DEF c
<1>6. ranked \in Seq(Rows)
  BY DEF TypeOK
<1>7. /\ DOMAIN ranked' = DOMAIN ranked \union {Len(ranked) + 1}
      /\ \A i \in DOMAIN ranked : ranked'[i] = ranked[i]
      /\ ranked'[Len(ranked) + 1] = c
  BY <1>4, <1>5, <1>6
<1> QED BY <1>3, <1>4, <1>5, <1>7
-----------------------------------------------------------------------------
(* Symbols are numbers, so that the loop can go through them in order. *)
LEMMA SymbolsAreNumbers ==
  ASSUME TypeOK
  PROVE  todo \subseteq Nat /\ skipped \subseteq Nat /\ ranked \in Seq(Rows)
<1>1. /\ qualified \subseteq Symbols
      /\ todo \subseteq qualified /\ skipped \subseteq qualified
      /\ ranked \in Seq(Rows)
  BY DEF TypeOK
<1>2. Symbols \subseteq Nat
  BY DEF Symbols
<1> QED BY <1>1, <1>2

(* No step loses a qualified symbol. *)
LEMMA AccountedStep ==
  ASSUME TypeOK, LocalsAreKnown, Accounted, LoopInOrder, [Next]_vars
  PROVE  Accounted'
<1>1. CASE FetchUniverse
  <2>1. ranked' = ranked /\ skipped' = {} /\ ranked \in Seq(Rows)
        /\ todo' = qualified' /\ RankedSymbols = {}
    BY <1>1 DEF FetchUniverse, Accounted, TypeOK
  <2>2. RankedSymbols' = RankedSymbols
    BY <2>1 DEF RankedSymbols
  <2>3. step' # "universe"
    BY <1>1 DEF FetchUniverse, Continue
  <2> QED BY <2>1, <2>2, <2>3 DEF Accounted
<1>2. CASE SkipSymbol
  <2>1. /\ RankedSymbols' = RankedSymbols /\ step' # "universe"
        /\ qualified' = qualified
        /\ skipped' = skipped \union {Current} /\ todo' = todo \ {Current}
    BY <1>2 DEF SkipSymbol, NextSymbol, Continue, RankedSymbols
  <2>2. Current \in todo
    BY <1>2, CurrentIsLeast DEF SkipSymbol, LocalsAreKnown, Awaits, TypeOK
  <2>3. Current \notin RankedSymbols
    <3>1. \A i \in DOMAIN ranked : ranked[i].symbol < Current
      BY <2>2 DEF LoopInOrder
    <3>2. Current \in Nat
      BY <2>2, SymbolsAreNumbers
    <3>3. \A i \in DOMAIN ranked : ranked[i].symbol # Current
      BY <3>1, <3>2
    <3> QED BY <3>3 DEF RankedSymbols
  <2> QED BY <2>1, <2>2, <2>3 DEF Accounted
<1>3. CASE Finish
  <2>1. PICK c \in Rows :
          /\ DOMAIN ranked' = DOMAIN ranked \union {Len(ranked) + 1}
          /\ \A i \in DOMAIN ranked : ranked'[i] = ranked[i]
          /\ ranked'[Len(ranked) + 1] = c
          /\ c.symbol = Current /\ Current \in todo
          /\ todo' = todo \ {Current}
          /\ UNCHANGED <<qualified, skipped>>
          /\ Continue
    BY <1>3, FinishAppends
  <2>2. RankedSymbols' = RankedSymbols \union {Current}
    BY <2>1 DEF RankedSymbols
  <2>3. step' # "universe"
    BY <2>1 DEF Continue
  <2>4. Current \notin skipped
    <3>1. ASSUME Current \in skipped PROVE FALSE
      <4>1. Current < Current
        BY <2>1, <3>1 DEF LoopInOrder
      <4>2. Current \in Nat
        BY <2>1, SymbolsAreNumbers
      <4> QED BY <4>1, <4>2
    <3> QED BY <3>1
  <2> QED BY <2>1, <2>2, <2>3, <2>4 DEF Accounted
<1>4. CASE Quiet
  BY <1>4 DEF Quiet, Accounted, RankedSymbols
<1> QED BY <1>1, <1>2, <1>3, <1>4, LoopOrQuiet

(* The loop keeps to the order of the universe. *)
LEMMA OrderStep ==
  ASSUME TypeOK, LocalsAreKnown, Accounted, LoopInOrder, [Next]_vars
  PROVE  LoopInOrder'
<1>1. /\ todo \subseteq Nat
      /\ skipped \subseteq Nat
      /\ ranked \in Seq(Rows)
  BY SymbolsAreNumbers
<1>2. \A i \in DOMAIN ranked : ranked[i].symbol \in Nat
  <2>1. \A i \in DOMAIN ranked : ranked[i] \in Rows
    BY <1>1
  <2> QED BY <2>1 DEF Rows, Symbols
<1>3. CASE FetchUniverse
  <2>1. ranked' = ranked /\ skipped' = {} /\ \A i \in DOMAIN ranked : FALSE
    BY <1>3 DEF FetchUniverse, Accounted, RankedSymbols
  <2> QED BY <2>1 DEF LoopInOrder
<1>4. CASE SkipSymbol
  <2>1. /\ ranked' = ranked
        /\ skipped' = skipped \union {Current} /\ todo' = todo \ {Current}
    BY <1>4 DEF SkipSymbol, NextSymbol
  <2>2. Current \in todo /\ \A t \in todo : Current <= t
    BY <1>4, CurrentIsLeast DEF SkipSymbol, LocalsAreKnown, Awaits, TypeOK
  <2>3. \A t \in todo' : Current < t
    BY <1>1, <2>1, <2>2
  <2> QED BY <2>1, <2>3 DEF LoopInOrder
<1>5. CASE Finish
  <2>1. PICK c \in Rows :
          /\ DOMAIN ranked' = DOMAIN ranked \union {Len(ranked) + 1}
          /\ \A i \in DOMAIN ranked : ranked'[i] = ranked[i]
          /\ ranked'[Len(ranked) + 1] = c
          /\ c.symbol = Current /\ Current \in todo
          /\ \A t \in todo : Current <= t
          /\ todo' = todo \ {Current}
          /\ skipped' = skipped
    BY <1>5, FinishAppends
  <2>2. \A t \in todo' : Current < t
    BY <1>1, <2>1
  <2>3. DOMAIN ranked = 1..Len(ranked) /\ Len(ranked) \in Nat
    BY <1>1
  <2>4. \A i, j \in DOMAIN ranked' :
          i < j => ranked'[i].symbol < ranked'[j].symbol
    <3> SUFFICES ASSUME NEW i \in DOMAIN ranked', NEW j \in DOMAIN ranked',
                        i < j
                 PROVE  ranked'[i].symbol < ranked'[j].symbol
      OBVIOUS
    <3>1. i \in DOMAIN ranked
      BY <2>1, <2>3
    <3>2. CASE j \in DOMAIN ranked
      BY <2>1, <3>1, <3>2 DEF LoopInOrder
    <3>3. CASE j = Len(ranked) + 1
      BY <2>1, <3>1, <3>3 DEF LoopInOrder
    <3> QED BY <2>1, <3>2, <3>3
  <2>5. \A i \in DOMAIN ranked' : \A t \in todo' : ranked'[i].symbol < t
    BY <2>1, <2>2 DEF LoopInOrder
  <2> QED BY <2>1, <2>4, <2>5 DEF LoopInOrder
<1>6. CASE Quiet
  BY <1>6 DEF Quiet, LoopInOrder
<1> QED BY <1>3, <1>4, <1>5, <1>6, LoopOrQuiet
-----------------------------------------------------------------------------
(* A candidate joins the list scanned, and stays so. *)
LEMMA ScannedStep ==
  ASSUME TypeOK, LocalsAreKnown, Accounted, RankedAreScanned, [Next]_vars
  PROVE  RankedAreScanned'
<1>1. CASE ranked' = ranked
  BY <1>1 DEF RankedAreScanned
<1>2. CASE Finish
  <2>1. PICK c \in Rows :
          /\ DOMAIN ranked' = DOMAIN ranked \union {Len(ranked) + 1}
          /\ \A i \in DOMAIN ranked : ranked'[i] = ranked[i]
          /\ ranked'[Len(ranked) + 1] = c
          /\ c.forbidden \subseteq {"late", "publisher"}
    BY <1>2, FinishAppends
  <2> QED BY <2>1 DEF RankedAreScanned
<1> QED BY <1>1, <1>2, LoopOrQuiet DEF FetchUniverse, SkipSymbol, Quiet

(* What is returned is the sorted list, and nothing is returned before. *)
LEMMA ResultStep ==
  ASSUME TypeOK, ResultIsSorted, [Next]_vars
  PROVE  ResultIsSorted'
<1>1. ASSUME Continue, step # "done" PROVE ResultIsSorted'
  <2>1. result = <<>>
    BY <1>1 DEF ResultIsSorted
  <2>2. CASE todo' = {}
    BY <1>1, <2>2 DEF Continue, ResultIsSorted
  <2>3. CASE todo' # {}
    <3>1. step' = "behavior" /\ result' = <<>>
      BY <1>1, <2>1, <2>3 DEF Continue
    <3> QED BY <3>1 DEF ResultIsSorted
  <2> QED BY <2>2, <2>3
<1>2. CASE Quiet
  <2>1. /\ todo' = todo /\ result' = result /\ ranked' = ranked
        /\ step' = "done" <=> step = "done"
    BY <1>2 DEF Quiet
  <2>2. CASE step = "done"
    BY <2>1, <2>2 DEF ResultIsSorted
  <2>3. CASE step # "done"
    BY <2>1, <2>3 DEF ResultIsSorted
  <2> QED BY <2>2, <2>3
<1> QED BY <1>1, <1>2, LoopOrQuiet
        DEF FetchUniverse, SkipSymbol, Finish, FinishSymbol
-----------------------------------------------------------------------------
LEMMA InitInv == Init => IInv
<1> SUFFICES ASSUME Init PROVE IInv
  OBVIOUS
<1>1. Timeframes \in Nat /\ MaxNews \in Nat
  BY RankingAssumption
<1>2. <<>> \in Headlines
  <2>1. 0 \in 0..MaxNews /\ 1..0 = {}
    BY <1>1
  <2>2. <<>> \in [1..0 -> BOOLEAN]
    BY <2>1
  <2> QED BY <2>1, <2>2 DEF Headlines
<1>3. <<>> \in Seq(Rows) /\ DOMAIN <<>> = {} /\ 0 \in 0..Timeframes
  BY <1>1
<1>4. TypeOK
  BY <1>2, <1>3 DEF Init, TypeOK, Awaits
<1> QED BY <1>3, <1>4
        DEF Init, IInv, LocalsAreKnown, Accounted, RankedSymbols, LoopInOrder,
            RankedAreScanned, ResultIsSorted, Awaits

(* The inductive invariant of a pass: every qualified symbol is accounted for
   in order, and no text of a ranked one but a news factor escaped the scan. *)
THEOREM Inductive == Spec => []IInv
<1>1. IInv /\ [Next]_vars => IInv'
  BY TypeStep, LocalsStep, AccountedStep, OrderStep, ScannedStep, ResultStep
     DEF IInv
<1> QED BY InitInv, <1>1, PTL DEF Spec

(* Every variable keeps its type (the Python objects of a pass). *)
THEOREM TypeCorrect == Spec => []TypeOK
<1>1. IInv => TypeOK
  BY DEF IInv
<1> QED BY Inductive, <1>1, PTL

(* The only forbidden words a returned symbol can have are in headlines after
   the fifth and in publishers: whatever else an await brings flows into a
   scanned field (ScanCovers), and the sort moves only candidates that passed. *)
THEOREM NothingElseEscapes == Spec => []OnlyNewsFactorsEscape
<1>1. IInv => OnlyNewsFactorsEscape
  <2> SUFFICES ASSUME IInv, NEW i \in DOMAIN result
               PROVE  result[i].forbidden \subseteq {"late", "publisher"}
    BY DEF OnlyNewsFactorsEscape
  <2>1. CASE step = "done"
    <3>1. result = Sorted(ranked) /\ ranked \in Seq(Rows)
      BY <2>1 DEF IInv, ResultIsSorted, TypeOK
    <3>2. i \in 1..Len(ranked)
      BY <3>1, SortedByPlace
    <3>3. /\ result[i] = ranked[PlaceOf(ranked, i)]
          /\ PlaceOf(ranked, i) \in DOMAIN ranked
      BY <3>1, <3>2, SortedByPlace
    <3> QED BY <3>3 DEF IInv, RankedAreScanned
  <2>2. CASE step # "done"
    BY <2>2 DEF IInv, ResultIsSorted
  <2> QED BY <2>1, <2>2
<1> QED BY Inductive, <1>1, PTL

(* The result is ordered by falling score and stable: candidates of equal
   score stay in the order of the universe. *)
THEOREM Ordered == Spec => []RankingIsOrdered
<1>1. IInv => RankingIsOrdered
  <2> SUFFICES ASSUME IInv, step = "done"
               PROVE  /\ Len(result) = Len(ranked)
                      /\ \A i, j \in DOMAIN result :
                           i < j => \/ result[i].score > result[j].score
                                    \/ /\ result[i].score = result[j].score
                                       /\ result[i].symbol < result[j].symbol
    BY DEF RankingIsOrdered
  <2>1. result = Sorted(ranked) /\ ranked \in Seq(Rows)
    BY DEF IInv, ResultIsSorted, TypeOK
  <2>2. /\ result \in Seq(Rows) /\ Len(result) = Len(ranked)
        /\ \A k \in 1..Len(ranked) :
             /\ PlaceOf(ranked, k) \in DOMAIN ranked
             /\ RankOf(ranked, PlaceOf(ranked, k)) = k
             /\ result[k] = ranked[PlaceOf(ranked, k)]
    BY <2>1, SortedByPlace
  <2>3. ASSUME NEW i \in DOMAIN result, NEW j \in DOMAIN result, i < j
        PROVE  \/ result[i].score > result[j].score
               \/ /\ result[i].score = result[j].score
                  /\ result[i].symbol < result[j].symbol
    <3> DEFINE p == PlaceOf(ranked, i)
               q == PlaceOf(ranked, j)
    <3>1. i \in 1..Len(ranked) /\ j \in 1..Len(ranked)
      BY <2>2
    <3>2. /\ p \in DOMAIN ranked /\ RankOf(ranked, p) = i
          /\ q \in DOMAIN ranked /\ RankOf(ranked, q) = j
          /\ result[i] = ranked[p] /\ result[j] = ranked[q]
      BY <2>2, <3>1
    <3> HIDE DEF p, q
    <3>3. ~(j < i) /\ i # j
      BY <2>3, <3>1
    <3>4. p # q
      BY <3>2, <3>3
    <3>5. ~Beats(ranked, q, p)
      BY <2>1, <3>2, <3>3, RankGrows
    <3>6. Beats(ranked, p, q)
      BY <2>1, <3>2, <3>4, <3>5, BeatsIsStrictOrder
    <3>7. p < q => ranked[p].symbol < ranked[q].symbol
      BY <3>2 DEF IInv, LoopInOrder
    <3> QED BY <3>2, <3>6, <3>7 DEF Beats
  <2> QED BY <2>2, <2>3
<1> QED BY Inductive, <1>1, PTL

(* A pass that returns ranks exactly the qualified symbols that have a
   behavioral read: sorting neither loses nor repeats a candidate. *)
THEOREM Complete == Spec => []EveryCandidateRanked
<1>1. IInv => EveryCandidateRanked
  <2> SUFFICES ASSUME IInv, step = "done"
               PROVE  {result[i].symbol : i \in DOMAIN result}
                        = qualified \ skipped
    BY DEF EveryCandidateRanked
  <2>1. result = Sorted(ranked) /\ ranked \in Seq(Rows) /\ todo = {}
    BY DEF IInv, ResultIsSorted, TypeOK
  <2>2. /\ DOMAIN result = 1..Len(ranked) /\ DOMAIN ranked = 1..Len(ranked)
        /\ \A k \in 1..Len(ranked) :
             /\ PlaceOf(ranked, k) \in DOMAIN ranked
             /\ RankOf(ranked, PlaceOf(ranked, k)) = k
             /\ result[k] = ranked[PlaceOf(ranked, k)]
    BY <2>1, SortedByPlace
  <2>3. ASSUME NEW j \in DOMAIN ranked
        PROVE  \E k \in DOMAIN result : result[k] = ranked[j]
    <3> DEFINE k == RankOf(ranked, j)
               p == PlaceOf(ranked, k)
    <3>1. k \in 1..Len(ranked)
      BY <2>1, RankIsPosition
    <3>2. /\ p \in DOMAIN ranked /\ RankOf(ranked, p) = RankOf(ranked, j)
          /\ result[k] = ranked[p]
      BY <2>2, <3>1
    <3>3. RankOf(ranked, j) \in Nat
      BY <3>1
    <3> HIDE DEF k, p
    <3>4. ~Beats(ranked, p, j) /\ ~Beats(ranked, j, p)
      BY <2>1, <3>2, <3>3, RankGrows
    <3>5. p = j
      BY <2>1, <3>2, <3>4, BeatsIsStrictOrder
    <3> QED BY <2>2, <3>1, <3>2, <3>5
  <2>4. {result[i].symbol : i \in DOMAIN result} = RankedSymbols
    <3>1. \A i \in DOMAIN result : \E j \in DOMAIN ranked :
            result[i].symbol = ranked[j].symbol
      <4> SUFFICES ASSUME NEW i \in DOMAIN result
                   PROVE  \E j \in DOMAIN ranked :
                            result[i].symbol = ranked[j].symbol
        OBVIOUS
      <4>1. /\ PlaceOf(ranked, i) \in DOMAIN ranked
            /\ result[i] = ranked[PlaceOf(ranked, i)]
        BY <2>2
      <4> QED BY <4>1
    <3>2. \A j \in DOMAIN ranked : \E i \in DOMAIN result :
            ranked[j].symbol = result[i].symbol
      BY <2>3
    <3> QED BY <3>1, <3>2 DEF RankedSymbols
  <2> QED BY <2>1, <2>4 DEF IInv, Accounted
<1> QED BY Inductive, <1>1, PTL
=============================================================================
