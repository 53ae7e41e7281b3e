--------------------------- MODULE EvidenceProofs ---------------------------
(***************************************************************************)
(* What the scores of a symbol are worth for every evidence, sample        *)
(* minimum, window and set of timeframes.                                  *)
(***************************************************************************)
EXTENDS Evidence, FoldLemmas

(* Rounding and clamping. *)
LEMMA Quotient ==
  ASSUME NEW n \in Int, NEW d \in Nat \ {0}
  PROVE  n \div d \in Int /\ d * (n \div d) <= n /\ n < d * ((n \div d) + 1)
OBVIOUS

(* A positive factor may be cancelled. *)
LEMMA Cancel ==
  ASSUME NEW d \in Nat \ {0}, NEW a \in Int, NEW b \in Int, d * a < d * b
  PROVE  a < b
OBVIOUS

(* Multiplying by a natural number keeps the order. *)
LEMMA TimesMonotone ==
  ASSUME NEW d \in Nat, NEW a \in Int, NEW b \in Int, a <= b
  PROVE  d * a <= d * b
OBVIOUS

(* Values.Round: a rounded quotient stays between integers the quotient is between. *)
LEMMA RoundBetween ==
  ASSUME NEW n \in Int, NEW d \in Nat \ {0}, NEW lo \in Int, NEW hi \in Int
  PROVE  /\ Round(n, d) \in Int
         /\ lo * d <= n => lo <= Round(n, d)
         /\ n <= hi * d => Round(n, d) <= hi
<1> DEFINE q == Round(n, d)
<1>1. q \in Int /\ (2 * d) * q <= 2 * n + d /\ 2 * n + d < (2 * d) * (q + 1)
  <2>1. 2 * n + d \in Int /\ 2 * d \in Nat \ {0}
    OBVIOUS
  <2> QED BY <2>1, Quotient DEF Round
<1> HIDE DEF q
<1>2. ASSUME lo * d <= n PROVE lo <= q
  <2>1. (2 * d) * lo < (2 * d) * (q + 1)
    BY <1>1, <1>2
  <2>2. lo < q + 1
    BY <2>1, <1>1, Cancel
  <2> QED BY <2>2, <1>1
<1>3. ASSUME n <= hi * d PROVE q <= hi
  <2>1. (2 * d) * q < (2 * d) * (hi + 1)
    BY <1>1, <1>3
  <2>2. q < hi + 1
    BY <2>1, <1>1, Cancel
  <2> QED BY <2>2, <1>1
<1> QED BY <1>1, <1>2, <1>3 DEF q

(* The same for 0 and 1000, the ends of every score. *)
LEMMA RoundInScale ==
  ASSUME NEW n \in Int, NEW d \in Nat \ {0}
  PROVE  /\ Round(n, d) \in Int
         /\ n >= 0 => Round(n, d) >= 0
         /\ n <= 1000 * d => Round(n, d) <= 1000
<1>1. 0 * d = 0
  OBVIOUS
<1>2. /\ Round(n, d) \in Int
      /\ 0 * d <= n => 0 <= Round(n, d)
      /\ n <= 1000 * d => Round(n, d) <= 1000
  BY RoundBetween
<1> QED BY <1>1, <1>2

(* Rounding keeps the order of the numerators. *)
LEMMA RoundMonotone ==
  ASSUME NEW n \in Int, NEW m \in Int, NEW d \in Nat \ {0}, n <= m
  PROVE  Round(n, d) <= Round(m, d)
<1> DEFINE q == Round(n, d)
           r == Round(m, d)
<1>1. /\ q \in Int /\ (2 * d) * q <= 2 * n + d
      /\ r \in Int /\ 2 * m + d < (2 * d) * (r + 1)
  <2>1. 2 * n + d \in Int /\ 2 * m + d \in Int /\ 2 * d \in Nat \ {0}
    OBVIOUS
  <2> QED BY <2>1, Quotient DEF Round
<1> HIDE DEF q, r
<1>2. (2 * d) * q < (2 * d) * (r + 1)
  <2>1. (2 * d) * q \in Int /\ (2 * d) * (r + 1) \in Int
    BY <1>1
  <2> QED BY <2>1, <1>1
<1>3. q < r + 1
  BY <1>1, <1>2, Cancel
<1> QED BY <1>1, <1>3 DEF q, r

(* table.get(key, default) answers a value of the table or the default. *)
LEMMA LookupBetween ==
  ASSUME NEW table, NEW key, NEW default \in Int, NEW lo \in Int, NEW hi \in Int,
         lo <= default, default <= hi,
         \A k \in DOMAIN table : table[k] \in lo..hi
  PROVE  Lookup(table, key, default) \in lo..hi
BY DEF Lookup
-----------------------------------------------------------------------------
(* A changed field keeps the types of a record. *)
LEMMA FieldChanges ==
  ASSUME NEW record, NEW types, HasTypes(record, types),
         NEW f \in DOMAIN record, NEW v \in types[f]
  PROVE  HasTypes([record EXCEPT ![f] = v], types)
BY DEF HasTypes

(* get_bars answers with bars. *)
LEMMA NewestBars ==
  ASSUME NEW bars \in Seq(BarType), NEW bar \in BarType
  PROVE  GetBars(Append(bars, bar), BarLimit) \in Seq(BarType)
<1> DEFINE longer == Append(bars, bar)
           first == AtLeast(1, Len(longer) - BarLimit + 1)
<1>1. longer \in Seq(BarType) /\ Len(longer) \in Nat \ {0}
  BY DEF BarType
<1>2. first \in 1..(Len(longer) + 1)
  BY <1>1, EvidenceAssumption DEF AtLeast
<1> HIDE DEF longer, first
<1>3. SubSeq(longer, first, Len(longer)) \in Seq(BarType)
  BY <1>1, <1>2
<1> QED BY <1>3 DEF GetBars, longer, first

(* A field of a recorded trade may be set. *)
LEMMA TradeChanges ==
  ASSUME NEW recorded \in Seq(TradeType), NEW i \in DOMAIN recorded
  PROVE  /\ \A v \in Optional(Int) : /\ [recorded EXCEPT ![i].r = v] \in Seq(TradeType)
                                      /\ i \in DOMAIN [recorded EXCEPT ![i].r = v]
         /\ \A v \in Optional(BOOLEAN) : [recorded EXCEPT ![i].win = v] \in Seq(TradeType)
<1> DEFINE trade == recorded[i]
<1>1. trade \in TradeType
  OBVIOUS
<1>2. ASSUME NEW t \in TradeType PROVE [recorded EXCEPT ![i] = t] \in Seq(TradeType)
  OBVIOUS
<1>3. ASSUME NEW v \in Optional(Int) PROVE [trade EXCEPT !.r = v] \in TradeType
  BY <1>1 DEF TradeType
<1>4. ASSUME NEW v \in Optional(BOOLEAN) PROVE [trade EXCEPT !.win = v] \in TradeType
  BY <1>1 DEF TradeType
<1>5. ASSUME NEW v
      PROVE  /\ [recorded EXCEPT ![i].r = v] = [recorded EXCEPT ![i] = [trade EXCEPT !.r = v]]
             /\ [recorded EXCEPT ![i].win = v]
                  = [recorded EXCEPT ![i] = [trade EXCEPT !.win = v]]
             /\ i \in DOMAIN [recorded EXCEPT ![i].r = v]
  OBVIOUS
<1> QED BY <1>2, <1>3, <1>4, <1>5

(* Evidence.tla: what is known of the symbol has the types its sources give it. *)
THEOREM TypeCorrect == Spec => []TypeOK
<1> USE DEF TypeOK, WellTyped
<1>1. Init => TypeOK
  BY EvidenceAssumption, ValuesAreTyped DEF Init
<1>2. TypeOK /\ [Next]_vars => TypeOK'
  <2> SUFFICES ASSUME TypeOK, [Next]_vars PROVE TypeOK'
    OBVIOUS
  <2>a. ASSUME Step PROVE changes' \in 0..MaxChanges
    BY <2>a, EvidenceAssumption DEF Step
  <2>1. CASE SnapshotChanges
    <3>0. PICK f \in DOMAIN raw : \E v \in SnapshotValues[f] : raw' = [raw EXCEPT ![f] = v]
      BY <2>1 DEF SnapshotChanges
    <3>1. PICK v \in SnapshotValues[f] : raw' = [raw EXCEPT ![f] = v]
      BY <3>0
    <3>2. v \in SnapshotTypes[f]
      BY <3>1, ValuesAreTyped DEF HasTypes
    <3>3. HasTypes(raw', SnapshotTypes)
      BY <3>1, <3>2, FieldChanges
    <3> QED BY <2>1, <2>a, <3>3 DEF SnapshotChanges
  <2>2. CASE MockChanges
    <3>0. PICK f \in DOMAIN mock : \E v \in MockValues[f] : mock' = [mock EXCEPT ![f] = v]
      BY <2>2 DEF MockChanges
    <3>1. PICK v \in MockValues[f] : mock' = [mock EXCEPT ![f] = v]
      BY <3>0
    <3>2. v \in MockTypes[f]
      BY <3>1, ValuesAreTyped DEF HasTypes
    <3>3. HasTypes(mock', MockTypes)
      BY <3>1, <3>2, FieldChanges
    <3> QED BY <2>2, <2>a, <3>3 DEF MockChanges
  <2>3. CASE ReadChanges
    <3>0. PICK f \in DOMAIN behavior :
            \E v \in ReadValues[f] : behavior' = [behavior EXCEPT ![f] = v]
      BY <2>3 DEF ReadChanges
    <3>1. PICK v \in ReadValues[f] : behavior' = [behavior EXCEPT ![f] = v]
      BY <3>0
    <3>2. v \in ReadTypes[f]
      BY <3>1, ValuesAreTyped DEF HasTypes
    <3>3. HasTypes(behavior', ReadTypes)
      BY <3>1, <3>2, FieldChanges
    <3> QED BY <2>3, <2>a, <3>3 DEF ReadChanges
  <2>4. CASE TradeOpens
    <3> DEFINE trade == [condition |-> ConditionKey, r |-> None, win |-> None]
    <3>1. ConditionKey \in STRING \X STRING \X STRING
      BY DEF ConditionKey, HasTypes, ReadTypes
    <3>2. trade \in TradeType
      BY <3>1 DEF TradeType, Optional
    <3>3. trades' = Append(trades, trade) /\ trades \in Seq(TradeType)
      BY <2>4 DEF TradeOpens
    <3> HIDE DEF trade
    <3>4. trades' \in Seq(TradeType)
      BY <3>2, <3>3
    <3> QED BY <2>4, <2>a, <3>4 DEF TradeOpens
  <2>5. CASE TradeCloses
    <3>1. PICK i \in DOMAIN trades, o \in Outcomes :
            trades' = [trades EXCEPT ![i].r = o[1], ![i].win = o[2]]
      BY <2>5 DEF TradeCloses
    <3>2. o[1] \in Optional(Int) /\ o[2] \in Optional(BOOLEAN)
      BY ValuesAreTyped DEF Optional
    <3>3. trades' \in Seq(TradeType)
      <4> DEFINE opened == [trades EXCEPT ![i].r = o[1]]
      <4>1. opened \in Seq(TradeType) /\ i \in DOMAIN opened
        BY <3>1, <3>2, TradeChanges
      <4>2. trades' = [opened EXCEPT ![i].win = o[2]]
        BY <3>1
      <4> HIDE DEF opened
      <4> QED BY <4>1, <4>2, <3>2, TradeChanges
    <3> QED BY <2>5, <2>a, <3>3 DEF TradeCloses
  <2>6. CASE BarCloses
    <3>1. PICK tf \in Timeframes, bar \in Bars :
            series' = [series EXCEPT ![tf] = GetBars(Append(@, bar), BarLimit)]
      BY <2>6 DEF BarCloses
    <3>2. GetBars(Append(series[tf], bar), BarLimit) \in Seq(BarType)
      BY NewestBars, ValuesAreTyped
    <3>3. series' \in [Timeframes -> Seq(BarType)]
      BY <3>1, <3>2
    <3> QED BY <2>6, <2>a, <3>3 DEF BarCloses
  <2>7. CASE TimeframeFails
    <3>1. <<>> \in Seq(BarType)
      OBVIOUS
    <3>2. series' \in [Timeframes -> Seq(BarType)]
      BY <2>7, <3>1 DEF TimeframeFails
    <3> QED BY <2>7, <2>a, <3>2 DEF TimeframeFails
  <2>8. CASE NewsArrives
    <3>1. PICK a \in Articles : articles' = <<a>> \o articles
      BY <2>8 DEF NewsArrives
    <3>2. a \in ArticleType /\ articles \in Seq(ArticleType)
      BY ValuesAreTyped
    <3>3. articles' \in Seq(ArticleType)
      BY <3>1, <3>2
    <3> QED BY <2>8, <2>a, <3>3 DEF NewsArrives
  <2>9. CASE UNCHANGED vars
    BY <2>9 DEF vars
  <2> QED BY <2>1, <2>2, <2>3, <2>4, <2>5, <2>6, <2>7, <2>8, <2>9 DEF Next
<1> QED BY <1>1, <1>2, PTL DEF Spec
-----------------------------------------------------------------------------
(* What is there of an optional number is a number. *)
LEMMA TruthyNumber ==
  /\ \A x \in Optional(Int) : Truthy(x) => x \in Int /\ x # 0
  /\ \A x \in Optional(Nat) : Truthy(x) => x \in Nat \ {0}
  /\ \A x \in Optional(Nat) : x # None => x \in Nat
BY DEF Optional, Truthy

(* The market data of a typed answer. *)
IsMarket(md) ==
  /\ md.last \in Nat /\ md.volume \in Nat /\ md.dollarVolume \in Nat
  /\ md.spread \in Optional(Int) /\ md.range \in Optional(Int)
  /\ md.vwap \in Optional(Nat) /\ md.relativeVolume \in Optional(Nat)
  /\ md.atr \in Optional(Nat) /\ md.float \in Optional(Nat)
  /\ md.gap \in Optional(Int \X (Nat \ {0}))

(* parse_snapshot_ticker and the mock fields make market data of what was typed. *)
LEMMA MarketTyped ==
  ASSUME NEW snapshot, HasTypes(snapshot, SnapshotTypes),
         NEW extra, HasTypes(extra, MockTypes)
  PROVE  IsMarket(MarketOf(snapshot, extra))
<1> DEFINE md == MarketOf(snapshot, extra)
<1>0. /\ md.last = Or(snapshot.trade, Or(snapshot.close, 0))
      /\ md.volume = Or(snapshot.volume, 0)
      /\ md.dollarVolume = md.volume * md.last
      /\ md.spread = Spread(snapshot) /\ md.vwap = snapshot.vwap
      /\ md.range = IF None \in {snapshot.high, snapshot.low} THEN None
                    ELSE snapshot.high - snapshot.low
      /\ md.gap = IF Truthy(snapshot.prevClose) /\ Truthy(snapshot.open)
                  THEN <<snapshot.open - snapshot.prevClose, snapshot.prevClose>>
                  ELSE None
      /\ md.relativeVolume = extra.relativeVolume
      /\ md.atr = extra.atr /\ md.float = extra.float
  BY DEF MarketOf, ParseSnapshotTicker
<1> HIDE DEF md
<1>1. /\ snapshot.trade \in Optional(Nat) /\ snapshot.close \in Optional(Nat)
      /\ snapshot.volume \in Optional(Nat) /\ snapshot.vwap \in Optional(Nat)
      /\ snapshot.bid \in Optional(Nat) /\ snapshot.ask \in Optional(Nat)
      /\ snapshot.high \in Optional(Nat) /\ snapshot.low \in Optional(Nat)
      /\ snapshot.open \in Optional(Nat) /\ snapshot.prevClose \in Optional(Nat)
  BY DEF HasTypes, SnapshotTypes
<1>2. /\ extra.relativeVolume \in Optional(Nat) /\ extra.atr \in Optional(Nat)
      /\ extra.float \in Optional(Nat)
  BY DEF HasTypes, MockTypes
<1>3. \A x \in Optional(Nat) : \A y \in Nat : Or(x, y) \in Nat
  BY DEF Optional, Or, Truthy
<1>4. md.last \in Nat /\ md.volume \in Nat
  BY <1>1, <1>3, <1>0
<1>5. md.dollarVolume \in Nat
  BY <1>4, <1>0
<1>6. md.spread \in Optional(Int) /\ md.range \in Optional(Int)
  <2>1. Spread(snapshot) \in Optional(Int)
    BY <1>1 DEF Optional, Spread
  <2>2. (IF None \in {snapshot.high, snapshot.low} THEN None
         ELSE snapshot.high - snapshot.low) \in Optional(Int)
    BY <1>1 DEF Optional
  <2> QED BY <2>1, <2>2, <1>0
<1>7. md.gap \in Optional(Int \X (Nat \ {0}))
  <2>1. CASE Truthy(snapshot.prevClose) /\ Truthy(snapshot.open)
    <3>1. snapshot.prevClose \in Nat \ {0} /\ snapshot.open - snapshot.prevClose \in Int
      BY <1>1, <2>1 DEF Optional, Truthy
    <3>2. md.gap = <<snapshot.open - snapshot.prevClose, snapshot.prevClose>>
      BY <2>1, <1>0
    <3>3. md.gap \in Int \X (Nat \ {0})
      BY <3>1, <3>2
    <3> QED BY <3>3 DEF Optional
  <2>2. CASE ~ (Truthy(snapshot.prevClose) /\ Truthy(snapshot.open))
    BY <2>2, <1>0 DEF Optional
  <2> QED BY <2>1, <2>2
<1>8. /\ md.vwap \in Optional(Nat) /\ md.relativeVolume \in Optional(Nat)
      /\ md.atr \in Optional(Nat) /\ md.float \in Optional(Nat)
  BY <1>1, <1>2, <1>0
<1> USE DEF md
<1> QED BY <1>4, <1>5, <1>6, <1>7, <1>8 DEF IsMarket

(* What the blends of the liquidity and historical scores, of the structure
   score and of the behavior score add up. *)
BlendOfThree(a, b, c) ==
  Blend(<< <<a, 45>>, <<b, 35>>, <<c, 20>> >>)

(* The blend of liquidity.py and historical.py, added up. *)
LEMMA ThreeFactors ==
  ASSUME NEW a \in Int, NEW b \in Int, NEW c \in Int
  PROVE  BlendOfThree(a, b, c)
           = Round(a * 45 + b * 35 + c * 20, 100)
<1> DEFINE factors == << <<a, 45>>, <<b, 35>>, <<c, 20>> >>
           part == [i \in DOMAIN factors |-> factors[i][1] * factors[i][2]]
<1>1. DOMAIN part = 1..3 /\ BlendOfThree(a, b, c) = Round(SumFunction(part), 100)
  BY DEF BlendOfThree, Blend
<1>2. part[1] = a * 45 /\ part[2] = b * 35 /\ part[3] = c * 20
  OBVIOUS
<1>3. \A i \in 1..3 : part[i] \in Int
  BY <1>2
<1> HIDE DEF part
<1>4. SumFunctionOnSet(part, 1..3) = part[1] + part[2] + part[3]
  BY <1>3, SumOfThree
<1>5. SumFunction(part) = SumFunctionOnSet(part, 1..3)
  BY <1>1 DEF SumFunction
<1>6. SumFunction(part) = a * 45 + b * 35 + c * 20
  BY <1>2, <1>4, <1>5
<1> QED BY <1>6, <1>1, Zenon

BlendOfFive(a, b, c, d, e) ==
  Blend(<< <<a, 25>>, <<b, 30>>, <<c, 20>>, <<d, 15>>, <<e, 10>> >>)

(* The blend of structure.py, added up. *)
LEMMA FiveFactors ==
  ASSUME NEW a \in Int, NEW b \in Int, NEW c \in Int, NEW d \in Int,
         NEW e \in Int
  PROVE  BlendOfFive(a, b, c, d, e)
           = Round(a * 25 + b * 30 + c * 20 + d * 15 + e * 10, 100)
<1> DEFINE factors == << <<a, 25>>, <<b, 30>>, <<c, 20>>, <<d, 15>>, <<e, 10>> >>
           part == [i \in DOMAIN factors |-> factors[i][1] * factors[i][2]]
<1>1. DOMAIN part = 1..5 /\ BlendOfFive(a, b, c, d, e) = Round(SumFunction(part), 100)
  BY DEF BlendOfFive, Blend
<1>2. /\ part[1] = a * 25 /\ part[2] = b * 30 /\ part[3] = c * 20 /\ part[4] = d * 15
      /\ part[5] = e * 10
  OBVIOUS
<1>3. \A i \in 1..5 : part[i] \in Int
  BY <1>2
<1> HIDE DEF part
<1>4. SumFunctionOnSet(part, 1..5) = part[1] + part[2] + part[3] + part[4] + part[5]
  BY <1>3, SumOfFive
<1>5. SumFunction(part) = SumFunctionOnSet(part, 1..5)
  BY <1>1 DEF SumFunction
<1>6. SumFunction(part) = a * 25 + b * 30 + c * 20 + d * 15 + e * 10
  BY <1>2, <1>4, <1>5
<1> QED BY <1>6, <1>1, Zenon

BlendOfSeven(factor) ==
  Blend(<< <<factor[1], 22>>, <<factor[2], 18>>, <<factor[3], 19>>, <<factor[4], 14>>,
           <<factor[5], 9>>, <<factor[6], 8>>, <<factor[7], 10>> >>)

(* The blend of behavioral.py, added up. *)
LEMMA SevenFactors ==
  ASSUME NEW factor, \A i \in 1..7 : factor[i] \in Int
  PROVE  BlendOfSeven(factor)
           = Round(factor[1] * 22 + factor[2] * 18 + factor[3] * 19 + factor[4] * 14
                   + factor[5] * 9 + factor[6] * 8 + factor[7] * 10, 100)
<1> DEFINE pairs == << <<factor[1], 22>>, <<factor[2], 18>>, <<factor[3], 19>>,
                        <<factor[4], 14>>, <<factor[5], 9>>, <<factor[6], 8>>,
                        <<factor[7], 10>> >>
           part == [i \in DOMAIN pairs |-> pairs[i][1] * pairs[i][2]]
<1>0. /\ factor[1] \in Int /\ factor[2] \in Int /\ factor[3] \in Int /\ factor[4] \in Int
      /\ factor[5] \in Int /\ factor[6] \in Int /\ factor[7] \in Int
  OBVIOUS
<1>1. DOMAIN part = 1..7 /\ BlendOfSeven(factor) = Round(SumFunction(part), 100)
  BY DEF BlendOfSeven, Blend
<1>2. /\ part[1] = factor[1] * 22 /\ part[2] = factor[2] * 18 /\ part[3] = factor[3] * 19
      /\ part[4] = factor[4] * 14 /\ part[5] = factor[5] * 9 /\ part[6] = factor[6] * 8
      /\ part[7] = factor[7] * 10
  OBVIOUS
<1> HIDE DEF part
<1>3. \A i \in 1..7 : part[i] \in Int
  BY <1>0, <1>2
<1>4. SumFunctionOnSet(part, 1..7)
        = part[1] + part[2] + part[3] + part[4] + part[5] + part[6] + part[7]
  BY <1>3, SumOfSeven
<1>5. SumFunction(part) = SumFunctionOnSet(part, 1..7)
  BY <1>1 DEF SumFunction
<1>6. SumFunction(part) = factor[1] * 22 + factor[2] * 18 + factor[3] * 19 + factor[4] * 14
                          + factor[5] * 9 + factor[6] * 8 + factor[7] * 10
  BY <1>2, <1>4, <1>5
<1> QED BY <1>6, <1>1, Zenon

(* The factors of the structure score. *)
LEMMA SpreadFactor ==
  ASSUME NEW md, IsMarket(md)
  PROVE  /\ SpreadQuality(md) \in Nat
         /\ md.spread \in Optional(Nat) => SpreadQuality(md) <= 1000
<1>1. CASE ~Truthy(md.spread) \/ md.last = 0
  BY <1>1 DEF SpreadQuality
<1>2. CASE Truthy(md.spread) /\ md.last # 0
  <2>1. PICK s \in Int, d \in Nat \ {0} : s = md.spread /\ d = md.last
    BY <1>2, TruthyNumber DEF IsMarket
  <2> DEFINE n == 1000 * d - 500000 * s
  <2>2. n \in Int
    OBVIOUS
  <2>a. md.spread \in Optional(Nat) => s >= 0
    BY <1>2, <2>1 DEF Optional, Truthy
  <2>b. s >= 0 => n <= 1000 * d
    OBVIOUS
  <2>c. SpreadQuality(md) = AtLeast(0, Round(n, d))
    BY <1>2, <2>1, SMT DEF SpreadQuality
  <2> HIDE DEF n
  <2>3. md.spread \in Optional(Nat) => n <= 1000 * d
    BY <2>a, <2>b
  <2>5. Round(n, d) \in Int /\ (n <= 1000 * d => Round(n, d) <= 1000)
    BY <2>2, RoundInScale
  <2> QED BY <2>3, <2>c, <2>5 DEF AtLeast
<1> QED BY <1>1, <1>2

(* structure.py: range expansion is capped at 1000 and below 0 only for a negative range. *)
LEMMA RangeFactor ==
  ASSUME NEW md, IsMarket(md)
  PROVE  /\ RangeExpansion(md) \in Int /\ RangeExpansion(md) <= 1000
         /\ md.range \in Optional(Nat) => RangeExpansion(md) >= 0
<1>1. CASE ~ (Truthy(md.range) /\ md.last # 0)
  BY <1>1 DEF RangeExpansion
<1>2. CASE Truthy(md.range) /\ md.last # 0
  <2>1. PICK r \in Int, d \in Nat \ {0} : r = md.range /\ d = md.last
    BY <1>2, TruthyNumber DEF IsMarket
  <2>2. PICK n \in Int : n = 12000 * r
    OBVIOUS
  <2>a. md.range \in Optional(Nat) => r >= 0
    BY <1>2, <2>1 DEF Optional, Truthy
  <2>3. md.range \in Optional(Nat) => n >= 0
    BY <2>a, <2>2
  <2>4. RangeExpansion(md) = AtMost(1000, Round(n, d))
    BY <1>2, <2>1, <2>2 DEF RangeExpansion
  <2>5. Round(n, d) \in Int /\ (n >= 0 => Round(n, d) >= 0)
    BY RoundInScale
  <2> QED BY <2>3, <2>4, <2>5 DEF AtMost
<1> QED BY <1>1, <1>2

(* structure.py: the factor of the VWAP is in the scale. *)
LEMMA VwapFactor ==
  ASSUME NEW md, IsMarket(md)
  PROVE  VwapRelationship(md) \in 0..1000
<1>1. CASE ~ (Truthy(md.vwap) /\ md.last # 0)
  BY <1>1 DEF VwapRelationship
<1>2. CASE Truthy(md.vwap) /\ md.last # 0
  <2>1. PICK v \in Nat \ {0}, last \in Nat : v = md.vwap /\ last = md.last
    BY <1>2, TruthyNumber DEF IsMarket
  <2>a. Distance(last, v) \in Nat
    BY DEF Distance
  <2>2. PICK d \in Nat : d = Distance(last, v)
    BY <2>a
  <2> DEFINE n == 1000 * v - 20000 * d
  <2>3. n \in Int /\ n <= 1000 * v
    OBVIOUS
  <2>4. VwapRelationship(md) = AtLeast(0, Round(n, v))
    <3>1. VwapRelationship(md)
            = AtLeast(0, Round(1000 * v - 20000 * Distance(last, v), v))
      BY <1>2, <2>1, SMT DEF VwapRelationship
    <3> QED BY <2>2, <3>1, SMT
  <2> HIDE DEF n
  <2>6. Round(n, v) \in Int /\ Round(n, v) <= 1000
    BY <2>3, RoundInScale
  <2> QED BY <2>4, <2>6 DEF AtLeast
<1> QED BY <1>1, <1>2

(* structure.py: the factor of the gap is in the scale. *)
LEMMA GapFactor ==
  ASSUME NEW md, IsMarket(md)
  PROVE  GapQuality(md) \in 0..1000
<1>1. CASE md.gap = None
  BY <1>1 DEF GapQuality
<1>2. CASE md.gap # None
  <2>1. PICK g \in Int, d \in Nat \ {0} : g = md.gap[1] /\ d = md.gap[2]
    BY <1>2 DEF IsMarket, Optional
  <2>2. PICK n \in Nat : n = 10000 * Distance(g, 0)
    BY DEF Distance
  <2>3. Round(n, d) \in Int /\ Round(n, d) >= 0
    BY RoundInScale
  <2>4. GapQuality(md) = AtMost(1000, Round(n, d))
    BY <1>2, <2>1, <2>2 DEF GapQuality
  <2> QED BY <2>3, <2>4 DEF AtMost
<1> QED BY <1>1, <1>2

(* The relative volume of the code; what is missing scores nothing. *)
VolumeFactor(md) ==
  IF md.relativeVolume = None THEN 0 ELSE AtMost(1000, 3 * md.relativeVolume)

(* structure.py: the factor of the relative volume is in the scale. *)
LEMMA VolumeInScale ==
  ASSUME NEW md, IsMarket(md)
  PROVE  VolumeFactor(md) \in 0..1000
BY TruthyNumber DEF IsMarket, VolumeFactor, AtMost

(* structure.py: all five factors are integers. *)
LEMMA FactorsTyped ==
  ASSUME NEW md, IsMarket(md)
  PROVE  /\ SpreadQuality(md) \in Int /\ VolumeFactor(md) \in Int
         /\ RangeExpansion(md) \in Int /\ VwapRelationship(md) \in Int
         /\ GapQuality(md) \in Int
<1>1. SpreadQuality(md) \in Int /\ RangeExpansion(md) \in Int
  BY SpreadFactor, RangeFactor
<1>2. VolumeFactor(md) \in Int
  BY VolumeInScale
<1>3. VwapRelationship(md) \in Int
  BY VwapFactor
<1>4. GapQuality(md) \in Int
  BY GapFactor
<1> QED BY <1>1, <1>2, <1>3, <1>4

(* structure.py: the value and the confidence of the structure score. *)
LEMMA StructureIs ==
  ASSUME NEW md, IsMarket(md)
  PROVE  /\ StructureScore(md).value
              = Round(SpreadQuality(md) * 25 + VolumeFactor(md) * 30
                      + RangeExpansion(md) * 20 + VwapRelationship(md) * 15
                      + GapQuality(md) * 10, 100)
         /\ StructureScore(md).confidence
              = IF None \notin {md.spread, md.relativeVolume, md.vwap} THEN 90 ELSE 55
<1> DEFINE a == SpreadQuality(md)
           b == VolumeFactor(md)
           c == RangeExpansion(md)
           d == VwapRelationship(md)
           e == GapQuality(md)
<1>1. StructureScore(md)
        = [value |-> BlendOfFive(a, b, c, d, e),
           confidence |-> IF None \notin {md.spread, md.relativeVolume, md.vwap}
                          THEN 90 ELSE 55]
  BY Zenon DEF StructureScore, Score, VolumeFactor, BlendOfFive
<1>2. a \in Int /\ b \in Int /\ c \in Int /\ d \in Int /\ e \in Int
  BY FactorsTyped
<1> HIDE DEF a, b, c, d, e
<1>3. BlendOfFive(a, b, c, d, e) = Round(a * 25 + b * 30 + c * 20 + d * 15 + e * 10, 100)
  BY <1>2, FiveFactors
<1>4. /\ StructureScore(md).value = BlendOfFive(a, b, c, d, e)
      /\ StructureScore(md).confidence
           = IF None \notin {md.spread, md.relativeVolume, md.vwap} THEN 90 ELSE 55
  BY <1>1
<1> QED BY <1>3, <1>4, Zenon DEF a, b, c, d, e

(* structure.py: what is missing scores a constant, and every factor is capped;
   only a negative spread or range leads out of the scale. *)
LEMMA StructureTyped ==
  ASSUME NEW md, IsMarket(md)
  PROVE  /\ StructureScore(md).value \in Int /\ StructureScore(md).confidence \in 0..100
         /\ md.spread \in Optional(Nat) /\ md.range \in Optional(Nat)
              => Constructible(StructureScore(md))
<1> DEFINE a == SpreadQuality(md)
           b == VolumeFactor(md)
           c == RangeExpansion(md)
           d == VwapRelationship(md)
           e == GapQuality(md)
           n == a * 25 + b * 30 + c * 20 + d * 15 + e * 10
<1>1. /\ StructureScore(md).value = Round(n, 100)
      /\ StructureScore(md).confidence \in 0..100
  BY StructureIs
<1>2. a \in Nat /\ (md.spread \in Optional(Nat) => a <= 1000)
  BY SpreadFactor
<1>3. b \in 0..1000
  BY VolumeInScale
<1>4. c \in Int /\ c <= 1000 /\ (md.range \in Optional(Nat) => c >= 0)
  BY RangeFactor
<1>5. d \in 0..1000 /\ e \in 0..1000
  BY VwapFactor, GapFactor
<1> HIDE DEF a, b, c, d, e
<1>7. /\ n \in Int
      /\ md.spread \in Optional(Nat) /\ md.range \in Optional(Nat)
           => n >= 0 /\ n <= 1000 * 100
  <2>1. n \in Int
    BY <1>2, <1>3, <1>4, <1>5, SMT
  <2>2. ASSUME a <= 1000, c >= 0 PROVE n >= 0 /\ n <= 1000 * 100
    BY <1>2, <1>3, <1>4, <1>5, <2>2, SMT
  <2> QED BY <1>2, <1>4, <2>1, <2>2
<1> HIDE DEF n
<1>8. /\ Round(n, 100) \in Int
      /\ n >= 0 => Round(n, 100) >= 0
      /\ n <= 1000 * 100 => Round(n, 100) <= 1000
  BY <1>7, RoundInScale
<1> QED BY <1>1, <1>7, <1>8 DEF Constructible

(* The values of the scores and their factors: a rounded average stays there. *)
Scale == 0..1000

(* An average of values of the scale rounds to one. *)
LEMMA RoundToScale ==
  ASSUME NEW n \in Int, NEW d \in Nat \ {0}, n >= 0, n <= 1000 * d
  PROVE  Round(n, d) \in Scale
<1>1. Round(n, d) \in Int /\ 0 <= Round(n, d) /\ Round(n, d) <= 1000
  BY RoundInScale
<1>2. \A x \in Int : 0 <= x /\ x <= 1000 => x \in Scale
  BY DEF Scale
<1> QED BY <1>1, <1>2

(* Three or seven factors of the scale blend into a value of the scale. *)
LEMMA ThreeInScale ==
  ASSUME NEW a \in Scale, NEW b \in Scale, NEW c \in Scale
  PROVE  BlendOfThree(a, b, c) \in Scale
<1> DEFINE n == a * 45 + b * 35 + c * 20
<1>1. BlendOfThree(a, b, c) = Round(n, 100)
  BY ThreeFactors DEF Scale
<1>2. n \in Int /\ n >= 0 /\ n <= 1000 * 100
  BY SMT DEF Scale
<1> HIDE DEF n
<1> QED BY <1>1, <1>2, RoundToScale

(* The same for the seven factors of the behavior score. *)
LEMMA SevenInScale ==
  ASSUME NEW factor, \A i \in 1..7 : factor[i] \in Scale
  PROVE  BlendOfSeven(factor) \in Scale
<1> DEFINE p1 == factor[1] * 22
           p2 == factor[2] * 18
           p3 == factor[3] * 19
           p4 == factor[4] * 14
           p5 == factor[5] * 9
           p6 == factor[6] * 8
           p7 == factor[7] * 10
           n  == p1 + p2 + p3 + p4 + p5 + p6 + p7
<1>0. Scale \subseteq Int
  BY DEF Scale
<1>1. \A i \in 1..7 : factor[i] \in Int
  BY <1>0, Zenon
<1>2. BlendOfSeven(factor) = Round(n, 100)
  BY <1>1, SevenFactors, Zenon
<1>3. /\ p1 \in Int /\ 0 <= p1 /\ p1 <= 22000
      /\ p2 \in Int /\ 0 <= p2 /\ p2 <= 18000
      /\ p3 \in Int /\ 0 <= p3 /\ p3 <= 19000
      /\ p4 \in Int /\ 0 <= p4 /\ p4 <= 14000
      /\ p5 \in Int /\ 0 <= p5 /\ p5 <= 9000
      /\ p6 \in Int /\ 0 <= p6 /\ p6 <= 8000
      /\ p7 \in Int /\ 0 <= p7 /\ p7 <= 10000
  <2>1. /\ factor[1] \in Scale /\ factor[2] \in Scale /\ factor[3] \in Scale
        /\ factor[4] \in Scale /\ factor[5] \in Scale /\ factor[6] \in Scale
        /\ factor[7] \in Scale
    OBVIOUS
  <2>2. \A x \in Scale : /\ x * 22 \in Int /\ 0 <= x * 22 /\ x * 22 <= 22000
                         /\ x * 18 \in Int /\ 0 <= x * 18 /\ x * 18 <= 18000
                         /\ x * 19 \in Int /\ 0 <= x * 19 /\ x * 19 <= 19000
                         /\ x * 14 \in Int /\ 0 <= x * 14 /\ x * 14 <= 14000
                         /\ x * 9 \in Int /\ 0 <= x * 9 /\ x * 9 <= 9000
                         /\ x * 8 \in Int /\ 0 <= x * 8 /\ x * 8 <= 8000
                         /\ x * 10 \in Int /\ 0 <= x * 10 /\ x * 10 <= 10000
    BY SMT DEF Scale
  <2> QED BY <2>1, <2>2, SMT
<1> HIDE DEF p1, p2, p3, p4, p5, p6, p7
<1>4. n \in Int /\ n >= 0 /\ n <= 1000 * 100
  BY <1>3, SMT
<1> HIDE DEF n
<1> QED BY <1>2, <1>4, RoundToScale

(* A value that is capped. *)
LEMMA CappedInScale ==
  ASSUME NEW x \in Int
  PROVE  Clamp(0, 1000, x) \in Scale /\ (x >= 0 => AtMost(1000, x) \in Scale)
BY DEF Clamp, AtMost, AtLeast, Scale

(* liquidity.py: constructible for any market data. *)
LEMMA LiquidityTyped ==
  ASSUME NEW md, IsMarket(md)
  PROVE  Constructible(LiquidityScore(md))
<1> DEFINE a == AtMost(1000, Round(md.dollarVolume, 20))
           b == AtMost(1000, Round(1000 * md.volume, 30))
           c == IF Truthy(md.float) THEN Clamp(0, 1000, 1000 - 10 * md.float) ELSE 500
<1>1. LiquidityScore(md)
        = [value |-> BlendOfThree(a, b, c),
           confidence |-> IF Truthy(md.float) THEN 90 ELSE 60]
  BY Zenon DEF LiquidityScore, Score, BlendOfThree
<1>2. a \in Scale /\ b \in Scale
  <2>1. PICK n \in Nat, m \in Nat : n = md.dollarVolume /\ m = 1000 * md.volume
    BY SMT DEF IsMarket
  <2>2. Round(n, 20) \in Nat /\ Round(m, 30) \in Nat
    BY RoundInScale
  <2>3. PICK x \in Nat, y \in Nat : x = Round(n, 20) /\ y = Round(m, 30)
    BY <2>2
  <2>4. AtMost(1000, x) \in Scale /\ AtMost(1000, y) \in Scale
    BY CappedInScale
  <2> QED BY <2>1, <2>3, <2>4
<1>3. c \in Scale
  <2>1. CASE Truthy(md.float)
    <3>1. PICK x \in Int : x = 1000 - 10 * md.float
      BY <2>1, TruthyNumber, SMT DEF IsMarket
    <3>2. Clamp(0, 1000, x) \in Scale
      BY CappedInScale
    <3> QED BY <2>1, <3>1, <3>2
  <2>2. CASE ~Truthy(md.float)
    BY <2>2 DEF Scale
  <2> QED BY <2>1, <2>2
<1> HIDE DEF a, b, c
<1>4. BlendOfThree(a, b, c) \in Scale
  BY <1>2, <1>3, ThreeInScale, Zenon
<1> QED BY <1>1, <1>4 DEF Constructible, Scale

(* capital_efficiency.py: likewise. *)
LEMMA CapitalTyped ==
  ASSUME NEW md, IsMarket(md)
  PROVE  Constructible(CapitalEfficiencyScore(md))
<1>1. CASE md.spread = None \/ ~Truthy(md.atr)
  BY <1>1 DEF CapitalEfficiencyScore, Score, Constructible
<1>2. CASE ~ (md.spread = None \/ ~Truthy(md.atr))
  <2>1. PICK r \in Nat \ {0}, s \in Int : r = md.atr /\ s = md.spread
    BY <1>2, TruthyNumber DEF IsMarket, Optional
  <2> DEFINE n == 1000 * r - 2000 * s
             x == Clamp(0, 1000, Round(n, r))
             y == IF md.relativeVolume = None THEN 0
                  ELSE Clamp(0, 200, md.relativeVolume - 100)
  <2>2. CapitalEfficiencyScore(md)
          = [value |-> AtMost(1000, x + y), confidence |-> 75]
    BY <1>2, <2>1, SMT DEF CapitalEfficiencyScore, Score
  <2>3. n \in Int
    OBVIOUS
  <2> HIDE DEF n
  <2>4. PICK q \in Int : q = Round(n, r)
    BY <2>3, RoundInScale
  <2>5. x \in 0..1000
    <3>1. Clamp(0, 1000, q) \in 0..1000
      BY DEF Clamp, AtMost, AtLeast
    <3> QED BY <2>4, <3>1
  <2>6. y \in 0..200
    <3>1. CASE md.relativeVolume # None
      <4>1. PICK v \in Int : v = md.relativeVolume - 100
        BY <3>1, TruthyNumber DEF IsMarket
      <4>2. Clamp(0, 200, v) \in 0..200
        BY DEF Clamp, AtMost, AtLeast
      <4> QED BY <3>1, <4>1, <4>2
    <3>2. CASE md.relativeVolume = None
      BY <3>2
    <3> QED BY <3>1, <3>2
  <2> HIDE DEF x, y
  <2>7. AtMost(1000, x + y) \in 0..1000
    BY <2>5, <2>6 DEF AtMost
  <2> QED BY <2>2, <2>7 DEF Constructible
<1> QED BY <1>1, <1>2
-----------------------------------------------------------------------------
(* The record of a condition, or None. *)
IsHistory(h) ==
  /\ Occurrences(h) \in Nat
  /\ h # None => /\ h.occurrences = Occurrences(h)
                 /\ h.winRate # None =>
                      \E w \in Nat, n \in Nat \ {0} : h.winRate = <<w, n>> /\ w <= n
                 /\ h.profitFactor # None =>
                      \E g \in Nat, l \in Nat \ {0} : h.profitFactor = <<g, l>>

(* The closed trades of a condition are finitely many and have an r_multiple. *)
LEMMA TrackedTrades ==
  ASSUME NEW recorded \in Seq(TradeType), NEW condition
  PROVE  /\ IsFiniteSet(Tracked(recorded, condition))
         /\ Tracked(recorded, condition) \subseteq DOMAIN recorded
         /\ \A i \in Tracked(recorded, condition) : recorded[i].r \in Int
<1>1. IsFiniteSet(DOMAIN recorded)
  <2>1. DOMAIN recorded = 1..Len(recorded) /\ Len(recorded) \in Nat
    OBVIOUS
  <2> QED BY <2>1, FS_Interval
<1>2. Tracked(recorded, condition) \subseteq DOMAIN recorded
  BY DEF Tracked
<1>3. ASSUME NEW i \in Tracked(recorded, condition) PROVE recorded[i].r \in Int
  <2>1. recorded[i] \in TradeType /\ recorded[i].r # None
    BY DEF Tracked
  <2>2. recorded[i].r \in Optional(Int)
    BY <2>1 DEF TradeType
  <2> QED BY <2>1, <2>2 DEF Optional
<1> QED BY <1>1, <1>2, <1>3, FS_Subset

(* The gains, or the losses, of closed trades add up to a natural number. *)
Part(recorded, closed, sign) ==
  [i \in closed |-> AtLeast(0, sign * Or(recorded[i].r, 0))]

(* Gross gains and gross losses are natural numbers. *)
LEMMA GrossIsNat ==
  ASSUME NEW recorded, NEW closed, IsFiniteSet(closed),
         \A i \in closed : recorded[i].r \in Int, NEW sign \in Int
  PROVE  SumFunction(Part(recorded, closed, sign)) \in Nat
<1> DEFINE part == Part(recorded, closed, sign)
           zero == [i \in closed |-> 0]
<1>1. ASSUME NEW i \in closed
      PROVE  part[i] \in Int /\ 0 <= part[i]
  <2>1. PICK r \in Int : r = Or(recorded[i].r, 0)
    BY DEF Or
  <2>2. PICK p \in Int : p = sign * r
    OBVIOUS
  <2>3. part[i] = AtLeast(0, p)
    BY <2>1, <2>2 DEF Part
  <2> QED BY <2>3 DEF AtLeast
<1>2. DOMAIN part = closed
  BY DEF Part
<1>3. \A i \in closed : zero[i] = 0 /\ zero[i] \in Int
  OBVIOUS
<1> HIDE DEF part, zero
<1>4. SumFunctionOnSet(part, closed) \in Int
  BY <1>1, SumOfInts
<1>5. SumFunctionOnSet(zero, closed) <= SumFunctionOnSet(part, closed)
  BY <1>1, <1>3, SumMonotone
<1>6. SumFunctionOnSet(zero, closed) = 0
  <2>1. SumFunctionOnSet(zero, closed) = 0 * Cardinality(closed)
    BY <1>3, SumConstant
  <2>2. Cardinality(closed) \in Nat
    BY FS_CardinalityType
  <2> QED BY <2>1, <2>2
<1>7. SumFunction(part) = SumFunctionOnSet(part, closed)
  BY <1>2 DEF SumFunction
<1> QED BY <1>4, <1>5, <1>6, <1>7 DEF part

(* get_stats_for_condition answers a record, whatever trades are stored. *)
LEMMA StatsTyped ==
  ASSUME NEW recorded \in Seq(TradeType), NEW condition
  PROVE  /\ IsHistory(StatsForCondition(recorded, condition))
         /\ StatsForCondition(recorded, condition) # None
         /\ StatsForCondition(recorded, condition).occurrences
              = Cardinality(Tracked(recorded, condition))
<1> DEFINE h      == StatsForCondition(recorded, condition)
           closed == Tracked(recorded, condition)
           wins   == {i \in closed : recorded[i].win = TRUE}
           n      == Cardinality(closed)
           gain   == SumFunction(Part(recorded, closed, 1))
           loss   == SumFunction(Part(recorded, closed, -1))
<1>1. h = [occurrences |-> n,
           winRate |-> IF n = 0 THEN None ELSE <<Cardinality(wins), n>>,
           profitFactor |-> IF loss = 0 THEN None ELSE <<gain, loss>>]
  BY Zenon DEF StatsForCondition, Part, ProfitFactor
<1>2. IsFiniteSet(closed) /\ \A i \in closed : recorded[i].r \in Int
  BY TrackedTrades
<1>3. gain \in Nat /\ loss \in Nat
  <2>1. 1 \in Int /\ -1 \in Int
    OBVIOUS
  <2> HIDE DEF closed
  <2> QED BY <1>2, <2>1, GrossIsNat
<1>4. n \in Nat /\ Cardinality(wins) \in Nat /\ Cardinality(wins) <= n
  <2>1. wins \subseteq closed
    OBVIOUS
  <2> HIDE DEF closed, wins
  <2> QED BY <1>2, <2>1, FS_Subset, FS_CardinalityType
<1> HIDE DEF h, closed, wins, n, gain, loss
<1>5. Occurrences(h) \in Nat /\ (h # None => h.occurrences = Occurrences(h))
  BY <1>1, <1>4 DEF Occurrences
<1>6. h.winRate # None => \E w \in Nat, m \in Nat \ {0} : h.winRate = <<w, m>> /\ w <= m
  BY <1>1, <1>4
<1>7. h.profitFactor # None => \E g \in Nat, l \in Nat \ {0} : h.profitFactor = <<g, l>>
  BY <1>1, <1>3
<1>8. h # None
  <2>1. h \in HistoryType
    BY <1>1, <1>3, <1>4 DEF HistoryType, Optional
  <2> QED BY <2>1, EvidenceAssumption
<1>9. h.occurrences = n
  BY <1>1
<1> QED BY <1>5, <1>6, <1>7, <1>8, <1>9 DEF IsHistory, h, n, closed

(* historical.py: constructible for any record. *)
LEMMA HistoricalTyped ==
  ASSUME NEW h, IsHistory(h)
  PROVE  Constructible(HistoricalScore(h))
<1>1. CASE ~Sufficient(h) \/ h.winRate = None
  BY <1>1 DEF HistoricalScore, Score, Constructible
<1>2. CASE ~ (~Sufficient(h) \/ h.winRate = None)
  <2> DEFINE won    == Round(1000 * h.winRate[1], h.winRate[2])
             factor == IF h.profitFactor = None THEN 0
                       ELSE AtMost(1000, Round(400 * h.profitFactor[1], h.profitFactor[2]))
             depth  == AtMost(1000, Round(1000 * h.occurrences, 3 * MinSample))
             full   == 4 * MinSample
             conf   == AtMost(95, Round(40 * full + 55 * AtMost(full, h.occurrences), full))
  <2>1. HistoricalScore(h) = [value |-> BlendOfThree(won, factor, depth), confidence |-> conf]
    BY <1>2, Zenon DEF HistoricalScore, Score, BlendOfThree
  <2>2. h # None /\ h.occurrences \in Nat /\ MinSample \in Nat \ {0}
    BY <1>2, EnginesAssumption DEF Sufficient, IsHistory
  <2>3. won \in Scale
    <3>1. PICK w \in Nat, n \in Nat \ {0} : h.winRate = <<w, n>> /\ w <= n
      BY <1>2, <2>2 DEF IsHistory
    <3>2. PICK m \in Int : m = 1000 * w
      OBVIOUS
    <3>3. 0 <= m /\ m <= 1000 * n
      BY <3>1, <3>2
    <3>4. Round(m, n) \in Scale
      BY <3>3, RoundToScale
    <3> QED BY <3>1, <3>2, <3>4
  <2>4. factor \in Scale
    <3>1. CASE h.profitFactor # None
      <4>1. PICK g \in Nat, l \in Nat \ {0} : h.profitFactor = <<g, l>>
        BY <2>2, <3>1 DEF IsHistory
      <4>2. PICK m \in Nat : m = 400 * g
        OBVIOUS
      <4>3. PICK x \in Nat : x = Round(m, l)
        BY RoundInScale
      <4>4. AtMost(1000, x) \in Scale
        BY CappedInScale
      <4> QED BY <3>1, <4>1, <4>2, <4>3, <4>4
    <3>2. CASE h.profitFactor = None
      BY <3>2 DEF Scale
    <3> QED BY <3>1, <3>2
  <2>5. depth \in Scale
    <3>1. PICK m \in Nat, d \in Nat \ {0} : m = 1000 * h.occurrences /\ d = 3 * MinSample
      BY <2>2, SMT
    <3>2. PICK x \in Nat : x = Round(m, d)
      BY RoundInScale
    <3>3. AtMost(1000, x) \in Scale
      BY CappedInScale
    <3> QED BY <3>1, <3>2, <3>3
  <2>6. conf \in 0..100
    <3>1. PICK d \in Nat \ {0}, o \in Nat : d = full /\ o = h.occurrences
      BY <2>2, SMT
    <3>2. PICK m \in Nat : m = 40 * d + 55 * AtMost(d, o)
      BY DEF AtMost
    <3>3. PICK x \in Nat : x = Round(m, d)
      BY RoundInScale
    <3>4. AtMost(95, x) \in 0..100
      BY DEF AtMost
    <3> HIDE DEF full
    <3> QED BY <3>1, <3>2, <3>3, <3>4
  <2> HIDE DEF won, factor, depth, conf
  <2>7. BlendOfThree(won, factor, depth) \in Scale
    BY <2>3, <2>4, <2>5, ThreeInScale, Zenon
  <2> QED BY <2>1, <2>6, <2>7 DEF Constructible, Scale
<1> QED BY <1>1, <1>2
-----------------------------------------------------------------------------
(* The tables of behavioral.py. *)
LEMMA TablesInScale ==
  /\ \A key : /\ Lookup(StateMaturity, key, 500) \in Scale
              /\ Lookup(AcceptanceStrength, key, 300) \in Scale
              /\ Lookup(BoConfirmation, key, 200) \in Scale
              /\ Lookup(BoConfirmation, key, 0) \in Scale
              /\ Lookup(McMaturity, key, 0) \in Scale
              /\ Lookup(TransitionRiskBase, key, 400) \in Scale
  /\ \A key : Lookup(AcceptancePenalty, key, 100) \in Int
<1>1. /\ \A k \in DOMAIN StateMaturity : StateMaturity[k] \in Scale
      /\ \A k \in DOMAIN McMaturity : McMaturity[k] \in Scale
      /\ \A k \in DOMAIN TransitionRiskBase : TransitionRiskBase[k] \in Scale
  BY DEF StateMaturity, McMaturity, TransitionRiskBase, Scale
<1>2. /\ \A k \in DOMAIN AcceptanceStrength : AcceptanceStrength[k] \in Scale
      /\ \A k \in DOMAIN BoConfirmation : BoConfirmation[k] \in Scale
  BY DEF AcceptanceStrength, BoConfirmation, Scale
<1>3. \A k \in DOMAIN AcceptancePenalty : AcceptancePenalty[k] \in Int
  BY DEF AcceptancePenalty
<1>4. {500, 300, 200, 0, 400} \subseteq Scale /\ 100 \in Int
  BY DEF Scale
<1> QED BY <1>1, <1>2, <1>3, <1>4 DEF Lookup

IsRead(data) ==
  /\ data.pressure \in Int
  /\ data.bars \in Optional(Nat) /\ data.transitions \in Optional(Nat)

(* The fields of a typed read. *)
LEMMA ReadTyped ==
  ASSUME NEW data, HasTypes(data, ReadTypes)
  PROVE  IsRead(data)
BY DEF HasTypes, ReadTypes, IsRead

(* The seven factors of the behavior score. *)
LEMMA StructureFactor ==
  ASSUME NEW data
  PROVE  StructureValue(data) \in Scale
<1>1. PICK x \in Scale, y \in Scale, z \in Scale :
        /\ x = Lookup(StateMaturity, data.state, 500)
        /\ y = Lookup(BoConfirmation, data.bo, 200)
        /\ z = Lookup(McMaturity, data.mc, 0)
  BY TablesInScale
<1> DEFINE n == 3 * x + 4 * y + 3 * z
<1>2. n \in Int /\ n >= 0 /\ n <= 1000 * 10
  BY SMT DEF Scale
<1>3. StructureValue(data) = Round(n, 10)
  BY <1>1, Zenon DEF StructureValue
<1> HIDE DEF n
<1> QED BY <1>2, <1>3, RoundToScale

(* behavioral.py: forecast reliability is in the scale. *)
LEMMA ForecastFactor ==
  ASSUME NEW data, NEW h, IsHistory(h)
  PROVE  ForecastReliability(data, h) \in Scale
<1>1. CASE data.bias \in {None, "Neutral"} \/ ~Sufficient(h)
  BY <1>1 DEF ForecastReliability, Scale
<1>2. CASE ~ (data.bias \in {None, "Neutral"} \/ ~Sufficient(h))
  <2>1. PICK m \in Nat, d \in Nat \ {0} : m = 300 * h.occurrences /\ d = 4 * MinSample
    BY <1>2, EnginesAssumption, SMT DEF Sufficient, IsHistory
  <2>2. PICK x \in Nat : x = Round(m, d)
    BY RoundInScale
  <2>3. 700 + AtMost(300, x) \in Scale
    BY DEF AtMost, Scale
  <2>4. ForecastReliability(data, h)
          = 700 + AtMost(300, Round(300 * h.occurrences, 4 * MinSample))
    BY <1>2 DEF ForecastReliability
  <2> QED BY <2>1, <2>2, <2>3, <2>4
<1> QED BY <1>1, <1>2

(* behavioral.py: so are the stability, the transition risk and the similarity. *)
LEMMA OtherFactors ==
  ASSUME NEW data, IsRead(data), NEW h, IsHistory(h)
  PROVE  /\ Clamp(0, 1000, data.pressure) \in Scale
         /\ StabilityValue(data) \in Scale
         /\ 1000 - TransitionRisk(data) \in Scale
         /\ HistoricalSimilarity(h) \in Scale
<1>1. Clamp(0, 1000, data.pressure) \in Scale
  <2>1. PICK x \in Int : x = data.pressure
    BY DEF IsRead
  <2>2. Clamp(0, 1000, x) \in Scale
    BY CappedInScale
  <2> QED BY <2>1, <2>2
<1>2. StabilityValue(data) \in Scale
  <2>1. CASE data.bars # None
    <3>1. PICK x \in Nat : x = 50 * data.bars
      BY <2>1, TruthyNumber, SMT DEF IsRead
    <3>2. AtMost(1000, x) \in Scale
      BY CappedInScale
    <3> QED BY <2>1, <3>1, <3>2 DEF StabilityValue
  <2>2. CASE data.bars = None
    BY <2>2 DEF StabilityValue, Scale
  <2> QED BY <2>1, <2>2
<1>3. 1000 - TransitionRisk(data) \in Scale
  <2> DEFINE many == IF data.transitions = None THEN 0
                     ELSE AtMost(200, 40 * data.transitions)
  <2>1. many \in Int
    BY TruthyNumber, SMT DEF IsRead, AtMost
  <2>2. Lookup(TransitionRiskBase, data.state, 400) \in Int
    BY TablesInScale DEF Scale
  <2>3. PICK x \in Int : x = Lookup(TransitionRiskBase, data.state, 400)
                             + Lookup(AcceptancePenalty, data.acceptance, 100) + many
    <3>1. Lookup(AcceptancePenalty, data.acceptance, 100) \in Int
      BY TablesInScale
    <3> HIDE DEF many
    <3> QED BY <2>1, <2>2, <3>1
  <2>4. TransitionRisk(data) = Clamp(0, 1000, x)
    BY <2>3 DEF TransitionRisk
  <2>5. 1000 - Clamp(0, 1000, x) \in Scale
    BY DEF Clamp, AtMost, AtLeast, Scale
  <2> QED BY <2>4, <2>5
<1>4. HistoricalSimilarity(h) \in Scale
  <2>1. PICK x \in Nat : x = 10 * Occurrences(h)
    BY SMT DEF IsHistory
  <2>2. AtMost(1000, x) \in Scale
    BY CappedInScale
  <2> QED BY <2>1, <2>2 DEF HistoricalSimilarity
<1> QED BY <1>1, <1>2, <1>3, <1>4

(* What behavioral.py adds up for its confidence. *)
Lifecycle(data) == 6000000 + 7 * Lookup(BoConfirmation, data.bo, 0)
                                 * (1000 + Lookup(McMaturity, data.mc, 0))
Given(data, h) ==
  Cardinality(Present(<<data.bias, data.bars, data.transitions, h>>))

(* behavioral.py: the confidence, from the life cycle and the inputs there are. *)
LEMMA ConfidenceParts ==
  ASSUME NEW data, NEW h
  PROVE  /\ Lifecycle(data) \in Nat /\ Given(data, h) \in Nat
         /\ BehaviorConfidence(data, h)
              = AtMost(100, Round(3 * Lifecycle(data) + 5000000 * (4 + Given(data, h)),
                                  1000000))
<1>1. Lifecycle(data) \in Nat
  <2>1. PICK x \in Scale, y \in Scale : /\ x = Lookup(BoConfirmation, data.bo, 0)
                                        /\ y = Lookup(McMaturity, data.mc, 0)
    BY TablesInScale
  <2>2. 6000000 + 7 * x * (1000 + y) \in Nat
    BY SMT DEF Scale
  <2> QED BY <2>1, <2>2, SMT DEF Lifecycle
<1>2. Given(data, h) \in Nat
  <2> DEFINE inputs == <<data.bias, data.bars, data.transitions, h>>
  <2>1. Present(inputs) \subseteq 1..4
    BY DEF Present
  <2>2. Given(data, h) = Cardinality(Present(inputs))
    BY DEF Given
  <2> HIDE DEF inputs
  <2>a. 1 \in Int /\ 4 \in Int
    OBVIOUS
  <2>3. IsFiniteSet(1..4)
    BY <2>a, FS_Interval, Zenon
  <2>4. IsFiniteSet(Present(inputs))
    BY <2>1, <2>3, FS_Subset
  <2> QED BY <2>2, <2>4, FS_CardinalityType
<1>3. BehaviorConfidence(data, h)
        = AtMost(100, Round(3 * Lifecycle(data) + 5000000 * (4 + Given(data, h)), 1000000))
  BY SMT DEF BehaviorConfidence, Lifecycle, Given
<1> QED BY <1>1, <1>2, <1>3

(* behavioral.py: constructible for any read and record. *)
LEMMA BehaviorTyped ==
  ASSUME NEW data, IsRead(data), NEW h, IsHistory(h)
  PROVE  Constructible(BehaviorScore(data, h))
<1> DEFINE factor == <<Lookup(AcceptanceStrength, data.acceptance, 300),
                       Clamp(0, 1000, data.pressure), StructureValue(data),
                       ForecastReliability(data, h), StabilityValue(data),
                       1000 - TransitionRisk(data), HistoricalSimilarity(h)>>
<1>1. \A i \in 1..7 : factor[i] \in Scale
  <2>1. Lookup(AcceptanceStrength, data.acceptance, 300) \in Scale
    BY TablesInScale
  <2> QED BY <2>1, StructureFactor, ForecastFactor, OtherFactors
<1>2. BehaviorScore(data, h)
        = [value |-> BlendOfSeven(factor), confidence |-> BehaviorConfidence(data, h)]
  BY SMT DEF BehaviorScore, Score, BlendOfSeven
<1> HIDE DEF factor
<1>3. BlendOfSeven(factor) \in Scale
  BY <1>1, SevenInScale
<1>4. BehaviorConfidence(data, h) \in 0..100
  <2>1. PICK m \in Nat : m = 3 * Lifecycle(data) + 5000000 * (4 + Given(data, h))
    BY ConfidenceParts, SMT
  <2>2. PICK x \in Nat : x = Round(m, 1000000)
    BY RoundInScale, SMT
  <2>3. AtMost(100, x) \in 0..100
    BY DEF AtMost
  <2>4. BehaviorConfidence(data, h) = AtMost(100, x)
    BY <2>1, <2>2, ConfidenceParts, SMT
  <2> QED BY <2>3, <2>4
<1> QED BY <1>2, <1>3, <1>4 DEF Constructible, Scale
-----------------------------------------------------------------------------
(* A measure of the bars adds up over the available timeframes. *)
LEMMA AvailableFinite ==
  ASSUME NEW bars
  PROVE  /\ IsFiniteSet(Available(bars)) /\ Available(bars) \subseteq Timeframes
         /\ Cardinality(Available(bars)) \in Nat
         /\ Cardinality(Available(bars)) <= Cardinality(Timeframes)
         /\ Cardinality(Timeframes) \in Nat
<1>1. Available(bars) \subseteq Timeframes
  BY DEF Available
<1>2. IsFiniteSet(Available(bars))
  BY <1>1, EnginesAssumption, FS_Subset
<1> QED BY <1>1, <1>2, EnginesAssumption, FS_Subset, FS_CardinalityType

(* A sum of integers over a finite domain is an integer. *)
LEMMA TotalIsInt ==
  ASSUME NEW part, IsFiniteSet(DOMAIN part), \A x \in DOMAIN part : part[x] \in Int
  PROVE  SumFunction(part) \in Int
BY SumOfInts DEF SumFunction

IsBars(bars) == bars \in Seq(BarType) /\ Len(bars) >= 2

(* multi_timeframe.py: persistence, acceleration and exhaustion of two or more bars. *)
LEMMA MeasuresTyped ==
  ASSUME NEW bars, IsBars(bars)
  PROVE  /\ Persistence(bars) \in Nat /\ Acceleration(bars) \in Int
         /\ Exhaustion(bars) \in Int
<1> DEFINE n == Len(bars)
<1>0. n \in Nat /\ \A i \in 1..n : bars[i] \in BarType
  BY DEF IsBars
<1>a. \A i \in 1..n : /\ bars[i].high \in Int /\ bars[i].low \in Int
                      /\ bars[i].close \in Int
  BY <1>0 DEF BarType
<1>1. Persistence(bars) \in Nat
  <2> DEFINE same == {i \in 2..n : \A j \in i..n : Rises(bars, j) = Rises(bars, n)}
  <2>1. same \subseteq 2..n
    OBVIOUS
  <2>2. IsFiniteSet(2..n)
    BY <1>0, FS_Interval
  <2>3. Persistence(bars) = Cardinality(same)
    BY DEF Persistence
  <2> HIDE DEF same, n
  <2>4. IsFiniteSet(same)
    BY <2>1, <2>2, FS_Subset
  <2> QED BY <2>3, <2>4, FS_CardinalityType
<1>2. Acceleration(bars) \in Int
  <2>1. CASE n < 2 * Window
    BY <2>1 DEF Acceleration
  <2>2. CASE ~ (n < 2 * Window)
    <3>1. PICK w \in Nat \ {0}, m \in Nat : w = Window /\ m = n
      BY <1>0, EnginesAssumption
    <3>2. m \in 1..m /\ m - w + 1 \in 1..m /\ m - w \in 1..m /\ m - w - w + 1 \in 1..m
      BY <2>2, <3>1
    <3>3. Acceleration(bars) = (bars[m].close - bars[m - w + 1].close)
                               - (bars[m - w].close - bars[m - w - w + 1].close)
      BY <2>2, <3>1 DEF Acceleration, WindowChange
    <3>4. /\ bars[m].close \in Int /\ bars[m - w + 1].close \in Int
          /\ bars[m - w].close \in Int /\ bars[m - w - w + 1].close \in Int
      BY <1>a, <3>1, <3>2
    <3> QED BY <3>3, <3>4
  <2> QED BY <2>1, <2>2
<1>3. Exhaustion(bars) \in Int
  <2>1. CASE n < 2 * Window \/ WindowRange(bars, n - Window) <= 0
    BY <2>1 DEF Exhaustion
  <2>2. CASE ~ (n < 2 * Window \/ WindowRange(bars, n - Window) <= 0)
    <3>1. PICK w \in Nat \ {0}, m \in Nat : w = Window /\ m = n
      BY <1>0, EnginesAssumption
    <3>2. ASSUME NEW e \in Int, e - w + 1 >= 1, e <= m
          PROVE  WindowRange(bars, e) \in Int
      <4> DEFINE part == [i \in e - w + 1..e |-> bars[i].high - bars[i].low]
      <4>1. IsFiniteSet(e - w + 1..e) /\ DOMAIN part = e - w + 1..e
        BY FS_Interval
      <4>2. \A i \in DOMAIN part : part[i] \in Int
        BY <1>a, <3>1, <3>2
      <4>3. WindowRange(bars, e) = SumFunction(part)
        BY <3>1 DEF WindowRange
      <4> HIDE DEF part
      <4> QED BY <4>1, <4>2, <4>3, TotalIsInt
    <3>3. WindowRange(bars, m - w) \in Int /\ WindowRange(bars, m) \in Int
      <4>1. /\ m - w \in Int /\ (m - w) - w + 1 >= 1 /\ m - w <= m
            /\ m - w + 1 >= 1
        BY <2>2, <3>1
      <4> QED BY <3>2, <4>1
    <3>4. PICK prior \in Nat \ {0}, recent \in Int :
            prior = WindowRange(bars, m - w) /\ recent = WindowRange(bars, m)
      BY <2>2, <3>1, <3>3
    <3> DEFINE x == 15000 * (prior - recent)
    <3>5. x \in Int
      OBVIOUS
    <3>6. Exhaustion(bars) = Clamp(0, 10000, Round(x, prior))
      BY <2>2, <3>1, <3>4, SMT DEF Exhaustion, Shrinkage
    <3> HIDE DEF x
    <3>7. PICK y \in Int : y = Round(x, prior)
      BY <3>5, RoundInScale
    <3>8. Clamp(0, 10000, y) \in Int
      BY DEF Clamp, AtMost, AtLeast
    <3> QED BY <3>6, <3>7, <3>8
  <2> QED BY <2>1, <2>2
<1> QED BY <1>1, <1>2, <1>3

(* The blend of the trend, and its averages over the available timeframes. *)
TrendSum(a, b, c, d, e) ==
  LET pairs == << <<a, 30>>, <<b, 20>>, <<c, 15>>, <<d, 15>>, <<e, 20>> >>
  IN  SumFunction([i \in DOMAIN pairs |-> pairs[i][1] * pairs[i][2]])

(* multi_timeframe.py: the blend of the five factors, added up. *)
LEMMA TrendSumIs ==
  ASSUME NEW a \in Int, NEW b \in Int, NEW c \in Int, NEW d \in Int, NEW e \in Int
  PROVE  TrendSum(a, b, c, d, e) = a * 30 + b * 20 + c * 15 + d * 15 + e * 20
<1> DEFINE pairs == << <<a, 30>>, <<b, 20>>, <<c, 15>>, <<d, 15>>, <<e, 20>> >>
           part == [i \in DOMAIN pairs |-> pairs[i][1] * pairs[i][2]]
<1>1. DOMAIN part = 1..5 /\ TrendSum(a, b, c, d, e) = SumFunction(part)
  BY DEF TrendSum
<1>2. /\ part[1] = a * 30 /\ part[2] = b * 20 /\ part[3] = c * 15 /\ part[4] = d * 15
      /\ part[5] = e * 20
  OBVIOUS
<1>3. \A i \in 1..5 : part[i] \in Int
  BY <1>2
<1> HIDE DEF part
<1>4. SumFunctionOnSet(part, 1..5) = part[1] + part[2] + part[3] + part[4] + part[5]
  BY <1>3, SumOfFive
<1>5. SumFunction(part) = SumFunctionOnSet(part, 1..5)
  BY <1>1 DEF SumFunction
<1> QED BY <1>1, <1>2, <1>4, <1>5

Persisting(held)   == SumFunction([tf \in Available(held) |-> Persistence(held[tf])])
Accelerating(held) == SumFunction([tf \in Available(held) |-> Acceleration(held[tf])])
Exhausted(held)    == SumFunction([tf \in Available(held) |-> Exhaustion(held[tf])])

(* multi_timeframe.py: the three totals are integers. *)
LEMMA TotalsTyped ==
  ASSUME NEW held \in [Timeframes -> Seq(BarType)]
  PROVE  /\ Persisting(held) \in Int /\ Accelerating(held) \in Int
         /\ Exhausted(held) \in Int
<1>1. ASSUME NEW tf \in Available(held)
      PROVE  /\ Persistence(held[tf]) \in Int /\ Acceleration(held[tf]) \in Int
             /\ Exhaustion(held[tf]) \in Int
  <2>1. IsBars(held[tf])
    BY DEF Available, IsBars
  <2>2. /\ Persistence(held[tf]) \in Nat /\ Acceleration(held[tf]) \in Int
        /\ Exhaustion(held[tf]) \in Int
    BY <2>1, MeasuresTyped
  <2> QED BY <2>2
<1>2. IsFiniteSet(Available(held))
  BY AvailableFinite
<1> DEFINE p == [tf \in Available(held) |-> Persistence(held[tf])]
           a == [tf \in Available(held) |-> Acceleration(held[tf])]
           e == [tf \in Available(held) |-> Exhaustion(held[tf])]
<1>3. /\ DOMAIN p = Available(held) /\ \A tf \in DOMAIN p : p[tf] \in Int
      /\ DOMAIN a = Available(held) /\ \A tf \in DOMAIN a : a[tf] \in Int
      /\ DOMAIN e = Available(held) /\ \A tf \in DOMAIN e : e[tf] \in Int
  BY <1>1
<1>4. Persisting(held) = SumFunction(p) /\ Accelerating(held) = SumFunction(a)
      /\ Exhausted(held) = SumFunction(e)
  BY DEF Persisting, Accelerating, Exhausted
<1> HIDE DEF p, a, e
<1> QED BY <1>2, <1>3, <1>4, TotalIsInt

(* The timeframes that go one way are finitely many. *)
LEMMA GoingTyped ==
  ASSUME NEW held, NEW direction
  PROVE  Going(held, direction) \in Nat
<1> DEFINE those == {tf \in Available(held) : Direction(held[tf]) = direction}
<1>1. those \subseteq Available(held) /\ IsFiniteSet(Available(held))
  BY AvailableFinite
<1>2. Going(held, direction) = Cardinality(those)
  BY DEF Going
<1> HIDE DEF those
<1>3. IsFiniteSet(those)
  BY <1>1, FS_Subset
<1> QED BY <1>2, <1>3, FS_CardinalityType

(* The factors that do not look at ranges. *)
Agreement(held) ==
  LET rising == Going(held, "Bullish")
      falling == Going(held, "Bearish")
  IN  Round(1000 * (IF rising > falling THEN rising ELSE falling),
            Cardinality(Available(held)))
Pace(held) == AtMost(1000, Round(80 * Persisting(held), Cardinality(Available(held))))
Push(held) ==
  500 + Clamp(-500, 500, Round(50 * Accelerating(held),
                               Window * Cardinality(Available(held))))
Freshness(held) == 1000 - Round(Exhausted(held), 10 * Cardinality(Available(held)))
Confirmation(held, confirmed) ==
  IF confirmed \in {"Bullish", "Bearish"}
  THEN Round(1000 * Going(held, confirmed), Cardinality(Available(held))) ELSE 500

(* All five factors of the trend are integers, and so is what they are averaged over. *)
LEMMA TrendFactorsTyped ==
  ASSUME NEW held \in [Timeframes -> Seq(BarType)], NEW confirmed,
         Available(held) # {}
  PROVE  /\ Agreement(held) \in Int /\ Pace(held) \in Int /\ Push(held) \in Int
         /\ Freshness(held) \in Int /\ Confirmation(held, confirmed) \in Int
         /\ Cardinality(Available(held)) \in Nat \ {0}
<1>0. Cardinality(Available(held)) \in Nat \ {0}
  BY AvailableFinite, FS_EmptySet
<1>1. PICK n \in Nat \ {0} : n = Cardinality(Available(held))
  BY <1>0
<1>2. Agreement(held) \in Int
  <2>1. PICK x \in Int : x = 1000 * (IF Going(held, "Bullish") > Going(held, "Bearish")
                                     THEN Going(held, "Bullish")
                                     ELSE Going(held, "Bearish"))
    BY GoingTyped, SMT
  <2>2. Round(x, n) \in Int
    BY RoundInScale
  <2> QED BY <1>1, <2>1, <2>2, SMT DEF Agreement
<1>3. Pace(held) \in Int
  <2>1. PICK x \in Int : x = 80 * Persisting(held)
    BY TotalsTyped
  <2>2. Round(x, n) \in Int
    BY RoundInScale
  <2> QED BY <1>1, <2>1, <2>2 DEF Pace, AtMost
<1>4. Push(held) \in Int
  <2>1. PICK x \in Int, d \in Nat \ {0} : /\ x = 50 * Accelerating(held)
                                          /\ d = Window * n
    <3>1. 50 * Accelerating(held) \in Int
      BY TotalsTyped
    <3>2. Window * n \in Nat \ {0}
      BY EnginesAssumption
    <3> QED BY <3>1, <3>2
  <2>2. PICK y \in Int : y = Round(x, d)
    BY RoundInScale
  <2>3. 500 + Clamp(-500, 500, y) \in Int
    BY DEF Clamp, AtMost, AtLeast
  <2> QED BY <1>1, <2>1, <2>2, <2>3 DEF Push
<1>5. Freshness(held) \in Int
  <2>1. PICK x \in Int, d \in Nat \ {0} : x = Exhausted(held) /\ d = 10 * n
    BY TotalsTyped
  <2>2. Round(x, d) \in Int
    BY RoundInScale
  <2> QED BY <1>1, <2>1, <2>2 DEF Freshness
<1>6. Confirmation(held, confirmed) \in Int
  <2>1. PICK x \in Int : x = 1000 * Going(held, confirmed)
    BY GoingTyped
  <2>2. Round(x, n) \in Int
    BY RoundInScale
  <2> QED BY <1>1, <2>1, <2>2 DEF Confirmation
<1> QED BY <1>0, <1>2, <1>3, <1>4, <1>5, <1>6

(* multi_timeframe.py: the value of a trend, of its factors and its penalty. *)
TrendTop(held, confirmed) ==
  Cardinality(Available(held))
    * TrendSum(Agreement(held), Pace(held), Push(held), Freshness(held),
               Confirmation(held, confirmed))
  - 3 * Exhausted(held)

(* multi_timeframe.py: the trend score is that of the factors named here. *)
LEMMA TrendIs ==
  ASSUME NEW held \in [Timeframes -> Seq(BarType)], NEW confirmed
  PROVE  TrendScore(held, confirmed)
           = IF Cardinality(Available(held)) = 0 THEN Score(500, 15)
             ELSE Score(Clamp(0, 1000, Round(TrendTop(held, confirmed),
                                             100 * Cardinality(Available(held)))),
                        TrendConfidence(Cardinality(Available(held))))
BY Zenon DEF TrendScore, TrendFactors, TrendTop, TrendSum, Agreement, Pace, Push,
             Freshness, Confirmation, Persisting, Accelerating, Exhausted

(* The numerator of the trend is an integer. *)
LEMMA TrendTopTyped ==
  ASSUME NEW held \in [Timeframes -> Seq(BarType)], NEW confirmed,
         Available(held) # {}
  PROVE  TrendTop(held, confirmed) \in Int
<1> DEFINE a == Agreement(held)
           b == Pace(held)
           c == Push(held)
           d == Freshness(held)
           e == Confirmation(held, confirmed)
<1>1. a \in Int /\ b \in Int /\ c \in Int /\ d \in Int /\ e \in Int
  BY TrendFactorsTyped
<1>2. Cardinality(Available(held)) \in Int /\ Exhausted(held) \in Int
  BY TrendFactorsTyped, TotalsTyped
<1>3. TrendTop(held, confirmed)
        = Cardinality(Available(held)) * TrendSum(a, b, c, d, e) - 3 * Exhausted(held)
  BY DEF TrendTop
<1> HIDE DEF a, b, c, d, e
<1>4. TrendSum(a, b, c, d, e) = a * 30 + b * 20 + c * 15 + d * 15 + e * 20
  BY <1>1, TrendSumIs
<1>5. TrendSum(a, b, c, d, e) \in Int
  BY <1>1, <1>4
<1> QED BY <1>2, <1>3, <1>5

(* multi_timeframe.py: constructible for any bars. *)
LEMMA TrendTyped ==
  ASSUME NEW held \in [Timeframes -> Seq(BarType)], NEW confirmed
  PROVE  Constructible(TrendScore(held, confirmed))
<1> DEFINE n == Cardinality(Available(held))
<1>1. CASE n = 0
  <2>1. TrendScore(held, confirmed) = Score(500, 15)
    BY <1>1, TrendIs
  <2> QED BY <2>1 DEF Score, Constructible
<1>2. CASE n # 0
  <2> DEFINE top == TrendTop(held, confirmed)
  <2>1. TrendScore(held, confirmed)
          = Score(Clamp(0, 1000, Round(top, 100 * n)), TrendConfidence(n))
    BY <1>2, TrendIs
  <2>2. Available(held) # {}
    BY <1>2, FS_EmptySet
  <2>3. n \in Nat \ {0} /\ n <= Cardinality(Timeframes) /\ Cardinality(Timeframes) \in Nat
    BY <1>2, AvailableFinite
  <2>5. top \in Int /\ 100 * n \in Nat \ {0}
    BY <2>2, <2>3, TrendTopTyped
  <2> HIDE DEF top, n
  <2>6. PICK x \in Int : x = Round(top, 100 * n)
    <3>1. PICK t \in Int, d \in Nat \ {0} : t = top /\ d = 100 * n
      BY <2>5
    <3>2. Round(t, d) \in Int
      BY RoundInScale
    <3> QED BY <3>1, <3>2
  <2>7. Clamp(0, 1000, x) \in Scale
    BY CappedInScale
  <2>8. TrendConfidence(n) \in 0..100
    <3>1. PICK all \in Nat \ {0}, m \in Nat : all = Cardinality(Timeframes) /\ m = n
      BY <2>3
    <3>2. PICK t \in Nat : t = 35 * all + 55 * m
      OBVIOUS
    <3>3. PICK y \in Nat : y = Round(t, all)
      BY RoundInScale
    <3>4. AtMost(90, y) \in 0..100
      BY DEF AtMost
    <3> QED BY <3>1, <3>2, <3>3, <3>4 DEF TrendConfidence
  <2> QED BY <2>1, <2>6, <2>7, <2>8 DEF Score, Constructible, Scale
<1> QED BY <1>1, <1>2
-----------------------------------------------------------------------------
(* The weights of news, and what they weigh. *)
Heft(news) ==
  [i \in DOMAIN news |->
     news[i].relevance * news[i].confidence
     * (IF news[i].reliability = None THEN 12 ELSE news[i].reliability)]
Rated(news) == [i \in DOMAIN news |-> Lookup(ImpactMap, news[i].impact, 500)]
Impact(news) ==
  [i \in DOMAIN news |-> Heft(news)[i] * Lookup(ImpactMap, news[i].impact, 500)]

IsNews(news) ==
  \E n \in Nat : /\ DOMAIN news = 1..n /\ (n = 0 => news = <<>>) /\ Len(news) = n
                 /\ \A i \in 1..n : Heft(news)[i] \in Nat

(* news_score.py: every impact is worth a value of the scale. *)
LEMMA RatedInScale == \A key : Lookup(ImpactMap, key, 500) \in Scale
<1>1. \A k \in DOMAIN ImpactMap : ImpactMap[k] \in Scale
  BY DEF ImpactMap, Scale
<1>2. 500 \in Scale
  BY DEF Scale
<1> QED BY <1>1, <1>2 DEF Lookup

(* news_score.py: constructible for any headlines. *)
LEMMA NewsTyped ==
  ASSUME NEW news, IsNews(news)
  PROVE  Constructible(NewsScore(news))
<1>1. PICK n \in Nat : /\ DOMAIN news = 1..n /\ (n = 0 => news = <<>>) /\ Len(news) = n
                       /\ \A i \in 1..n : Heft(news)[i] \in Nat
  BY DEF IsNews
<1> DEFINE weight == SumFunction(Heft(news))
           impact == SumFunction(Impact(news))
<1>2. NewsScore(news)
        = IF news = <<>> THEN Score(0, 20)
          ELSE Score(IF weight > 0 THEN Round(impact, weight) ELSE 500,
                     AtMost(90, Round(100 * weight, Unit * Unit * Unit * Len(news))))
  BY Zenon DEF NewsScore, Heft, Impact
<1>3. /\ weight \in Nat /\ impact \in Int /\ 0 <= impact /\ impact <= 1000 * weight
  <2> DEFINE w == Heft(news)
             v == Rated(news)
             p == Impact(news)
  <2>1. DOMAIN w = 1..n /\ DOMAIN p = 1..n /\ IsFiniteSet(1..n)
    BY <1>1, FS_Interval DEF Heft, Impact
  <2>2. \A i \in 1..n : /\ w[i] \in Nat /\ v[i] \in Int /\ p[i] = v[i] * w[i]
                        /\ 0 <= v[i] /\ v[i] <= 1000
    <3>1. ASSUME NEW i \in 1..n
          PROVE  /\ w[i] \in Nat /\ v[i] \in Int /\ p[i] = v[i] * w[i]
                 /\ 0 <= v[i] /\ v[i] <= 1000
      <4>1. PICK x \in Scale : x = Lookup(ImpactMap, news[i].impact, 500)
        BY RatedInScale
      <4>2. v[i] = x /\ p[i] = w[i] * x
        BY <1>1, <4>1 DEF Rated, Impact
      <4>3. PICK h \in Nat : h = w[i]
        BY <1>1
      <4> QED BY <4>2, <4>3 DEF Scale
    <3> QED BY <3>1
  <2>3. weight = SumFunctionOnSet(w, 1..n) /\ impact = SumFunctionOnSet(p, 1..n)
    BY <2>1 DEF SumFunction
  <2> HIDE DEF w, v, p, weight, impact
  <2> DEFINE D  == 1..n
             lo == 0
             hi == 1000
  <2>4. lo \in Int /\ hi \in Int
    OBVIOUS
  <2>5. /\ IsFiniteSet(D)
        /\ \A i \in D : /\ w[i] \in Nat /\ v[i] \in Int /\ p[i] = v[i] * w[i]
                        /\ lo <= v[i] /\ v[i] <= hi
    BY <2>1, <2>2
  <2> HIDE DEF D, lo, hi
  <2>6. /\ SumFunctionOnSet(w, D) \in Nat /\ SumFunctionOnSet(p, D) \in Int
        /\ lo * SumFunctionOnSet(w, D) <= SumFunctionOnSet(p, D)
        /\ SumFunctionOnSet(p, D) <= hi * SumFunctionOnSet(w, D)
    BY <2>4, <2>5, WeightedSum
  <2>7. \A s \in Nat, q \in Int : lo * s <= q /\ q <= hi * s => 0 <= q /\ q <= 1000 * s
    BY DEF lo, hi
  <2>8. /\ weight \in Nat /\ impact \in Int
        /\ lo * weight <= impact /\ impact <= hi * weight
    BY <2>3, <2>6, Zenon DEF D
  <2> QED BY <2>7, <2>8
<1> HIDE DEF weight, impact
<1>4. CASE n = 0
  BY <1>1, <1>2, <1>4 DEF Score, Constructible
<1>5. CASE n # 0
  <2>1. CASE news = <<>>
    BY <1>2, <2>1 DEF Score, Constructible
  <2>2. CASE news # <<>>
    <3>1. PICK w \in Nat, x \in Int : w = weight /\ x = impact
      BY <1>3
    <3>2. (IF w > 0 THEN Round(x, w) ELSE 500) \in Scale
      <4>1. CASE w > 0
        <5>1. w \in Nat \ {0} /\ x >= 0 /\ x <= 1000 * w
          BY <1>3, <3>1, <4>1
        <5>2. Round(x, w) \in Scale
          BY <5>1, RoundToScale
        <5> QED BY <4>1, <5>2
      <4>2. CASE ~ (w > 0)
        BY <4>2 DEF Scale
      <4> QED BY <4>1, <4>2
    <3>3. PICK t \in Nat, d \in Nat \ {0} : t = 100 * w /\ d = Unit * Unit * Unit * n
      BY <1>5, SMT DEF Unit
    <3>4. PICK y \in Nat : y = Round(t, d)
      BY RoundInScale
    <3>5. AtMost(90, y) \in 0..100
      BY DEF AtMost
    <3>6. NewsScore(news) = Score(IF w > 0 THEN Round(x, w) ELSE 500, AtMost(90, y))
      BY <1>1, <1>2, <2>2, <3>1, <3>3, <3>4, Zenon
    <3> QED BY <3>2, <3>5, <3>6 DEF Score, Constructible, Scale
  <2> QED BY <2>1, <2>2
<1> QED BY <1>4, <1>5
-----------------------------------------------------------------------------
(* Seven tenths of an average and three of the lowest value, and six and four. *)
LEMMA Mixture ==
  ASSUME NEW t \in Nat \ {0}, NEW c \in Int, NEW lo \in Int, NEW hi \in Int,
         lo <= hi, lo * t <= c, c <= hi * t
  PROVE  /\ lo * (10 * t) <= 7 * c + 3 * lo * t /\ 7 * c + 3 * lo * t <= hi * (10 * t)
         /\ (10 * lo) * t <= 6 * c + 4 * t * lo /\ 6 * c + 4 * t * lo <= (10 * hi) * t
<1>1. PICK a \in Int, b \in Int : a = lo * t /\ b = hi * t
  OBVIOUS
<1>2. a <= b
  BY <1>1
<1>3. /\ lo * (10 * t) = 10 * a /\ hi * (10 * t) = 10 * b /\ 3 * lo * t = 3 * a
      /\ (10 * lo) * t = 10 * a /\ (10 * hi) * t = 10 * b /\ 4 * t * lo = 4 * a
  BY <1>1
<1> QED BY <1>1, <1>2, <1>3

(* scoring.py: there are six components. *)
LEMMA ComponentsFinite ==
  /\ IsFiniteSet(Components) /\ "news" \in Components
  /\ Cardinality(Components) \in Nat \ {0}
<1>1. IsFiniteSet(Components)
  <2>1. IsFiniteSet({}) /\ \A S, x : IsFiniteSet(S) => IsFiniteSet(S \cup {x})
    BY FS_EmptySet, FS_AddElement
  <2>2. IsFiniteSet(((((({} \cup {"behavior"}) \cup {"structure"}) \cup {"liquidity"})
                      \cup {"historical"}) \cup {"trend"}) \cup {"news"})
    BY <2>1, Zenon
  <2>3. Components = (((((({} \cup {"behavior"}) \cup {"structure"}) \cup {"liquidity"})
                        \cup {"historical"}) \cup {"trend"}) \cup {"news"})
    BY DEF Components
  <2> QED BY <2>2, <2>3, Zenon
<1>2. "news" \in Components
  BY DEF Components
<1> QED BY <1>1, <1>2, FS_EmptySet, FS_CardinalityType

(* Six scores with their values and confidences. *)
AreScores(scores) ==
  \A c \in Components : scores[c].value \in Int /\ scores[c].confidence \in 0..100

Values(scores) == [c \in Components |-> scores[c].value]
Confidences(scores) == [c \in Components |-> scores[c].confidence]
Total == SumFunctionOnSet(OpportunityWeights, Components)

(* scoring.py: every component has a weight, and the weights add up to a positive total. *)
LEMMA WeightsTyped ==
  /\ \A c \in Components : OpportunityWeights[c] \in Nat
  /\ Total \in Nat \ {0} /\ SumFunction(OpportunityWeights) = Total
<1>1. \A c \in Components : OpportunityWeights[c] \in Nat
  BY DEF Components, OpportunityWeights
<1>2. DOMAIN OpportunityWeights = Components /\ OpportunityWeights["news"] = 10
  BY DEF Components, OpportunityWeights
<1>3. SumFunction(OpportunityWeights) = Total
  BY <1>2 DEF SumFunction, Total
<1>4. Total \in Nat \ {0}
  <2> DEFINE rest == Components \ {"news"}
             zero == [c \in rest |-> 0]
  <2>1. Total = OpportunityWeights["news"] + SumFunctionOnSet(OpportunityWeights, rest)
    BY <1>1, ComponentsFinite, SumTakeOut DEF Total
  <2>2. IsFiniteSet(rest) /\ rest \subseteq Components
    BY ComponentsFinite, FS_Subset
  <2>3. \A c \in rest : zero[c] = 0 /\ zero[c] \in Int
    OBVIOUS
  <2> HIDE DEF rest, zero
  <2>4. SumFunctionOnSet(OpportunityWeights, rest) \in Int
    BY <1>1, <2>2, SumOfInts
  <2>5. SumFunctionOnSet(zero, rest) <= SumFunctionOnSet(OpportunityWeights, rest)
    BY <1>1, <2>2, <2>3, SumMonotone
  <2>6. SumFunctionOnSet(zero, rest) = 0
    <3>1. SumFunctionOnSet(zero, rest) = 0 * Cardinality(rest)
      BY <2>2, <2>3, SumConstant
    <3>2. Cardinality(rest) \in Nat
      BY <2>2, FS_CardinalityType
    <3> QED BY <3>1, <3>2
  <2> QED BY <1>2, <2>1, <2>4, <2>5, <2>6
<1> QED BY <1>1, <1>3, <1>4

(* scoring.py: what bounds every component bounds their weighted mean. *)
LEMMA WeightedIs ==
  ASSUME NEW v, \A c \in Components : v[c] \in Int,
         NEW lo \in Int, NEW hi \in Int, \A c \in Components : lo <= v[c] /\ v[c] <= hi
  PROVE  /\ Weighted(v) \in Int /\ lo * Total <= Weighted(v) /\ Weighted(v) <= hi * Total
         /\ Round(Weighted(v), Total) \in Int
         /\ lo <= Round(Weighted(v), Total) /\ Round(Weighted(v), Total) <= hi
<1> DEFINE p == [c \in Components |-> v[c] * OpportunityWeights[c]]
<1>1. DOMAIN p = Components /\ Weighted(v) = SumFunction(p)
  BY DEF Weighted
<1>2. \A c \in Components : /\ OpportunityWeights[c] \in Nat /\ v[c] \in Int
                            /\ p[c] = v[c] * OpportunityWeights[c]
                            /\ lo <= v[c] /\ v[c] <= hi
  BY WeightsTyped
<1> HIDE DEF p
<1>3. Weighted(v) = SumFunctionOnSet(p, Components)
  BY <1>1 DEF SumFunction
<1>4. PICK t \in Nat \ {0} : t = Total
  BY WeightsTyped
<1>5. /\ SumFunctionOnSet(p, Components) \in Int
      /\ lo * SumFunctionOnSet(OpportunityWeights, Components)
           <= SumFunctionOnSet(p, Components)
      /\ SumFunctionOnSet(p, Components)
           <= hi * SumFunctionOnSet(OpportunityWeights, Components)
  <2>1. IsFiniteSet(Components)
    BY ComponentsFinite
  <2> QED BY <1>2, <2>1, WeightedSum
<1>6. PICK n \in Int : n = Weighted(v) /\ lo * t <= n /\ n <= hi * t
  BY <1>3, <1>4, <1>5 DEF Total
<1>7. Round(n, t) \in Int /\ lo <= Round(n, t) /\ Round(n, t) <= hi
  BY <1>6, RoundBetween
<1> QED BY <1>4, <1>6, <1>7

(* confidence.py: the lowest confidence is that of a component, and no other is lower. *)
LEMMA LowestIs ==
  ASSUME NEW scores, AreScores(scores)
  PROVE  /\ \E c \in Components : Lowest(scores) = scores[c].confidence
         /\ \A c \in Components : Lowest(scores) <= scores[c].confidence
         /\ Lowest(scores) \in 0..100
<1> DEFINE all == {scores[c].confidence : c \in Components}
<1>1. PICK c \in Components :
        \A d \in Components : Confidences(scores)[c] <= Confidences(scores)[d]
  <2>1. \A d \in Components : Confidences(scores)[d] \in Int
    BY DEF Confidences, AreScores
  <2> QED BY <2>1, ComponentsFinite, LeastElement
<1>2. scores[c].confidence \in all /\ \A y \in all : scores[c].confidence <= y
  BY <1>1 DEF Confidences
<1>3. Lowest(scores) = CHOOSE x \in all : \A y \in all : x <= y
  BY DEF Lowest, Min
<1>4. Lowest(scores) \in all /\ \A y \in all : Lowest(scores) <= y
  <2> HIDE DEF all
  <2> QED BY <1>2, <1>3
<1> QED BY <1>4 DEF AreScores

(* The least and the greatest of six integers. *)
LEMMA Extremes ==
  ASSUME NEW v, \A c \in Components : v[c] \in Int
  PROVE  /\ \E b \in Components : \A c \in Components : v[b] <= v[c]
         /\ \E b \in Components : \A c \in Components : v[c] <= v[b]
BY ComponentsFinite, LeastElement, GreatestElement

AnyBetween(x, measure) ==
  /\ \E c \in Components : measure[c] <= x
  /\ \E c \in Components : measure[c] >= x

(* scoring.py: the blended value is between the values, its confidence between
   the confidences. *)
LEMMA OpportunityBetween ==
  ASSUME NEW scores, AreScores(scores)
  PROVE  /\ OpportunityScore(scores).value \in Int
         /\ AnyBetween(OpportunityScore(scores).value, Values(scores))
         /\ OpportunityScore(scores).confidence \in 0..100
         /\ AnyBetween(OpportunityScore(scores).confidence, Confidences(scores))
<1> DEFINE x == Round(Weighted(Values(scores)), Total)
           conf == Weighted(Confidences(scores))
           y == AtMost(100, Round(7 * conf + 3 * Lowest(scores) * Total, 10 * Total))
<1>1. OpportunityScore(scores) = Score(x, y)
  <2>1. SumFunction(OpportunityWeights) = Total
    BY WeightsTyped
  <2> QED BY <2>1, Zenon DEF OpportunityScore, Values, Confidences
<1>2. x \in Int /\ AnyBetween(x, Values(scores))
  <2> DEFINE v == Values(scores)
  <2>1. \A c \in Components : v[c] \in Int
    BY DEF Values, AreScores
  <2> HIDE DEF v
  <2>2. PICK a \in Components, b \in Components :
          /\ \A c \in Components : v[a] <= v[c]
          /\ \A c \in Components : v[c] <= v[b]
    BY <2>1, Extremes
  <2>3. PICK lo \in Int, hi \in Int : lo = v[a] /\ hi = v[b]
    BY <2>1
  <2>4. \A c \in Components : lo <= v[c] /\ v[c] <= hi
    BY <2>2, <2>3
  <2>5. /\ Round(Weighted(v), Total) \in Int
        /\ lo <= Round(Weighted(v), Total) /\ Round(Weighted(v), Total) <= hi
    BY <2>1, <2>4, WeightedIs
  <2> QED BY <2>3, <2>5 DEF AnyBetween, v
<1>3. y \in 0..100 /\ AnyBetween(y, Confidences(scores))
  <2> DEFINE v == Confidences(scores)
  <2>1. \A c \in Components : v[c] \in 0..100
    BY DEF Confidences, AreScores
  <2>a. /\ \A c \in Components : v[c] = scores[c].confidence
        /\ \E c \in Components : Lowest(scores) = scores[c].confidence
        /\ \A c \in Components : Lowest(scores) <= scores[c].confidence
        /\ Lowest(scores) \in 0..100
    BY LowestIs DEF Confidences
  <2> HIDE DEF v
  <2>2. PICK a \in Components : Lowest(scores) = v[a]
    BY <2>a
  <2>b. \A c \in Components : v[c] \in Int
    BY <2>1
  <2>3. PICK b \in Components : \A c \in Components : v[c] <= v[b]
    BY <2>b, Extremes
  <2>4. PICK lo \in Int, hi \in Int : lo = v[a] /\ hi = v[b]
    BY <2>b
  <2>5. /\ \A c \in Components : lo <= v[c] /\ v[c] <= hi
        /\ lo <= hi /\ hi <= 100 /\ 0 <= lo
    BY <2>1, <2>2, <2>3, <2>4, <2>a
  <2>6. PICK c \in Int, t \in Nat \ {0} :
          c = Weighted(v) /\ t = Total /\ lo * t <= c /\ c <= hi * t
    BY <2>b, <2>5, WeightedIs, WeightsTyped
  <2>7. /\ lo * (10 * t) <= 7 * c + 3 * lo * t
        /\ 7 * c + 3 * lo * t <= hi * (10 * t)
    BY <2>5, <2>6, Mixture
  <2>8. PICK n \in Int, d \in Nat \ {0} : n = 7 * c + 3 * lo * t /\ d = 10 * t
    OBVIOUS
  <2>9. lo * d <= n /\ n <= hi * d
    BY <2>7, <2>8
  <2>10. Round(n, d) \in Int /\ lo <= Round(n, d) /\ Round(n, d) <= hi
    BY <2>9, RoundBetween
  <2>11. y = AtMost(100, Round(n, d))
    BY <2>2, <2>4, <2>6, <2>8 DEF v
  <2> HIDE DEF y
  <2>12. y = Round(n, d)
    BY <2>5, <2>10, <2>11 DEF AtMost
  <2> QED BY <2>4, <2>5, <2>10, <2>12 DEF AnyBetween, v
<1> HIDE DEF x, y
<1> QED BY <1>1, <1>2, <1>3 DEF Score

(* confidence.py: in tenths, the confidence score is between the confidences. *)
LEMMA ConfidenceBetween ==
  ASSUME NEW scores, AreScores(scores)
  PROVE  /\ ConfidenceScore(scores).value \in Scale
         /\ ConfidenceScore(scores).confidence \in 0..100
         /\ AnyBetween(ConfidenceScore(scores).value,
                       [c \in Components |-> 10 * Confidences(scores)[c]])
<1> DEFINE v == Confidences(scores)
           n == Cardinality(Components)
           x == Round(6 * SumFunction(v) + 4 * n * Lowest(scores), n)
<1>1. ConfidenceScore(scores) = Score(x, Lowest(scores))
  BY Zenon DEF ConfidenceScore, Confidences
<1>2. \A c \in Components : v[c] \in 0..100
  BY DEF Confidences, AreScores
<1>3. /\ DOMAIN v = Components
      /\ \E c \in Components : Lowest(scores) = v[c]
      /\ \A c \in Components : Lowest(scores) <= v[c]
      /\ Lowest(scores) \in 0..100
  BY LowestIs DEF Confidences
<1> HIDE DEF v
<1>4. PICK a \in Components : Lowest(scores) = v[a]
  BY <1>3
<1>5. \A c \in Components : v[c] \in Int
  BY <1>2
<1>6. PICK b \in Components : \A c \in Components : v[c] <= v[b]
  BY <1>5, Extremes
<1>7. PICK lo \in Int, hi \in Int : lo = v[a] /\ hi = v[b]
  BY <1>5
<1>8. /\ \A c \in Components : lo <= v[c] /\ v[c] <= hi
      /\ lo <= hi /\ hi <= 100 /\ 0 <= lo
  BY <1>2, <1>3, <1>4, <1>6, <1>7
<1>9. PICK t \in Nat \ {0} : t = n
  BY ComponentsFinite
<1>10. PICK s \in Int : s = SumFunction(v) /\ lo * t <= s /\ s <= hi * t
  <2> DEFINE one == [c \in Components |-> 1]
  <2>1. \A c \in Components : /\ one[c] = 1 /\ one[c] \in Nat /\ v[c] \in Int
                              /\ v[c] = v[c] * one[c]
                              /\ lo <= v[c] /\ v[c] <= hi
    BY <1>5, <1>8
  <2> HIDE DEF one
  <2>2. IsFiniteSet(Components)
    BY ComponentsFinite
  <2>3. SumFunctionOnSet(one, Components) = 1 * Cardinality(Components)
    BY <2>1, <2>2, SumConstant
  <2>4. SumFunctionOnSet(one, Components) = t
    BY <2>3, <1>9
  <2>5. /\ SumFunctionOnSet(v, Components) \in Int
        /\ lo * SumFunctionOnSet(one, Components) <= SumFunctionOnSet(v, Components)
        /\ SumFunctionOnSet(v, Components) <= hi * SumFunctionOnSet(one, Components)
    BY <2>1, <2>2, WeightedSum
  <2>6. SumFunction(v) = SumFunctionOnSet(v, Components)
    BY <1>3 DEF SumFunction
  <2> QED BY <2>4, <2>5, <2>6
<1>11. PICK low \in Int, high \in Int, m \in Int :
         low = 10 * lo /\ high = 10 * hi /\ m = 6 * s + 4 * t * lo
  OBVIOUS
<1>12. low * t <= m /\ m <= high * t
  <2>1. (10 * lo) * t <= 6 * s + 4 * t * lo /\ 6 * s + 4 * t * lo <= (10 * hi) * t
    BY <1>8, <1>10, Mixture
  <2> QED BY <2>1, <1>11
<1>13. Round(m, t) \in Int /\ low <= Round(m, t) /\ Round(m, t) <= high
  BY <1>12, RoundBetween
<1>14. x = Round(m, t)
  BY <1>4, <1>7, <1>9, <1>10, <1>11
<1> HIDE DEF x
<1>15. x \in Scale
  BY <1>8, <1>11, <1>13, <1>14 DEF Scale
<1>16. AnyBetween(x, [c \in Components |-> 10 * v[c]])
  BY <1>7, <1>11, <1>13, <1>14 DEF AnyBetween
<1> QED BY <1>1, <1>3, <1>15, <1>16 DEF Score, v
-----------------------------------------------------------------------------
(* What is known in a typed state. *)
LEMMA NewsAreTyped ==
  ASSUME articles \in Seq(ArticleType)
  PROVE  IsNews(News)
<1>1. PICK n \in Nat : n = Len(articles) /\ DOMAIN articles = 1..n
  OBVIOUS
<1>2. DOMAIN News = 1..n /\ (n = 0 => News = <<>>) /\ Len(News) = n
  BY <1>1 DEF News
<1>3. ASSUME NEW i \in 1..n PROVE Heft(News)[i] \in Nat
  <2> DEFINE item == ParseNewsArticle(articles[i], "symbol")
  <2>1. News[i] = item
    BY <1>1 DEF News
  <2>2. /\ item.confidence \in Nat /\ item.relevance \in Nat
        /\ item.reliability = None
    BY DEF ParseNewsArticle
  <2>3. Heft(News)[i] = News[i].relevance * News[i].confidence
          * (IF News[i].reliability = None THEN 12 ELSE News[i].reliability)
    BY <1>2 DEF Heft
  <2> HIDE DEF item
  <2>4. Heft(News)[i] = item.relevance * item.confidence * 12
    BY <2>1, <2>2, <2>3
  <2> QED BY <2>2, <2>4
<1> QED BY <1>2, <1>3 DEF IsNews

(* What is typed makes typed evidence of every component. *)
LEMMA KnownTyped ==
  ASSUME TypeOK
  PROVE  /\ IsMarket(Market) /\ IsHistory(History(trades)) /\ IsRead(behavior)
         /\ series \in [Timeframes -> Seq(BarType)] /\ IsNews(News)
<1>1. /\ HasTypes(raw, SnapshotTypes) /\ HasTypes(mock, MockTypes)
      /\ HasTypes(behavior, ReadTypes) /\ trades \in Seq(TradeType)
      /\ series \in [Timeframes -> Seq(BarType)] /\ articles \in Seq(ArticleType)
  BY DEF TypeOK, WellTyped
<1>2. IsMarket(Market)
  BY <1>1, MarketTyped DEF Market
<1>3. IsHistory(History(trades))
  BY <1>1, StatsTyped DEF History
<1> QED BY <1>1, <1>2, <1>3, ReadTyped, NewsAreTyped

(* What __post_init__ accepts, as membership in the scale. *)
LEMMA ConstructibleMeans ==
  ASSUME NEW s
  PROVE  /\ Constructible(s) => s.value \in Int /\ s.confidence \in 0..100
         /\ Constructible(s) <=> s.value \in Scale /\ s.confidence \in 0..100
BY DEF Constructible, Scale

(* A value between values of the scale is in the scale. *)
LEMMA BetweenInScale ==
  ASSUME NEW x \in Int, NEW v, \A c \in Components : v[c] \in Scale, AnyBetween(x, v)
  PROVE  x \in Scale
<1>1. PICK c \in Components : v[c] <= x
  BY DEF AnyBetween
<1>2. PICK d \in Components : v[d] >= x
  BY DEF AnyBetween
<1>3. PICK low \in Scale, high \in Scale : low = v[c] /\ high = v[d]
  OBVIOUS
<1>4. low <= x /\ x <= high
  BY <1>1, <1>2, <1>3
<1>5. 0 <= low /\ low \in Int /\ high <= 1000 /\ high \in Int
  BY DEF Scale
<1>6. 0 <= x /\ x <= 1000
  BY <1>4, <1>5
<1>7. \A y \in Int : 0 <= y /\ y <= 1000 => y \in Scale
  BY DEF Scale
<1> QED BY <1>6, <1>7

(* Every score but that of the structure is constructible whatever is known. *)
LEMMA ComponentsTyped ==
  ASSUME TypeOK
  PROVE  /\ \A c \in Components \ {"structure"} : Constructible(Scores[c])
         /\ Scores["structure"] = StructureScore(Market)
         /\ AreScores(Scores)
<1>0. /\ IsMarket(Market) /\ IsHistory(History(trades)) /\ IsRead(behavior)
      /\ series \in [Timeframes -> Seq(BarType)] /\ IsNews(News)
  BY KnownTyped
<1>1. /\ Scores["behavior"] = BehaviorScore(behavior, History(trades))
      /\ Scores["structure"] = StructureScore(Market)
      /\ Scores["liquidity"] = LiquidityScore(Market)
      /\ Scores["historical"] = HistoricalScore(History(trades))
      /\ Scores["trend"] = TrendScore(series, behavior.direction)
      /\ Scores["news"] = NewsScore(News)
  BY DEF Scores, Trend
<1>2. /\ Constructible(BehaviorScore(behavior, History(trades)))
      /\ Constructible(LiquidityScore(Market))
      /\ Constructible(HistoricalScore(History(trades)))
      /\ Constructible(TrendScore(series, behavior.direction))
      /\ Constructible(NewsScore(News))
  BY <1>0, BehaviorTyped, LiquidityTyped, HistoricalTyped, TrendTyped, NewsTyped
<1>3. \A c \in Components \ {"structure"} : Constructible(Scores[c])
  BY <1>1, <1>2 DEF Components
<1>4. /\ StructureScore(Market).value \in Int
      /\ StructureScore(Market).confidence \in 0..100
  BY <1>0, StructureTyped
<1>5. AreScores(Scores)
  <2>1. ASSUME NEW c \in Components
        PROVE  Scores[c].value \in Int /\ Scores[c].confidence \in 0..100
    <3>1. CASE c = "structure"
      BY <1>1, <1>4, <3>1
    <3>2. CASE c # "structure"
      <4>1. Constructible(Scores[c])
        BY <1>3, <3>2
      <4> QED BY <4>1, ConstructibleMeans, Zenon
    <3> QED BY <3>1, <3>2
  <2> QED BY <2>1 DEF AreScores
<1> QED BY <1>1, <1>3, <1>5

(* scoring.py:23-26 and confidence.py:20-23: the blends are averages. *)
THEOREM BlendsAreAverages == Spec => []BlendsStayBetween
<1>1. TypeOK => BlendsStayBetween
  <2> SUFFICES ASSUME TypeOK PROVE BlendsStayBetween
    OBVIOUS
  <2>1. PICK scores : scores = Scores
    OBVIOUS
  <2>2. AreScores(scores)
    BY <2>1, ComponentsTyped
  <2>3. /\ AnyBetween(OpportunityScore(scores).value, Values(scores))
        /\ AnyBetween(OpportunityScore(scores).confidence, Confidences(scores))
        /\ AnyBetween(ConfidenceScore(scores).value,
                      [c \in Components |-> 10 * Confidences(scores)[c]])
    BY <2>2, OpportunityBetween, ConfidenceBetween
  <2> QED BY <2>1, <2>3, Zenon DEF BlendsStayBetween, AnyBetween, Values, Confidences
<1> QED BY <1>1, TypeCorrect, PTL

(* evidence.py:32-36: no symbol of the universe whose quote and day are not
   inverted has a score that cannot be constructed. *)
THEOREM EveryScoreConstructible == Spec => []ScoresConstructible
<1>1. TypeOK => ScoresConstructible
  <2> SUFFICES ASSUME TypeOK, ~Inverted
               PROVE  /\ \A c \in Components : Constructible(Scores[c])
                      /\ Constructible(CapitalEfficiencyScore(Market))
                      /\ Constructible(OpportunityScore(Scores))
                      /\ Constructible(ConfidenceScore(Scores))
    BY DEF ScoresConstructible
  <2>0. IsMarket(Market)
    BY KnownTyped
  <2>1. Market.spread \in Optional(Nat) /\ Market.range \in Optional(Nat)
    <3>1. /\ raw.bid \in Optional(Nat) /\ raw.ask \in Optional(Nat)
          /\ raw.high \in Optional(Nat) /\ raw.low \in Optional(Nat)
      BY DEF TypeOK, WellTyped, HasTypes, SnapshotTypes
    <3>2. /\ Market.spread = IF None \in {raw.bid, raw.ask} THEN None
                             ELSE raw.ask - raw.bid
          /\ Market.range = IF None \in {raw.high, raw.low} THEN None
                            ELSE raw.high - raw.low
      BY DEF Market, MarketOf, ParseSnapshotTicker, Spread
    <3> QED BY <3>1, <3>2 DEF Inverted, Below, Optional
  <2>2. Constructible(StructureScore(Market))
    BY <2>0, <2>1, StructureTyped
  <2>3. PICK scores : scores = Scores
    OBVIOUS
  <2>4. /\ AreScores(scores)
        /\ \A c \in Components : Constructible(scores[c])
    BY <2>2, <2>3, ComponentsTyped
  <2>5. OpportunityScore(scores).value \in Scale
    <3>1. /\ OpportunityScore(scores).value \in Int
          /\ AnyBetween(OpportunityScore(scores).value, Values(scores))
      BY <2>4, OpportunityBetween
    <3>2. \A c \in Components : Values(scores)[c] \in Scale
      BY <2>4, ConstructibleMeans, Zenon DEF Values
    <3> QED BY <3>1, <3>2, BetweenInScale, Zenon
  <2>6. /\ Constructible(OpportunityScore(scores))
        /\ Constructible(ConfidenceScore(scores))
    BY <2>4, <2>5, OpportunityBetween, ConfidenceBetween, ConstructibleMeans, Zenon
  <2> QED BY <2>0, <2>3, <2>4, <2>6, CapitalTyped
<1> QED BY <1>1, TypeCorrect, PTL
-----------------------------------------------------------------------------
(* Below the minimum, neither score looks at how a trade ended. *)
LEMMA SmallSampleScores ==
  ASSUME NEW h, NEW k, ~Sufficient(h), ~Sufficient(k), Occurrences(h) = Occurrences(k),
         (h = None) = (k = None)
  PROVE  /\ HistoricalScore(k) = HistoricalScore(h)
         /\ \A data : BehaviorScore(data, k) = BehaviorScore(data, h)
<1>1. HistoricalScore(k) = HistoricalScore(h)
  BY DEF HistoricalScore
<1>2. ASSUME NEW data PROVE BehaviorScore(data, k) = BehaviorScore(data, h)
  <2>1. ForecastReliability(data, k) = ForecastReliability(data, h)
    BY DEF ForecastReliability
  <2>2. HistoricalSimilarity(k) = HistoricalSimilarity(h)
    BY DEF HistoricalSimilarity
  <2>3. Present(<<data.bias, data.bars, data.transitions, k>>)
          = Present(<<data.bias, data.bars, data.transitions, h>>)
    BY DEF Present
  <2>4. BehaviorConfidence(data, k) = BehaviorConfidence(data, h)
    BY <2>3, ConfidenceParts, SMT DEF Given
  <2> QED BY <2>1, <2>2, <2>4, SMT DEF BehaviorScore
<1> QED BY <1>1, <1>2

(* An outcome changes neither which trades are closed nor the rest of a trade. *)
LEMMA OutcomeKept ==
  ASSUME trades \in Seq(TradeType), NEW i \in ClosedHere, NEW o \in Outcomes,
         o[1] # None
  PROVE  /\ Tracked(WithOutcome(i, o), ConditionKey) = Tracked(trades, ConditionKey)
         /\ \A j \in DOMAIN trades \ {i} : WithOutcome(i, o)[j] = trades[j]
         /\ WithOutcome(i, o)[i].r = o[1] /\ WithOutcome(i, o)[i].win = o[2]
         /\ i \in Tracked(trades, ConditionKey)
         /\ WithOutcome(i, o) \in Seq(TradeType)
<1> DEFINE opened == [trades EXCEPT ![i].r = o[1]]
<1>1. o[1] \in Int /\ o[2] \in Optional(BOOLEAN) /\ o[1] \in Optional(Int)
  BY ValuesAreTyped DEF Optional
<1>2. opened \in Seq(TradeType) /\ i \in DOMAIN opened /\ i \in DOMAIN trades
  BY <1>1, TradeChanges DEF ClosedHere
<1>3. WithOutcome(i, o) = [opened EXCEPT ![i].win = o[2]]
  BY DEF WithOutcome
<1>4. WithOutcome(i, o) \in Seq(TradeType)
  <2> HIDE DEF opened
  <2> QED BY <1>1, <1>2, <1>3, TradeChanges
<1>5. /\ DOMAIN WithOutcome(i, o) = DOMAIN trades
      /\ \A j \in DOMAIN trades \ {i} : WithOutcome(i, o)[j] = trades[j]
      /\ WithOutcome(i, o)[i] = [[trades[i] EXCEPT !.r = o[1]] EXCEPT !.win = o[2]]
  BY <1>2 DEF WithOutcome
<1>6. trades[i] \in TradeType
  BY <1>2
<1>7. /\ WithOutcome(i, o)[i].r = o[1] /\ WithOutcome(i, o)[i].win = o[2]
      /\ WithOutcome(i, o)[i].condition = trades[i].condition
  BY <1>5, <1>6 DEF TradeType
<1>8. Tracked(WithOutcome(i, o), ConditionKey) = Tracked(trades, ConditionKey)
  BY <1>5, <1>7 DEF Tracked, ClosedHere
<1> QED BY <1>4, <1>5, <1>7, <1>8 DEF Tracked, ClosedHere

(* historical.py:12-14 and behavioral.py:39-40: how few trades ended shows nowhere. *)
THEOREM SmallSampleIsSilent == Spec => []NoProbabilityBelowSample
<1>1. TypeOK => NoProbabilityBelowSample
  <2> SUFFICES ASSUME TypeOK, Cardinality(ClosedHere) < MinSample,
                      NEW i \in ClosedHere, NEW o \in Outcomes
               PROVE  LET before == History(trades)
                          after  == History(WithOutcome(i, o))
                      IN /\ HistoricalScore(after) = HistoricalScore(before)
                         /\ BehaviorScore(behavior, after) = BehaviorScore(behavior, before)
    BY Zenon DEF NoProbabilityBelowSample
  <2>1. trades \in Seq(TradeType)
    BY DEF TypeOK, WellTyped
  <2>2. o[1] # None
    BY ValuesAreTyped, EvidenceAssumption
  <2>3. Tracked(WithOutcome(i, o), ConditionKey) = ClosedHere
        /\ Tracked(trades, ConditionKey) = ClosedHere
    BY <2>1, <2>2, OutcomeKept DEF ClosedHere, Tracked
  <2>4. WithOutcome(i, o) \in Seq(TradeType)
    BY <2>1, <2>2, OutcomeKept
  <2>5. PICK h, k : h = History(trades) /\ k = History(WithOutcome(i, o))
    OBVIOUS
  <2>6. /\ h # None /\ k # None
        /\ h.occurrences = Cardinality(ClosedHere)
        /\ k.occurrences = Cardinality(ClosedHere)
    BY <2>1, <2>3, <2>4, <2>5, StatsTyped DEF History
  <2>7. ~Sufficient(h) /\ ~Sufficient(k) /\ Occurrences(h) = Occurrences(k)
    <3>1. Cardinality(ClosedHere) \in Nat
      BY <2>1, <2>3, TrackedTrades, FS_CardinalityType
    <3> QED BY <2>6, <3>1, EnginesAssumption DEF Sufficient, Occurrences
  <2> QED BY <2>5, <2>6, <2>7, SmallSampleScores, Zenon
<1> QED BY <1>1, TypeCorrect, PTL

(* A condition has a win rate as soon as one of its trades has closed. *)
LEMMA RatedWhenTracked ==
  ASSUME NEW recorded \in Seq(TradeType), NEW condition
  PROVE  StatsForCondition(recorded, condition).winRate # None
           <=> Cardinality(Tracked(recorded, condition)) # 0
<1> DEFINE closed == Tracked(recorded, condition)
           wins   == {i \in closed : recorded[i].win = TRUE}
           n      == Cardinality(closed)
<1>1. StatsForCondition(recorded, condition).winRate
        = IF n = 0 THEN None ELSE <<Cardinality(wins), n>>
  BY Zenon DEF StatsForCondition
<1>2. n \in Nat /\ Cardinality(wins) \in Nat
  <2>1. wins \subseteq closed /\ IsFiniteSet(closed)
    BY TrackedTrades
  <2> HIDE DEF closed, wins
  <2> QED BY <2>1, FS_Subset, FS_CardinalityType
<1> HIDE DEF wins, n
<1>3. <<Cardinality(wins), n>> # None
  BY <1>2, EvidenceAssumption
<1> QED BY <1>1, <1>3 DEF n

(* historical.py:52: an open gate is worth a confidence of 0.4 at least. *)
LEMMA OpenGateIsSure ==
  ASSUME NEW h, IsHistory(h), Sufficient(h), h.winRate # None
  PROVE  HistoricalScore(h).confidence > 0
<1> DEFINE won    == Round(1000 * h.winRate[1], h.winRate[2])
           factor == IF h.profitFactor = None THEN 0
                     ELSE AtMost(1000, Round(400 * h.profitFactor[1], h.profitFactor[2]))
           depth  == AtMost(1000, Round(1000 * h.occurrences, 3 * MinSample))
           full   == 4 * MinSample
           conf   == AtMost(95, Round(40 * full + 55 * AtMost(full, h.occurrences), full))
<1>1. HistoricalScore(h) = [value |-> BlendOfThree(won, factor, depth), confidence |-> conf]
  BY Zenon DEF HistoricalScore, Score, BlendOfThree
<1>2. PICK d \in Nat \ {0}, o \in Nat : d = full /\ o = h.occurrences
  <2>1. h.occurrences \in Nat /\ MinSample \in Nat \ {0}
    BY EnginesAssumption DEF Sufficient, IsHistory
  <2> QED BY <2>1, SMT
<1>3. PICK m \in Nat : m = 40 * d + 55 * AtMost(d, o) /\ 40 * d <= m
  BY DEF AtMost
<1>4. Round(m, d) \in Int /\ 40 <= Round(m, d)
  BY <1>3, RoundBetween
<1>5. AtMost(95, Round(m, d)) > 0
  BY <1>4 DEF AtMost
<1> HIDE DEF full, won, factor, depth
<1>6. conf = AtMost(95, Round(m, d))
  BY <1>2, <1>3
<1> HIDE DEF conf
<1> QED BY <1>1, <1>5, <1>6

(* behavioral.py:37-52: a reported bias is worth 70 points from the minimum
   sample on, and 25 below. *)
LEMMA CalibratedForecast ==
  ASSUME NEW data, NEW h, IsHistory(h), data.bias \notin {None, "Neutral"}
  PROVE  ForecastReliability(data, h) >= 700 <=> Sufficient(h)
<1>1. CASE ~Sufficient(h)
  BY <1>1 DEF ForecastReliability
<1>2. CASE Sufficient(h)
  <2>1. PICK m \in Nat, d \in Nat \ {0} : m = 300 * h.occurrences /\ d = 4 * MinSample
    BY <1>2, EnginesAssumption, SMT DEF Sufficient, IsHistory
  <2>2. PICK x \in Nat : x = Round(m, d)
    BY RoundInScale
  <2>3. 700 + AtMost(300, x) >= 700
    BY DEF AtMost
  <2>4. ForecastReliability(data, h)
          = 700 + AtMost(300, Round(300 * h.occurrences, 4 * MinSample))
    BY <1>2 DEF ForecastReliability
  <2> QED BY <1>2, <2>1, <2>2, <2>3, <2>4
<1> QED BY <1>1, <1>2

(* ranking.py:96 and 116, historical.py:12, behavioral.py:39: for every record
   and minimum the four comparisons open together. *)
THEOREM GatesAgree == Spec => []SampleGatesAgree
<1>1. TypeOK => SampleGatesAgree
  <2> SUFFICES ASSUME TypeOK PROVE SampleGatesAgree
    OBVIOUS
  <2> DEFINE n == Cardinality(ClosedHere)
             h == History(trades)
  <2>1. trades \in Seq(TradeType)
    BY DEF TypeOK, WellTyped
  <2>2. Tracked(trades, ConditionKey) = ClosedHere
    BY DEF ClosedHere, Tracked
  <2>3. /\ IsHistory(h) /\ h # None /\ h.occurrences = n
        /\ h.winRate # None <=> n # 0
    BY <2>1, <2>2, StatsTyped, RatedWhenTracked DEF History
  <2>4. n \in Nat
    BY <2>1, <2>2, TrackedTrades, FS_CardinalityType
  <2> HIDE DEF n, h
  <2>5. Occurrences(h) = n
    BY <2>3 DEF Occurrences
  <2>6. n >= MinSample => n # 0
    BY <2>4, EnginesAssumption
  <2>7. Sufficient(h) <=> n >= MinSample
    BY <2>3, <2>5 DEF Sufficient
  <2>8. (Shows(h) <=> n >= MinSample) /\ (FlagsSample(h) <=> ~(n >= MinSample))
    BY <2>3, <2>4, <2>5, <2>6, EnginesAssumption DEF Shows, FlagsSample
  <2>9. HistoricalScore(h).confidence > 0 <=> n >= MinSample
    <3>1. CASE n >= MinSample
      BY <2>3, <2>6, <2>7, <3>1, OpenGateIsSure
    <3>2. CASE ~(n >= MinSample)
      BY <2>7, <3>2 DEF HistoricalScore, Score
    <3> QED BY <3>1, <3>2
  <2>10. behavior.bias \notin {None, "Neutral"} =>
           (ForecastReliability(behavior, h) >= 700 <=> n >= MinSample)
    BY <2>3, <2>7, CalibratedForecast
  <2> QED BY <2>8, <2>9, <2>10, Zenon DEF SampleGatesAgree, n, h
<1> QED BY <1>1, TypeCorrect, PTL
-----------------------------------------------------------------------------
(* A wider spread is worth no more, in the structure score and in the capital's. *)
Widens(md, wide) ==
  /\ md.spread \in Nat /\ wide.spread \in Nat /\ md.spread <= wide.spread
  /\ wide.last = md.last /\ wide.range = md.range /\ wide.vwap = md.vwap
  /\ wide.gap = md.gap /\ wide.relativeVolume = md.relativeVolume
  /\ wide.atr = md.atr

(* structure.py:8-9: the quality of the spread falls with the spread. *)
LEMMA SpreadMonotone ==
  ASSUME NEW md, IsMarket(md), NEW wide, IsMarket(wide), Widens(md, wide)
  PROVE  SpreadQuality(wide) <= SpreadQuality(md)
<1>1. PICK s \in Nat, z \in Nat, d \in Nat :
        /\ s = md.spread /\ z = wide.spread /\ d = md.last /\ d = wide.last /\ s <= z
  BY DEF Widens, IsMarket
<1>2. CASE d = 0 \/ s = 0
  <2>1. SpreadQuality(md) = 1000
    BY <1>1, <1>2 DEF SpreadQuality, Truthy
  <2>2. wide.spread \in Optional(Nat)
    BY DEF Widens, Optional
  <2> QED BY <2>1, <2>2, SpreadFactor
<1>3. CASE d # 0 /\ s # 0
  <2> DEFINE n == 1000 * d - 500000 * s
             m == 1000 * d - 500000 * z
  <2>1. n \in Int /\ m \in Int /\ m <= n /\ d \in Nat \ {0}
    BY <1>1, <1>3, SMT
  <2>2. Truthy(md.spread) /\ Truthy(wide.spread)
    BY <1>1, <1>3, EvidenceAssumption DEF Truthy
  <2>3. SpreadQuality(md) = AtLeast(0, Round(n, d))
    BY <1>1, <1>3, <2>2, SMT DEF SpreadQuality
  <2>4. SpreadQuality(wide) = AtLeast(0, Round(m, d))
    BY <1>1, <1>3, <2>2, SMT DEF SpreadQuality
  <2> HIDE DEF n, m
  <2>5. PICK x \in Int, y \in Int : x = Round(n, d) /\ y = Round(m, d) /\ y <= x
    <3>1. PICK i \in Int, j \in Int, k \in Nat \ {0} : i = n /\ j = m /\ k = d /\ j <= i
      BY <2>1
    <3>2. Round(i, k) \in Int /\ Round(j, k) \in Int /\ Round(j, k) <= Round(i, k)
      BY <3>1, RoundInScale, RoundMonotone
    <3> QED BY <3>1, <3>2
  <2> QED BY <2>3, <2>4, <2>5 DEF AtLeast
<1> QED BY <1>2, <1>3

(* structure.py:8-9: the structure score falls with it. *)
LEMMA WiderStructure ==
  ASSUME NEW md, IsMarket(md), NEW wide, IsMarket(wide), Widens(md, wide)
  PROVE  StructureScore(wide).value <= StructureScore(md).value
<1>1. /\ VolumeFactor(wide) = VolumeFactor(md) /\ RangeExpansion(wide) = RangeExpansion(md)
      /\ VwapRelationship(wide) = VwapRelationship(md)
      /\ GapQuality(wide) = GapQuality(md)
  BY SMT DEF Widens, VolumeFactor, RangeExpansion, VwapRelationship, GapQuality
<1> DEFINE a == SpreadQuality(md)
           x == SpreadQuality(wide)
           b == VolumeFactor(md)
           c == RangeExpansion(md)
           d == VwapRelationship(md)
           e == GapQuality(md)
           n == a * 25 + b * 30 + c * 20 + d * 15 + e * 10
           m == x * 25 + b * 30 + c * 20 + d * 15 + e * 10
<1>2. StructureScore(md).value = Round(n, 100) /\ StructureScore(wide).value = Round(m, 100)
  BY <1>1, StructureIs
<1>3. /\ a \in Int /\ x \in Int /\ b \in Int /\ c \in Int /\ d \in Int /\ e \in Int
      /\ x <= a
  BY FactorsTyped, SpreadMonotone
<1> HIDE DEF a, x, b, c, d, e
<1>4. n \in Int /\ m \in Int /\ m <= n
  BY <1>3
<1> HIDE DEF n, m
<1>5. PICK i \in Int, j \in Int : i = n /\ j = m /\ j <= i
  BY <1>4
<1>6. Round(j, 100) <= Round(i, 100)
  BY <1>5, RoundMonotone
<1> QED BY <1>2, <1>5, <1>6

(* capital_efficiency.py:24: so does the efficiency of capital. *)
LEMMA WiderCapital ==
  ASSUME NEW md, IsMarket(md), NEW wide, IsMarket(wide), Widens(md, wide)
  PROVE  CapitalEfficiencyScore(wide).value <= CapitalEfficiencyScore(md).value
<1>1. md.spread # None /\ wide.spread # None
  BY EvidenceAssumption DEF Widens
<1>2. CASE ~Truthy(md.atr)
  BY <1>2 DEF Widens, CapitalEfficiencyScore, Score
<1>3. CASE Truthy(md.atr)
  <2>1. PICK r \in Nat \ {0}, s \in Nat, z \in Nat :
          /\ r = md.atr /\ r = wide.atr /\ s = md.spread /\ z = wide.spread /\ s <= z
    BY <1>3, TruthyNumber DEF Widens, IsMarket
  <2> DEFINE n == 1000 * r - 2000 * s
             m == 1000 * r - 2000 * z
             bonus == IF md.relativeVolume = None THEN 0
                      ELSE Clamp(0, 200, md.relativeVolume - 100)
  <2>2. CapitalEfficiencyScore(md).value
          = AtMost(1000, Clamp(0, 1000, Round(n, r)) + bonus)
    BY <1>1, <1>3, <2>1, SMT DEF CapitalEfficiencyScore, Score
  <2>3. CapitalEfficiencyScore(wide).value
          = AtMost(1000, Clamp(0, 1000, Round(m, r)) + bonus)
    BY <1>1, <1>3, <2>1, SMT DEF Widens, CapitalEfficiencyScore, Score
  <2>4. n \in Int /\ m \in Int /\ m <= n
    BY <2>1, SMT
  <2>5. bonus \in Int
    BY TruthyNumber DEF IsMarket, Clamp, AtMost, AtLeast
  <2> HIDE DEF n, m, bonus
  <2>6. PICK x \in Int, y \in Int : x = Round(n, r) /\ y = Round(m, r) /\ y <= x
    <3>1. PICK i \in Int, j \in Int : i = n /\ j = m /\ j <= i
      BY <2>4
    <3>2. Round(i, r) \in Int /\ Round(j, r) \in Int /\ Round(j, r) <= Round(i, r)
      BY <3>1, RoundInScale, RoundMonotone
    <3> QED BY <3>1, <3>2
  <2>7. AtMost(1000, Clamp(0, 1000, y) + bonus) <= AtMost(1000, Clamp(0, 1000, x) + bonus)
    BY <2>5, <2>6 DEF Clamp, AtMost, AtLeast
  <2> QED BY <2>2, <2>3, <2>6, <2>7
<1> QED BY <1>2, <1>3

(* structure.py:8-9, capital_efficiency.py:24: a higher ask raises neither score. *)
THEOREM WiderIsNoBetter == Spec => []WiderSpreadNeverHelps
<1>1. TypeOK => WiderSpreadNeverHelps
  <2> SUFFICES ASSUME TypeOK, None \notin {raw.bid, raw.ask},
                      NEW ask \in SnapshotValues.ask \ {None},
                      ask >= raw.ask, raw.ask >= raw.bid
               PROVE  LET wider == MarketOf([raw EXCEPT !.ask = ask], mock) IN
                      /\ StructureScore(wider).value <= StructureScore(Market).value
                      /\ CapitalEfficiencyScore(wider).value
                           <= CapitalEfficiencyScore(Market).value
    BY Zenon DEF WiderSpreadNeverHelps
  <2> DEFINE higher == [raw EXCEPT !.ask = ask]
  <2>1. HasTypes(raw, SnapshotTypes) /\ HasTypes(mock, MockTypes)
    BY DEF TypeOK, WellTyped
  <2>2. "ask" \in DOMAIN raw /\ ask \in SnapshotTypes["ask"]
    BY <2>1, ValuesAreTyped DEF HasTypes, SnapshotTypes
  <2>3. HasTypes(higher, SnapshotTypes)
    BY <2>1, <2>2, FieldChanges
  <2>4. IsMarket(Market) /\ IsMarket(MarketOf(higher, mock))
    BY <2>1, <2>3, MarketTyped DEF Market
  <2>5. Widens(Market, MarketOf(higher, mock))
    <3>1. /\ higher.ask = ask /\ higher.bid = raw.bid /\ higher.trade = raw.trade
          /\ higher.close = raw.close /\ higher.high = raw.high /\ higher.low = raw.low
          /\ higher.vwap = raw.vwap /\ higher.open = raw.open
          /\ higher.prevClose = raw.prevClose
      BY <2>2
    <3>2. /\ raw.bid \in Nat /\ raw.ask \in Nat /\ ask \in Nat
      BY <2>1, <2>2 DEF HasTypes, SnapshotTypes, Optional
    <3>3. /\ Market.spread = raw.ask - raw.bid
          /\ MarketOf(higher, mock).spread = ask - raw.bid
      <4> HIDE DEF higher
      <4> QED BY <3>1, <3>2, EvidenceAssumption
              DEF Market, MarketOf, ParseSnapshotTicker, Spread
    <3>4. LET md == Market  wide == MarketOf(higher, mock) IN
          /\ wide.last = md.last /\ wide.range = md.range /\ wide.vwap = md.vwap
          /\ wide.gap = md.gap /\ wide.relativeVolume = md.relativeVolume
          /\ wide.atr = md.atr
      <4> HIDE DEF higher
      <4> QED BY <3>1 DEF Market, MarketOf, ParseSnapshotTicker
    <3> QED BY <3>2, <3>3, <3>4 DEF Widens
  <2> HIDE DEF higher
  <2>6. /\ StructureScore(MarketOf(higher, mock)).value <= StructureScore(Market).value
        /\ CapitalEfficiencyScore(MarketOf(higher, mock)).value
             <= CapitalEfficiencyScore(Market).value
    BY <2>4, <2>5, WiderStructure, WiderCapital
  <2> QED BY <2>6, Zenon DEF higher
<1> QED BY <1>1, TypeCorrect, PTL
-----------------------------------------------------------------------------
(* The market data of which at most one field less is known. *)
Lacks(less, md) ==
  /\ less.spread \in {None, md.spread} /\ less.vwap \in {None, md.vwap}
  /\ less.relativeVolume \in {None, md.relativeVolume}
  /\ less.atr \in {None, md.atr} /\ less.float \in {None, md.float}

(* structure.py, liquidity.py, capital_efficiency.py: a field less, no more confidence. *)
LEMMA LostMarketData ==
  ASSUME NEW md, NEW less, Lacks(less, md)
  PROVE  /\ StructureScore(less).confidence <= StructureScore(md).confidence
         /\ LiquidityScore(less).confidence <= LiquidityScore(md).confidence
         /\ CapitalEfficiencyScore(less).confidence
              <= CapitalEfficiencyScore(md).confidence
<1>1. StructureScore(less).confidence <= StructureScore(md).confidence
  <2>1. /\ StructureScore(md).confidence
             = IF None \notin {md.spread, md.relativeVolume, md.vwap} THEN 90 ELSE 55
        /\ StructureScore(less).confidence
             = IF None \notin {less.spread, less.relativeVolume, less.vwap} THEN 90 ELSE 55
    BY Zenon DEF StructureScore, Score
  <2> QED BY <2>1 DEF Lacks
<1>2. LiquidityScore(less).confidence <= LiquidityScore(md).confidence
  <2>1. /\ LiquidityScore(md).confidence = IF Truthy(md.float) THEN 90 ELSE 60
        /\ LiquidityScore(less).confidence = IF Truthy(less.float) THEN 90 ELSE 60
    BY Zenon DEF LiquidityScore, Score
  <2> QED BY <2>1 DEF Lacks, Truthy
<1>3. CapitalEfficiencyScore(less).confidence <= CapitalEfficiencyScore(md).confidence
  <2>1. /\ CapitalEfficiencyScore(md).confidence
             = IF md.spread = None \/ ~Truthy(md.atr) THEN 20 ELSE 75
        /\ CapitalEfficiencyScore(less).confidence
             = IF less.spread = None \/ ~Truthy(less.atr) THEN 20 ELSE 75
    BY Zenon DEF CapitalEfficiencyScore, Score
  <2> QED BY <2>1 DEF Lacks, Truthy
<1> QED BY <1>1, <1>2, <1>3

(* With fewer optional inputs the confidence in the behavior is no higher. *)
LEMMA FewerInputs ==
  ASSUME NEW data, NEW less, NEW h, NEW k,
         less.bo = data.bo, less.mc = data.mc,
         less.bias \in {None, data.bias}, less.bars \in {None, data.bars},
         less.transitions \in {None, data.transitions}, k \in {None, h}
  PROVE  BehaviorConfidence(less, k) <= BehaviorConfidence(data, h)
<1> DEFINE few  == Present(<<less.bias, less.bars, less.transitions, k>>)
           many == Present(<<data.bias, data.bars, data.transitions, h>>)
<1>1. few \subseteq many /\ many \subseteq 1..4
  BY DEF Present
<1>2. Given(less, k) = Cardinality(few) /\ Given(data, h) = Cardinality(many)
  BY DEF Given
<1> HIDE DEF few, many
<1>3. IsFiniteSet(1..4)
  <2>1. 1 \in Int /\ 4 \in Int
    OBVIOUS
  <2> QED BY <2>1, FS_Interval, Zenon
<1>4. IsFiniteSet(many)
  BY <1>1, <1>3, FS_Subset
<1>5. Cardinality(few) <= Cardinality(many)
  BY <1>1, <1>4, FS_Subset
<1>0. Lifecycle(less) = Lifecycle(data)
  BY SMT DEF Lifecycle
<1>6. PICK i \in Nat, j \in Nat, l \in Nat :
        /\ i = Given(less, k) /\ j = Given(data, h) /\ i <= j
        /\ l = Lifecycle(data)
  BY <1>2, <1>5, ConfidenceParts
<1> DEFINE n == 3 * l + 5000000 * (4 + i)
           m == 3 * l + 5000000 * (4 + j)
           d == 1000000
<1>7. /\ BehaviorConfidence(less, k) = AtMost(100, Round(n, d))
      /\ BehaviorConfidence(data, h) = AtMost(100, Round(m, d))
  <2>1. /\ BehaviorConfidence(less, k)
             = AtMost(100, Round(3 * Lifecycle(less) + 5000000 * (4 + Given(less, k)),
                                 1000000))
        /\ BehaviorConfidence(data, h)
             = AtMost(100, Round(3 * Lifecycle(data) + 5000000 * (4 + Given(data, h)),
                                 1000000))
    BY ConfidenceParts, SMT
  <2>2. l = Lifecycle(less)
    BY <1>0, <1>6
  <2> QED BY <1>6, <2>1, <2>2, SMT
<1>8. n \in Int /\ m \in Int /\ n <= m /\ d \in Nat \ {0}
  BY <1>6, SMT
<1> HIDE DEF n, m, d
<1>9. PICK x \in Int, y \in Int : x = Round(n, d) /\ y = Round(m, d) /\ x <= y
  <2>1. PICK a \in Int, b \in Int, c \in Nat \ {0} : a = n /\ b = m /\ c = d /\ a <= b
    BY <1>8
  <2>2. Round(a, c) \in Int /\ Round(b, c) \in Int /\ Round(a, c) <= Round(b, c)
    BY <2>1, RoundInScale, RoundMonotone
  <2> QED BY <2>1, <2>2
<1> QED BY <1>7, <1>9 DEF AtMost

(* With fewer timeframes the confidence in the trend is no higher. *)
LEMMA FewerTimeframes ==
  ASSUME NEW held \in [Timeframes -> Seq(BarType)],
         NEW less \in [Timeframes -> Seq(BarType)],
         Available(less) \subseteq Available(held), NEW confirmed
  PROVE  TrendScore(less, confirmed).confidence <= TrendScore(held, confirmed).confidence
<1>1. PICK i \in Nat, j \in Nat, all \in Nat :
        /\ i = Cardinality(Available(less)) /\ j = Cardinality(Available(held))
        /\ all = Cardinality(Timeframes) /\ i <= j /\ j <= all
  <2>1. Cardinality(Available(less)) <= Cardinality(Available(held))
    BY AvailableFinite, FS_Subset
  <2> QED BY <2>1, AvailableFinite
<1>2. /\ TrendScore(less, confirmed).confidence = IF i = 0 THEN 15 ELSE TrendConfidence(i)
      /\ TrendScore(held, confirmed).confidence = IF j = 0 THEN 15 ELSE TrendConfidence(j)
  BY <1>1, TrendIs DEF Score
<1>3. CASE j = 0
  BY <1>1, <1>2, <1>3
<1>4. CASE j # 0
  <2>1. PICK a \in Int, b \in Int, c \in Nat \ {0} :
          a = 35 * all + 55 * i /\ b = 35 * all + 55 * j /\ c = all
    <3>1. all \in Nat \ {0} /\ 35 * all + 55 * i \in Int /\ 35 * all + 55 * j \in Int
      BY <1>1, <1>4
    <3> QED BY <3>1
  <2>2. a <= b /\ 35 * c <= b
    <3>1. i <= j /\ i \in Int /\ j \in Int /\ all \in Int /\ 0 <= j
      BY <1>1
    <3>2. 55 * i <= 55 * j /\ 0 <= 55 * j
      BY <3>1
    <3>3. 35 * all + 55 * i <= 35 * all + 55 * j /\ 35 * all <= 35 * all + 55 * j
      BY <3>1, <3>2
    <3> QED BY <3>3, <2>1
  <2>3. /\ Round(a, c) \in Int /\ Round(b, c) \in Int /\ Round(a, c) <= Round(b, c)
        /\ 35 <= Round(b, c)
    <3>1. Round(a, c) \in Int /\ Round(b, c) \in Int /\ Round(a, c) <= Round(b, c)
      BY <2>2, RoundInScale, RoundMonotone
    <3>2. PICK lo \in Int : lo = 35
      OBVIOUS
    <3>3. lo * c <= b
      BY <2>2, <3>2
    <3>4. lo <= Round(b, c)
      BY <3>3, RoundBetween
    <3> QED BY <3>1, <3>2, <3>4
  <2>4. /\ TrendConfidence(i) = AtMost(90, Round(a, c))
        /\ TrendConfidence(j) = AtMost(90, Round(b, c))
    BY <1>1, <2>1 DEF TrendConfidence
  <2>5. TrendConfidence(i) <= TrendConfidence(j) /\ 15 <= TrendConfidence(j)
    BY <2>3, <2>4 DEF AtMost
  <2> QED BY <1>2, <1>4, <2>5
<1> QED BY <1>3, <1>4

(* multi_timeframe.py:9 and the confidence of every engine: less evidence,
   no more confidence. *)
THEOREM LessIsNoSurer == Spec => []LostEvidenceLowersConfidence
<1>1. TypeOK => LostEvidenceLowersConfidence
  <2> SUFFICES ASSUME TypeOK PROVE LostEvidenceLowersConfidence
    OBVIOUS
  <2>0. /\ HasTypes(raw, SnapshotTypes) /\ HasTypes(mock, MockTypes)
        /\ HasTypes(behavior, ReadTypes)
        /\ series \in [Timeframes -> Seq(BarType)]
    BY DEF TypeOK, WellTyped
  <2> DEFINE h == History(trades)
  <2>1. ASSUME NEW f \in DOMAIN raw \ {"exchange"}
        PROVE  Lacks(MarketOf(Without(raw, f), mock), Market)
    <3> DEFINE less == Without(raw, f)
    <3>1. /\ less.bid \in {None, raw.bid} /\ less.ask \in {None, raw.ask}
          /\ less.vwap \in {None, raw.vwap}
      BY <2>0 DEF Without, HasTypes, SnapshotTypes
    <3> HIDE DEF less
    <3>2. Lacks(MarketOf(less, mock), Market)
      BY <3>1 DEF Lacks, Market, MarketOf, ParseSnapshotTicker, Spread
    <3> QED BY <3>2 DEF less
  <2>2. ASSUME NEW f \in DOMAIN mock
        PROVE  Lacks(MarketOf(raw, Without(mock, f)), Market)
    <3> DEFINE less == Without(mock, f)
    <3>1. /\ less.relativeVolume \in {None, mock.relativeVolume}
          /\ less.atr \in {None, mock.atr} /\ less.float \in {None, mock.float}
      BY <2>0 DEF Without, HasTypes, MockTypes
    <3> HIDE DEF less
    <3>2. Lacks(MarketOf(raw, less), Market)
      BY <3>1 DEF Lacks, Market, MarketOf, ParseSnapshotTicker
    <3> QED BY <3>2 DEF less
  <2>3. ASSUME NEW f \in {"bias", "bars", "transitions"}
        PROVE  BehaviorConfidence(Without(behavior, f), h) <= BehaviorConfidence(behavior, h)
    <3> DEFINE less == Without(behavior, f)
    <3>1. /\ less.bo = behavior.bo /\ less.mc = behavior.mc
          /\ less.bias \in {None, behavior.bias} /\ less.bars \in {None, behavior.bars}
          /\ less.transitions \in {None, behavior.transitions}
      BY <2>0 DEF Without, HasTypes, ReadTypes
    <3> HIDE DEF less, h
    <3>2. BehaviorConfidence(less, h) <= BehaviorConfidence(behavior, h)
      BY <3>1, FewerInputs
    <3> QED BY <3>2 DEF less
  <2>4. BehaviorConfidence(behavior, None) <= BehaviorConfidence(behavior, h)
    <3> HIDE DEF h
    <3> QED BY FewerInputs
  <2>5. ASSUME NEW tf \in Timeframes
        PROVE  Trend([series EXCEPT ![tf] = <<>>]).confidence <= Trend(series).confidence
    <3> DEFINE less == [series EXCEPT ![tf] = <<>>]
    <3>1. less \in [Timeframes -> Seq(BarType)]
      BY <2>0
    <3>2. Available(less) \subseteq Available(series)
      BY <2>0 DEF Available
    <3> HIDE DEF less
    <3>3. TrendScore(less, behavior.direction).confidence
            <= TrendScore(series, behavior.direction).confidence
      BY <2>0, <3>1, <3>2, FewerTimeframes
    <3> QED BY <3>3 DEF Trend, less
  <2>6. ASSUME NEW less, Lacks(less, Market)
        PROVE  /\ StructureScore(less).confidence <= StructureScore(Market).confidence
               /\ LiquidityScore(less).confidence <= LiquidityScore(Market).confidence
               /\ CapitalEfficiencyScore(less).confidence
                    <= CapitalEfficiencyScore(Market).confidence
    BY <2>6, LostMarketData
  <2> QED BY <2>1, <2>2, <2>3, <2>4, <2>5, <2>6, Zenon DEF LostEvidenceLowersConfidence
<1> QED BY <1>1, TypeCorrect, PTL
-----------------------------------------------------------------------------
(* The same closes, in ranges of which only the last one may be narrower. *)
Narrows(narrow, bars) ==
  /\ Len(narrow) = Len(bars)
  /\ \A i \in 1..Len(bars) :
       /\ narrow[i].close = bars[i].close
       /\ narrow[i].high - narrow[i].low <= bars[i].high - bars[i].low
       /\ i < Len(bars)
            => narrow[i].high - narrow[i].low = bars[i].high - bars[i].low

(* The prices of a bar, and its range, are integers. *)
LEMMA RangeOfBar ==
  ASSUME NEW bar \in BarType
  PROVE  bar.high \in Int /\ bar.low \in Int /\ bar.close \in Int
         /\ bar.high - bar.low \in Int
BY DEF BarType

(* Clamping keeps the order. *)
LEMMA ClampMonotone ==
  ASSUME NEW lo \in Int, NEW hi \in Int, NEW a \in Int, NEW b \in Int, a <= b
  PROVE  /\ Clamp(lo, hi, a) \in Int /\ Clamp(lo, hi, b) \in Int
         /\ Clamp(lo, hi, a) <= Clamp(lo, hi, b)
BY DEF Clamp, AtMost, AtLeast

(* The range of a window is that of its bars, added up. *)
LEMMA NarrowerWindow ==
  ASSUME NEW narrow \in Seq(BarType), NEW bars \in Seq(BarType), Narrows(narrow, bars),
         NEW e \in Int, e - Window + 1 >= 1, e <= Len(bars)
  PROVE  /\ WindowRange(narrow, e) \in Int /\ WindowRange(bars, e) \in Int
         /\ WindowRange(narrow, e) <= WindowRange(bars, e)
         /\ e < Len(bars) => WindowRange(narrow, e) = WindowRange(bars, e)
<1> DEFINE D == e - Window + 1..e
           p == [i \in D |-> narrow[i].high - narrow[i].low]
           q == [i \in D |-> bars[i].high - bars[i].low]
<1>1. PICK w \in Nat \ {0} : w = Window
  BY EnginesAssumption
<1>2. IsFiniteSet(D)
  <2>1. e - w + 1 \in Int
    OBVIOUS
  <2> QED BY <1>1, <2>1, FS_Interval
<1>3. \A i \in D : /\ narrow[i] \in BarType /\ bars[i] \in BarType
                   /\ i \in 1..Len(bars) /\ i <= e
  BY <1>1 DEF Narrows
<1>4. \A i \in D : /\ p[i] \in Int /\ q[i] \in Int /\ p[i] <= q[i]
                   /\ e < Len(bars) => p[i] = q[i]
  <2> SUFFICES ASSUME NEW i \in D
               PROVE  /\ p[i] \in Int /\ q[i] \in Int /\ p[i] <= q[i]
                      /\ e < Len(bars) => p[i] = q[i]
    BY Zenon
  <2>1. p[i] = narrow[i].high - narrow[i].low /\ q[i] = bars[i].high - bars[i].low
    OBVIOUS
  <2>2. p[i] \in Int /\ q[i] \in Int
    BY <1>3, <2>1, RangeOfBar
  <2>3. p[i] <= q[i] /\ (i < Len(bars) => p[i] = q[i])
    BY <1>3, <2>1 DEF Narrows
  <2>4. e < Len(bars) => i < Len(bars)
    BY <1>1, <1>3
  <2> QED BY <2>2, <2>3, <2>4
<1>5. /\ WindowRange(narrow, e) = SumFunctionOnSet(p, D)
      /\ WindowRange(bars, e) = SumFunctionOnSet(q, D)
  BY DEF WindowRange, SumFunction
<1> HIDE DEF D, p, q
<1>6. SumFunctionOnSet(p, D) \in Int /\ SumFunctionOnSet(q, D) \in Int
  BY <1>2, <1>4, SumOfInts
<1>7. SumFunctionOnSet(p, D) <= SumFunctionOnSet(q, D)
  BY <1>2, <1>4, SumMonotone
<1>8. ASSUME e < Len(bars) PROVE SumFunctionOnSet(p, D) = SumFunctionOnSet(q, D)
  BY <1>2, <1>4, <1>8, SumSame
<1> QED BY <1>5, <1>6, <1>7, <1>8

(* multi_timeframe.py:60-73: the exhaustion grows as the recent range shrinks. *)
LEMMA ShrinkageMonotone ==
  ASSUME NEW prior \in Nat \ {0}, NEW recent \in Int, NEW less \in Int, less <= recent
  PROVE  /\ Shrinkage(prior, recent) \in Int /\ Shrinkage(prior, less) \in Int
         /\ Shrinkage(prior, recent) <= Shrinkage(prior, less)
<1>1. PICK x \in Int, y \in Int :
        x = 15000 * (prior - recent) /\ y = 15000 * (prior - less) /\ x <= y
  BY SMT
<1>2. /\ Shrinkage(prior, recent) = Clamp(0, 10000, Round(x, prior))
      /\ Shrinkage(prior, less) = Clamp(0, 10000, Round(y, prior))
  BY <1>1, SMT DEF Shrinkage
<1>3. PICK a \in Int, b \in Int : a = Round(x, prior) /\ b = Round(y, prior) /\ a <= b
  <2>1. x <= y
    BY <1>1
  <2>2. Round(x, prior) \in Int /\ Round(y, prior) \in Int
        /\ Round(x, prior) <= Round(y, prior)
    BY <2>1, RoundInScale, RoundMonotone
  <2> QED BY <2>2
<1>4. /\ Clamp(0, 10000, a) \in Int /\ Clamp(0, 10000, b) \in Int
      /\ Clamp(0, 10000, a) <= Clamp(0, 10000, b)
  <2>1. PICK hi \in Int : hi = 10000
    BY SMT
  <2>2. /\ Clamp(0, hi, a) \in Int /\ Clamp(0, hi, b) \in Int
        /\ Clamp(0, hi, a) <= Clamp(0, hi, b)
    <3>1. a <= b
      BY <1>3
    <3> QED BY <3>1, ClampMonotone
  <2> QED BY <2>1, <2>2, SMT
<1> QED BY <1>2, <1>3, <1>4, SMT

(* A narrower last bar changes no measure but the exhaustion, which grows. *)
LEMMA NarrowerBars ==
  ASSUME NEW narrow, NEW bars, IsBars(narrow), IsBars(bars), Narrows(narrow, bars)
  PROVE  /\ Direction(narrow) = Direction(bars)
         /\ Persistence(narrow) = Persistence(bars)
         /\ Acceleration(narrow) = Acceleration(bars)
         /\ Exhaustion(bars) <= Exhaustion(narrow)
<1>1. PICK n \in Nat, w \in Nat \ {0} :
        n = Len(bars) /\ n = Len(narrow) /\ w = Window /\ n >= 2
  BY EnginesAssumption DEF IsBars, Narrows
<1>2. \A i \in 1..n : narrow[i].close = bars[i].close
  BY <1>1 DEF Narrows
<1>3. Direction(narrow) = Direction(bars)
  <2>1. 1 \in 1..n /\ n \in 1..n
    BY <1>1
  <2> QED BY <1>1, <1>2, <2>1 DEF Direction
<1>4. Persistence(narrow) = Persistence(bars)
  <2>1. ASSUME NEW i \in 2..n PROVE Rises(narrow, i) = Rises(bars, i)
    <3>1. i \in 1..n /\ i - 1 \in 1..n
      OBVIOUS
    <3> QED BY <1>2, <3>1 DEF Rises
  <2>2. n \in 2..n /\ \A i \in 2..n : i..n \subseteq 2..n
    BY <1>1
  <2>3. {i \in 2..n : \A j \in i..n : Rises(narrow, j) = Rises(narrow, n)}
          = {i \in 2..n : \A j \in i..n : Rises(bars, j) = Rises(bars, n)}
    BY <2>1, <2>2, Zenon
  <2> QED BY <1>1, <2>3, Zenon DEF Persistence
<1>5. Acceleration(narrow) = Acceleration(bars)
  <2>1. CASE n < 2 * w
    BY <1>1, <2>1 DEF Acceleration
  <2>2. CASE ~ (n < 2 * w)
    <3>1. n \in 1..n /\ n - w + 1 \in 1..n /\ n - w \in 1..n /\ n - w - w + 1 \in 1..n
      BY <2>2
    <3>2. /\ WindowChange(narrow, n) = WindowChange(bars, n)
          /\ WindowChange(narrow, n - w) = WindowChange(bars, n - w)
      BY <1>1, <1>2, <3>1 DEF WindowChange
    <3> QED BY <1>1, <2>2, <3>2 DEF Acceleration
  <2> QED BY <2>1, <2>2
<1>6. Exhaustion(bars) <= Exhaustion(narrow)
  <2>1. CASE n < 2 * w
    BY <1>1, <2>1 DEF Exhaustion
  <2>2. CASE ~ (n < 2 * w)
    <3>1. narrow \in Seq(BarType) /\ bars \in Seq(BarType)
      BY DEF IsBars
    <3>2. PICK m \in Int : m = n - w /\ m - w + 1 >= 1 /\ m < n
                            /\ n \in Int /\ n - w + 1 >= 1 /\ m <= n /\ n <= n
      BY <2>2
    <3>a. /\ m - Window + 1 >= 1 /\ m <= Len(bars) /\ m < Len(bars)
          /\ n - Window + 1 >= 1 /\ n <= Len(bars)
      BY <1>1, <3>2
    <3>3. /\ WindowRange(bars, n - w) \in Int
          /\ WindowRange(narrow, n - w) = WindowRange(bars, n - w)
      <4>1. WindowRange(bars, m) \in Int /\ WindowRange(narrow, m) = WindowRange(bars, m)
        BY <3>1, <3>a, NarrowerWindow
      <4> QED BY <3>2, <4>1
    <3>4. /\ WindowRange(bars, n) \in Int /\ WindowRange(narrow, n) \in Int
          /\ WindowRange(narrow, n) <= WindowRange(bars, n)
      BY <3>1, <3>2, <3>a, NarrowerWindow
    <3>5. CASE WindowRange(bars, n - w) <= 0
      BY <1>1, <3>3, <3>5 DEF Exhaustion
    <3>6. CASE ~ (WindowRange(bars, n - w) <= 0)
      <4>1. PICK prior \in Nat \ {0}, recent \in Int, less \in Int :
              /\ prior = WindowRange(bars, n - w) /\ recent = WindowRange(bars, n)
              /\ less = WindowRange(narrow, n) /\ less <= recent
        BY <3>3, <3>4, <3>6
      <4>2. /\ Exhaustion(bars) = Shrinkage(prior, recent)
            /\ Exhaustion(narrow) = Shrinkage(prior, less)
        BY <1>1, <2>2, <3>3, <3>6, <4>1 DEF Exhaustion
      <4> QED BY <4>1, <4>2, ShrinkageMonotone
    <3> QED BY <3>5, <3>6
  <2> QED BY <2>1, <2>2
<1> QED BY <1>3, <1>4, <1>5, <1>6

(* The same over all timeframes. *)
LEMMA NarrowerSeries ==
  ASSUME NEW held \in [Timeframes -> Seq(BarType)],
         NEW narrow \in [Timeframes -> Seq(BarType)],
         \A tf \in Timeframes : Narrows(narrow[tf], held[tf])
  PROVE  /\ Available(narrow) = Available(held)
         /\ Persisting(narrow) = Persisting(held)
         /\ Accelerating(narrow) = Accelerating(held)
         /\ \A direction : Going(narrow, direction) = Going(held, direction)
         /\ Exhausted(held) <= Exhausted(narrow)
<1>1. Available(narrow) = Available(held)
  BY DEF Available, Narrows
<1>2. ASSUME NEW tf \in Available(held)
      PROVE  /\ IsBars(narrow[tf]) /\ IsBars(held[tf])
             /\ Direction(narrow[tf]) = Direction(held[tf])
             /\ Persistence(narrow[tf]) = Persistence(held[tf])
             /\ Acceleration(narrow[tf]) = Acceleration(held[tf])
             /\ Exhaustion(held[tf]) <= Exhaustion(narrow[tf])
             /\ Exhaustion(held[tf]) \in Int /\ Exhaustion(narrow[tf]) \in Int
  <2>1. IsBars(narrow[tf]) /\ IsBars(held[tf]) /\ Narrows(narrow[tf], held[tf])
    BY <1>1 DEF Available, IsBars
  <2> QED BY <2>1, NarrowerBars, MeasuresTyped
<1>3. /\ Persisting(narrow) = Persisting(held)
      /\ Accelerating(narrow) = Accelerating(held)
  <2>1. /\ [tf \in Available(held) |-> Persistence(narrow[tf])]
             = [tf \in Available(held) |-> Persistence(held[tf])]
        /\ [tf \in Available(held) |-> Acceleration(narrow[tf])]
             = [tf \in Available(held) |-> Acceleration(held[tf])]
    BY <1>2, Zenon
  <2> QED BY <1>1, <2>1, Zenon DEF Persisting, Accelerating
<1>4. ASSUME NEW direction PROVE Going(narrow, direction) = Going(held, direction)
  <2>1. {tf \in Available(held) : Direction(narrow[tf]) = direction}
          = {tf \in Available(held) : Direction(held[tf]) = direction}
    BY <1>2, Zenon
  <2> QED BY <1>1, <2>1, Zenon DEF Going
<1>5. Exhausted(held) <= Exhausted(narrow)
  <2> DEFINE p == [tf \in Available(held) |-> Exhaustion(held[tf])]
             q == [tf \in Available(held) |-> Exhaustion(narrow[tf])]
  <2>1. \A tf \in Available(held) : p[tf] \in Int /\ q[tf] \in Int /\ p[tf] <= q[tf]
    BY <1>2
  <2>2. /\ Exhausted(held) = SumFunctionOnSet(p, Available(held))
        /\ Exhausted(narrow) = SumFunctionOnSet(q, Available(held))
    BY <1>1 DEF Exhausted, SumFunction
  <2>3. IsFiniteSet(Available(held))
    BY AvailableFinite
  <2> HIDE DEF p, q
  <2> QED BY <2>1, <2>2, <2>3, SumMonotone
<1> QED BY <1>1, <1>3, <1>4, <1>5

(* Exhaustion lowers a factor of the trend and raises the penalty. *)
LEMMA NarrowerTrend ==
  ASSUME NEW held \in [Timeframes -> Seq(BarType)],
         NEW narrow \in [Timeframes -> Seq(BarType)],
         \A tf \in Timeframes : Narrows(narrow[tf], held[tf]), NEW confirmed
  PROVE  TrendScore(narrow, confirmed).value <= TrendScore(held, confirmed).value
<1>0. /\ Available(narrow) = Available(held)
      /\ Persisting(narrow) = Persisting(held)
      /\ Accelerating(narrow) = Accelerating(held)
      /\ \A direction : Going(narrow, direction) = Going(held, direction)
      /\ Exhausted(held) <= Exhausted(narrow)
  BY NarrowerSeries
<1>1. CASE Available(held) = {}
  <2>1. Cardinality(Available(held)) = 0
    BY <1>1, FS_EmptySet
  <2>2. TrendScore(narrow, confirmed) = TrendScore(held, confirmed)
    <3>1. Cardinality(Available(narrow)) = 0
      BY <1>0, <2>1
    <3>2. TrendScore(narrow, confirmed) = Score(500, 15)
      BY <3>1, TrendIs
    <3>3. TrendScore(held, confirmed) = Score(500, 15)
      BY <2>1, TrendIs
    <3> QED BY <3>2, <3>3, Zenon
  <2>3. TrendScore(held, confirmed).value \in Int
    BY TrendTyped, ConstructibleMeans DEF Scale
  <2> QED BY <2>2, <2>3
<1>2. CASE Available(held) # {}
  <2>1. PICK n \in Nat \ {0} : n = Cardinality(Available(held))
    BY <1>2, TrendFactorsTyped
  <2>2. /\ Agreement(narrow) = Agreement(held) /\ Pace(narrow) = Pace(held)
        /\ Push(narrow) = Push(held)
        /\ Confirmation(narrow, confirmed) = Confirmation(held, confirmed)
    <3>1. Agreement(narrow) = Agreement(held)
      <4>1. /\ Going(narrow, "Bullish") = Going(held, "Bullish")
            /\ Going(narrow, "Bearish") = Going(held, "Bearish")
        BY <1>0, Zenon
      <4> QED BY <1>0, <4>1, SMT DEF Agreement
    <3>2. Pace(narrow) = Pace(held)
      BY <1>0, SMT DEF Pace
    <3>3. Push(narrow) = Push(held)
      BY <1>0, SMT DEF Push
    <3>4. Confirmation(narrow, confirmed) = Confirmation(held, confirmed)
      <4>1. Going(narrow, confirmed) = Going(held, confirmed)
        BY <1>0, Zenon
      <4> QED BY <1>0, <4>1, SMT DEF Confirmation
    <3> QED BY <3>1, <3>2, <3>3, <3>4
  <2>3. PICK a \in Int, b \in Int, c \in Int, e \in Int :
          /\ a = Agreement(held) /\ b = Pace(held) /\ c = Push(held)
          /\ e = Confirmation(held, confirmed)
    BY <1>2, TrendFactorsTyped
  <2>4. PICK s \in Int, t \in Int :
          s = Exhausted(held) /\ t = Exhausted(narrow) /\ s <= t
    BY <1>0, TotalsTyped
  <2>5. PICK x \in Int, y \in Int :
          x = Freshness(held) /\ y = Freshness(narrow) /\ y <= x
    <3>1. PICK d \in Nat \ {0} : d = 10 * n
      OBVIOUS
    <3>2. PICK k \in Int, l \in Int : k = Round(s, d) /\ l = Round(t, d) /\ k <= l
      BY <2>4, RoundInScale, RoundMonotone
    <3>3. Freshness(held) = 1000 - k /\ Freshness(narrow) = 1000 - l
      BY <1>0, <2>1, <2>4, <3>1, <3>2, SMT DEF Freshness
    <3> QED BY <3>2, <3>3, SMT
  <2>6. PICK p \in Int, q \in Int :
          /\ p = TrendTop(held, confirmed) /\ q = TrendTop(narrow, confirmed)
          /\ q <= p
    <3>1. /\ TrendTop(held, confirmed) = n * TrendSum(a, b, c, x, e) - 3 * s
          /\ TrendTop(narrow, confirmed) = n * TrendSum(a, b, c, y, e) - 3 * t
      BY <1>0, <2>1, <2>2, <2>3, <2>4, <2>5, Zenon DEF TrendTop
    <3>2. PICK k \in Int, l \in Int :
            /\ k = TrendSum(a, b, c, x, e) /\ l = TrendSum(a, b, c, y, e) /\ l <= k
      <4>1. /\ TrendSum(a, b, c, x, e) = a * 30 + b * 20 + c * 15 + x * 15 + e * 20
            /\ TrendSum(a, b, c, y, e) = a * 30 + b * 20 + c * 15 + y * 15 + e * 20
        BY TrendSumIs
      <4> QED BY <2>5, <4>1
    <3>3. n * l <= n * k
      BY <3>2, TimesMonotone
    <3>4. PICK g \in Int, h \in Int : g = n * k /\ h = n * l /\ h <= g
      BY <3>3
    <3>5. h - 3 * t <= g - 3 * s
      <4>1. s <= t /\ h <= g
        BY <2>4, <3>4
      <4>2. 3 * s <= 3 * t
        BY <4>1
      <4> QED BY <4>1, <4>2
    <3> QED BY <3>1, <3>2, <3>4, <3>5
  <2>7. PICK d \in Nat \ {0} : d = 100 * n
    OBVIOUS
  <2>8. PICK k \in Int, l \in Int : k = Round(p, d) /\ l = Round(q, d) /\ l <= k
    <3>1. q <= p
      BY <2>6
    <3>2. Round(p, d) \in Int /\ Round(q, d) \in Int /\ Round(q, d) <= Round(p, d)
      BY <3>1, RoundInScale, RoundMonotone
    <3> QED BY <3>2
  <2>9. /\ TrendScore(held, confirmed).value = Clamp(0, 1000, k)
        /\ TrendScore(narrow, confirmed).value = Clamp(0, 1000, l)
    BY <1>0, <2>1, <2>6, <2>7, <2>8, TrendIs DEF Score
  <2>10. Clamp(0, 1000, l) <= Clamp(0, 1000, k)
    BY <2>8, SMT DEF Clamp, AtMost, AtLeast
  <2> QED BY <2>9, <2>10
<1> QED BY <1>1, <1>2

(* multi_timeframe.py:60-73: a narrower last bar never raises the trend. *)
THEOREM NarrowerIsNoBetter == Spec => []NarrowingNeverHelps
<1>1. TypeOK => NarrowingNeverHelps
  <2> SUFFICES ASSUME TypeOK, NEW tf \in Timeframes, NEW bar \in Bars,
                      Len(series[tf]) > 0,
                      bar.high - bar.low <= series[tf][Len(series[tf])].high
                                            - series[tf][Len(series[tf])].low
               PROVE  Trend([series EXCEPT ![tf][Len(series[tf])].high = bar.high,
                                           ![tf][Len(series[tf])].low = bar.low]).value
                        <= Trend(series).value
    BY Zenon DEF NarrowingNeverHelps
  <2>1. series \in [Timeframes -> Seq(BarType)] /\ bar \in BarType
    BY ValuesAreTyped DEF TypeOK, WellTyped
  <2> DEFINE n == Len(series[tf])
             last == series[tf][n]
             narrow == [series EXCEPT ![tf][n].high = bar.high, ![tf][n].low = bar.low]
  <2>2. n \in 1..n /\ n \in DOMAIN series[tf] /\ last \in BarType
    BY <2>1
  <2> DEFINE slim == [high |-> bar.high, low |-> bar.low, close |-> last.close]
  <2>3. narrow = [series EXCEPT ![tf] = [series[tf] EXCEPT ![n] = slim]]
    <3> DEFINE tall == [last EXCEPT !.high = bar.high]
               these == [series[tf] EXCEPT ![n] = tall]
               one == [series EXCEPT ![tf] = these]
    <3>1. narrow = [one EXCEPT ![tf] = [one[tf] EXCEPT
                      ![n] = [one[tf][n] EXCEPT !.low = bar.low]]]
      BY Zenon
    <3>2. one[tf] = these /\ these[n] = tall
      BY <2>1, <2>2
    <3>3. [tall EXCEPT !.low = bar.low] = slim
      <4>1. last \in BarType
        BY <2>2
      <4> HIDE DEF last
      <4>2. /\ DOMAIN [tall EXCEPT !.low = bar.low] = {"high", "low", "close"}
            /\ [tall EXCEPT !.low = bar.low].high = bar.high
            /\ [tall EXCEPT !.low = bar.low].low = bar.low
            /\ [tall EXCEPT !.low = bar.low].close = last.close
        BY <4>1 DEF BarType
      <4>3. /\ DOMAIN slim = {"high", "low", "close"} /\ slim.high = bar.high
            /\ slim.low = bar.low /\ slim.close = last.close
        OBVIOUS
      <4>4. /\ tall = [x \in DOMAIN tall |-> tall[x]]
            /\ slim = [x \in DOMAIN slim |-> slim[x]]
        BY <4>1 DEF BarType
      <4> QED BY <4>2, <4>3, <4>4
    <3> HIDE DEF narrow, slim, last, tall, n
    <3>4. [these EXCEPT ![n] = slim] = [series[tf] EXCEPT ![n] = slim]
      BY <2>1, <2>2
    <3> HIDE DEF these
    <3>5. \A x : [one EXCEPT ![tf] = x] = [series EXCEPT ![tf] = x]
      BY <2>1
    <3> HIDE DEF one
    <3>6. narrow = [one EXCEPT ![tf] = [these EXCEPT ![n] = slim]]
      BY <3>1, <3>2, <3>3, Zenon
    <3> QED BY <3>4, <3>5, <3>6, Zenon
  <2>4. slim \in BarType
    BY <2>1, <2>2 DEF BarType
  <2> DEFINE bars == [series[tf] EXCEPT ![n] = slim]
  <2>5. /\ bars \in Seq(BarType) /\ Len(bars) = n /\ bars[n] = slim
        /\ \A i \in 1..n : i # n => bars[i] = series[tf][i]
    BY <2>1, <2>2, <2>4
  <2>6. narrow \in [Timeframes -> Seq(BarType)]
    BY <2>1, <2>3, <2>5
  <2>7. Narrows(bars, series[tf])
    <3>1. ASSUME NEW i \in 1..n
          PROVE  /\ bars[i].close = series[tf][i].close
                 /\ bars[i].high - bars[i].low <= series[tf][i].high - series[tf][i].low
                 /\ i < n => bars[i].high - bars[i].low
                               = series[tf][i].high - series[tf][i].low
      <4>1. series[tf][i] \in BarType
        BY <2>1
      <4>2. CASE i = n
        BY <2>5, <4>2
      <4>3. CASE i # n
        <5>1. bars[i] = series[tf][i]
          BY <2>5, <4>3
        <5>2. PICK x \in Int : x = series[tf][i].high - series[tf][i].low
          BY <4>1, RangeOfBar
        <5> QED BY <5>1, <5>2
      <4> QED BY <4>2, <4>3
    <3> HIDE DEF bars
    <3> QED BY <2>5, <3>1, Zenon DEF Narrows
  <2>8. ASSUME NEW other \in Timeframes PROVE Narrows(narrow[other], series[other])
    <3>1. CASE other = tf
      BY <2>1, <2>3, <2>7, <3>1
    <3>2. CASE other # tf
      <4>1. narrow[other] = series[other] /\ series[other] \in Seq(BarType)
        BY <2>1, <3>2
      <4>2. ASSUME NEW i \in 1..Len(series[other])
            PROVE  series[other][i].high - series[other][i].low
                     <= series[other][i].high - series[other][i].low
        <5>1. series[other][i] \in BarType
          BY <4>1
        <5> QED BY <5>1, RangeOfBar
      <4> QED BY <4>1, <4>2, Zenon DEF Narrows
    <3> QED BY <3>1, <3>2
  <2> HIDE DEF narrow
  <2>9. TrendScore(narrow, behavior.direction).value
          <= TrendScore(series, behavior.direction).value
    BY <2>1, <2>6, <2>8, NarrowerTrend
  <2> QED BY <2>9, Zenon DEF Trend, narrow
<1> QED BY <1>1, TypeCorrect, PTL
-----------------------------------------------------------------------------
(* A ratio of no less to no more is no less. *)
LEMMA RatioMonotone ==
  ASSUME NEW a \in Nat, NEW c \in Nat, NEW b \in Nat \ {0}, NEW d \in Nat \ {0},
         a <= c, d <= b
  PROVE  Round(a, b) <= Round(c, d)
<1>1. PICK x \in Int, y \in Int, z \in Int :
        /\ x = Round(a, b) /\ y = Round(a, d) /\ z = Round(c, d)
        /\ 0 <= x /\ 0 <= y /\ y <= z
  <2>1. /\ Round(a, b) \in Int /\ 0 <= Round(a, b)
        /\ Round(a, d) \in Int /\ 0 <= Round(a, d) /\ Round(c, d) \in Int
    BY RoundInScale
  <2>2. Round(a, d) <= Round(c, d)
    BY RoundMonotone
  <2> QED BY <2>1, <2>2
<1>2. x <= y
  <2>1. CASE x = 0
    BY <1>1, <2>1
  <2>2. CASE x # 0
    <3>1. /\ (2 * b) * x <= 2 * a + b
          /\ 2 * a + d < (2 * d) * (y + 1)
      <4>1. 2 * a + b \in Int /\ 2 * b \in Nat \ {0} /\ 2 * a + d \in Int
            /\ 2 * d \in Nat \ {0}
        OBVIOUS
      <4> QED BY <1>1, <4>1, Quotient DEF Round
    <3>2. PICK m \in Nat : m = 2 * x - 1
      BY <1>1, <2>2
    <3>3. b * m <= 2 * a
      <4>1. b * m = (2 * b) * x - b
        BY <3>2
      <4>2. (2 * b) * x \in Int
        OBVIOUS
      <4> QED BY <3>1, <4>1, <4>2
    <3>4. d * m <= b * m
      <4>1. m * d <= m * b
        BY TimesMonotone
      <4> QED BY <4>1
    <3>5. d * m = (2 * d) * x - d
      BY <3>2
    <3>6. (2 * d) * x < (2 * d) * (y + 1)
      <4>1. PICK p \in Int, q \in Int, r \in Int, s \in Int :
              /\ p = d * m /\ q = b * m /\ r = (2 * d) * x /\ s = (2 * d) * (y + 1)
        OBVIOUS
      <4>2. p <= q /\ q <= 2 * a /\ p = r - d /\ 2 * a + d < s
        BY <3>1, <3>3, <3>4, <3>5, <4>1
      <4>3. r < s
        BY <4>2
      <4> QED BY <4>1, <4>3
    <3>7. x < y + 1
      <4>1. 2 * d \in Nat \ {0} /\ y + 1 \in Int
        OBVIOUS
      <4> QED BY <3>6, <4>1, Cancel
    <3> QED BY <3>7
  <2> QED BY <2>1, <2>2
<1> QED BY <1>1, <1>2

(* Of two records of as many trades, one with no fewer wins, no smaller gains
   and no larger losses. *)
Betters(k, h) ==
  /\ h # None /\ k # None /\ k.occurrences = h.occurrences /\ h.occurrences \in Nat
  /\ \E n \in Nat \ {0}, v \in Nat, w \in Nat :
       h.winRate = <<v, n>> /\ k.winRate = <<w, n>> /\ v <= w
  /\ \E g \in Nat, p \in Nat, l \in Nat \ {0}, q \in Nat \ {0} :
       h.profitFactor = <<g, l>> /\ k.profitFactor = <<p, q>> /\ g <= p /\ q <= l

(* historical.py: the value of a record that suffices and has both ratios. *)
LEMMA HistoricalIs ==
  ASSUME NEW h, Sufficient(h), h.winRate # None, h.profitFactor # None
  PROVE  HistoricalScore(h).value
           = BlendOfThree(Round(1000 * h.winRate[1], h.winRate[2]),
                          AtMost(1000, Round(400 * h.profitFactor[1], h.profitFactor[2])),
                          AtMost(1000, Round(1000 * h.occurrences, 3 * MinSample)))
<1> DEFINE won    == Round(1000 * h.winRate[1], h.winRate[2])
           factor == IF h.profitFactor = None THEN 0
                     ELSE AtMost(1000, Round(400 * h.profitFactor[1], h.profitFactor[2]))
           depth  == AtMost(1000, Round(1000 * h.occurrences, 3 * MinSample))
           full   == 4 * MinSample
           conf   == AtMost(95, Round(40 * full + 55 * AtMost(full, h.occurrences), full))
<1>1. HistoricalScore(h) = [value |-> BlendOfThree(won, factor, depth), confidence |-> conf]
  BY Zenon DEF HistoricalScore, Score, BlendOfThree
<1>2. factor = AtMost(1000, Round(400 * h.profitFactor[1], h.profitFactor[2]))
  BY Zenon
<1> HIDE DEF won, factor, depth, conf
<1>3. HistoricalScore(h).value = BlendOfThree(won, factor, depth)
  BY <1>1
<1> QED BY <1>2, <1>3, SMT DEF won, depth

(* historical.py:30-52: the score of the better record is no lower. *)
LEMMA BetterHistory ==
  ASSUME NEW h, NEW k, Betters(k, h)
  PROVE  HistoricalScore(h).value <= HistoricalScore(k).value
<1>1. Sufficient(k) <=> Sufficient(h)
  BY DEF Betters, Sufficient, Occurrences
<1>2. PICK n \in Nat \ {0}, v \in Nat, w \in Nat :
        h.winRate = <<v, n>> /\ k.winRate = <<w, n>> /\ v <= w
  BY DEF Betters
<1>3. PICK g \in Nat, p \in Nat, l \in Nat \ {0}, q \in Nat \ {0} :
        h.profitFactor = <<g, l>> /\ k.profitFactor = <<p, q>> /\ g <= p /\ q <= l
  BY DEF Betters
<1>4. CASE ~Sufficient(h)
  BY <1>1, <1>4 DEF HistoricalScore, Score
<1>5. CASE Sufficient(h)
  <2>1. /\ h.winRate # None /\ k.winRate # None
        /\ h.profitFactor # None /\ k.profitFactor # None
    <3>1. \A x \in Nat, y \in Nat \ {0} : <<x, y>> # None
      BY EvidenceAssumption
    <3> QED BY <1>2, <1>3, <3>1
  <2>2. PICK depth \in Int :
          /\ depth = AtMost(1000, Round(1000 * h.occurrences, 3 * MinSample))
          /\ depth = AtMost(1000, Round(1000 * k.occurrences, 3 * MinSample))
    <3>1. h.occurrences \in Nat /\ k.occurrences = h.occurrences
      BY DEF Betters
    <3>2. PICK m \in Nat, d \in Nat \ {0} : m = 1000 * h.occurrences /\ d = 3 * MinSample
      BY <3>1, EnginesAssumption, SMT
    <3>3. PICK x \in Int : x = Round(m, d)
      BY RoundInScale
    <3>4. AtMost(1000, x) \in Int
      BY DEF AtMost
    <3> QED BY <3>1, <3>2, <3>3, <3>4
  <2>3. PICK won \in Int, wins \in Int :
          won = Round(1000 * v, n) /\ wins = Round(1000 * w, n) /\ won <= wins
    <3>1. PICK a \in Nat, b \in Nat : a = 1000 * v /\ b = 1000 * w /\ a <= b
      BY <1>2
    <3>2. a <= b
      BY <3>1
    <3>3. Round(a, n) \in Int /\ Round(b, n) \in Int /\ Round(a, n) <= Round(b, n)
      BY <3>2, RoundInScale, RoundMonotone
    <3> QED BY <3>1, <3>3
  <2>4. PICK low \in Int, high \in Int :
          /\ low = AtMost(1000, Round(400 * g, l)) /\ high = AtMost(1000, Round(400 * p, q))
          /\ low <= high
    <3>1. PICK a \in Nat, b \in Nat : a = 400 * g /\ b = 400 * p /\ a <= b
      BY <1>3
    <3>2. a <= b /\ q <= l
      BY <1>3, <3>1
    <3>3. PICK x \in Int, y \in Int : x = Round(a, l) /\ y = Round(b, q) /\ x <= y
      <4>1. Round(a, l) \in Int /\ Round(b, q) \in Int /\ Round(a, l) <= Round(b, q)
        BY <3>2, RoundInScale, RatioMonotone
      <4> QED BY <4>1
    <3>4. AtMost(1000, x) \in Int /\ AtMost(1000, y) \in Int
          /\ AtMost(1000, x) <= AtMost(1000, y)
      BY <3>3 DEF AtMost
    <3> QED BY <3>1, <3>3, <3>4
  <2>5. /\ HistoricalScore(h).value = BlendOfThree(won, low, depth)
        /\ HistoricalScore(k).value = BlendOfThree(wins, high, depth)
    <3>1. /\ h.winRate[1] = v /\ h.winRate[2] = n /\ k.winRate[1] = w /\ k.winRate[2] = n
          /\ h.profitFactor[1] = g /\ h.profitFactor[2] = l
          /\ k.profitFactor[1] = p /\ k.profitFactor[2] = q
      BY <1>2, <1>3
    <3>2. /\ HistoricalScore(h).value
               = BlendOfThree(Round(1000 * h.winRate[1], h.winRate[2]),
                              AtMost(1000, Round(400 * h.profitFactor[1],
                                                 h.profitFactor[2])),
                              AtMost(1000, Round(1000 * h.occurrences, 3 * MinSample)))
          /\ HistoricalScore(k).value
               = BlendOfThree(Round(1000 * k.winRate[1], k.winRate[2]),
                              AtMost(1000, Round(400 * k.profitFactor[1],
                                                 k.profitFactor[2])),
                              AtMost(1000, Round(1000 * k.occurrences, 3 * MinSample)))
      BY <1>1, <1>5, <2>1, HistoricalIs
    <3>3. HistoricalScore(h).value = BlendOfThree(won, low, depth)
      BY <2>2, <2>3, <2>4, <3>1, <3>2, SMT
    <3>4. HistoricalScore(k).value = BlendOfThree(wins, high, depth)
      BY <2>2, <2>3, <2>4, <3>1, <3>2, SMT
    <3> QED BY <3>3, <3>4
  <2>6. BlendOfThree(won, low, depth) <= BlendOfThree(wins, high, depth)
    <3>1. PICK a \in Int, b \in Int, d \in Nat \ {0} :
            /\ a = won * 45 + low * 35 + depth * 20
            /\ b = wins * 45 + high * 35 + depth * 20
            /\ a <= b /\ d = 100
      <4>1. won * 45 + low * 35 + depth * 20 <= wins * 45 + high * 35 + depth * 20
        <5>1. won <= wins /\ low <= high
          BY <2>3, <2>4
        <5> QED BY <5>1
      <4> QED BY <4>1
    <3>2. a <= b
      BY <3>1
    <3>3. Round(a, d) <= Round(b, d)
      BY <3>2, RoundMonotone
    <3>4. /\ BlendOfThree(won, low, depth) = Round(a, 100)
          /\ BlendOfThree(wins, high, depth) = Round(b, 100)
      BY <3>1, ThreeFactors
    <3> QED BY <3>1, <3>3, <3>4
  <2> QED BY <2>5, <2>6
<1> QED BY <1>4, <1>5

(* A win instead of one of several losses betters the record. *)
LEMMA OutcomeBetters ==
  ASSUME trades \in Seq(TradeType), NEW i \in ClosedHere, NEW other \in ClosedHere,
         other # i, trades[i].r < 0, trades[other].r < 0,
         NEW o \in Outcomes, o[1] > 0, o[2] = TRUE
  PROVE  Betters(History(WithOutcome(i, o)), History(trades))
<1> DEFINE now    == WithOutcome(i, o)
           closed == Tracked(trades, ConditionKey)
           old    == {j \in closed : trades[j].win = TRUE}
           new    == {j \in closed : now[j].win = TRUE}
           n      == Cardinality(closed)
           Gross(recorded, sign) == SumFunction(Part(recorded, closed, sign))
<1>1. /\ Tracked(now, ConditionKey) = closed /\ now \in Seq(TradeType)
      /\ \A j \in DOMAIN trades \ {i} : now[j] = trades[j]
      /\ now[i].r = o[1] /\ now[i].win = TRUE /\ i \in closed /\ other \in closed
      /\ o[1] \in Int
  <2>1. o[1] \in Int /\ o[1] # None
    BY ValuesAreTyped, EvidenceAssumption
  <2>2. other \in closed
    BY DEF ClosedHere, Tracked
  <2> HIDE DEF now, closed
  <2> QED BY <2>1, <2>2, OutcomeKept DEF now, closed
<1>2. /\ IsFiniteSet(closed) /\ closed \subseteq DOMAIN trades
      /\ \A j \in closed : trades[j].r \in Int
  BY TrackedTrades
<1>3. \A j \in closed : now[j].r \in Int
  <2> HIDE DEF now, closed
  <2> QED BY <1>1, TrackedTrades
<1>4. /\ History(trades)
           = [occurrences |-> n,
              winRate |-> IF n = 0 THEN None ELSE <<Cardinality(old), n>>,
              profitFactor |-> IF Gross(trades, -1) = 0 THEN None
                               ELSE <<Gross(trades, 1), Gross(trades, -1)>>]
      /\ History(now)
           = [occurrences |-> n,
              winRate |-> IF n = 0 THEN None ELSE <<Cardinality(new), n>>,
              profitFactor |-> IF Gross(now, -1) = 0 THEN None
                               ELSE <<Gross(now, 1), Gross(now, -1)>>]
  <2> HIDE DEF now
  <2> QED BY <1>1, Zenon DEF History, StatsForCondition, Part, ProfitFactor
<1>5. /\ History(trades) # None /\ History(now) # None
  <2> HIDE DEF now
  <2> QED BY <1>1, StatsTyped DEF History
<1>6. n \in Nat \ {0} /\ Cardinality(old) \in Nat /\ Cardinality(new) \in Nat
      /\ Cardinality(old) <= Cardinality(new)
  <2>1. old \subseteq new /\ new \subseteq closed /\ closed # {}
    BY <1>1, <1>2
  <2> HIDE DEF old, new, closed
  <2>2. IsFiniteSet(new) /\ IsFiniteSet(old)
    BY <1>2, <2>1, FS_Subset
  <2> QED BY <1>2, <2>1, <2>2, FS_Subset, FS_CardinalityType, FS_EmptySet
<1> HIDE DEF now, closed
<1>7. /\ Gross(trades, 1) \in Nat /\ Gross(trades, -1) \in Nat
      /\ Gross(now, 1) \in Nat /\ Gross(now, -1) \in Nat
  <2>1. 1 \in Int /\ -1 \in Int
    OBVIOUS
  <2> QED BY <1>2, <1>3, <2>1, GrossIsNat
<1>8. ASSUME NEW j \in closed
      PROVE  /\ Part(trades, closed, 1)[j] \in Nat /\ Part(now, closed, 1)[j] \in Nat
             /\ Part(trades, closed, -1)[j] \in Nat /\ Part(now, closed, -1)[j] \in Nat
             /\ Part(trades, closed, 1)[j] <= Part(now, closed, 1)[j]
             /\ Part(now, closed, -1)[j] <= Part(trades, closed, -1)[j]
             /\ j = other => Part(now, closed, -1)[j] > 0
  <2>1. PICK r \in Int, s \in Int : r = trades[j].r /\ s = now[j].r
    BY <1>2, <1>3
  <2>2. Or(trades[j].r, 0) = r /\ Or(now[j].r, 0) = s
    BY <2>1, EvidenceAssumption DEF Or, Truthy
  <2>3. /\ Part(trades, closed, 1)[j] = AtLeast(0, 1 * r)
        /\ Part(now, closed, 1)[j] = AtLeast(0, 1 * s)
        /\ Part(trades, closed, -1)[j] = AtLeast(0, -1 * r)
        /\ Part(now, closed, -1)[j] = AtLeast(0, -1 * s)
    BY <2>2 DEF Part
  <2>4. r = s \/ (r < 0 /\ s > 0)
    BY <1>1, <1>2, <2>1
  <2>5. j = other => r = s /\ r < 0
    BY <1>1, <1>2, <2>1
  <2> QED BY <2>3, <2>4, <2>5 DEF AtLeast
<1>9. /\ Gross(trades, 1) <= Gross(now, 1)
      /\ Gross(now, -1) <= Gross(trades, -1)
      /\ Gross(now, -1) > 0
  <2> DEFINE a == Part(trades, closed, 1)
             b == Part(now, closed, 1)
             c == Part(trades, closed, -1)
             d == Part(now, closed, -1)
  <2>1. /\ Gross(trades, 1) = SumFunctionOnSet(a, closed)
        /\ Gross(now, 1) = SumFunctionOnSet(b, closed)
        /\ Gross(trades, -1) = SumFunctionOnSet(c, closed)
        /\ Gross(now, -1) = SumFunctionOnSet(d, closed)
    BY DEF SumFunction, Part
  <2>2. \A j \in closed : /\ a[j] \in Int /\ b[j] \in Int /\ a[j] <= b[j]
                          /\ c[j] \in Int /\ d[j] \in Int /\ d[j] <= c[j]
                          /\ d[j] \in Nat
    BY <1>8
  <2>3. other \in closed /\ d[other] > 0
    BY <1>1, <1>8
  <2> HIDE DEF a, b, c, d, Gross
  <2>4. SumFunctionOnSet(a, closed) <= SumFunctionOnSet(b, closed)
    BY <1>2, <2>2, SumMonotone
  <2>5. SumFunctionOnSet(d, closed) <= SumFunctionOnSet(c, closed)
    BY <1>2, <2>2, SumMonotone
  <2>6. SumFunctionOnSet(d, closed) > 0
    BY <1>2, <2>2, <2>3, SumPositive
  <2> QED BY <2>1, <2>4, <2>5, <2>6
<1> HIDE DEF n, old, new, Gross
<1>10. PICK g \in Nat, p \in Nat, l \in Nat \ {0}, q \in Nat \ {0} :
         /\ g = Gross(trades, 1) /\ l = Gross(trades, -1)
         /\ p = Gross(now, 1) /\ q = Gross(now, -1) /\ g <= p /\ q <= l
  BY <1>7, <1>9
<1>11. PICK m \in Nat \ {0}, v \in Nat, w \in Nat :
         m = n /\ v = Cardinality(old) /\ w = Cardinality(new) /\ v <= w
  BY <1>6
<1>12. /\ History(trades) = [occurrences |-> m, winRate |-> <<v, m>>,
                            profitFactor |-> <<g, l>>]
       /\ History(now) = [occurrences |-> m, winRate |-> <<w, m>>,
                         profitFactor |-> <<p, q>>]
  BY <1>4, <1>10, <1>11
<1> QED BY <1>5, <1>10, <1>11, <1>12 DEF Betters, now

(* historical.py:30-52: a win instead of a loss, not the last, lowers nothing. *)
THEOREM BetterIsNoWorse == Spec => []BetterRecordNeverHurts
<1>1. TypeOK => BetterRecordNeverHurts
  <2> DEFINE lost == {i \in ClosedHere : trades[i].r < 0}
  <2> SUFFICES ASSUME TypeOK, NEW i \in lost, NEW o \in Outcomes,
                      lost # {i}, o[1] > 0, o[2] = TRUE
               PROVE  HistoricalScore(History(WithOutcome(i, o))).value
                        >= HistoricalScore(History(trades)).value
    BY Zenon DEF BetterRecordNeverHurts
  <2>1. trades \in Seq(TradeType)
    BY DEF TypeOK, WellTyped
  <2>2. PICK other \in lost : other # i
    OBVIOUS
  <2>3. /\ i \in ClosedHere /\ trades[i].r < 0
        /\ other \in ClosedHere /\ trades[other].r < 0
    OBVIOUS
  <2>4. Betters(History(WithOutcome(i, o)), History(trades))
    BY <2>1, <2>2, <2>3, OutcomeBetters
  <2>5. HistoricalScore(History(trades)).value
          <= HistoricalScore(History(WithOutcome(i, o))).value
    BY <2>4, BetterHistory
  <2>6. /\ HistoricalScore(History(trades)).value \in Int
        /\ HistoricalScore(History(WithOutcome(i, o))).value \in Int
    <3>1. o[1] # None
      BY ValuesAreTyped, EvidenceAssumption
    <3>2. WithOutcome(i, o) \in Seq(TradeType)
      BY <2>1, <2>3, <3>1, OutcomeKept
    <3>3. /\ IsHistory(History(trades)) /\ IsHistory(History(WithOutcome(i, o)))
      BY <2>1, <3>2, StatsTyped DEF History
    <3> QED BY <3>3, HistoricalTyped, ConstructibleMeans
  <2> QED BY <2>5, <2>6
<1> QED BY <1>1, TypeCorrect, PTL
=============================================================================
