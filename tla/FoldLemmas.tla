----------------------------- MODULE FoldLemmas ------------------------------
(***************************************************************************)
(* Induction over natural numbers and finite sets, stated for sets instead *)
(* of predicates so that first-order provers can use it, and with it what  *)
(* the proofs of this project need to know of recursive functions and of   *)
(* sums (SumFunction of the community module Functions).                   *)
(***************************************************************************)
EXTENDS Integers, FiniteSets, Functions, FiniteSetTheorems,
        WellFoundedInduction, TLAPS

(* A non-empty set of natural numbers has a least one. *)
LEMMA LeastNumber ==
  ASSUME NEW S \in SUBSET Nat, S # {}
  PROVE  \E n \in S : \A m \in S : n <= m
<1>1. PICK n \in S : \A m \in S : ~ (<<m, n>> \in OpToRel(<, Nat))
  BY NatLessThanWellFounded, WFMin
<1>2. \A m \in S : ~ (m < n)
  BY <1>1 DEF OpToRel
<1> QED BY <1>2

(* A set that holds 0 and, with a number, the next one, holds them all. *)
LEMMA Induction ==
  ASSUME NEW S \in SUBSET Nat, 0 \in S, \A n \in S : n + 1 \in S
  PROVE  S = Nat
<1> SUFFICES ASSUME Nat \ S # {} PROVE FALSE
  OBVIOUS
<1>1. PICK n \in Nat \ S : \A m \in Nat \ S : n <= m
  BY LeastNumber
<1>2. n # 0 /\ n - 1 \in Nat /\ n - 1 \notin Nat \ S
  BY <1>1
<1>3. (n - 1) + 1 \in S
  BY <1>2
<1> QED BY <1>3

(* Iterating a function from a value on is well defined. *)
LEMMA Iteration ==
  ASSUME NEW V, NEW start \in V, NEW step \in [V -> V]
  PROVE  \E g \in [Nat -> V] :
           g[0] = start /\ \A n \in Nat : g[n + 1] = step[g[n]]
<1> DEFINE Upto(n, g) ==
             /\ g \in [0..n -> V] /\ g[0] = start
             /\ \A i \in 0..n - 1 : g[i + 1] = step[g[i]]
           S == {n \in Nat : \E g : Upto(n, g)}
<1>1. 0 \in S
  <2>1. Upto(0, [i \in 0..0 |-> start])
    OBVIOUS
  <2> QED BY <2>1
<1>2. ASSUME NEW n \in S PROVE n + 1 \in S
  <2>1. PICK g : Upto(n, g)
    OBVIOUS
  <2> DEFINE h == [i \in 0..n + 1 |-> IF i = n + 1 THEN step[g[n]] ELSE g[i]]
  <2>2. h \in [0..n + 1 -> V]
    BY <2>1
  <2>3. Upto(n + 1, h)
    BY <2>1, <2>2
  <2> HIDE DEF h
  <2> QED BY <2>3
<1>3. S = Nat
  <2> HIDE DEF S
  <2>1. S \in SUBSET Nat
    BY DEF S
  <2> QED BY <1>1, <1>2, <2>1, Induction
<1> DEFINE f == [n \in Nat |-> CHOOSE g : Upto(n, g)]
<1>4. ASSUME NEW n \in Nat PROVE Upto(n, f[n])
  <2>1. \E g : Upto(n, g)
    BY <1>3
  <2>2. f[n] = CHOOSE g : Upto(n, g)
    OBVIOUS
  <2> HIDE DEF f, Upto
  <2> QED BY <2>1, <2>2
<1> HIDE DEF f
<1>5. ASSUME NEW n \in Nat PROVE f[n + 1][n] = f[n][n]
  <2> DEFINE T == {i \in Nat : i <= n => f[n + 1][i] = f[n][i]}
  <2>1. Upto(n, f[n]) /\ Upto(n + 1, f[n + 1])
    BY <1>4
  <2>2. 0 \in T
    BY <2>1
  <2>3. ASSUME NEW i \in T PROVE i + 1 \in T
    <3>1. CASE i + 1 <= n
      <4>1. f[n][i + 1] = step[f[n][i]] /\ f[n + 1][i + 1] = step[f[n + 1][i]]
        BY <2>1, <3>1
      <4> QED BY <3>1, <4>1
    <3>2. CASE ~ (i + 1 <= n)
      BY <3>2
    <3> QED BY <3>1, <3>2
  <2>4. T = Nat
    <3> HIDE DEF T
    <3>1. T \in SUBSET Nat
      BY DEF T
    <3> QED BY <2>2, <2>3, <3>1, Induction
  <2>5. n \in T
    BY <2>4
  <2> QED BY <2>5
<1> DEFINE F == [n \in Nat |-> f[n][n]]
<1>6. F \in [Nat -> V] /\ F[0] = start
  BY <1>4
<1>7. ASSUME NEW n \in Nat PROVE F[n + 1] = step[F[n]]
  <2>1. f[n + 1] \in [0..n + 1 -> V] /\ f[n + 1][n + 1] = step[f[n + 1][n]]
    <3>1. Upto(n + 1, f[n + 1]) /\ n \in 0..(n + 1) - 1
      BY <1>4
    <3> QED BY <3>1
  <2>2. f[n + 1][n] = f[n][n]
    BY <1>5
  <2>3. F[n + 1] = f[n + 1][n + 1] /\ F[n] = f[n][n]
    OBVIOUS
  <2> HIDE DEF F
  <2> QED BY <2>1, <2>2, <2>3
<1> HIDE DEF F
<1> QED BY <1>6, <1>7
-----------------------------------------------------------------------------
(* A family of subsets of a finite set that holds every set of whose proper
   subsets it holds all, holds every subset. *)
LEMMA SetInduction ==
  ASSUME NEW D, IsFiniteSet(D), NEW F \in SUBSET SUBSET D,
         \A S \in SUBSET D : (\A T \in SUBSET S : T # S => T \in F) => S \in F
  PROVE  F = SUBSET D
<1> DEFINE R == StrictSubsetOrdering(D)
           Bad == (SUBSET D) \ F
<1> SUFFICES ASSUME Bad # {} PROVE FALSE
  OBVIOUS
<1>1. IsWellFoundedOn(R, SUBSET D)
  <2>1. FiniteSubsetsOf(D) = SUBSET D
    BY FS_FiniteSubsetsOfFinite
  <2>2. IsWellFoundedOn(StrictSubsetOrdering(D), FiniteSubsetsOf(D))
    BY FS_StrictSubsetOrderingWellFounded
  <2> QED BY <2>1, <2>2
<1>2. PICK S \in Bad : \A T \in Bad : ~ (<<T, S>> \in R)
  <2>1. Bad \subseteq SUBSET D
    OBVIOUS
  <2> HIDE DEF Bad, R
  <2> QED BY <1>1, <2>1, WFMin
<1>3. ASSUME NEW T \in SUBSET S, T # S PROVE T \in F
  <2>1. <<T, S>> \in R
    BY <1>3 DEF StrictSubsetOrdering
  <2> QED BY <1>2, <2>1
<1> QED BY <1>2, <1>3

(* The element a sum takes next, and the equation of its partial totals. *)
Pick(s) == CHOOSE x \in s : TRUE
IsTotal(f, S, g) ==
  g = [s \in SUBSET S |-> IF s = {} THEN 0 ELSE f[Pick(s)] + g[s \ {Pick(s)}]]

(* SumFunctionOnSet is the total of the set. *)
LEMMA SumIsTotal ==
  ASSUME NEW f, NEW S
  PROVE  SumFunctionOnSet(f, S) = (CHOOSE g : IsTotal(f, S, g))[S]
BY DEF SumFunctionOnSet, FoldFunctionOnSet, MapThenFoldSet, IsTotal, Pick

(* The total of a set is that of the rest and its picked element. *)
LEMMA TotalStep ==
  ASSUME NEW f, NEW S, NEW g, IsTotal(f, S, g), NEW s \in SUBSET S
  PROVE  g[s] = IF s = {} THEN 0 ELSE f[Pick(s)] + g[s \ {Pick(s)}]
BY DEF IsTotal

(* Totals over two sets agree on what is in both. *)
LEMMA TotalsAgree ==
  ASSUME NEW f, NEW S, NEW T, IsFiniteSet(S),
         NEW g, IsTotal(f, S, g), NEW h, IsTotal(f, T, h)
  PROVE  \A U \in SUBSET (S \cap T) : g[U] = h[U]
<1> DEFINE D == S \cap T
           F == {U \in SUBSET D : g[U] = h[U]}
<1>1. IsFiniteSet(D)
  BY FS_Subset
<1>2. ASSUME NEW U \in SUBSET D, \A V \in SUBSET U : V # U => V \in F
      PROVE  U \in F
  <2>1. g[U] = IF U = {} THEN 0 ELSE f[Pick(U)] + g[U \ {Pick(U)}]
    BY TotalStep
  <2>2. h[U] = IF U = {} THEN 0 ELSE f[Pick(U)] + h[U \ {Pick(U)}]
    BY TotalStep
  <2>3. U # {} => Pick(U) \in U
    BY DEF Pick
  <2> QED BY <1>2, <2>1, <2>2, <2>3
<1>3. F = SUBSET D
  <2>1. F \in SUBSET SUBSET D
    OBVIOUS
  <2> HIDE DEF F, D
  <2> QED BY <1>1, <1>2, <2>1, SetInduction
<1> QED BY <1>3

(* Every finite set has a total. *)
LEMMA TotalExists ==
  ASSUME NEW f, NEW D, IsFiniteSet(D)
  PROVE  \A S \in SUBSET D : \E g : IsTotal(f, S, g)
<1> DEFINE F == {S \in SUBSET D : \E g : IsTotal(f, S, g)}
           Tot(s) == CHOOSE g : IsTotal(f, s, g)
<1>1. ASSUME NEW S \in SUBSET D, \A T \in SUBSET S : T # S => T \in F
      PROVE  S \in F
  <2> DEFINE part == [s \in SUBSET S |-> Tot(s)]
             rest == S \ {Pick(S)}
             top  == IF S = {} THEN 0 ELSE f[Pick(S)] + part[rest][rest]
             g    == [s \in SUBSET S |-> IF s = S THEN top ELSE part[s][s]]
  <2>1. ASSUME NEW s \in SUBSET S, s # S PROVE IsTotal(f, s, part[s])
    <3>1. \E t : IsTotal(f, s, t)
      BY <1>1, <2>1
    <3>2. part[s] = CHOOSE t : IsTotal(f, s, t)
      OBVIOUS
    <3> HIDE DEF part
    <3> QED BY <3>1, <3>2
  <2> HIDE DEF part
  <2>2. \A s \in SUBSET S : s # {} => Pick(s) \in s
    BY DEF Pick
  <2>3. ASSUME NEW s \in SUBSET S
        PROVE  g[s] = IF s = {} THEN 0 ELSE f[Pick(s)] + g[s \ {Pick(s)}]
    <3>1. CASE s = S
      BY <2>2, <3>1
    <3>2. CASE s # S
      <4>1. part[s][s] = IF s = {} THEN 0
                         ELSE f[Pick(s)] + part[s][s \ {Pick(s)}]
        BY <2>1, <3>2, TotalStep
      <4>2. ASSUME s # {}
            PROVE  part[s][s \ {Pick(s)}] = part[s \ {Pick(s)}][s \ {Pick(s)}]
        <5> DEFINE less == s \ {Pick(s)}
        <5>1. less \in SUBSET S /\ less # S
          BY <2>2, <3>2
        <5>2. IsFiniteSet(s)
          BY FS_Subset
        <5>3. less \in SUBSET (s \cap less)
          OBVIOUS
        <5>4. IsTotal(f, s, part[s]) /\ IsTotal(f, less, part[less])
          BY <2>1, <3>2, <5>1
        <5>5. PICK a, b : a = part[s] /\ b = part[less]
          OBVIOUS
        <5>6. \A U \in SUBSET (s \cap less) : a[U] = b[U]
          <6>1. IsTotal(f, s, a) /\ IsTotal(f, less, b)
            BY <5>4, <5>5
          <6> HIDE DEF less
          <6> QED BY <5>2, <6>1, TotalsAgree
        <5> QED BY <5>3, <5>5, <5>6
      <4>3. s # {} => s \ {Pick(s)} # S
        BY <2>2
      <4> QED BY <3>2, <4>1, <4>2, <4>3
    <3> QED BY <3>1, <3>2
  <2>4. IsTotal(f, S, g)
    <3> HIDE DEF g
    <3>1. g = [s \in SUBSET S |-> g[s]]
      BY DEF g
    <3> QED BY <2>3, <3>1 DEF IsTotal
  <2> HIDE DEF g
  <2> QED BY <2>4
<1>2. F = SUBSET D
  <2>1. F \in SUBSET SUBSET D
    OBVIOUS
  <2> HIDE DEF F
  <2> QED BY <1>1, <2>1, SetInduction
<1> QED BY <1>2

(* A sum is the value of one of its elements and the sum of the others. *)
LEMMA SumRecursion ==
  ASSUME NEW f, NEW S, IsFiniteSet(S)
  PROVE  IF S = {}
         THEN SumFunctionOnSet(f, S) = 0
         ELSE /\ Pick(S) \in S
              /\ SumFunctionOnSet(f, S)
                   = f[Pick(S)] + SumFunctionOnSet(f, S \ {Pick(S)})
<1> DEFINE Tot(s) == CHOOSE g : IsTotal(f, s, g)
<1>1. ASSUME NEW s \in SUBSET S
      PROVE  IsTotal(f, s, Tot(s)) /\ SumFunctionOnSet(f, s) = Tot(s)[s]
  <2>1. \E g : IsTotal(f, s, g)
    BY TotalExists
  <2>2. SumFunctionOnSet(f, s) = Tot(s)[s]
    BY SumIsTotal
  <2> QED BY <2>1, <2>2
<1> HIDE DEF Tot
<1>2. ASSUME S = {} PROVE SumFunctionOnSet(f, S) = 0
  <2>1. Tot(S)[S] = 0
    BY <1>1, <1>2, TotalStep
  <2> QED BY <1>1, <2>1
<1>3. ASSUME S # {}
      PROVE  /\ Pick(S) \in S
             /\ SumFunctionOnSet(f, S)
                   = f[Pick(S)] + SumFunctionOnSet(f, S \ {Pick(S)})
  <2> DEFINE rest == S \ {Pick(S)}
  <2>1. Pick(S) \in S
    BY <1>3 DEF Pick
  <2>2. Tot(S)[S] = f[Pick(S)] + Tot(S)[rest]
    BY <1>1, <1>3, TotalStep
  <2>3. rest \in SUBSET S /\ rest \in SUBSET (S \cap rest)
    OBVIOUS
  <2>4. Tot(S)[rest] = Tot(rest)[rest]
    <3>1. IsTotal(f, S, Tot(S)) /\ IsTotal(f, rest, Tot(rest))
      BY <1>1, <2>3
    <3> HIDE DEF rest
    <3> QED BY <2>3, <3>1, TotalsAgree
  <2> QED BY <1>1, <2>1, <2>2, <2>3, <2>4
<1> QED BY <1>2, <1>3
-----------------------------------------------------------------------------
(* The sum of integers is an integer, and any element may be taken out. *)
LEMMA SumOfInts ==
  ASSUME NEW f, NEW D, IsFiniteSet(D), \A x \in D : f[x] \in Int
  PROVE  SumFunctionOnSet(f, D) \in Int
<1> DEFINE F == {S \in SUBSET D : SumFunctionOnSet(f, S) \in Int}
<1>1. ASSUME NEW S \in SUBSET D, \A T \in SUBSET S : T # S => T \in F
      PROVE  S \in F
  <2>1. IsFiniteSet(S)
    BY FS_Subset
  <2>2. CASE S = {}
    <3>1. SumFunctionOnSet(f, S) = 0
      BY <2>1, <2>2, SumRecursion
    <3> QED BY <3>1
  <2>3. CASE S # {}
    <3>1. /\ Pick(S) \in S
          /\ SumFunctionOnSet(f, S) = f[Pick(S)] + SumFunctionOnSet(f, S \ {Pick(S)})
      BY <2>1, <2>3, SumRecursion
    <3>2. S \ {Pick(S)} \in F
      BY <1>1, <3>1
    <3> QED BY <3>1, <3>2
  <2> QED BY <2>2, <2>3
<1>2. F = SUBSET D
  <2>1. F \in SUBSET SUBSET D
    OBVIOUS
  <2> HIDE DEF F
  <2> QED BY <1>1, <2>1, SetInduction
<1> QED BY <1>2

(* Any element may be taken out of a sum. *)
LEMMA SumTakeOut ==
  ASSUME NEW f, NEW D, IsFiniteSet(D), \A x \in D : f[x] \in Int,
         NEW y \in D
  PROVE  SumFunctionOnSet(f, D) = f[y] + SumFunctionOnSet(f, D \ {y})
<1> DEFINE Sum(S) == SumFunctionOnSet(f, S)
           F == {S \in SUBSET D : \A x \in S : Sum(S) = f[x] + Sum(S \ {x})}
<1>0. \A S \in SUBSET D : Sum(S) \in Int
  BY SumOfInts, FS_Subset
<1>1. ASSUME NEW S \in SUBSET D, \A T \in SUBSET S : T # S => T \in F
      PROVE  S \in F
  <2> SUFFICES ASSUME NEW x \in S PROVE Sum(S) = f[x] + Sum(S \ {x})
    OBVIOUS
  <2> DEFINE c == Pick(S)
  <2>1. c \in S /\ Sum(S) = f[c] + Sum(S \ {c})
    BY SumRecursion, FS_Subset
  <2>2. CASE x = c
    BY <2>1, <2>2
  <2>3. CASE x # c
    <3>1. Sum(S \ {c}) = f[x] + Sum((S \ {c}) \ {x})
      BY <1>1, <2>1, <2>3
    <3>2. Sum(S \ {x}) = f[c] + Sum((S \ {x}) \ {c})
      BY <1>1, <2>1, <2>3
    <3>3. (S \ {c}) \ {x} = (S \ {x}) \ {c}
      OBVIOUS
    <3>4. Sum((S \ {c}) \ {x}) = Sum((S \ {x}) \ {c})
      BY <3>3, Zenon
    <3>5. Sum((S \ {x}) \ {c}) \in Int /\ f[x] \in Int /\ f[c] \in Int
      BY <1>0, <2>1
    <3> HIDE DEF Sum, c
    <3> QED BY <2>1, <3>1, <3>2, <3>4, <3>5
  <2> QED BY <2>2, <2>3
<1>2. F = SUBSET D
  <2>1. F \in SUBSET SUBSET D
    OBVIOUS
  <2> HIDE DEF F
  <2> QED BY <1>1, <2>1, SetInduction
<1> QED BY <1>2

(* The sum of a scaled function, and that of a function nowhere above. *)
LEMMA SumScaled ==
  ASSUME NEW f, NEW g, NEW c \in Int, NEW D, IsFiniteSet(D),
         \A x \in D : f[x] \in Int /\ g[x] = c * f[x]
  PROVE  SumFunctionOnSet(g, D) = c * SumFunctionOnSet(f, D)
<1> DEFINE F == {S \in SUBSET D : SumFunctionOnSet(g, S) = c * SumFunctionOnSet(f, S)}
<1>1. ASSUME NEW S \in SUBSET D, \A T \in SUBSET S : T # S => T \in F
      PROVE  S \in F
  <2>1. IsFiniteSet(S)
    BY FS_Subset
  <2>2. CASE S = {}
    <3>1. SumFunctionOnSet(f, S) = 0 /\ SumFunctionOnSet(g, S) = 0
      BY <2>1, <2>2, SumRecursion
    <3> QED BY <3>1
  <2>3. CASE S # {}
    <3> DEFINE p == Pick(S)
               a == SumFunctionOnSet(f, S \ {p})
    <3>1. /\ p \in S
          /\ SumFunctionOnSet(f, S) = f[p] + a
          /\ SumFunctionOnSet(g, S) = g[p] + SumFunctionOnSet(g, S \ {p})
      BY <2>1, <2>3, SumRecursion
    <3>2. SumFunctionOnSet(g, S \ {p}) = c * a
      BY <1>1, <3>1
    <3>3. a \in Int
      BY <2>1, SumOfInts, FS_Subset
    <3>4. f[p] \in Int /\ g[p] = c * f[p]
      BY <3>1
    <3> HIDE DEF a, p
    <3>5. c * (f[p] + a) = c * f[p] + c * a
      BY <3>3, <3>4
    <3> QED BY <3>1, <3>2, <3>4, <3>5
  <2> QED BY <2>2, <2>3
<1>2. F = SUBSET D
  <2>1. F \in SUBSET SUBSET D
    OBVIOUS
  <2> HIDE DEF F
  <2> QED BY <1>1, <2>1, SetInduction
<1> QED BY <1>2

(* The sum of a function nowhere above another is not above its sum. *)
LEMMA SumMonotone ==
  ASSUME NEW f, NEW g, NEW D, IsFiniteSet(D),
         \A x \in D : f[x] \in Int /\ g[x] \in Int /\ f[x] <= g[x]
  PROVE  SumFunctionOnSet(f, D) <= SumFunctionOnSet(g, D)
<1> DEFINE F == {S \in SUBSET D : SumFunctionOnSet(f, S) <= SumFunctionOnSet(g, S)}
<1>1. ASSUME NEW S \in SUBSET D, \A T \in SUBSET S : T # S => T \in F
      PROVE  S \in F
  <2>1. IsFiniteSet(S)
    BY FS_Subset
  <2>2. CASE S = {}
    <3>1. SumFunctionOnSet(f, S) = 0 /\ SumFunctionOnSet(g, S) = 0
      BY <2>1, <2>2, SumRecursion
    <3> QED BY <3>1
  <2>3. CASE S # {}
    <3> DEFINE p == Pick(S)
               a == SumFunctionOnSet(f, S \ {p})
               b == SumFunctionOnSet(g, S \ {p})
    <3>1. /\ p \in S
          /\ SumFunctionOnSet(f, S) = f[p] + a
          /\ SumFunctionOnSet(g, S) = g[p] + b
      BY <2>1, <2>3, SumRecursion
    <3>2. a <= b
      BY <1>1, <3>1
    <3>3. a \in Int /\ b \in Int
      BY <2>1, SumOfInts, FS_Subset
    <3>4. f[p] \in Int /\ g[p] \in Int /\ f[p] <= g[p]
      BY <3>1
    <3> HIDE DEF a, b, p
    <3> QED BY <3>1, <3>2, <3>3, <3>4
  <2> QED BY <2>2, <2>3
<1>2. F = SUBSET D
  <2>1. F \in SUBSET SUBSET D
    OBVIOUS
  <2> HIDE DEF F
  <2> QED BY <1>1, <2>1, SetInduction
<1> QED BY <1>2

(* Functions that are equal on a set have the same sum over it. *)
LEMMA SumSame ==
  ASSUME NEW f, NEW g, NEW D, IsFiniteSet(D),
         \A x \in D : f[x] \in Int /\ f[x] = g[x]
  PROVE  SumFunctionOnSet(f, D) = SumFunctionOnSet(g, D)
<1>1. /\ SumFunctionOnSet(f, D) <= SumFunctionOnSet(g, D)
      /\ SumFunctionOnSet(g, D) <= SumFunctionOnSet(f, D)
  BY SumMonotone
<1>2. SumFunctionOnSet(f, D) \in Int
  BY SumOfInts
<1>3. SumFunctionOnSet(g, D) \in Int
  <2>1. \A x \in D : g[x] \in Int
    OBVIOUS
  <2> QED BY <2>1, SumOfInts
<1> QED BY <1>1, <1>2, <1>3

(* The sum of a constant. *)
LEMMA SumConstant ==
  ASSUME NEW f, NEW c \in Int, NEW D, IsFiniteSet(D), \A x \in D : f[x] = c
  PROVE  SumFunctionOnSet(f, D) = c * Cardinality(D)
<1> DEFINE F == {S \in SUBSET D : SumFunctionOnSet(f, S) = c * Cardinality(S)}
<1>1. ASSUME NEW S \in SUBSET D, \A T \in SUBSET S : T # S => T \in F
      PROVE  S \in F
  <2>1. IsFiniteSet(S)
    BY FS_Subset
  <2>2. CASE S = {}
    <3>1. SumFunctionOnSet(f, S) = 0
      BY <2>1, <2>2, SumRecursion
    <3>2. Cardinality(S) = 0
      BY <2>2, FS_EmptySet
    <3> QED BY <3>1, <3>2
  <2>3. CASE S # {}
    <3> DEFINE p == Pick(S)
    <3>1. p \in S /\ SumFunctionOnSet(f, S) = f[p] + SumFunctionOnSet(f, S \ {p})
      BY <2>1, <2>3, SumRecursion
    <3>2. SumFunctionOnSet(f, S \ {p}) = c * Cardinality(S \ {p})
      BY <1>1, <3>1
    <3>3. Cardinality(S \ {p}) = Cardinality(S) - 1 /\ Cardinality(S) \in Nat
      BY <2>1, <3>1, FS_RemoveElement, FS_CardinalityType
    <3>4. f[p] = c
      BY <3>1
    <3> HIDE DEF p
    <3>5. c + c * (Cardinality(S) - 1) = c * Cardinality(S)
      BY <3>3
    <3> QED BY <3>1, <3>2, <3>3, <3>4, <3>5
  <2> QED BY <2>2, <2>3
<1>2. F = SUBSET D
  <2>1. F \in SUBSET SUBSET D
    OBVIOUS
  <2> HIDE DEF F
  <2> QED BY <1>1, <2>1, SetInduction
<1> QED BY <1>2

(* A weighted sum lies between the sum of the weights times the lowest and
   times the highest value. *)
LEMMA WeightedSum ==
  ASSUME NEW w, NEW v, NEW p, NEW D, IsFiniteSet(D), NEW lo \in Int, NEW hi \in Int,
         \A x \in D : /\ w[x] \in Nat /\ v[x] \in Int /\ p[x] = v[x] * w[x]
                      /\ lo <= v[x] /\ v[x] <= hi
  PROVE  /\ SumFunctionOnSet(w, D) \in Nat /\ SumFunctionOnSet(p, D) \in Int
         /\ lo * SumFunctionOnSet(w, D) <= SumFunctionOnSet(p, D)
         /\ SumFunctionOnSet(p, D) <= hi * SumFunctionOnSet(w, D)
<1> DEFINE Times(c) == [x \in D |-> c * w[x]]
<1>1. ASSUME NEW c \in Int
      PROVE SumFunctionOnSet(Times(c), D) = c * SumFunctionOnSet(w, D)
  <2>1. \A x \in D : w[x] \in Int /\ Times(c)[x] = c * w[x]
    OBVIOUS
  <2> HIDE DEF Times
  <2> QED BY <2>1, SumScaled
<1>2. \A x \in D : /\ Times(lo)[x] \in Int /\ Times(hi)[x] \in Int
                   /\ p[x] \in Int /\ Times(0)[x] \in Int
                   /\ Times(lo)[x] <= p[x] /\ p[x] <= Times(hi)[x]
                   /\ Times(0)[x] <= w[x] /\ w[x] \in Int
  OBVIOUS
<1> HIDE DEF Times
<1>3. SumFunctionOnSet(w, D) \in Int /\ SumFunctionOnSet(p, D) \in Int
  BY <1>2, SumOfInts
<1>4. SumFunctionOnSet(Times(0), D) <= SumFunctionOnSet(w, D)
  BY <1>2, SumMonotone
<1>5. SumFunctionOnSet(Times(0), D) = 0
  BY <1>1, <1>3
<1>6. /\ SumFunctionOnSet(Times(lo), D) <= SumFunctionOnSet(p, D)
      /\ SumFunctionOnSet(p, D) <= SumFunctionOnSet(Times(hi), D)
  BY <1>2, SumMonotone
<1> QED BY <1>1, <1>3, <1>4, <1>5, <1>6

(* Sums over 1..n, one element at a time. *)
LEMMA SumUpto ==
  ASSUME NEW f, NEW n \in Nat, \A i \in 1..n : f[i] \in Int
  PROVE  SumFunctionOnSet(f, 1..n)
           = IF n = 0 THEN 0 ELSE SumFunctionOnSet(f, 1..n - 1) + f[n]
<1>1. IsFiniteSet(1..n)
  BY FS_Interval
<1>2. CASE n = 0
  <2>1. 1..n = {}
    BY <1>2
  <2>2. SumFunctionOnSet(f, 1..n) = 0
    BY <1>1, <2>1, SumRecursion
  <2> QED BY <1>2, <2>2
<1>3. CASE n # 0
  <2>1. n \in 1..n /\ (1..n) \ {n} = 1..n - 1
    BY <1>3
  <2>2. SumFunctionOnSet(f, 1..n) = f[n] + SumFunctionOnSet(f, (1..n) \ {n})
    BY <1>1, <2>1, SumTakeOut
  <2>3. SumFunctionOnSet(f, (1..n) \ {n}) = SumFunctionOnSet(f, 1..n - 1)
    BY <2>1, Zenon
  <2>4. SumFunctionOnSet(f, 1..n - 1) \in Int /\ f[n] \in Int
    <3>1. IsFiniteSet(1..n - 1) /\ \A i \in 1..n - 1 : f[i] \in Int
      BY FS_Interval
    <3> QED BY <1>3, <2>1, <3>1, SumOfInts
  <2> QED BY <1>3, <2>2, <2>3, <2>4
<1> QED BY <1>2, <1>3

(* The sums of three, five and seven terms, as the blends of the engines have. *)
LEMMA SumOfThree ==
  ASSUME NEW f, \A i \in 1..3 : f[i] \in Int
  PROVE  SumFunctionOnSet(f, 1..3) = f[1] + f[2] + f[3]
<1> DEFINE Sum(n) == SumFunctionOnSet(f, 1..n)
<1>1. ASSUME NEW n \in 0..3 PROVE Sum(n) = IF n = 0 THEN 0 ELSE Sum(n - 1) + f[n]
  BY SumUpto
<1> HIDE DEF Sum
<1>2. Sum(0) = 0 /\ Sum(1) = f[1]
  BY <1>1
<1>3. Sum(2) = f[1] + f[2]
  BY <1>1, <1>2
<1>4. Sum(3) = f[1] + f[2] + f[3]
  BY <1>1, <1>3
<1> QED BY <1>4 DEF Sum

(* Five terms. *)
LEMMA SumOfFive ==
  ASSUME NEW f, \A i \in 1..5 : f[i] \in Int
  PROVE  SumFunctionOnSet(f, 1..5) = f[1] + f[2] + f[3] + f[4] + f[5]
<1> DEFINE Sum(n) == SumFunctionOnSet(f, 1..n)
<1>1. ASSUME NEW n \in 0..5 PROVE Sum(n) = IF n = 0 THEN 0 ELSE Sum(n - 1) + f[n]
  BY SumUpto
<1>4. Sum(3) = f[1] + f[2] + f[3]
  BY SumOfThree
<1> HIDE DEF Sum
<1>5. Sum(4) = f[1] + f[2] + f[3] + f[4]
  BY <1>1, <1>4
<1>6. Sum(5) = f[1] + f[2] + f[3] + f[4] + f[5]
  BY <1>1, <1>5
<1> QED BY <1>6 DEF Sum

(* Seven terms. *)
LEMMA SumOfSeven ==
  ASSUME NEW f, \A i \in 1..7 : f[i] \in Int
  PROVE  SumFunctionOnSet(f, 1..7)
           = f[1] + f[2] + f[3] + f[4] + f[5] + f[6] + f[7]
<1> DEFINE Sum(n) == SumFunctionOnSet(f, 1..n)
<1>1. ASSUME NEW n \in 0..7 PROVE Sum(n) = IF n = 0 THEN 0 ELSE Sum(n - 1) + f[n]
  BY SumUpto
<1>2. Sum(5) = f[1] + f[2] + f[3] + f[4] + f[5]
  BY SumOfFive
<1> HIDE DEF Sum
<1>3. Sum(6) = f[1] + f[2] + f[3] + f[4] + f[5] + f[6]
  BY <1>1, <1>2
<1>4. Sum(7) = f[1] + f[2] + f[3] + f[4] + f[5] + f[6] + f[7]
  BY <1>1, <1>3
<1> QED BY <1>4 DEF Sum
(* Natural numbers add up to one, and to more than 0 if one of them is. *)
LEMMA SumOfNats ==
  ASSUME NEW f, NEW D, IsFiniteSet(D), \A x \in D : f[x] \in Nat
  PROVE  SumFunctionOnSet(f, D) \in Nat
<1> DEFINE zero == [x \in D |-> 0]
<1>1. \A x \in D : zero[x] = 0 /\ zero[x] \in Int /\ f[x] \in Int /\ zero[x] <= f[x]
  OBVIOUS
<1> HIDE DEF zero
<1>2. SumFunctionOnSet(f, D) \in Int
  BY <1>1, SumOfInts
<1>3. SumFunctionOnSet(zero, D) <= SumFunctionOnSet(f, D)
  BY <1>1, SumMonotone
<1>4. SumFunctionOnSet(zero, D) = 0
  <2>1. SumFunctionOnSet(zero, D) = 0 * Cardinality(D)
    BY <1>1, SumConstant
  <2>2. Cardinality(D) \in Nat
    BY FS_CardinalityType
  <2> QED BY <2>1, <2>2
<1> QED BY <1>2, <1>3, <1>4

(* They add up to more than 0 when one of them is. *)
LEMMA SumPositive ==
  ASSUME NEW f, NEW D, IsFiniteSet(D), \A x \in D : f[x] \in Nat,
         NEW y \in D, f[y] > 0
  PROVE  SumFunctionOnSet(f, D) > 0
<1>1. \A x \in D : f[x] \in Int
  OBVIOUS
<1>2. SumFunctionOnSet(f, D) = f[y] + SumFunctionOnSet(f, D \ {y})
  BY <1>1, SumTakeOut
<1>3. SumFunctionOnSet(f, D \ {y}) \in Nat
  <2>1. IsFiniteSet(D \ {y})
    BY FS_Subset
  <2>2. \A x \in D \ {y} : f[x] \in Nat
    OBVIOUS
  <2> QED BY <2>1, <2>2, SumOfNats
<1> QED BY <1>2, <1>3
-----------------------------------------------------------------------------
(* Of finitely many integers one is least, and one is greatest. *)
LEMMA LeastElement ==
  ASSUME NEW v, NEW D, IsFiniteSet(D), D # {}, \A x \in D : v[x] \in Int
  PROVE  \E x \in D : \A y \in D : v[x] <= v[y]
<1> DEFINE F == {S \in SUBSET D : S = {} \/ \E x \in S : \A y \in S : v[x] <= v[y]}
<1>1. ASSUME NEW S \in SUBSET D, \A T \in SUBSET S : T # S => T \in F
      PROVE  S \in F
  <2>1. CASE S = {}
    BY <2>1
  <2>2. CASE S # {}
    <3>1. PICK z \in S : TRUE
      BY <2>2
    <3>2. S \ {z} \in F
      BY <1>1, <3>1
    <3>3. CASE S \ {z} = {}
      <4>1. \A y \in S : y = z
        BY <3>3
      <4> QED BY <3>1, <4>1
    <3>4. CASE S \ {z} # {}
      <4>1. PICK x \in S \ {z} : \A y \in S \ {z} : v[x] <= v[y]
        BY <3>2, <3>4
      <4>2. CASE v[x] <= v[z]
        BY <4>1, <4>2
      <4>3. CASE ~ (v[x] <= v[z])
        <5>1. \A y \in S : v[z] <= v[y]
          BY <3>1, <4>1, <4>3
        <5> QED BY <3>1, <5>1
      <4> QED BY <4>2, <4>3
    <3> QED BY <3>3, <3>4
  <2> QED BY <2>1, <2>2
<1>2. F = SUBSET D
  <2>1. F \in SUBSET SUBSET D
    OBVIOUS
  <2> HIDE DEF F
  <2> QED BY <1>1, <2>1, SetInduction
<1> QED BY <1>2

(* The greatest is the least of the negated function. *)
LEMMA GreatestElement ==
  ASSUME NEW v, NEW D, IsFiniteSet(D), D # {}, \A x \in D : v[x] \in Int
  PROVE  \E x \in D : \A y \in D : v[y] <= v[x]
<1> DEFINE m == [x \in D |-> 0 - v[x]]
<1>1. \A x \in D : m[x] = 0 - v[x] /\ m[x] \in Int
  OBVIOUS
<1> HIDE DEF m
<1>2. PICK x \in D : \A y \in D : m[x] <= m[y]
  BY <1>1, LeastElement
<1>3. \A y \in D : v[y] <= v[x]
  BY <1>1, <1>2
<1> QED BY <1>3
=============================================================================
