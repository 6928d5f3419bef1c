-------------------------- MODULE QuoteRankingProofs -------------------------
(***************************************************************************)
(* What rounding does to amounts, and the range of the RootScore, for all  *)
(* tariffs, rates and amounts.                                             *)
(***************************************************************************)
EXTENDS QuoteRanking, NaturalsInduction, WellFoundedInduction, TLAPS

------------------------------------------------------------------------------
(* Rounding *)

LEMMA Division ==
  ASSUME NEW n \in Nat, NEW d \in Nat \ {0}
  PROVE  /\ n \div d \in Nat /\ n % d \in Nat
         /\ n = d * (n \div d) + (n % d) /\ n % d < d
  BY SMT

LEMMA Products ==
  ASSUME NEW a \in Nat, NEW b \in Nat, NEW c \in Nat, a <= b
  PROVE  a * c \in Nat /\ b * c \in Nat /\ a * c <= b * c
  BY SMTT(30)

\* The nearest multiple of d is at most half of d away.
LEMMA HalfEvenRounds ==
  ASSUME NEW n \in Nat, NEW d \in Nat \ {0}
  PROVE  /\ HalfEven(n, d) \in Nat
         /\ 2 * (d * HalfEven(n, d) - n) <= d
         /\ 2 * (n - d * HalfEven(n, d)) <= d
<1> DEFINE floor == n \div d
           rest == n % d
<1>1. floor \in Nat /\ rest \in Nat /\ n = d * floor + rest /\ rest < d
  BY Division
<1>2. HalfEven(n, d) =
        IF 2 * rest > d \/ (2 * rest = d /\ floor % 2 = 1) THEN floor + 1 ELSE floor
  BY DEF HalfEven
<1>3. d * (floor + 1) = d * floor + d
  BY <1>1, SMT
<1>4. d * floor \in Nat
  BY <1>1, SMT
<1> HIDE DEF floor, rest
<1>5. CASE HalfEven(n, d) = floor + 1 /\ 2 * rest >= d
  BY <1>1, <1>3, <1>4, <1>5, SMT
<1>6. CASE HalfEven(n, d) = floor /\ 2 * rest <= d
  BY <1>1, <1>4, <1>6, SMT
<1>7. QED
  BY <1>1, <1>2, <1>5, <1>6, SMT

LEMMA HalfEvenBounded ==
  ASSUME NEW n \in Nat, NEW d \in Nat \ {0}, NEW k \in Nat, n <= k * d
  PROVE  HalfEven(n, d) \in 0..k
<1> DEFINE rounded == HalfEven(n, d)
<1>1. rounded \in Nat /\ 2 * (d * rounded - n) <= d
  BY HalfEvenRounds
<1> HIDE DEF rounded
<1>2. SUFFICES ASSUME rounded >= k + 1 PROVE FALSE
  BY <1>1, SMT DEF rounded
<1>3. (k + 1) * d <= rounded * d
  BY <1>1, <1>2, Products
<1>4. (k + 1) * d = k * d + d /\ rounded * d = d * rounded
  BY <1>1, SMT
<1>5. QED
  BY <1>1, <1>3, <1>4, SMT

LEMMA HalfEvenShrinks ==
  ASSUME NEW n \in Nat, NEW d \in Nat \ {0}
  PROVE  HalfEven(n, d) \in 0..n
<1>1. 1 * n <= d * n
  BY Products, SMT
<1>2. 1 * n = n /\ d * n = n * d
  BY SMT
<1>3. QED
  BY <1>1, <1>2, HalfEvenBounded

\* What is not positive is not rounded to anything positive.
LEMMA HalfEvenOfNothing ==
  ASSUME NEW n \in Int, n <= 0, NEW d \in Nat \ {0}
  PROVE  HalfEven(n, d) \in Int /\ HalfEven(n, d) <= 0
<1> DEFINE floor == n \div d
           rest == n % d
<1>1. floor \in Int /\ rest \in Nat /\ n = d * floor + rest /\ rest < d
  BY SMT
<1>2. HalfEven(n, d) =
        IF 2 * rest > d \/ (2 * rest = d /\ floor % 2 = 1) THEN floor + 1 ELSE floor
  BY DEF HalfEven
<1> HIDE DEF floor, rest
<1>3. ~(floor >= 1)
  <2>1. SUFFICES ASSUME floor >= 1 PROVE FALSE
    OBVIOUS
  <2>2. 1 * d <= floor * d
    BY <1>1, <2>1, Products, SMT
  <2>3. 1 * d = d /\ floor * d = d * floor
    BY <1>1, SMT
  <2>4. QED
    BY <1>1, <2>2, <2>3, SMT
<1>4. CASE floor = 0
  BY <1>1, <1>2, <1>4, SMT
<1>5. CASE floor < 0
  BY <1>1, <1>2, <1>5, SMT
<1>6. QED
  BY <1>1, <1>3, <1>4, <1>5, SMT

\* Halfway between k and k + 1 the even one is taken, whatever the denominator.
LEMMA HalfEvenTie ==
  ASSUME NEW n \in Nat, NEW d \in Nat \ {0}, NEW k \in Nat, 2 * n = d * (2 * k + 1)
  PROVE  HalfEven(n, d) = IF k % 2 = 1 THEN k + 1 ELSE k
<1> DEFINE floor == n \div d
           rest == n % d
<1>1. floor \in Nat /\ rest \in Nat /\ n = d * floor + rest /\ rest < d
  BY Division
<1>2. HalfEven(n, d) =
        IF 2 * rest > d \/ (2 * rest = d /\ floor % 2 = 1) THEN floor + 1 ELSE floor
  BY DEF HalfEven
<1> HIDE DEF floor, rest
<1>3. /\ d * k \in Nat /\ d * floor \in Nat
      /\ 2 * n = 2 * (d * k) + d
  BY <1>1, SMT
<1>4. ~(floor >= k + 1)
  <2>1. SUFFICES ASSUME floor >= k + 1 PROVE FALSE
    OBVIOUS
  <2>2. (k + 1) * d <= floor * d
    BY <1>1, <2>1, Products
  <2>3. (k + 1) * d = d * k + d /\ floor * d = d * floor
    BY <1>1, SMT
  <2>4. QED
    BY <1>1, <1>3, <2>2, <2>3, SMT
<1>5. ~(k >= floor + 1)
  <2>1. SUFFICES ASSUME k >= floor + 1 PROVE FALSE
    OBVIOUS
  <2>2. (floor + 1) * d <= k * d
    BY <1>1, <2>1, Products
  <2>3. (floor + 1) * d = d * floor + d /\ k * d = d * k
    BY <1>1, SMT
  <2>4. QED
    BY <1>1, <1>3, <2>2, <2>3, SMT
<1>6. floor = k
  BY <1>1, <1>4, <1>5, SMT
<1>7. 2 * rest = d
  BY <1>1, <1>3, <1>6, SMT
<1>8. QED
  BY <1>1, <1>2, <1>6, <1>7, SMT

\* A larger fraction is never rounded to a smaller integer.
LEMMA HalfEvenMonotone ==
  ASSUME NEW n \in Nat, NEW d \in Nat \ {0}, NEW m \in Nat, NEW e \in Nat \ {0},
         n * e <= m * d
  PROVE  HalfEven(n, d) <= HalfEven(m, e)
<1> DEFINE high == HalfEven(n, d)
           low == HalfEven(m, e)
<1>1. high \in Nat /\ 2 * (d * high - n) <= d
  BY HalfEvenRounds
<1>2. low \in Nat /\ 2 * (m - e * low) <= e
  BY HalfEvenRounds
<1> DEFINE odd == 2 * low + 1
<1> HIDE DEF high, low
<1>3. SUFFICES ASSUME high >= low + 1 PROVE FALSE
  BY <1>1, <1>2, SMT DEF high, low
<1>4. odd \in Nat /\ d * odd \in Nat /\ e * odd \in Nat
  BY <1>2, SMT
<1>5. d * odd = 2 * (d * low) + d /\ e * odd = 2 * (e * low) + e
      /\ d * low \in Nat /\ e * low \in Nat /\ d * high \in Nat
  BY <1>1, <1>2, SMT
<1>6. d * odd <= 2 * n
  <2>1. (low + 1) * d <= high * d
    BY <1>1, <1>2, <1>3, Products
  <2>2. (low + 1) * d = d * low + d /\ high * d = d * high
    BY <1>1, <1>2, SMT
  <2>3. QED
    BY <1>1, <1>2, <1>4, <1>5, <2>1, <2>2, SMT
<1>7. 2 * m <= e * odd
  BY <1>2, <1>4, <1>5, SMT
<1> DEFINE A == d * odd
           B == e * odd
<1>8. A * e = B * d
  BY <1>4, SMT
<1> HIDE DEF odd, A, B
<1>9. A \in Nat /\ B \in Nat /\ A <= 2 * n /\ 2 * m <= B
  BY <1>4, <1>6, <1>7 DEF A, B
<1>10. 2 * (n * e) <= 2 * (m * d) /\ n * e \in Nat /\ m * d \in Nat
  BY SMT
<1>11. 2 * n = A
  <2>1. SUFFICES ASSUME A + 1 <= 2 * n PROVE FALSE
    BY <1>9, SMT
  <2>2. (A + 1) * e <= (2 * n) * e
    BY <1>9, <2>1, Products, SMT
  <2>3. (2 * m) * d <= B * d
    BY <1>9, Products, SMT
  <2>4. /\ (A + 1) * e = A * e + e /\ (2 * n) * e = 2 * (n * e)
        /\ (2 * m) * d = 2 * (m * d) /\ A * e \in Nat
    BY <1>9, SMT
  <2>5. QED
    BY <1>8, <1>10, <2>2, <2>3, <2>4, SMT
<1>12. 2 * m = B
  <2>1. SUFFICES ASSUME 2 * m + 1 <= B PROVE FALSE
    BY <1>9, SMT
  <2>2. (2 * m + 1) * d <= B * d
    BY <1>9, <2>1, Products, SMT
  <2>3. A * e <= (2 * n) * e
    BY <1>9, Products, SMT
  <2>4. /\ (2 * m + 1) * d = 2 * (m * d) + d /\ (2 * n) * e = 2 * (n * e)
        /\ A * e \in Nat
    BY <1>9, SMT
  <2>5. QED
    BY <1>8, <1>10, <2>2, <2>3, <2>4, SMT
<1>13. high = low
  BY <1>2, <1>11, <1>12, HalfEvenTie DEF A, B, odd, high, low
<1>14. QED
  BY <1>1, <1>2, <1>3, <1>13, SMT

LEMMA RoundingIsMonotone ==
  ASSUME NEW n \in Nat, NEW m \in Nat, n <= m, NEW d \in Nat \ {0}
  PROVE  HalfEven(n, d) <= HalfEven(m, d)
  BY Products, HalfEvenMonotone, SMT

LEMMA RatioMonotone ==
  ASSUME NEW a \in Nat, NEW b \in Nat \ {0}, NEW c \in Nat, NEW d \in Nat \ {0},
         a * d <= c * b
  PROVE  Ratio(a, b) <= Ratio(c, d)
<1>1. a * d \in Nat /\ c * b \in Nat /\ Precision \in Nat
  BY PrecisionAssumption, SMT
<1>2. (a * d) * Precision <= (c * b) * Precision
  <2> DEFINE x == a * d
             y == c * b
  <2>1. x \in Nat /\ y \in Nat /\ x <= y
    BY <1>1
  <2> HIDE DEF x, y
  <2>2. x * Precision <= y * Precision
    BY <1>1, <2>1, Products
  <2>3. QED
    BY <2>2 DEF x, y
<1>3. (a * Precision) * d = (a * d) * Precision /\ (c * Precision) * b = (c * b) * Precision
  BY <1>1, SMT
<1>4. a * Precision \in Nat /\ c * Precision \in Nat
  BY <1>1, SMT
<1>5. QED
  BY <1>2, <1>3, <1>4, HalfEvenMonotone DEF Ratio

LEMMA HalfUpNatural ==
  ASSUME NEW n \in Nat, NEW d \in Nat \ {0}
  PROVE  HalfUp(n, d) \in Nat
  BY Division, SMT DEF HalfUp

LEMMA RatioOfParts ==
  ASSUME NEW a \in Nat, NEW b \in Nat \ {0}, a <= b
  PROVE  Ratio(a, b) \in 0..Precision
<1>1. a * Precision \in Nat /\ a * Precision <= b * Precision
  BY Products, PrecisionAssumption
<1>2. b * Precision = Precision * b
  BY PrecisionAssumption, SMT
<1>3. QED
  BY <1>1, <1>2, HalfEvenBounded, PrecisionAssumption, SMT DEF Ratio

------------------------------------------------------------------------------
(* Extremes *)

LEMMA LeastExists ==
  ASSUME NEW S \in SUBSET Nat, S # {}
  PROVE  \E x \in S : \A y \in S : x <= y
<1>1. IsWellFoundedOn(OpToRel(<, Nat), Nat)
  BY NatLessThanWellFounded
<1>2. PICK x \in S : \A y \in S : ~ (<<y, x>> \in OpToRel(<, Nat))
  <2> DEFINE R == OpToRel(<, Nat)
  <2> HIDE DEF R
  <2>1. IsWellFoundedOn(R, Nat)
    BY <1>1 DEF R
  <2>2. \E x \in S : \A y \in S : ~ (<<y, x>> \in R)
    BY <2>1, WFMin
  <2>3. QED
    BY <2>2 DEF R
<1>3. ASSUME NEW y \in S
      PROVE  x <= y
  <2>1. ~ (y < x)
    BY <1>2 DEF OpToRel
  <2>2. QED
    BY <2>1, SMT
<1>4. QED
  BY <1>3

LEMMA GreatestExists ==
  ASSUME NEW b \in Nat, NEW S \in SUBSET (0..b), S # {}
  PROVE  \E x \in S : \A y \in S : y <= x
<1> DEFINE below == {b - x : x \in S}
<1>1. below \in SUBSET Nat /\ below # {}
  <2>1. \A x \in S : b - x \in Nat
    BY SMT
  <2>2. QED
    BY <2>1
<1>2. PICK z \in below : \A y \in below : z <= y
  BY <1>1, LeastExists
<1>3. PICK x \in S : z = b - x
  BY <1>2
<1>4. ASSUME NEW y \in S
      PROVE  y <= x
  <2>1. b - x <= b - y
    BY <1>2, <1>3
  <2>2. QED
    BY <2>1, SMT
<1>5. QED
  BY <1>4

------------------------------------------------------------------------------
(* The amounts of an offer *)

\* What amounts are counted in, and what they are divided by.
Divisor(ask) == IF ask.direction = "BUY" THEN Parts * Rate ELSE Scale

LEMMA Units ==
  ASSUME NEW ask
  PROVE  /\ Scale \in Nat \ {0} /\ 1000 * Scale \in Nat \ {0}
         /\ Parts * Rate \in Nat \ {0} /\ Divisor(ask) \in Nat \ {0}
<1>1. ASSUME NEW a \in Nat \ {0}, NEW b \in Nat \ {0}
      PROVE  a * b \in Nat \ {0}
  BY SMT
<1>2. Scale \in Nat \ {0} /\ Parts * Rate \in Nat \ {0}
  BY <1>1, TariffsAssumption DEF Scale
<1>3. 1000 * Scale \in Nat \ {0}
  BY <1>2, SMT
<1>4. QED
  BY <1>2, <1>3 DEF Divisor

LEMMA PartnerAmounts ==
  ASSUME NEW ask \in Ask, NEW p \in Partners
  PROVE  /\ Gross(ask) \in Nat /\ PartnerFee(ask, p) \in Nat
         /\ Net(ask, p) \in Int /\ Net(ask, p) <= Gross(ask)
         /\ Scale * (PartnerFee(ask, p) + NetworkFee) \in Nat
         /\ Net(ask, p) = Gross(ask) - Scale * (PartnerFee(ask, p) + NetworkFee)
<1>1. Gross(ask) \in Nat
  BY TariffsAssumption, SMT DEF Gross, Ask
<1>2. FeePermille[p] \in Nat
  BY TariffsAssumption, SMT
<1> DEFINE gross == Gross(ask)
           permille == FeePermille[p]
<1> HIDE DEF gross, permille
<1> DEFINE fee == gross * permille
           d == 1000 * Scale
<1>3. fee \in Nat /\ d \in Nat \ {0}
  BY <1>1, <1>2, Units, SMT DEF gross, permille
<1> HIDE DEF fee, d
<1>4. HalfEven(fee, d) \in Nat
  BY <1>3, HalfEvenRounds
<1>5. PartnerFee(ask, p) \in Nat
  BY <1>4 DEF PartnerFee, gross, permille, fee, d
<1> DEFINE taken == PartnerFee(ask, p) + NetworkFee
<1>6. taken \in Nat
  BY <1>5, TariffsAssumption, SMT
<1>7. Net(ask, p) = Gross(ask) - Scale * taken
  BY DEF Net
<1> HIDE DEF taken
<1>8. Scale * taken \in Nat
  BY <1>6, Units, SMT
<1>9. Net(ask, p) \in Int /\ Net(ask, p) <= Gross(ask)
  BY <1>1, <1>7, <1>8, SMT
<1>10. QED
  BY <1>1, <1>5, <1>7, <1>8, <1>9 DEF taken

LEMMA PaidOut ==
  ASSUME NEW ask \in Ask, NEW p \in Partners, ~TooSmall(ask, p)
  PROVE  /\ Net(ask, p) \in Nat \ {0}
         /\ AmountOut(ask, p) \in 0..Gross(ask)
<1> DEFINE net == Net(ask, p)
           d == Divisor(ask)
<1>1. net \in Int /\ net <= Gross(ask) /\ Gross(ask) \in Nat /\ d \in Nat \ {0}
  BY PartnerAmounts, Units
<1>2. AmountOut(ask, p) = HalfEven(net, d)
  BY DEF AmountOut, Divisor
<1> HIDE DEF net, d
<1>3. net > 0
  <2>1. SUFFICES ASSUME net <= 0 PROVE FALSE
    BY <1>1, SMT
  <2>2. AmountOut(ask, p) \in Int /\ AmountOut(ask, p) <= 0
    BY <1>1, <1>2, <2>1, HalfEvenOfNothing
  <2>3. QED
    BY <2>1, <2>2 DEF TooSmall, net
<1>4. net \in Nat \ {0}
  BY <1>1, <1>3, SMT
<1>5. HalfEven(net, d) \in 0..net
  BY <1>1, <1>4, HalfEvenShrinks
<1>6. HalfEven(net, d) \in 0..Gross(ask)
  BY <1>1, <1>4, <1>5, SMT
<1>7. QED
  BY <1>2, <1>4, <1>6 DEF net

\* A set of quotes the engine may rank.
Rankable(ask, usable) ==
  /\ ask \in Ask /\ usable \in SUBSET Partners /\ usable # {}
  /\ \A p \in usable : ~TooSmall(ask, p)

LEMMA BestIsBest ==
  ASSUME NEW ask, NEW usable, Rankable(ask, usable)
  PROVE  /\ BestAmountOut(ask, usable) \in Nat
         /\ \A p \in usable : /\ AmountOut(ask, p) \in Nat
                              /\ AmountOut(ask, p) <= BestAmountOut(ask, usable)
<1> DEFINE outs == {AmountOut(ask, p) : p \in usable}
<1>1. Gross(ask) \in Nat /\ \A p \in usable : AmountOut(ask, p) \in 0..Gross(ask)
  BY PartnerAmounts, PaidOut DEF Rankable
<1>2. outs \in SUBSET (0..Gross(ask)) /\ outs # {}
  BY <1>1 DEF Rankable
<1>3. \E out \in outs : \A other \in outs : other <= out
  BY <1>1, <1>2, GreatestExists
<1>4. BestAmountOut(ask, usable) = CHOOSE out \in outs : \A other \in outs : other <= out
  BY DEF BestAmountOut
<1>5. /\ BestAmountOut(ask, usable) \in outs
      /\ \A other \in outs : other <= BestAmountOut(ask, usable)
  <2> HIDE DEF outs
  <2>1. QED
    BY <1>3, <1>4
<1>6. QED
  BY <1>1, <1>2, <1>5, SMT

LEMMA ServiceFeeNatural ==
  ASSUME NEW ask, NEW usable, Rankable(ask, usable)
  PROVE  /\ ServiceFee(ask, usable) \in Nat
         /\ ServiceFee(ask, usable) * Per \in Nat
         /\ HalfEven(ServiceFee(ask, usable) * Per, Rate) \in Nat
<1>1. ask.amount \in Nat /\ BestAmountOut(ask, usable) \in Nat
  BY BestIsBest DEF Rankable, Ask
<1>2. ServicePermille \in Nat /\ 1000 * Parts \in Nat \ {0} /\ 1000 \in Nat \ {0}
  BY TariffsAssumption, SMT
<1>3. ASSUME NEW fiat \in Nat, NEW d \in Nat \ {0}
      PROVE  HalfUp(fiat * ServicePermille, d) \in Nat
  <2>1. fiat * ServicePermille \in Nat
    BY <1>2, SMT
  <2>2. QED
    BY <2>1, HalfUpNatural
<1>4. ServiceFee(ask, usable) \in Nat
  <2> DEFINE d == 1000 * Parts
             thousand == 1000
  <2>1. d \in Nat \ {0} /\ thousand \in Nat \ {0}
    BY <1>2
  <2>2. ServiceFee(ask, usable) =
          IF ask.direction = "BUY" THEN HalfUp(ask.amount * ServicePermille, d)
          ELSE HalfUp(BestAmountOut(ask, usable) * ServicePermille, thousand)
    BY DEF ServiceFee
  <2> HIDE DEF d, thousand
  <2>3. QED
    BY <1>1, <1>3, <2>1, <2>2
<1> DEFINE service == ServiceFee(ask, usable)
<1> HIDE DEF service
<1>5. service * Per \in Nat
  BY <1>4, TariffsAssumption, SMT DEF service
<1>6. HalfEven(service * Per, Rate) \in Nat
  BY <1>5, HalfEvenRounds, TariffsAssumption
<1>7. QED
  BY <1>4, <1>5, <1>6 DEF service

LEMMA LowestIsLowest ==
  ASSUME NEW ask, NEW usable, Rankable(ask, usable)
  PROVE  /\ LowestFee(ask, usable) \in Nat
         /\ \A p \in usable : /\ TotalFee(ask, usable, p) \in Nat
                              /\ LowestFee(ask, usable) <= TotalFee(ask, usable, p)
<1> DEFINE fees == {TotalFee(ask, usable, p) : p \in usable}
<1>1. \A p \in usable : TotalFee(ask, usable, p) \in Nat
  <2>1. \A p \in usable : PartnerFee(ask, p) \in Nat
    BY PartnerAmounts DEF Rankable
  <2>2. QED
    BY <2>1, ServiceFeeNatural, TariffsAssumption, SMT DEF TotalFee
<1>2. fees \in SUBSET Nat /\ fees # {}
  BY <1>1 DEF Rankable
<1>3. \E fee \in fees : \A other \in fees : fee <= other
  BY <1>2, LeastExists
<1>4. LowestFee(ask, usable) = CHOOSE fee \in fees : \A other \in fees : fee <= other
  BY DEF LowestFee
<1>5. /\ LowestFee(ask, usable) \in fees
      /\ \A other \in fees : LowestFee(ask, usable) <= other
  <2> HIDE DEF fees
  <2>1. QED
    BY <1>3, <1>4
<1>6. QED
  BY <1>1, <1>2, <1>5

------------------------------------------------------------------------------
(* The score *)

LEMMA FactorsInRange ==
  ASSUME NEW ok \in Nat, NEW total \in Nat, NEW p \in Partners,
         NEW fee \in Nat, NEW lowest \in Nat, lowest <= fee
  PROVE  /\ SuccessFactor(ok, total) \in 0..Precision
         /\ LatencyFactor(Latency[p]) \in 0..Precision
         /\ FeeFactor(fee, lowest) \in 0..Precision
         /\ TimeFactor(Minutes[p]) \in 0..Precision
<1>1. Precision \in 0..Precision /\ 0 \in 0..Precision
  BY PrecisionAssumption, SMT
<1>2. SuccessFactor(ok, total) \in 0..Precision
  <2>1. CASE total = 0 \/ ok >= total
    BY <1>1, <2>1 DEF SuccessFactor
  <2>2. CASE ~(total = 0 \/ ok >= total)
    <3>1. total \in Nat \ {0} /\ ok <= total
      BY <2>2, SMT
    <3>2. Ratio(ok, total) \in 0..Precision
      BY <3>1, RatioOfParts
    <3>3. QED
      BY <2>2, <3>2 DEF SuccessFactor
  <2>3. QED
    BY <2>1, <2>2
<1>3. LatencyFactor(Latency[p]) \in 0..Precision
  <2> DEFINE ms == Latency[p]
  <2>1. ms \in Nat
    BY TariffsAssumption
  <2> HIDE DEF ms
  <2>2. CASE ms >= 5000
    BY <1>1, <2>2 DEF LatencyFactor, ms
  <2>3. CASE ~(ms >= 5000)
    <3>1. 5000 - ms \in Nat /\ 5000 - ms <= 5000
      BY <2>1, <2>3, SMT
    <3>2. Ratio(5000 - ms, 5000) \in 0..Precision
      BY <3>1, RatioOfParts
    <3>3. QED
      BY <2>3, <3>2 DEF LatencyFactor, ms
  <2>4. QED
    BY <2>2, <2>3
<1>4. FeeFactor(fee, lowest) \in 0..Precision
  <2>1. CASE fee <= 0
    BY <1>1, <2>1 DEF FeeFactor
  <2>2. CASE ~(fee <= 0) /\ ~(lowest > 0)
    BY <1>1, <2>2 DEF FeeFactor
  <2>3. CASE ~(fee <= 0) /\ lowest > 0
    <3>1. fee \in Nat \ {0}
      BY <2>3, SMT
    <3>2. Ratio(lowest, fee) \in 0..Precision
      BY <3>1, RatioOfParts
    <3>3. Least(Precision, Ratio(lowest, fee)) \in 0..Precision
      BY <1>1, <3>2 DEF Least
    <3>4. QED
      BY <2>3, <3>3 DEF FeeFactor
  <2>4. QED
    BY <2>1, <2>2, <2>3
<1>5. TimeFactor(Minutes[p]) \in 0..Precision
  <2> DEFINE minutes == Minutes[p]
  <2>1. minutes \in Nat
    BY TariffsAssumption
  <2> HIDE DEF minutes
  <2>2. CASE minutes <= 10 \/ minutes >= 120
    BY <1>1, <2>2 DEF TimeFactor, minutes
  <2>3. CASE ~(minutes <= 10 \/ minutes >= 120)
    <3>1. 120 - minutes \in Nat /\ 120 - minutes <= 110
      BY <2>1, <2>3, SMT
    <3>2. Ratio(120 - minutes, 110) \in 0..Precision
      BY <3>1, RatioOfParts
    <3>3. QED
      BY <2>3, <3>2 DEF TimeFactor, minutes
  <2>4. QED
    BY <2>2, <2>3
<1>6. QED
  BY <1>2, <1>3, <1>4, <1>5

\* "RootScore: 0..100": an offer's score in hundredths, whatever the partner's
\* counters say.
THEOREM RootScoreInRange ==
  ASSUME NEW ask, NEW usable, Rankable(ask, usable),
         NEW p \in Offered(ask, usable), NEW ok \in Nat, NEW total \in Nat
  PROVE  RootScore(ask, usable, p, ok, total) \in 0..FullScore
<1> DEFINE best == BestAmountOut(ask, usable)
           out == FinalAmountOut(ask, usable, p)
           amount == Ratio(out, best)
           success == SuccessFactor(ok, total)
           latency == LatencyFactor(Latency[p])
           fee == FeeFactor(TotalFee(ask, usable, p), LowestFee(ask, usable))
           time == TimeFactor(Minutes[p])
<1>1. p \in usable /\ p \in Partners /\ out > 0
  BY DEF Offered, Rankable
<1>2. out \in Nat /\ out <= AmountOut(ask, p)
  <2>1. ServiceFee(ask, usable) \in Nat
    BY ServiceFeeNatural
  <2>2. HalfEven(ServiceFee(ask, usable) * Per, Rate) \in Nat
    BY ServiceFeeNatural
  <2>3. AmountOut(ask, p) \in Nat
    BY <1>1, BestIsBest
  <2>4. QED
    BY <1>1, <2>1, <2>2, <2>3, SMT DEF FinalAmountOut
<1>3. best \in Nat \ {0} /\ out <= best
  BY <1>1, <1>2, BestIsBest, SMT
<1>4. amount \in 0..Precision
  BY <1>2, <1>3, RatioOfParts
<1>5. /\ TotalFee(ask, usable, p) \in Nat /\ LowestFee(ask, usable) \in Nat
      /\ LowestFee(ask, usable) <= TotalFee(ask, usable, p)
  BY <1>1, LowestIsLowest
<1>6. /\ success \in 0..Precision /\ latency \in 0..Precision
      /\ fee \in 0..Precision /\ time \in 0..Precision
  BY <1>1, <1>5, FactorsInRange
<1> DEFINE sum == 100 * (35 * amount + 20 * success + 10 * latency + 10 * Precision
                         + 10 * fee + 5 * time + 5 * Precision + 5 * Precision)
<1>7. RootScore(ask, usable, p, ok, total) = HalfEven(sum, Precision)
  BY DEF RootScore
<1> HIDE DEF best, out, amount, success, latency, fee, time
<1>8. sum \in Nat /\ sum <= FullScore * Precision /\ FullScore \in Nat
  BY <1>4, <1>6, PrecisionAssumption, SMT DEF FullScore
<1> HIDE DEF sum
<1>9. HalfEven(sum, Precision) \in 0..FullScore
  BY <1>8, HalfEvenBounded, PrecisionAssumption
<1>10. QED
  BY <1>7, <1>9

------------------------------------------------------------------------------
(* The order of the scores *)

\* A partner that takes less is left with more to pay out, at every stage.
LEMMA LowerFeePaysMore ==
  ASSUME NEW ask, NEW usable, Rankable(ask, usable), NEW p \in usable, NEW q \in usable,
         FeePermille[p] <= FeePermille[q]
  PROVE  /\ PartnerFee(ask, p) <= PartnerFee(ask, q)
         /\ FinalAmountOut(ask, usable, q) <= FinalAmountOut(ask, usable, p)
<1>1. ask \in Ask /\ p \in Partners /\ q \in Partners
  BY DEF Rankable
<1> DEFINE gross == Gross(ask)
           less == FeePermille[p]
           more == FeePermille[q]
<1>2. gross \in Nat /\ less \in Nat /\ more \in Nat /\ less <= more
  <2>1. gross \in Nat
    BY <1>1, PartnerAmounts
  <2>2. \A x \in Partners : FeePermille[x] \in Nat
    BY TariffsAssumption, SMT
  <2>3. QED
    BY <1>1, <2>1, <2>2
<1> HIDE DEF gross, less, more
<1>3. gross * less \in Nat /\ gross * more \in Nat /\ gross * less <= gross * more
  <2>1. less * gross <= more * gross
    BY <1>2, Products
  <2>2. QED
    BY <1>2, <2>1, SMT
<1>4. HalfEven(gross * less, 1000 * Scale) <= HalfEven(gross * more, 1000 * Scale)
  BY <1>3, RoundingIsMonotone, Units
<1>5. PartnerFee(ask, p) <= PartnerFee(ask, q)
  BY <1>4 DEF PartnerFee, gross, less, more
<1>6. Net(ask, p) \in Nat /\ Net(ask, q) \in Nat
  BY <1>1, PaidOut DEF Rankable
<1>7. Net(ask, q) <= Net(ask, p)
  <2> DEFINE cheap == PartnerFee(ask, p) + NetworkFee
             dear == PartnerFee(ask, q) + NetworkFee
  <2>1. /\ Gross(ask) \in Nat
        /\ Net(ask, p) = Gross(ask) - Scale * cheap
        /\ Net(ask, q) = Gross(ask) - Scale * dear
        /\ PartnerFee(ask, p) \in Nat /\ PartnerFee(ask, q) \in Nat
    BY <1>1, PartnerAmounts
  <2>2. cheap \in Nat /\ dear \in Nat /\ cheap <= dear
    BY <1>5, <2>1, TariffsAssumption, SMT
  <2> HIDE DEF cheap, dear
  <2>3. cheap * Scale \in Nat /\ dear * Scale \in Nat /\ cheap * Scale <= dear * Scale
    BY <2>2, Products, Units
  <2>4. cheap * Scale = Scale * cheap /\ dear * Scale = Scale * dear
    BY <2>2, Units, SMT
  <2>5. QED
    BY <2>1, <2>3, <2>4, SMT
<1>8. HalfEven(Net(ask, q), Divisor(ask)) <= HalfEven(Net(ask, p), Divisor(ask))
  BY <1>6, <1>7, RoundingIsMonotone, Units
<1>9. AmountOut(ask, q) <= AmountOut(ask, p)
  BY <1>8 DEF AmountOut, Divisor
<1>10. /\ AmountOut(ask, q) \in Nat /\ AmountOut(ask, p) \in Nat
       /\ ServiceFee(ask, usable) \in Nat
       /\ HalfEven(ServiceFee(ask, usable) * Per, Rate) \in Nat
  BY ServiceFeeNatural, BestIsBest
<1>11. QED
  BY <1>5, <1>9, <1>10, SMT DEF FinalAmountOut

LEMMA SuccessFactorMonotone ==
  ASSUME NEW a \in Nat, NEW b \in Nat \ {0}, NEW c \in Nat, NEW d \in Nat \ {0},
         a * d <= c * b
  PROVE  SuccessFactor(a, b) <= SuccessFactor(c, d)
<1>1. SuccessFactor(a, b) \in 0..Precision
  <2>1. CASE a >= b
    BY <2>1, PrecisionAssumption, SMT DEF SuccessFactor
  <2>2. CASE ~(a >= b)
    <3>1. Ratio(a, b) \in 0..Precision
      BY <2>2, RatioOfParts, SMT
    <3>2. QED
      BY <2>2, <3>1, SMT DEF SuccessFactor
  <2>3. QED
    BY <2>1, <2>2
<1>2. CASE c >= d
  BY <1>1, <1>2, PrecisionAssumption, SMT DEF SuccessFactor
<1>3. CASE ~(c >= d)
  <2>1. ~(a >= b)
    <3>1. SUFFICES ASSUME a >= b PROVE FALSE
      OBVIOUS
    <3>2. b * d <= a * d /\ (c + 1) * b <= d * b
      BY <1>3, <3>1, Products, SMT
    <3>3. (c + 1) * b = c * b + b /\ b * d = d * b /\ c * b \in Nat /\ a * d \in Nat
          /\ d * b \in Nat
      BY SMT
    <3>4. QED
      BY <3>2, <3>3, SMT
  <2>2. Ratio(a, b) <= Ratio(c, d)
    BY RatioMonotone
  <2>3. QED
    BY <1>3, <2>1, <2>2, SMT DEF SuccessFactor
<1>4. QED
  BY <1>2, <1>3

LEMMA LatencyFactorMonotone ==
  ASSUME NEW fast \in Nat, NEW slow \in Nat, fast <= slow
  PROVE  LatencyFactor(slow) <= LatencyFactor(fast)
<1>1. CASE slow >= 5000
  <2>1. CASE fast >= 5000
    BY <1>1, <2>1, SMT DEF LatencyFactor
  <2>2. CASE ~(fast >= 5000)
    <3>1. 5000 - fast \in Nat /\ 5000 - fast <= 5000
      BY <2>2, SMT
    <3>2. Ratio(5000 - fast, 5000) \in 0..Precision
      BY <3>1, RatioOfParts
    <3>3. QED
      BY <1>1, <2>2, <3>2, PrecisionAssumption, SMT DEF LatencyFactor
  <2>3. QED
    BY <2>1, <2>2
<1>2. CASE ~(slow >= 5000)
  <2>1. /\ 5000 - slow \in Nat /\ 5000 - fast \in Nat
        /\ (5000 - slow) * 5000 <= (5000 - fast) * 5000
    BY <1>2, SMT
  <2>2. Ratio(5000 - slow, 5000) <= Ratio(5000 - fast, 5000)
    BY <2>1, RatioMonotone
  <2>3. QED
    BY <1>2, <2>2, SMT DEF LatencyFactor
<1>3. QED
  BY <1>1, <1>2

LEMMA TimeFactorMonotone ==
  ASSUME NEW fast \in Nat, NEW slow \in Nat, fast <= slow
  PROVE  TimeFactor(slow) <= TimeFactor(fast)
<1>1. ASSUME NEW m \in Nat, ~(m <= 10), ~(m >= 120)
      PROVE  Ratio(120 - m, 110) \in 0..Precision
  <2>1. 120 - m \in Nat /\ 120 - m <= 110
    BY <1>1, SMT
  <2>2. QED
    BY <2>1, RatioOfParts
<1>2. CASE fast <= 10
  BY <1>1, <1>2, PrecisionAssumption, SMT DEF TimeFactor
<1>3. CASE slow >= 120
  BY <1>1, <1>3, PrecisionAssumption, SMT DEF TimeFactor
<1>4. CASE ~(fast <= 10) /\ ~(slow >= 120)
  <2>1. /\ 120 - slow \in Nat /\ 120 - fast \in Nat
        /\ (120 - slow) * 110 <= (120 - fast) * 110
        /\ ~(slow <= 10) /\ ~(fast >= 120)
    BY <1>4, SMT
  <2>2. Ratio(120 - slow, 110) <= Ratio(120 - fast, 110)
    BY <2>1, RatioMonotone
  <2>3. QED
    BY <1>4, <2>1, <2>2, SMT DEF TimeFactor
<1>5. QED
  BY <1>2, <1>3, <1>4

LEMMA FeeFactorMonotone ==
  ASSUME NEW cheap \in Nat, NEW dear \in Nat, cheap <= dear,
         NEW lowest \in Nat, lowest <= cheap
  PROVE  FeeFactor(dear, lowest) <= FeeFactor(cheap, lowest)
<1>1. ASSUME NEW fee \in Nat \ {0}, lowest <= fee
      PROVE  Ratio(lowest, fee) \in 0..Precision
  BY <1>1, RatioOfParts
<1>2. CASE cheap = 0
  BY <1>1, <1>2, PrecisionAssumption, SMT DEF FeeFactor, Least
<1>3. CASE cheap # 0 /\ lowest = 0
  BY <1>3, PrecisionAssumption, SMT DEF FeeFactor
<1>4. CASE cheap # 0 /\ lowest # 0
  <2>1. cheap \in Nat \ {0} /\ dear \in Nat \ {0}
    BY <1>4, SMT
  <2>2. lowest * cheap <= lowest * dear
    <3>1. cheap * lowest <= dear * lowest
      BY Products
    <3>2. QED
      BY <3>1, SMT
  <2>3. Ratio(lowest, dear) <= Ratio(lowest, cheap)
    BY <2>1, <2>2, RatioMonotone
  <2>4. Ratio(lowest, dear) \in 0..Precision /\ Ratio(lowest, cheap) \in 0..Precision
    BY <1>1, <2>1, SMT
  <2>5. QED
    BY <1>4, <2>1, <2>3, <2>4, PrecisionAssumption, SMT DEF FeeFactor, Least
<1>5. QED
  BY <1>2, <1>3, <1>4

\* An offer that is as cheap, as fast and as reliable as another never scores
\* less, through every rounding and clamping of compute_root_score.
THEOREM RootScoreMonotone ==
  ASSUME NEW ask, NEW usable, Rankable(ask, usable),
         NEW p \in Offered(ask, usable), NEW q \in Offered(ask, usable),
         NEW okp \in Nat, NEW totalp \in Nat \ {0},
         NEW okq \in Nat, NEW totalq \in Nat \ {0},
         FeePermille[p] <= FeePermille[q], Minutes[p] <= Minutes[q],
         Latency[p] <= Latency[q], okq * totalp <= okp * totalq
  PROVE  RootScore(ask, usable, q, okq, totalq) <= RootScore(ask, usable, p, okp, totalp)
<1> DEFINE best == BestAmountOut(ask, usable)
           lowest == LowestFee(ask, usable)
           amount(x) == Ratio(FinalAmountOut(ask, usable, x), best)
           success(ok, total) == SuccessFactor(ok, total)
           latency(x) == LatencyFactor(Latency[x])
           fee(x) == FeeFactor(TotalFee(ask, usable, x), lowest)
           time(x) == TimeFactor(Minutes[x])
<1>1. p \in usable /\ q \in usable /\ p \in Partners /\ q \in Partners
  BY DEF Offered, Rankable
<1>2. ASSUME NEW x \in Offered(ask, usable)
      PROVE  /\ FinalAmountOut(ask, usable, x) \in Nat
             /\ best \in Nat \ {0} /\ FinalAmountOut(ask, usable, x) <= best
  <2>1. x \in usable /\ FinalAmountOut(ask, usable, x) > 0
    BY DEF Offered
  <2>2. ServiceFee(ask, usable) \in Nat
    BY ServiceFeeNatural
  <2>3. HalfEven(ServiceFee(ask, usable) * Per, Rate) \in Nat
    BY ServiceFeeNatural
  <2>4. /\ AmountOut(ask, x) \in Nat /\ best \in Nat
        /\ AmountOut(ask, x) <= best
    BY <2>1, BestIsBest
  <2>5. QED
    BY <2>1, <2>2, <2>3, <2>4, SMT DEF FinalAmountOut
<1>3. /\ PartnerFee(ask, p) <= PartnerFee(ask, q)
      /\ FinalAmountOut(ask, usable, q) <= FinalAmountOut(ask, usable, p)
  BY <1>1, LowerFeePaysMore
<1>4. amount(q) <= amount(p) /\ amount(p) \in 0..Precision /\ amount(q) \in 0..Precision
  <2> DEFINE less == FinalAmountOut(ask, usable, q)
             more == FinalAmountOut(ask, usable, p)
  <2>1. less \in Nat /\ more \in Nat /\ less <= more /\ more <= best /\ best \in Nat \ {0}
    BY <1>2, <1>3
  <2>2. amount(q) = Ratio(less, best) /\ amount(p) = Ratio(more, best)
    OBVIOUS
  <2> HIDE DEF less, more, best, amount
  <2>3. less * best <= more * best /\ less <= best
    BY <2>1, Products, SMT
  <2>4. QED
    BY <2>1, <2>2, <2>3, RatioMonotone, RatioOfParts
<1>5. success(okq, totalq) <= success(okp, totalp)
  BY SuccessFactorMonotone
<1>6. latency(q) <= latency(p)
  BY <1>1, LatencyFactorMonotone, TariffsAssumption
<1>7. time(q) <= time(p)
  BY <1>1, TimeFactorMonotone, TariffsAssumption
<1>8. /\ TotalFee(ask, usable, p) \in Nat /\ TotalFee(ask, usable, q) \in Nat
      /\ lowest \in Nat /\ lowest <= TotalFee(ask, usable, p)
      /\ lowest <= TotalFee(ask, usable, q)
      /\ TotalFee(ask, usable, p) <= TotalFee(ask, usable, q)
  <2>1. PartnerFee(ask, p) \in Nat /\ PartnerFee(ask, q) \in Nat
    BY <1>1, PartnerAmounts DEF Rankable
  <2>2. TotalFee(ask, usable, p) <= TotalFee(ask, usable, q)
    BY <1>3, <2>1, ServiceFeeNatural, TariffsAssumption, SMT DEF TotalFee
  <2>3. QED
    BY <1>1, <2>2, LowestIsLowest
<1>9. fee(q) <= fee(p)
  BY <1>8, FeeFactorMonotone
<1>10. /\ success(okp, totalp) \in 0..Precision /\ latency(p) \in 0..Precision
       /\ fee(p) \in 0..Precision /\ time(p) \in 0..Precision
  BY <1>1, <1>8, FactorsInRange
<1>11. /\ success(okq, totalq) \in 0..Precision /\ latency(q) \in 0..Precision
       /\ fee(q) \in 0..Precision /\ time(q) \in 0..Precision
  BY <1>1, <1>8, FactorsInRange
<1> DEFINE sum(x, ok, total) ==
             100 * (35 * amount(x) + 20 * success(ok, total) + 10 * latency(x)
                    + 10 * Precision + 10 * fee(x) + 5 * time(x)
                    + 5 * Precision + 5 * Precision)
<1>12. /\ RootScore(ask, usable, p, okp, totalp) = HalfEven(sum(p, okp, totalp), Precision)
       /\ RootScore(ask, usable, q, okq, totalq) = HalfEven(sum(q, okq, totalq), Precision)
  BY DEF RootScore
<1> HIDE DEF best, lowest, amount, success, latency, fee, time
<1>13. /\ sum(p, okp, totalp) \in Nat /\ sum(q, okq, totalq) \in Nat
       /\ sum(q, okq, totalq) <= sum(p, okp, totalp)
  BY <1>4, <1>5, <1>6, <1>7, <1>9, <1>10, <1>11, PrecisionAssumption, SMT
<1> HIDE DEF sum
<1>14. QED
  BY <1>12, <1>13, RoundingIsMonotone, PrecisionAssumption

------------------------------------------------------------------------------
(* The fees *)

\* What the user pays is worth what the user gets and the fees of the offer, for
\* every price, tariff and amount: to half a fiat unit for a SELL, where only what
\* the partner pays out is rounded off, and to one unit of the asset for a BUY,
\* where that and the converted service fee are.
THEOREM FeesOfAnOfferAddUp ==
  ASSUME NEW ask, NEW usable, Rankable(ask, usable), NEW p \in usable
  PROVE  LET got == FinalAmountOut(ask, usable, p)
             fees == TotalFee(ask, usable, p)
         IN IF ask.direction = "SELL"
            THEN /\ 2 * (Scale * (got + fees) - ask.amount * Rate) <= Scale
                 /\ 2 * (ask.amount * Rate - Scale * (got + fees)) <= Scale
            ELSE /\ Parts * Rate * got + Scale * fees - ask.amount * Per <= Parts * Rate
                 /\ ask.amount * Per - (Parts * Rate * got + Scale * fees) <= Parts * Rate
<1> DEFINE service == ServiceFee(ask, usable)
           net == Net(ask, p)
           taken == PartnerFee(ask, p) + NetworkFee
           gross == Gross(ask)
           d == Divisor(ask)
           out == HalfEven(net, d)
<1>1. ask \in Ask /\ p \in Partners /\ ~TooSmall(ask, p)
  BY DEF Rankable
<1>2. service \in Nat
  BY ServiceFeeNatural
<1>3. /\ taken \in Nat /\ gross \in Nat /\ net \in Nat
      /\ net = gross - Scale * taken
  BY <1>1, PartnerAmounts, PaidOut, TariffsAssumption, SMT
<1>4. TotalFee(ask, usable, p) = service + taken
  BY <1>1, <1>2, PartnerAmounts, TariffsAssumption, SMT DEF TotalFee
<1>5. /\ Scale \in Nat \ {0} /\ d \in Nat \ {0} /\ Parts * Rate \in Nat \ {0}
      /\ Rate \in Nat \ {0} /\ Per \in Nat \ {0} /\ Parts \in Nat \ {0}
  BY Units, TariffsAssumption
<1>6. out \in Nat /\ 2 * (d * out - net) <= d /\ 2 * (net - d * out) <= d
  BY <1>3, <1>5, HalfEvenRounds, Zenon
<1>7. CASE ask.direction = "SELL"
  <2>1. /\ FinalAmountOut(ask, usable, p) = out - service
        /\ gross = ask.amount * Rate /\ d = Scale
    BY <1>7 DEF FinalAmountOut, AmountOut, Gross, Divisor
  <2> HIDE DEF service, net, taken, gross, d, out
  <2>2. FinalAmountOut(ask, usable, p) + TotalFee(ask, usable, p) = out + taken
    BY <1>2, <1>3, <1>4, <1>6, <2>1, SMT
  <2>3. /\ Scale * (out + taken) = Scale * out + Scale * taken
        /\ Scale * out \in Nat /\ Scale * taken \in Nat
    BY <1>3, <1>5, <1>6, SMT
  <2>4. /\ 2 * (Scale * (out + taken) - gross) <= Scale
        /\ 2 * (gross - Scale * (out + taken)) <= Scale
    BY <1>3, <1>5, <1>6, <2>1, <2>3, SMT
  <2>5. QED
    BY <1>7, <2>1, <2>2, <2>4
<1>8. CASE ask.direction # "SELL"
  <2> DEFINE off == HalfEven(service * Per, Rate)
             unit == Parts * Rate
  <2>1. ask.direction = "BUY"
    BY <1>1, <1>8 DEF Ask
  <2>2. /\ FinalAmountOut(ask, usable, p) = out - off
        /\ gross = ask.amount * Per /\ d = unit
    BY <2>1 DEF FinalAmountOut, AmountOut, Gross, Divisor
  <2>3. service * Per \in Nat
    BY ServiceFeeNatural
  <2> HIDE DEF service, net, taken, gross, d, out
  <2>4. /\ off \in Nat /\ 2 * (Rate * off - service * Per) <= Rate
        /\ 2 * (service * Per - Rate * off) <= Rate
    BY <1>5, <2>3, HalfEvenRounds, Zenon
  <2> HIDE DEF off
  \* The rounding of the service fee, in 1/Scale of the fiat unit.
  <2>5. /\ 2 * (unit * off - Scale * service) <= unit
        /\ 2 * (Scale * service - unit * off) <= unit
    <3> DEFINE sp == service * Per
               ro == Rate * off
    <3>1. sp \in Nat /\ ro \in Nat
      BY <1>5, <2>3, <2>4, SMT
    <3>2. unit * off = Parts * ro /\ Scale * service = Parts * sp
      BY <1>2, <1>5, <2>4, SMT DEF Scale
    <3>3. 2 * (ro - sp) <= Rate /\ 2 * (sp - ro) <= Rate
      BY <2>4
    <3> HIDE DEF sp, ro
    <3>4. /\ (2 * ro) * Parts <= (2 * sp + Rate) * Parts
          /\ (2 * sp) * Parts <= (2 * ro + Rate) * Parts
      BY <1>5, <3>1, <3>3, Products, SMT
    <3>5. /\ (2 * ro) * Parts = 2 * (Parts * ro) /\ (2 * sp) * Parts = 2 * (Parts * sp)
          /\ (2 * sp + Rate) * Parts = 2 * (Parts * sp) + unit
          /\ (2 * ro + Rate) * Parts = 2 * (Parts * ro) + unit
          /\ Parts * ro \in Nat /\ Parts * sp \in Nat
      BY <1>5, <3>1, SMT
    <3> HIDE DEF unit
    <3>6. unit \in Nat
      BY <1>5 DEF unit
    <3>7. QED
      BY <3>2, <3>4, <3>5, <3>6, SMT
  <2>6. unit \in Nat
    BY <1>5
  <2> HIDE DEF unit
  <2>7. /\ unit * (out - off) = unit * out - unit * off
        /\ Scale * (service + taken) = Scale * service + Scale * taken
        /\ unit * out \in Nat /\ unit * off \in Nat
        /\ Scale * service \in Nat /\ Scale * taken \in Nat
    BY <1>2, <1>3, <1>5, <1>6, <2>4, <2>6, SMT
  <2>8. /\ unit * (out - off) + Scale * (service + taken) - gross <= unit
        /\ gross - (unit * (out - off) + Scale * (service + taken)) <= unit
    BY <1>3, <1>6, <2>2, <2>5, <2>6, <2>7, SMT
  <2>9. QED
    BY <1>4, <1>8, <2>2, <2>8 DEF unit
<1>9. QED
  BY <1>7, <1>8
==============================================================================
