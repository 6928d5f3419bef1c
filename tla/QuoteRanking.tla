---------------------------- MODULE QuoteRanking -----------------------------
(***************************************************************************)
(* The arithmetic of a quote: what a mock partner offers for an amount,    *)
(* what is left of it after the service fee, and the RootScore by which    *)
(* the offers are ranked.  Pure operators, no state.                       *)
(*                                                                         *)
(* Amounts are integers: of the fiat currency in its smallest unit, of the *)
(* crypto asset in the unit it is quantized to.  A customer may ask for a  *)
(* part of a unit, and the price of a unit is any fraction: what is not    *)
(* quantized is counted in 1/Scale of the fiat unit.  Decimal's division,  *)
(* which rounds to 28 digits, rounds to multiples of 1/Precision here.     *)
(***************************************************************************)
EXTENDS Integers

CONSTANTS
  Partners,         \* codes of the registered adapters
  Position,         \* Position[p]: when p was registered, 1 for the first
  FeePermille,      \* FeePermille[p]: fee_percent, in tenths of a percent
  Minutes,          \* Minutes[p]: latency_score_minutes
  Latency,          \* Latency[p]: average_latency_ms of its row
  Rate, Per,        \* Per units of the asset cost Rate units of the currency
  Parts,            \* the parts of a unit in which amount_in is given
  NetworkFee,       \* in the fiat currency
  ServicePermille,  \* service_fee_percent, in tenths of a percent
  Precision

ASSUME AdaptersAssumption ==
  /\ Position \in [Partners -> Nat]
  /\ \A p, q \in Partners : Position[p] = Position[q] => p = q
ASSUME TariffsAssumption ==
  /\ FeePermille \in [Partners -> 0..1000] /\ Minutes \in [Partners -> Nat]
  /\ Latency \in [Partners -> Nat]
  /\ Rate \in Nat \ {0} /\ Per \in Nat \ {0} /\ Parts \in Nat \ {0}
  /\ NetworkFee \in Nat /\ ServicePermille \in 0..1000
ASSUME PrecisionAssumption == Precision \in Nat \ {0}

\* What a request asks for: the direction and amount_in, in 1/Parts of a unit of
\* the currency for a BUY and of the asset for a SELL.
Ask == [direction : {"BUY", "SELL"}, amount : Nat \ {0}]

------------------------------------------------------------------------------
(* Rounding *)

\* n / d rounded to the nearest integer, ties to the even one: quantize().
HalfEven(n, d) ==
  LET floor == n \div d
      rest == n % d
  IN IF 2 * rest > d \/ (2 * rest = d /\ floor % 2 = 1) THEN floor + 1 ELSE floor

\* Ties away from zero: quantize(rounding=ROUND_HALF_UP).
HalfUp(n, d) ==
  LET floor == n \div d
  IN IF 2 * (n % d) >= d THEN floor + 1 ELSE floor

\* a / b of a division that is not quantized.
Ratio(a, b) == HalfEven(a * Precision, b)

Least(a, b) == IF a <= b THEN a ELSE b

------------------------------------------------------------------------------
(* A partner's quote: get_fiat_quote of the mock partner *)

Scale == Parts * Per

\* What amount_in is worth before any fee, in 1/Scale of the fiat unit.
Gross(ask) == ask.amount * (IF ask.direction = "BUY" THEN Per ELSE Rate)

PartnerFee(ask, p) == HalfEven(Gross(ask) * FeePermille[p], 1000 * Scale)

\* In 1/Scale of the fiat unit as well.
Net(ask, p) == Gross(ask) - Scale * (PartnerFee(ask, p) + NetworkFee)

\* Mutant of AmountOut: quantized downwards.
AmountOutTruncated(ask, p) ==
  Net(ask, p) \div (IF ask.direction = "BUY" THEN Parts * Rate ELSE Scale)

\* In units of the asset for a BUY, of the fiat currency for a SELL.
AmountOut(ask, p) ==
  HalfEven(Net(ask, p), IF ask.direction = "BUY" THEN Parts * Rate ELSE Scale)

\* "amount too small after fees".  Of a BUY less than half a unit may be left.
TooSmall(ask, p) ==
  (IF ask.direction = "BUY" THEN Net(ask, p) ELSE AmountOut(ask, p)) <= 0

------------------------------------------------------------------------------
(* What create_quotes makes of the quotes of the partners in `usable` *)

BestAmountOut(ask, usable) ==
  LET outs == {AmountOut(ask, p) : p \in usable}
  IN CHOOSE out \in outs : \A other \in outs : other <= out

\* compute_service_fee, of the fiat leg: what the user pays, or the most that
\* any partner pays out.
ServiceFee(ask, usable) ==
  IF ask.direction = "BUY" THEN HalfUp(ask.amount * ServicePermille, 1000 * Parts)
  ELSE HalfUp(BestAmountOut(ask, usable) * ServicePermille, 1000)

TotalFee(ask, usable, p) ==
  ServiceFee(ask, usable) + PartnerFee(ask, p) + NetworkFee

LowestFee(ask, usable) ==
  LET fees == {TotalFee(ask, usable, p) : p \in usable}
  IN CHOOSE fee \in fees : \A other \in fees : fee <= other

\* The service fee is taken off what the partner pays out, converted for a BUY.
FinalAmountOut(ask, usable, p) ==
  AmountOut(ask, p) -
    (IF ask.direction = "BUY" THEN HalfEven(ServiceFee(ask, usable) * Per, Rate)
     ELSE ServiceFee(ask, usable))

Offered(ask, usable) == {p \in usable : FinalAmountOut(ask, usable, p) > 0}

------------------------------------------------------------------------------
(* compute_root_score, in hundredths: each factor is at most Precision *)

\* The weights add up to 100.
FullScore == 100 * (35 + 20 + 10 + 10 + 10 + 5 + 5 + 5)

\* Mutant of SuccessFactor: the rate is taken as it is.
SuccessFactorUnclamped(ok, total) ==
  IF total = 0 THEN Precision ELSE Ratio(ok, total)

\* The rate is clamped to 1: the row's counters may say more.
SuccessFactor(ok, total) ==
  IF total = 0 \/ ok >= total THEN Precision ELSE Ratio(ok, total)

\* From 0 ms to 5 seconds.
LatencyFactor(ms) == IF ms >= 5000 THEN 0 ELSE Ratio(5000 - ms, 5000)

FeeFactor(fee, lowest) ==
  IF fee <= 0 THEN Precision
  ELSE IF lowest > 0 THEN Least(Precision, Ratio(lowest, fee)) ELSE 0

\* Mutant of TimeFactor: the longer the better.
TimeFactorReversed(minutes) ==
  IF minutes <= 10 THEN 0
  ELSE IF minutes >= 120 THEN Precision ELSE Ratio(minutes - 10, 110)

\* From 10 minutes to two hours.
TimeFactor(minutes) ==
  IF minutes <= 10 THEN Precision
  ELSE IF minutes >= 120 THEN 0 ELSE Ratio(120 - minutes, 110)

\* The score of p, whose row says ok successes in total calls.  A quote that is
\* scored has a reserve, asks for no KYC and comes from a partner just recorded
\* as a success, whose breaker is CLOSED.
RootScore(ask, usable, p, ok, total) ==
  HalfEven(
    100 * (35 * Ratio(FinalAmountOut(ask, usable, p), BestAmountOut(ask, usable))
           + 20 * SuccessFactor(ok, total)
           + 10 * LatencyFactor(Latency[p])
           + 10 * Precision
           + 10 * FeeFactor(TotalFee(ask, usable, p), LowestFee(ask, usable))
           + 5 * TimeFactor(Minutes[p])
           + 5 * Precision
           + 5 * Precision),
    Precision)
==============================================================================
