----------------------------- MODULE MCQuoteRound ----------------------------
(***************************************************************************)
(* Instances of QuoteRound for TLC: two partners with the fees of the mock *)
(* fiat partners, RUB and XMR, in kopecks and 1/10^8 XMR, amount_in with a *)
(* digit more.  50 units cost a kopeck, the network 20 RUB.                *)
(***************************************************************************)
EXTENDS QuoteRound

CONSTANTS alpha, beta, r1, r2

MCPosition == [p \in Partners |-> IF p = alpha THEN 1 ELSE 2]
\* The rows' ids are random: the other order.
MCKey == [p \in Partners |-> IF p = alpha THEN 2 ELSE 1]
\* alpha is the better one in every respect but, at times, its successes (the
\* real beta is the faster one).
MCFeePermille == [p \in Partners |-> IF p = alpha THEN 4 ELSE 6]
MCLatency == [p \in Partners |-> 400]
MCMinutes == [p \in Partners |-> IF p = alpha THEN 12 ELSE 25]

Buy(amount) == [direction |-> "BUY", amount |-> amount]
Sell(amount) == [direction |-> "SELL", amount |-> amount]
\* None of the amounts sold is worth whole kopecks.  The smaller ones leave an
\* offer of one partner only, the last ones none: half a kopeck after the fees.
MCAsks == {Buy(n) : n \in {400000, 123457, 20300, 20085}}
            \cup {Sell(n) : n \in {50000001, 1234867, 1004251, 1004250}}

Called(total, ok) == [Fresh EXCEPT !.total = total, !.ok = ok]
Rows(first, second) == [p \in Partners |-> IF p = alpha THEN first ELSE second]
Asking(first, second) == [r \in Requests |-> IF r = r1 THEN Idle(first) ELSE Idle(second)]

\* One partner and many calls; one partner that recovers beside another; one
\* call of each of two requests, for any amounts.
MCInit ==
  \/ /\ row = Rows(Called(2, 2), [Called(3, 3) EXCEPT !.enabled = FALSE])
     /\ request = Asking(Buy(400000), Sell(50000001))
  \/ /\ row = Rows(Called(3, 3), [Called(3, 2) EXCEPT !.state = "OPEN", !.cooldown = "elapsed"])
     /\ request = Asking(Sell(1004250), Sell(1234867))
  \/ /\ row = Rows(Called(4, 4), Called(4, 3))
     /\ \E ask \in Asks : request = Asking(ask, Buy(400000))

MCSpec == MCInit /\ [][Next]_vars /\ Fairness
==============================================================================
