----------------------------- MODULE OrderLedger -----------------------------
(***************************************************************************)
(* The ledger of one order: the postings that recognise a completed order, *)
(* the postings of its refund, and the sum reconciliation computes.  A     *)
(* ledger is a function from the posting keys that exist to their amounts  *)
(* (in the smallest currency unit).  Pure operators, no state.             *)
(***************************************************************************)
EXTENDS Integers

CONSTANTS
  Orders,                              \* the orders that were created
  ServiceFee, PartnerFee, NetworkFee,  \* per order, fixed by its quote
  RewardAmount   \* per order: compute_reward_amount, 0 without a referrer

ASSUME AmountsAssumption ==
  /\ ServiceFee \in [Orders -> Nat]
  /\ PartnerFee \in [Orders -> Nat]
  /\ NetworkFee \in [Orders -> Nat]
  /\ RewardAmount \in [Orders -> Nat]
  \* the reward is a share of the service fee, so a free order earns none
  /\ \A o \in Orders : RewardAmount[o] > 0 => ServiceFee[o] > 0

PostingKeys ==
  {"gross_service_fee", "referral_liability", "realized_net_profit",
   "partner_cost", "partner_cost_passthrough",
   "network_cost", "network_cost_passthrough",
   "refund_liability", "refund_profit_reversal", "refund_referral_reversal",
   "refund_paid", "refund_paid_offset"}

IsLedger(ledger) ==
  DOMAIN ledger \subseteq PostingKeys /\ ledger \in [DOMAIN ledger -> Int]

EmptyLedger == [k \in {} |-> 0]

\* Mutant of PostEntries: a key that exists is overwritten.
PostEntriesOver(ledger, entries) ==
  [k \in (DOMAIN ledger) \cup (DOMAIN entries) |->
     IF k \in DOMAIN entries THEN entries[k] ELSE ledger[k]]

\* post_entry for each of a batch of entries: a key that exists is skipped.
PostEntries(ledger, entries) ==
  [k \in (DOMAIN ledger) \cup (DOMAIN entries) |->
     IF k \in DOMAIN ledger THEN ledger[k] ELSE entries[k]]

Smaller(a, b) == IF a < b THEN a ELSE b

\* post_completed_order: the fee is income, the referrer's share a liability,
\* the rest profit; partner and network costs are booked in pairs.
CompletedEntries(serviceFee, partnerFee, networkFee, rewardAmount) ==
  LET referral == Smaller(rewardAmount, serviceFee)
      keys == {"gross_service_fee", "realized_net_profit"}
              \cup (IF referral > 0 THEN {"referral_liability"} ELSE {})
              \cup (IF partnerFee # 0
                    THEN {"partner_cost", "partner_cost_passthrough"} ELSE {})
              \cup (IF networkFee # 0
                    THEN {"network_cost", "network_cost_passthrough"} ELSE {})
  IN [k \in keys |->
        CASE k = "gross_service_fee"        -> serviceFee
          [] k = "referral_liability"       -> -referral
          [] k = "realized_net_profit"      -> referral - serviceFee
          [] k = "partner_cost"             -> -partnerFee
          [] k = "partner_cost_passthrough" -> partnerFee
          [] k = "network_cost"             -> -networkFee
          [] k = "network_cost_passthrough" -> networkFee]

\* The amount of a posting, 0 when there is none.
Amount(ledger, k) == IF k \in DOMAIN ledger THEN ledger[k] ELSE 0

\* Mutant of RefundEntries: the liability to the referrer is forgotten.
RefundFeeAndProfit(serviceFee, ledger) ==
  [k \in {"refund_liability", "refund_profit_reversal", "refund_paid",
          "refund_paid_offset"} |->
     CASE k = "refund_liability"       -> -serviceFee
       [] k = "refund_profit_reversal" ->
            serviceFee + Amount(ledger, "referral_liability")
       [] k = "refund_paid"            -> serviceFee
       [] k = "refund_paid_offset"     -> -serviceFee]

\* post_refund: reverse what post_completed_order recognised, the referrer's
\* share being read from the liability that is posted when the refund runs.
RefundEntries(serviceFee, ledger) ==
  LET referral == -Amount(ledger, "referral_liability")
      keys == {"refund_liability", "refund_profit_reversal", "refund_paid",
               "refund_paid_offset"}
              \cup (IF referral > 0 THEN {"refund_referral_reversal"} ELSE {})
  IN [k \in keys |->
        CASE k = "refund_liability"         -> -serviceFee
          [] k = "refund_profit_reversal"   -> serviceFee - referral
          [] k = "refund_referral_reversal" -> referral
          [] k = "refund_paid"              -> serviceFee
          [] k = "refund_paid_offset"       -> -serviceFee]

\* What completion posts, what a refund posts, and the two together: the
\* residual of the order in reconcile().
RecognitionSum(ledger) ==
  Amount(ledger, "gross_service_fee") + Amount(ledger, "referral_liability")
  + Amount(ledger, "realized_net_profit")
  + Amount(ledger, "partner_cost") + Amount(ledger, "partner_cost_passthrough")
  + Amount(ledger, "network_cost") + Amount(ledger, "network_cost_passthrough")

RefundSum(ledger) ==
  Amount(ledger, "refund_liability") + Amount(ledger, "refund_profit_reversal")
  + Amount(ledger, "refund_referral_reversal")
  + Amount(ledger, "refund_paid") + Amount(ledger, "refund_paid_offset")

Residual(ledger) == RecognitionSum(ledger) + RefundSum(ledger)
==============================================================================
