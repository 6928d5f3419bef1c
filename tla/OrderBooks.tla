----------------------------- MODULE OrderBooks ------------------------------
(***************************************************************************)
(* What the order handlers promise about money, whatever the order in      *)
(* which they run: an order is completed or refunded only together with    *)
(* the postings and the reward bookkeeping that go with it, and no other   *)
(* step touches the books.  With OneAtATime, handlers do not overlap and   *)
(* a closed order stays closed; without it a stale handler may move an     *)
(* order from any status to any other.  With RewardMayRaise there is one   *)
(* exception: an order may be COMPLETED with nothing posted.               *)
(***************************************************************************)
EXTENDS OrderLedger

CONSTANTS
  OneAtATime,     \* TRUE: handlers do not overlap
  RewardMayRaise  \* TRUE: the reward of a completion may fail to be computed

VARIABLES
  status,  \* status[o]: the committed status of the order
  ledger,  \* ledger[o]: the postings of the order
  reward   \* reward[o]: status of its referral reward, "NONE" if no row

vars == <<status, ledger, reward>>

RewardStatus == {"NONE", "CONFIRMED", "FROZEN", "CANCELLED"}
Closed == {"EXPIRED", "CANCELLED", "REFUNDED"}
OtherStatus ==
  {"AWAITING_PAYMENT", "PAYMENT_DETECTED", "PAYMENT_CONFIRMING", "PROCESSING",
   "PAYOUT_SENT", "EXPIRED", "CANCELLED", "FAILED", "DISPUTED",
   "REFUND_REQUESTED", "REFUND_PROCESSING", "REFUND_FAILED"}
Status == OtherStatus \cup {"COMPLETED", "REFUNDED"}

\* The statuses an order may come to with no posting.
UnpostedStatus ==
  IF RewardMayRaise THEN OtherStatus \cup {"COMPLETED"} ELSE OtherStatus

Init ==
  /\ status = [o \in Orders |-> "AWAITING_PAYMENT"]
  /\ ledger = [o \in Orders |-> EmptyLedger]
  /\ reward = [o \in Orders |-> "NONE"]

MayMove(o) == OneAtATime => status[o] \notin Closed

\* Orders move, the books stay.
Move(moved, to) ==
  /\ to \in UnpostedStatus
  /\ \A o \in moved : MayMove(o)
  /\ status' = [o \in Orders |-> IF o \in moved THEN to ELSE status[o]]
  /\ UNCHANGED <<ledger, reward>>

\* The order completes; a reward is accrued unless it has one.
Complete(o) ==
  LET accrued == IF reward[o] = "NONE" THEN RewardAmount[o] ELSE 0 IN
  /\ MayMove(o)
  /\ status' = [status EXCEPT ![o] = "COMPLETED"]
  /\ ledger' = [ledger EXCEPT ![o] = PostEntries(@,
       CompletedEntries(ServiceFee[o], PartnerFee[o], NetworkFee[o], accrued))]
  /\ reward' = [reward EXCEPT ![o] = IF accrued > 0 THEN "CONFIRMED" ELSE @]

\* The order is refunded, or its refund is booked once more.  The share it
\* reverses is the one on the books, or none if the books were read before
\* the share was posted.
Refund(o) ==
  /\ \/ MayMove(o) /\ status' = [status EXCEPT ![o] = "REFUNDED"]
     \/ (OneAtATime => status[o] = "REFUNDED") /\ UNCHANGED status
  /\ \E read \in {ledger[o], EmptyLedger} :
       /\ OneAtATime => read = ledger[o]
       /\ ledger' = [ledger EXCEPT ![o] =
            PostEntries(@, RefundEntries(ServiceFee[o], read))]
  /\ reward' = [reward EXCEPT ![o] = IF @ = "NONE" THEN @ ELSE "CANCELLED"]

\* A dispute freezes the reward of the order.
Freeze(o) ==
  /\ MayMove(o)
  /\ reward[o] # "NONE"
  /\ reward' = [reward EXCEPT ![o] = "FROZEN"]
  /\ \/ status' = [status EXCEPT ![o] = "DISPUTED"]
     \/ UNCHANGED status
  /\ UNCHANGED ledger

Next ==
  \/ \E moved \in SUBSET Orders, to \in UnpostedStatus : Move(moved, to)
  \/ \E o \in Orders : Complete(o) \/ Refund(o) \/ Freeze(o)

Spec == Init /\ [][Next]_vars

------------------------------------------------------------------------------
\* Type invariant of the books.
TypeOK ==
  /\ status \in [Orders -> Status]
  /\ DOMAIN ledger = Orders /\ \A o \in Orders : IsLedger(ledger[o])
  /\ reward \in [Orders -> RewardStatus]

\* A COMPLETED order has its fee and profit on the books, whichever handler
\* completed it and whatever it overwrote (apply_status_side_effects).
CompletedIsRecognized ==
  \A o \in Orders : status[o] = "COMPLETED" =>
    {"gross_service_fee", "realized_net_profit"} \subseteq DOMAIN ledger[o]

\* A REFUNDED order has its refund on the books and no payable reward.
RefundedIsReversed ==
  \A o \in Orders : status[o] = "REFUNDED" =>
    /\ {"refund_liability", "refund_paid"} \subseteq DOMAIN ledger[o]
    /\ reward[o] # "CONFIRMED"

\* The reward row and the liability posted for it exist together, and the
\* liability is the reward, capped by the fee, however often an order is
\* completed, disputed and completed again ("accrued exactly once").
RewardMatchesLiability ==
  \A o \in Orders :
    /\ (reward[o] # "NONE") <=> ("referral_liability" \in DOMAIN ledger[o])
    /\ reward[o] # "NONE" =>
         ledger[o]["referral_liability"]
           = -Smaller(RewardAmount[o], ServiceFee[o])

\* What completions have posted for an order sums to zero, also when stale
\* handlers complete it twice.
RecognitionBalanced == \A o \in Orders : RecognitionSum(ledger[o]) = 0

\* An order's discrepancy in reconcile() is nothing or the referrer's share.
DiscrepancyIsReferralShare ==
  \A o \in Orders :
    Residual(ledger[o]) \in {0, -Amount(ledger[o], "referral_liability")}

\* reconcile() finds nothing, when handlers do not overlap.
ReconciliationIsZero ==
  OneAtATime => \A o \in Orders : Residual(ledger[o]) = 0

\* The reward of a REFUNDED order is cancelled, if it had one, when handlers
\* do not overlap.
RefundCancelsReward ==
  OneAtATime => \A o \in Orders :
    status[o] = "REFUNDED" => reward[o] \in {"NONE", "CANCELLED"}
==============================================================================
