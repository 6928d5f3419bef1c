--------------------------- MODULE OrderLifecycle ----------------------------
(***************************************************************************)
(* The life of an order after its creation has been committed: customer    *)
(* cancel and dispute, the admin's transition / dispute / refund, partner  *)
(* webhooks, the polling fallback and the expiry of unpaid orders, with    *)
(* the ledger postings and the referral reward they carry.                 *)
(*                                                                         *)
(* A handler runs in a database session.  It first READS the order into a  *)
(* copy (the ORM object), may then call the partner, and last COMMITS: the *)
(* UPDATE of the order row is "WHERE id", so it overwrites whatever was    *)
(* committed since the read.  The UPDATE holds the row's lock until the    *)
(* commit and every later read of the handler (postings, reward) sees the  *)
(* last committed rows, so update, side effects and commit are one step.   *)
(* A dispute of a disputed order, and a transition of a REFUNDED order to  *)
(* REFUNDED, update no order row and take no lock: what they read and what *)
(* they write are two steps.  A crash or an exception before the commit    *)
(* rolls everything back, except in a webhook, whose processor catches     *)
(* every exception and commits what was flushed.                           *)
(***************************************************************************)
EXTENDS PartnerEvents, OrderLedger, FiniteSets

CONSTANTS
  NoOrder,       \* "no order in hand"
  BuyOrders,     \* those paid against payment instructions (BUY)
  Requests,      \* sessions of API requests
  Workers,       \* sessions of polling loops, one per server process
  PartnerWords,  \* the status words the partner uses
  AdminTargets,  \* the statuses an admin asks /transition for
  MaxVersion,    \* bound: no dispute or admin request past this row version
  OneAtATime,    \* TRUE: a handler starts when no other is in flight
  RewardMayRaise \* TRUE: compute_reward_amount may raise (its rate is a string
                 \* of the settings that nothing validates)

Sessions == Requests \cup Workers

ASSUME OrdersAssumption == NoOrder \notin Orders /\ BuyOrders \subseteq Orders
ASSUME SessionsAssumption == Requests \cap Workers = {}
ASSUME InputsAssumption ==
  /\ PartnerWords \subseteq EventWords
  /\ AdminTargets \subseteq OrderStatus
  /\ MaxVersion \in Nat
  /\ OneAtATime \in BOOLEAN
  /\ RewardMayRaise \in BOOLEAN

VARIABLES
  order,       \* order[o]: the committed row, its status and version
  ledger,      \* ledger[o]: the postings of the order
  reward,      \* reward[o]: status of its referral reward, "NONE" if no row
  requisites,  \* requisites[o]: its payment instructions
  partner,     \* partner[o]: the partner's own status of the order
  pending,     \* pending[o]: partner events not yet marked PROCESSED
  session      \* session[s]: the handler that session s runs

books == <<ledger, reward>>
outside == <<partner, pending>>
vars == <<order, ledger, reward, requisites, partner, pending, session>>

Row == [status : OrderStatus, version : Nat]
Unread == [status |-> "CREATED", version |-> 0]

Idle == [op |-> "idle", order |-> NoOrder, todo |-> {}, arg |-> "none",
         seen |-> [o \in Orders |-> Unread]]

\* create_order commits an order in AWAITING_PAYMENT, as version 2.
Init ==
  /\ order = [o \in Orders |-> [status |-> "AWAITING_PAYMENT", version |-> 2]]
  /\ ledger = [o \in Orders |-> EmptyLedger]
  /\ reward = [o \in Orders |-> "NONE"]
  /\ requisites = [o \in Orders |-> IF o \in BuyOrders THEN "valid" ELSE "none"]
  /\ partner = [o \in Orders |-> "awaiting_payment"]
  /\ pending = [o \in Orders |-> {}]
  /\ session = [s \in Sessions |-> Idle]

------------------------------------------------------------------------------
(* Sessions *)

\* s starts handler op: it reads the rows of the orders in `read`.
Begin(s, op, read, inHand, arg) ==
  /\ session[s].op = "idle"
  /\ OneAtATime => \A t \in Sessions : session[t].op = "idle"
  /\ session' = [session EXCEPT ![s] =
       [op |-> op, order |-> inHand, todo |-> read \ {inHand}, arg |-> arg,
        seen |-> [o \in Orders |-> IF o \in read THEN order[o] ELSE Unread]]]

Running(s, op) == session[s].op = op
Close(s) == session' = [session EXCEPT ![s] = Idle]

\* The copy of the order a handler works on.
InHand(s) == session[s].order
Seen(s) == session[s].seen[InHand(s)]

\* Mutants of WriteStatus: the version is not moved; it is moved down.
WriteStatusOnly(o, seen, target, n) ==
  order' = [order EXCEPT ![o] = [status |-> target, version |-> seen.version]]
WriteStatusDown(o, seen, target, n) ==
  order' = [order EXCEPT ![o] = [status |-> target, version |-> seen.version - n]]

\* The UPDATE of transition(), n transitions after the copy was read.
WriteStatus(o, seen, target, n) ==
  order' = [order EXCEPT ![o] = [status |-> target, version |-> seen.version + n]]

\* The reward accrue_reward_for_completed_order creates, 0 when it does not.
AccruedReward(o) == IF reward[o] = "NONE" THEN RewardAmount[o] ELSE 0

\* freeze_rewards_for_order
FreezeReward(status) == IF status = "CONFIRMED" THEN "FROZEN" ELSE status

\* Mutants of CancelReward: a frozen or a confirmed reward is forgotten; a
\* reward is made where there is none.
CancelConfirmed(status) == IF status = "CONFIRMED" THEN "CANCELLED" ELSE status
CancelFrozen(status) == IF status = "FROZEN" THEN "CANCELLED" ELSE status
CancelAlways(status) == "CANCELLED"

\* cancel_rewards_for_order
CancelReward(status) == IF status = "NONE" THEN status ELSE "CANCELLED"

\* apply_status_side_effects after a move from `previous` to `status`.
SideEffects(o, previous, status) ==
  \/ /\ status = "COMPLETED" /\ previous # "COMPLETED"
     /\ ledger' = [ledger EXCEPT ![o] = PostEntries(@,
          CompletedEntries(ServiceFee[o], PartnerFee[o], NetworkFee[o],
                           AccruedReward(o)))]
     /\ reward' = [reward EXCEPT ![o] =
          IF AccruedReward(o) > 0 THEN "CONFIRMED" ELSE @]
  \/ /\ status = "REFUNDED"
     /\ ledger' = [ledger EXCEPT ![o] =
          PostEntries(@, RefundEntries(ServiceFee[o], @))]
     /\ reward' = [reward EXCEPT ![o] = CancelReward(@)]
  \/ /\ status # "REFUNDED" /\ (status = "COMPLETED" => previous = "COMPLETED")
     /\ UNCHANGED books

------------------------------------------------------------------------------
(* Customer requests *)

CANCELLABLE_STATUSES == {"CREATED", "QUOTE_CONFIRMED", "AWAITING_PAYMENT"}

\* The partner's status of o becomes `word`, and it sends the event for it.
PartnerReports(o, word) ==
  /\ partner' = [partner EXCEPT ![o] = word]
  /\ pending' = [pending EXCEPT ![o] = @ \cup ({word} \cap PartnerWords)]

\* cancel_user_order refuses any other status.
CancelStart(r, o) ==
  /\ order[o].status \in CANCELLABLE_STATUSES
  /\ Begin(r, "cancel", {o}, o, "none")
  /\ UNCHANGED <<order, books, requisites, outside>>

\* adapter.cancel_order: a partner that refuses or fails is only logged.
CancelAtPartner(r) ==
  /\ Running(r, "cancel") /\ session[r].arg = "none"
  /\ session' = [session EXCEPT ![r].arg = "asked"]
  /\ \/ PartnerReports(InHand(r), "cancelled")
     \/ UNCHANGED outside
  /\ UNCHANGED <<order, books, requisites>>

CancelCommit(r) ==
  /\ Running(r, "cancel") /\ session[r].arg = "asked"
  /\ WriteStatus(InHand(r), Seen(r), "CANCELLED", 1)
  /\ Close(r)
  /\ UNCHANGED <<books, requisites, outside>>

\* dispute_order (USER) and admin_dispute_order (ADMIN).  A second dispute
\* of a disputed order passes: transition() to the same status is a no-op.
DisputeStart(r, o, actor) ==
  /\ \/ order[o].status = "DISPUTED"
     \/ IsTransitionAllowed(order[o].status, "DISPUTED", actor)
  /\ order[o].version < MaxVersion
  /\ Begin(r, "dispute", {o}, o, "none")
  /\ UNCHANGED <<order, books, requisites, outside>>

\* The transition, then freeze_rewards_for_order.
DisputeCommit(r) ==
  LET o == InHand(r) IN
  /\ Running(r, "dispute") /\ Seen(r).status # "DISPUTED"
  /\ WriteStatus(o, Seen(r), "DISPUTED", 1)
  /\ reward' = [reward EXCEPT ![o] = FreezeReward(@)]
  /\ Close(r)
  /\ UNCHANGED <<ledger, requisites, outside>>

\* With no order row to update, the reward is read under no lock ...
DisputeReadsReward(r) ==
  /\ Running(r, "dispute") /\ Seen(r).status = "DISPUTED"
  /\ session[r].arg = "none"
  /\ session' = [session EXCEPT ![r].arg = reward[InHand(r)]]
  /\ UNCHANGED <<order, books, requisites, outside>>

\* ... and frozen if it was CONFIRMED then.
DisputeAgainCommit(r) ==
  /\ Running(r, "dispute") /\ Seen(r).status = "DISPUTED"
  /\ session[r].arg # "none"
  /\ reward' = [reward EXCEPT ![InHand(r)] =
       IF session[r].arg = "CONFIRMED" THEN "FROZEN" ELSE @]
  /\ Close(r)
  /\ UNCHANGED <<order, ledger, requisites, outside>>

------------------------------------------------------------------------------
(* Admin requests *)

\* Mutant of AdminTransitionCommit: the side effects are forgotten.
AdminTransitionWithoutBooks(r) ==
  LET o == InHand(r)  target == session[r].arg IN
  /\ Running(r, "admin_transition") /\ Seen(r).status # target
  /\ WriteStatus(o, Seen(r), target, 1)
  /\ Close(r)
  /\ UNCHANGED <<books, requisites, outside>>

\* admin_transition_order: a request whose expected_version is not the
\* version read, or whose target is not allowed, changes nothing.
AdminTransitionStart(r, o, target) ==
  /\ order[o].version < MaxVersion
  /\ \/ order[o].status = target
     \/ IsTransitionAllowed(order[o].status, target, "ADMIN")
  /\ Begin(r, "admin_transition", {o}, o, target)
  /\ UNCHANGED <<order, books, requisites, outside>>

AdminTransitionCommit(r) ==
  LET o == InHand(r)  target == session[r].arg IN
  /\ Running(r, "admin_transition") /\ target \in OrderStatus
  /\ ~(Seen(r).status = "REFUNDED" /\ target = "REFUNDED")
  /\ IF Seen(r).status = target THEN UNCHANGED order
     ELSE WriteStatus(o, Seen(r), target, 1)
  /\ SideEffects(o, Seen(r).status, target)
  /\ Close(r)
  /\ UNCHANGED <<requisites, outside>>

\* REFUNDED to REFUNDED: transition() returns at once, and under no lock
\* post_refund looks for the liability to the referrer ...
RefundAgainReads(r) ==
  /\ Running(r, "admin_transition")
  /\ Seen(r).status = "REFUNDED" /\ session[r].arg = "REFUNDED"
  /\ session' = [session EXCEPT ![r].arg =
       IF "referral_liability" \in DOMAIN ledger[InHand(r)]
       THEN "liability" ELSE "no_liability"]
  /\ UNCHANGED <<order, books, requisites, outside>>

\* ... posts what is missing of the refund as it has read it, and
\* cancel_rewards_for_order cancels the reward that is there by then.
RefundAgainCommit(r) ==
  LET o == InHand(r) IN
  /\ Running(r, "admin_transition")
  /\ session[r].arg \in {"liability", "no_liability"}
  /\ ledger' = [ledger EXCEPT ![o] = PostEntries(@,
       RefundEntries(ServiceFee[o],
                     IF session[r].arg = "liability" THEN @ ELSE EmptyLedger))]
  /\ reward' = [reward EXCEPT ![o] = CancelReward(@)]
  /\ Close(r)
  /\ UNCHANGED <<order, requisites, outside>>

AdminRefundStart(r, o) ==
  /\ order[o].version < MaxVersion
  /\ Begin(r, "admin_refund", {o}, o, "none")
  /\ UNCHANGED <<order, books, requisites, outside>>

\* adapter.request_refund comes before any check of the order's status, and is
\* left out for an adapter of no fiat partner; when it fails the request ends
\* (Abort).
RefundAtPartner(r) ==
  /\ Running(r, "admin_refund") /\ session[r].arg = "none"
  /\ session' = [session EXCEPT ![r].arg = "asked"]
  /\ \/ PartnerReports(InHand(r), "refund_processing")
     \/ UNCHANGED outside
  /\ UNCHANGED <<order, books, requisites>>

\* The chain of transitions to REFUNDED, and how many of them it takes.
RefundChain ==
  [COMPLETED |-> 3, DISPUTED |-> 3, FAILED |-> 3,
   REFUND_REQUESTED |-> 2, REFUND_FAILED |-> 2, REFUND_PROCESSING |-> 1]

\* From any other status the first transition is refused.
AdminRefundCommit(r) ==
  LET o == InHand(r) IN
  /\ Running(r, "admin_refund") /\ session[r].arg = "asked"
  /\ \/ /\ Seen(r).status \in DOMAIN RefundChain
        /\ WriteStatus(o, Seen(r), "REFUNDED", RefundChain[Seen(r).status])
        /\ SideEffects(o, Seen(r).status, "REFUNDED")
     \/ /\ Seen(r).status \notin DOMAIN RefundChain
        /\ UNCHANGED <<order, books>>
  /\ Close(r)
  /\ UNCHANGED <<requisites, outside>>

------------------------------------------------------------------------------
(* Partner webhooks *)

\* ingest_webhook of an event that is not PROCESSED yet.  The insert (or the
\* update) of the event row keeps a second delivery of it waiting, and the
\* order is read after it.  A delivery of a PROCESSED event changes nothing.
WebhookStart(r, o, word) ==
  /\ word \in pending[o]
  /\ \A t \in Sessions :
       ~(Running(t, "webhook") /\ InHand(t) = o /\ session[t].arg = word)
  /\ Begin(r, "webhook", {o}, o, word)
  /\ UNCHANGED <<order, books, requisites, outside>>

\* A refused transition is a no-op of the event, which is PROCESSED as well.
\* An event may yet be processed again, by a session that read it before or
\* after an exception behind the last write (WebhookInbox).
WebhookCommit(r) ==
  LET o == InHand(r)
      current == Seen(r).status
      target == EVENT_STATUS_MAP[session[r].arg]
  IN /\ Running(r, "webhook")
     /\ \/ /\ target # current /\ EventApplies(current, target)
           /\ WriteStatus(o, Seen(r), target, EventLength(current, target))
           /\ SideEffects(o, current, target)
        \/ /\ target = current \/ ~EventApplies(current, target)
           /\ UNCHANGED <<order, books>>
     /\ \/ pending' = [pending EXCEPT ![o] = @ \ {session[r].arg}]
        \/ UNCHANGED pending
     /\ Close(r)
     /\ UNCHANGED <<requisites, partner>>

\* accrue_reward_for_completed_order raises before it writes anything: the
\* processor catches the exception and commits the event for another attempt,
\* and with it the order, COMPLETED with nothing on the books.  (After an
\* error of the database there is nothing left to commit: Abort.)
WebhookRaises(r) ==
  LET o == InHand(r)
      current == Seen(r).status
  IN /\ Running(r, "webhook")
     /\ RewardMayRaise /\ reward[o] = "NONE"
     /\ EVENT_STATUS_MAP[session[r].arg] = "COMPLETED"
     /\ current # "COMPLETED" /\ EventApplies(current, "COMPLETED")
     /\ WriteStatus(o, Seen(r), "COMPLETED", EventLength(current, "COMPLETED"))
     /\ Close(r)
     /\ UNCHANGED <<books, requisites, outside>>

------------------------------------------------------------------------------
(* The polling loop *)

\* Mutant of StaleOrders: orders still short of their confirmed quote.
StaleUnquoted ==
  {o \in Orders : /\ order[o].status \in {"CREATED", "QUOTE_CONFIRMED"}
                  /\ requisites[o] \in {"lapsed", "deleted"}}

\* expire_stale_awaiting_orders: unpaid orders whose requisites have lapsed
\* are read by one query and expired in one transaction.
StaleOrders ==
  {o \in Orders : /\ order[o].status = "AWAITING_PAYMENT"
                  /\ requisites[o] \in {"lapsed", "deleted"}}

ExpireStart(w) ==
  /\ StaleOrders # {}
  /\ Begin(w, "expire", StaleOrders, NoOrder, "none")
  /\ UNCHANGED <<order, books, requisites, outside>>

ExpireCommit(w) ==
  LET stale == session[w].todo IN
  /\ Running(w, "expire")
  /\ order' = [o \in Orders |->
       IF o \in stale
       THEN [status |-> "EXPIRED", version |-> session[w].seen[o].version + 1]
       ELSE order[o]]
  /\ requisites' = [o \in Orders |->
       IF o \in stale THEN "deleted" ELSE requisites[o]]
  /\ Close(w)
  /\ UNCHANGED <<books, outside>>

\* Mutant of ActiveOrders: only those paid against requisites are polled.
ActiveBuyOrders ==
  {o \in BuyOrders : order[o].status \notin FINAL_ORDER_STATUSES}

\* poll_active_orders_once: one query reads every order not yet final, then
\* they are taken one by one, each with its partner's answer and its commit.
ActiveOrders == {o \in Orders : order[o].status \notin FINAL_ORDER_STATUSES}

PollStart(w) ==
  /\ ActiveOrders # {}
  /\ Begin(w, "poll", ActiveOrders, NoOrder, "none")
  /\ UNCHANGED <<order, books, requisites, outside>>

\* get_order_status answers.
PollAsk(w, o) ==
  /\ Running(w, "poll") /\ InHand(w) = NoOrder
  /\ o \in session[w].todo
  /\ session' = [session EXCEPT ![w].order = o, ![w].arg = partner[o],
                                ![w].todo = @ \ {o}]
  /\ UNCHANGED <<order, books, requisites, outside>>

\* It fails, and the pass goes on with the next order.
PollAskFails(w, o) ==
  /\ Running(w, "poll") /\ InHand(w) = NoOrder
  /\ o \in session[w].todo
  /\ session' = [session EXCEPT ![w].order = o, ![w].arg = "unavailable",
                                ![w].todo = @ \ {o}]
  /\ UNCHANGED <<order, books, requisites, outside>>

\* The pass leaves the order in hand; after the last one it ends.
PollNext(w) ==
  IF session[w].todo = {} THEN Close(w)
  ELSE session' = [session EXCEPT ![w].order = NoOrder, ![w].arg = "none",
                                  ![w].seen[InHand(w)] = Unread]

\* The answer stands for a status that differs from the copy's and that
\* SYSTEM may move the copy to.
AnswerApplies(w) ==
  /\ session[w].arg \in EventWords
  /\ EVENT_STATUS_MAP[session[w].arg] # Seen(w).status
  /\ ReportApplies(Seen(w).status, EVENT_STATUS_MAP[session[w].arg], "SYSTEM")

PollCommit(w) ==
  LET o == InHand(w)
      target == EVENT_STATUS_MAP[session[w].arg]
  IN /\ Running(w, "poll") /\ o # NoOrder
     /\ AnswerApplies(w)
     /\ WriteStatus(o, Seen(w), target, AdvanceLength(Seen(w).status, target))
     /\ SideEffects(o, Seen(w).status, target)
     /\ PollNext(w)
     /\ UNCHANGED <<requisites, outside>>

PollSkip(w) ==
  /\ Running(w, "poll") /\ InHand(w) # NoOrder
  /\ ~AnswerApplies(w)
  /\ PollNext(w)
  /\ UNCHANGED <<order, books, requisites, outside>>

------------------------------------------------------------------------------
(* The environment *)

\* A handler ends without its commit: a crash, a lost connection, an
\* exception (of the partner call, say).
Abort(s) ==
  /\ session[s].op # "idle"
  /\ Close(s)
  /\ UNCHANGED <<order, books, requisites, outside>>

\* The payment window of an order's instructions closes.
RequisitesLapse(o) ==
  /\ requisites[o] = "valid"
  /\ requisites' = [requisites EXCEPT ![o] = "lapsed"]
  /\ UNCHANGED <<order, books, outside, session>>

\* The partner's own progress with an order (external).
PartnerPath == {"awaiting_payment", "payment_detected", "payment_confirming",
                "processing", "payout_sent"}

PartnerPosition(word) ==
  IF word = "awaiting_payment" THEN HAPPY_PATH["AWAITING_PAYMENT"]
  ELSE HAPPY_PATH[EVENT_STATUS_MAP[word]]

PartnerMayReport(from, to) ==
  IF from \in PartnerPath
  THEN IF EVENT_STATUS_MAP[to] \in PaymentProgress
       THEN PartnerPosition(from) < PartnerPosition(to)
       ELSE to \in {"failed", "expired", "cancelled"}
  ELSE from = "refund_processing" /\ to \in {"refunded", "refund_failed"}

PartnerProgress(o, word) ==
  /\ PartnerMayReport(partner[o], word)
  /\ PartnerReports(o, word)
  /\ UNCHANGED <<order, books, requisites, session>>

------------------------------------------------------------------------------
RequestNext(r) ==
  \/ \E o \in Orders :
       \/ CancelStart(r, o)
       \/ \E actor \in {"USER", "ADMIN"} : DisputeStart(r, o, actor)
       \/ \E target \in AdminTargets : AdminTransitionStart(r, o, target)
       \/ AdminRefundStart(r, o)
       \/ \E word \in PartnerWords : WebhookStart(r, o, word)
  \/ CancelAtPartner(r) \/ CancelCommit(r)
  \/ DisputeCommit(r) \/ DisputeReadsReward(r) \/ DisputeAgainCommit(r)
  \/ AdminTransitionCommit(r) \/ RefundAgainReads(r) \/ RefundAgainCommit(r)
  \/ RefundAtPartner(r) \/ AdminRefundCommit(r)
  \/ WebhookCommit(r) \/ WebhookRaises(r)

WorkerNext(w) ==
  \/ ExpireStart(w) \/ ExpireCommit(w)
  \/ PollStart(w) \/ PollCommit(w) \/ PollSkip(w)
  \/ \E o \in Orders : PollAsk(w, o) \/ PollAskFails(w, o)

Environment ==
  \/ \E s \in Sessions : Abort(s)
  \/ \E o \in Orders : \/ RequisitesLapse(o)
                       \/ \E word \in PartnerWords : PartnerProgress(o, word)

Next ==
  \/ \E r \in Requests : RequestNext(r)
  \/ \E w \in Workers : WorkerNext(w)
  \/ Environment

Spec == Init /\ [][Next]_vars

\* Every server process keeps looping over expiry and polling.  A pass may be
\* lost to a crash or to a partner that does not answer, not every pass.
WorkerFairness ==
  \A w \in Workers :
    /\ SF_vars(ExpireStart(w)) /\ SF_vars(ExpireCommit(w))
    /\ SF_vars(PollStart(w)) /\ SF_vars(PollCommit(w)) /\ SF_vars(PollSkip(w))
    /\ \A o \in Orders : SF_vars(PollAsk(w, o))

FairSpec == Spec /\ WorkerFairness

------------------------------------------------------------------------------
(* Properties of every execution *)

RewardStatus == {"NONE", "CONFIRMED", "FROZEN", "CANCELLED"}

SessionRecord ==
  [op : {"idle", "cancel", "dispute", "admin_transition", "admin_refund",
         "webhook", "expire", "poll"},
   order : Orders \cup {NoOrder},
   todo : SUBSET Orders,
   arg : {"none", "asked", "awaiting_payment", "unavailable",
         "liability", "no_liability"}
         \cup RewardStatus \cup OrderStatus \cup EventWords,
   seen : [Orders -> Row]]

\* Type invariant of the committed rows and of the sessions.
TypeOK ==
  /\ order \in [Orders -> Row]
  /\ DOMAIN ledger = Orders /\ \A o \in Orders : IsLedger(ledger[o])
  /\ reward \in [Orders -> RewardStatus]
  /\ requisites \in [Orders -> {"none", "valid", "lapsed", "deleted"}]
  /\ partner \in [Orders -> {"awaiting_payment"} \cup EventWords]
  /\ pending \in [Orders -> SUBSET PartnerWords]
  /\ session \in [Sessions -> SessionRecord]

\* The handlers keep the promise of OrderBooks: no order is completed or
\* refunded without its postings and its reward, and nothing else posts.
Books == INSTANCE OrderBooks
           WITH status <- [o \in Orders |-> order[o].status]
ImplementsBooks == Books!Spec

\* A COMPLETED order has its fee and profit on the books, whichever handler
\* completed it and whatever it overwrote (apply_status_side_effects), as long
\* as no reward fails to be computed (WebhookRaises).
CompletedIsRecognized == Books!CompletedIsRecognized

\* A REFUNDED order has its refund on the books and no payable reward.
RefundedIsReversed == Books!RefundedIsReversed

\* The reward row and the liability posted for it exist together: a reward is
\* accrued exactly once, however often the order is completed.
RewardMatchesLiability == Books!RewardMatchesLiability

\* What completions have posted for an order sums to zero, also when stale
\* sessions complete it twice.
RecognitionBalanced == Books!RecognitionBalanced

\* An order's discrepancy in reconcile() is nothing or the referrer's share.
DiscrepancyIsReferralShare == Books!DiscrepancyIsReferralShare

\* An order whose payment window has lapsed does not stay AWAITING_PAYMENT.
LapsedOrderIsClosed ==
  \A o \in Orders :
    requisites[o] = "lapsed" ~> order[o].status # "AWAITING_PAYMENT"

\* Polling makes up for lost webhooks: while the partner says "completed" an
\* order does not stay in a payment status.
CompletionIsNoticed ==
  \A o \in Orders :
    partner[o] = "completed" ~>
      \/ partner[o] # "completed"
      \/ ~(OnHappyPath(order[o].status) /\ order[o].status # "COMPLETED")

------------------------------------------------------------------------------
(* Properties of executions in which handlers do not overlap *)

\* reconcile() finds nothing.
ReconciliationIsZero == \A o \in Orders : Residual(ledger[o]) = 0

\* An order before its payout, or closed unpaid, has nothing on the books.
UnpaidOrderIsOffTheBooks ==
  \A o \in Orders :
    order[o].status \in {"AWAITING_PAYMENT", "PAYMENT_DETECTED",
                         "PAYMENT_CONFIRMING", "EXPIRED", "CANCELLED"}
    => ledger[o] = EmptyLedger /\ reward[o] = "NONE"

\* The reward of a REFUNDED order is cancelled, if it had one.
RefundCancelsReward ==
  \A o \in Orders :
    order[o].status = "REFUNDED" => reward[o] \in {"NONE", "CANCELLED"}

\* Every change of a row moves its version up: no handler overwrites a status
\* it has not read ("optimistic locking via the version column").
VersionOnlyGrows ==
  [][\A o \in Orders :
       order'[o] # order[o] => order'[o].version > order[o].version]_order

\* EXPIRED, CANCELLED and REFUNDED are never left.
ClosedStaysClosed ==
  [][\A o \in Orders :
       order[o].status \in {"EXPIRED", "CANCELLED", "REFUNDED"}
       => order'[o].status = order[o].status]_order

------------------------------------------------------------------------------
(* What the documentation says and an execution refutes *)

\* A reward is FROZEN while the order is disputed or being refunded, and not
\* after the dispute was resolved for the order (docstring of referral.py).
FrozenOnlyInDispute ==
  \A o \in Orders : reward[o] = "FROZEN" =>
    order[o].status \in {"DISPUTED", "REFUND_REQUESTED", "REFUND_PROCESSING",
                         "REFUND_FAILED"}
==============================================================================
