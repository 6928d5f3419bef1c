---------------------------- MODULE PartnerEvents ----------------------------
(***************************************************************************)
(* What a partner's word about an order means here: the status it stands   *)
(* for, and whether the order may be moved there.  Used by the handlers of *)
(* OrderLifecycle and by the inbox of WebhookInbox.                        *)
(***************************************************************************)
EXTENDS OrderStateMachine

\* Partner status / event words and the order status each one stands for.
EVENT_STATUS_MAP ==
  [payment_detected   |-> "PAYMENT_DETECTED",
   payment_confirming |-> "PAYMENT_CONFIRMING",
   processing         |-> "PROCESSING",
   payout_sent        |-> "PAYOUT_SENT",
   completed          |-> "COMPLETED",
   expired            |-> "EXPIRED",
   failed             |-> "FAILED",
   cancelled          |-> "CANCELLED",
   refund_processing  |-> "REFUND_PROCESSING",
   refunded           |-> "REFUNDED",
   refund_failed      |-> "REFUND_FAILED"]

EventWords == DOMAIN EVENT_STATUS_MAP

\* _apply_event, as PARTNER: payment progress is walked along the happy path,
\* the rest is one transition, except that refund_processing of a COMPLETED
\* order goes through REFUND_REQUESTED.
PaymentProgress ==
  {"PAYMENT_DETECTED", "PAYMENT_CONFIRMING", "PROCESSING", "PAYOUT_SENT",
   "COMPLETED"}

ReportApplies(current, target, actor) ==
  IF target \in PaymentProgress THEN CanAdvance(current, target, actor)
  ELSE IsTransitionAllowed(current, target, actor)

EventApplies(current, target) ==
  IF target = "REFUND_PROCESSING" /\ current = "COMPLETED"
  THEN /\ IsTransitionAllowed(current, "REFUND_REQUESTED", "PARTNER")
       /\ IsTransitionAllowed("REFUND_REQUESTED", target, "PARTNER")
  ELSE ReportApplies(current, target, "PARTNER")

EventLength(current, target) ==
  IF target = "REFUND_PROCESSING" /\ current = "COMPLETED" THEN 2
  ELSE AdvanceLength(current, target)

\* advance_along_happy_path refuses to walk back or to stand still, before any
\* transition() is asked.
WalksBack(current, target) ==
  /\ target \in PaymentProgress
  /\ OnHappyPath(current) /\ OnHappyPath(target)
  /\ HAPPY_PATH[target] <= HAPPY_PATH[current]
==============================================================================
