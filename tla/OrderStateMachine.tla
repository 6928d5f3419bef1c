-------------------------- MODULE OrderStateMachine --------------------------
(***************************************************************************)
(* The order state machine: which actor may move an order from one status  *)
(* to another (TRANSITIONS, is_transition_allowed), and how a partner      *)
(* report that skips statuses is walked along the canonical path           *)
(* (advance_along_happy_path).  Pure operators, no state.                  *)
(***************************************************************************)
EXTENDS Integers

OrderStatus ==
  {"CREATED", "QUOTE_CONFIRMED", "AWAITING_PAYMENT", "PAYMENT_DETECTED",
   "PAYMENT_CONFIRMING", "PROCESSING", "PAYOUT_SENT", "COMPLETED", "EXPIRED",
   "CANCELLED", "FAILED", "DISPUTED", "REFUND_REQUESTED",
   "REFUND_PROCESSING", "REFUNDED", "REFUND_FAILED"}

FINAL_ORDER_STATUSES ==
  {"COMPLETED", "REFUNDED", "FAILED", "EXPIRED", "CANCELLED"}

ActorType == {"USER", "ADMIN", "PARTNER", "SYSTEM"}

\* The rows <<current, target, actor>> of the table.
TRANSITIONS ==
  LET partnerSide == {"PARTNER", "SYSTEM", "ADMIN"}
      customerSide == {"USER", "ADMIN"}
  IN UNION {
       {"CREATED"} \X {"QUOTE_CONFIRMED"} \X {"USER", "SYSTEM"},
       {"QUOTE_CONFIRMED"} \X {"AWAITING_PAYMENT"} \X {"SYSTEM", "PARTNER"},
       {"AWAITING_PAYMENT"} \X {"PAYMENT_DETECTED", "EXPIRED"} \X partnerSide,
       {"PAYMENT_DETECTED"} \X {"PAYMENT_CONFIRMING"} \X partnerSide,
       {"PAYMENT_CONFIRMING"} \X {"PROCESSING", "FAILED"} \X partnerSide,
       {"PROCESSING"} \X {"PAYOUT_SENT", "FAILED"} \X partnerSide,
       {"PAYOUT_SENT"} \X {"COMPLETED", "FAILED"} \X partnerSide,
       {"CREATED", "QUOTE_CONFIRMED", "AWAITING_PAYMENT"}
         \X {"CANCELLED"} \X {"USER", "ADMIN", "SYSTEM"},
       {"PAYMENT_DETECTED", "PAYMENT_CONFIRMING", "PROCESSING", "PAYOUT_SENT",
        "COMPLETED"} \X {"DISPUTED"} \X customerSide,
       {"DISPUTED"} \X {"PROCESSING", "COMPLETED"} \X {"ADMIN"},
       {"DISPUTED", "COMPLETED", "FAILED"}
         \X {"REFUND_REQUESTED"} \X customerSide,
       {"REFUND_REQUESTED"} \X {"REFUND_PROCESSING"} \X partnerSide,
       {"REFUND_PROCESSING"} \X {"REFUNDED", "REFUND_FAILED"} \X partnerSide,
       {"REFUND_FAILED"} \X {"REFUND_PROCESSING"} \X {"ADMIN"}}

\* Mutant of IsTransitionAllowed: an admin may do anything.
IsTransitionAllowedOrAdmin(current, target, actor) ==
  <<current, target, actor>> \in TRANSITIONS \/ actor = "ADMIN"

IsTransitionAllowed(current, target, actor) ==
  <<current, target, actor>> \in TRANSITIONS

\* HAPPY_PATH, each status with its position on the path.
HAPPY_PATH ==
  [CREATED            |-> 1, QUOTE_CONFIRMED  |-> 2,
   AWAITING_PAYMENT   |-> 3, PAYMENT_DETECTED |-> 4,
   PAYMENT_CONFIRMING |-> 5, PROCESSING       |-> 6,
   PAYOUT_SENT        |-> 7, COMPLETED        |-> 8]

OnHappyPath(status) == status \in DOMAIN HAPPY_PATH

\* advance_along_happy_path reaches its target: off the path it is one
\* transition, on the path a forward walk whose every step is in the table.
\* A walk of the partner or of the polling loop that starts after the creation
\* of an order never stops half way (theorem WalksComplete), so a refused
\* report changes nothing.
CanAdvance(current, target, actor) ==
  IF OnHappyPath(current) /\ OnHappyPath(target)
  THEN /\ HAPPY_PATH[current] < HAPPY_PATH[target]
       /\ \A a, b \in DOMAIN HAPPY_PATH :
            /\ HAPPY_PATH[current] <= HAPPY_PATH[a]
            /\ HAPPY_PATH[b] = HAPPY_PATH[a] + 1
            /\ HAPPY_PATH[b] <= HAPPY_PATH[target]
            => IsTransitionAllowed(a, b, actor)
  ELSE IsTransitionAllowed(current, target, actor)

\* How many transitions (version increments) that takes.
AdvanceLength(current, target) ==
  IF OnHappyPath(current) /\ OnHappyPath(target)
  THEN HAPPY_PATH[target] - HAPPY_PATH[current]
  ELSE 1
==============================================================================
