\* Handlers one at a time: every handler, every partner word, every admin target.
CONSTANTS
  o1 = o1  o2 = o2  r1 = r1  r2 = r2  w1 = w1  w2 = w2
  NoOrder = NoOrder
  Orders = {o1}
  BuyOrders = {o1}
  Requests = {r1}
  Workers = {w1}
  ServiceFee <- MCServiceFee
  PartnerFee <- MCPartnerFee
  NetworkFee <- MCNetworkFee
  RewardAmount <- MCRewardAmount
  PartnerWords = {"payment_detected", "completed", "failed", "expired", "cancelled", "refund_processing", "refunded", "refund_failed"}
  AdminTargets = {"PROCESSING", "COMPLETED", "DISPUTED", "REFUND_REQUESTED", "REFUND_PROCESSING", "REFUNDED", "REFUND_FAILED", "FAILED", "EXPIRED", "CANCELLED"}
  MaxVersion = 12
  OneAtATime = TRUE
  RewardMayRaise = TRUE
\* quiescent once every order is closed and MaxVersion admits no more requests
CHECK_DEADLOCK FALSE
SPECIFICATION Spec
INVARIANTS
  TypeOK
  ReconciliationIsZero
  UnpaidOrderIsOffTheBooks
  RefundCancelsReward
PROPERTIES
  ImplementsBooks
  VersionOnlyGrows
  ClosedStaysClosed
