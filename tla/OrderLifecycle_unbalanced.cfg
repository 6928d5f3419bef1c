\* Overlapping handlers leave a discrepancy in the ledger.
CONSTANTS
  o1 = o1  o2 = o2  r1 = r1  r2 = r2  w1 = w1  w2 = w2
  NoOrder = NoOrder
  Orders = {o1}
  BuyOrders = {o1}
  Requests = {r1, r2}
  Workers = {w1}
  ServiceFee <- MCServiceFee
  PartnerFee <- MCPartnerFee
  NetworkFee <- MCNetworkFee
  RewardAmount <- MCRewardAmount
  PartnerWords = {"payment_detected", "completed"}
  AdminTargets = {"COMPLETED"}
  MaxVersion = 8
  OneAtATime = FALSE
  RewardMayRaise = FALSE
\* quiescent once every order is closed and MaxVersion admits no more requests
CHECK_DEADLOCK FALSE
SPECIFICATION Spec
SYMMETRY RequestSymmetry
INVARIANT
  ReconciliationIsZero
