\* Two API requests and a polling loop, overlapping in every way; a sale, which
\* no payment instructions let expire.
CONSTANTS
  o1 = o1  o2 = o2  r1 = r1  r2 = r2  w1 = w1  w2 = w2
  NoOrder = NoOrder
  Orders = {o1}
  BuyOrders = {}
  Requests = {r1, r2}
  Workers = {w1}
  ServiceFee <- MCServiceFee
  PartnerFee <- MCPartnerFee
  NetworkFee <- MCNetworkFee
  RewardAmount <- MCRewardAmount
  PartnerWords = {"payment_detected", "completed"}
  AdminTargets = {"COMPLETED", "REFUNDED"}
  MaxVersion = 8
  OneAtATime = FALSE
  RewardMayRaise = FALSE
\* quiescent once every order is closed and MaxVersion admits no more requests
CHECK_DEADLOCK FALSE
SPECIFICATION Spec
SYMMETRY RequestSymmetry
INVARIANTS
  CompletedIsRecognized
  RefundedIsReversed
  RewardMatchesLiability
  RecognitionBalanced
  DiscrepancyIsReferralShare
PROPERTIES
  ImplementsBooks
