\* Two orders, the polling loop and overlapping customer requests and webhooks.
CONSTANTS
  o1 = o1  o2 = o2  r1 = r1  r2 = r2  w1 = w1  w2 = w2
  NoOrder = NoOrder
  Orders = {o1, o2}
  BuyOrders = {o1}
  Requests = {r1}
  Workers = {w1}
  ServiceFee <- MCServiceFee
  PartnerFee <- MCPartnerFee
  NetworkFee <- MCNetworkFee
  RewardAmount <- MCRewardAmount
  PartnerWords = {"completed"}
  AdminTargets = {}
  MaxVersion = 0
  OneAtATime = FALSE
  RewardMayRaise = TRUE
\* quiescent once every order is closed and MaxVersion admits no more requests
CHECK_DEADLOCK FALSE
SPECIFICATION FairSpec
PROPERTIES
  LapsedOrderIsClosed
  CompletionIsNoticed
