\* Two overlapping requests, the two mock fiat partners.
CONSTANTS
  alpha = alpha  beta = beta  r1 = r1  r2 = r2
  Partners = {alpha, beta}
  Position <- MCPosition
  FeePermille <- MCFeePermille
  Minutes <- MCMinutes
  Latency <- MCLatency
  Rate = 1
  Per = 50
  Parts = 10
  NetworkFee = 2000
  ServicePermille = 9
  Precision = 1000
  Requests = {r1, r2}
  Key <- MCKey
  Asks <- MCAsks
  MaxCalls = 5
  MaxSwitched = 2
SPECIFICATION MCSpec
INVARIANTS
  TypeOK
  ScoreInRange
  FeesAddUp
  BetterOfferLeads
  LockCycleNeedsProbe
PROPERTIES
  AdminSwitchSticks
  EveryRequestEnds
CHECK_DEADLOCK FALSE
