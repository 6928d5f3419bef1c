\* Three overlapping calls for two quotes with two keys, one of them lost.
CONSTANTS
  u1 = u1  u2 = u2  q1 = q1  q2 = q2  k1 = k1  k2 = k2  a1 = a1  a2 = a2  a3 = a3
  Requests = {a1, a2, a3}
  Users = {u1, u2}
  Quotes = {q1, q2}
  Keys = {k1, k2}
  Owner <- MCOwner
  MaxLosses = 1
SPECIFICATION MCSpec
INVARIANTS
  TypeOK
  SameKeySameOrder
  ConsumedByOneOrder
  ConsumedAnswerIsTrue
  PartnerAgrees
  SecondPartnerOrderMeansLoss
PROPERTIES
  EveryRequestIsAnswered
  ImplementsDesk
