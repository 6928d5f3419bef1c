\* A request is lost after the partner created its order, and retried.
CONSTANTS
  u1 = u1  u2 = u2  q1 = q1  q2 = q2  k1 = k1  k2 = k2  a1 = a1  a2 = a2  a3 = a3
  Requests = {a1, a2}
  Users = {u1}
  Quotes = {q1, q2}
  Keys = {k1, k2}
  Owner <- MCOwner
  MaxLosses = 1
SPECIFICATION MCSpec
INVARIANT
  OnePartnerOrderPerQuote
