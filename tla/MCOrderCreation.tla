--------------------------- MODULE MCOrderCreation ---------------------------
(***************************************************************************)
(* Instances of OrderCreation for TLC: the first user owns both quotes.    *)
(* The names of quotes and of keys are interchangeable, so it is enough    *)
(* to look at executions in which the first request names q1 and k1.  The  *)
(* third request may come from a user who does not own the quotes.         *)
(***************************************************************************)
EXTENDS OrderCreation

CONSTANTS u1, u2, q1, q2, k1, k2, a1, a2, a3

MCOwner == [q \in Quotes |-> u1]

MCInit ==
  /\ Init
  /\ ask[a1] = [user |-> u1, quote |-> q1, key |-> k1]
  /\ ask[a2].user = u1

MCSpec == MCInit /\ [][Next]_vars /\ Fairness
==============================================================================
