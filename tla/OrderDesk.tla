------------------------------ MODULE OrderDesk -------------------------------
(***************************************************************************)
(* What POST /orders promises its callers: it answers each request in one  *)
(* step, with an order or a refusal that is true at that moment, whatever  *)
(* runs beside it.  A request is accepted once nothing is ordered under    *)
(* its idempotency key; from then on it may lose a race for its key or its *)
(* quote.  One that comes after the order of its key gets that order, or   *)
(* is stopped or lost, and nothing else.                                   *)
(***************************************************************************)
CONSTANTS
  Requests,   \* calls of POST /orders; the order a call creates has its name
  Users, Quotes, Keys,
  Owner       \* the user each quote was made for

VARIABLES
  ask,      \* ask[r]: the user, quote and idempotency key of request r
  pending,  \* the requests that are accepted and not yet answered
  answer,   \* answer[r]: the order or the refusal, "none" before
  order,    \* order[r]: status of the order of r, "none" if it has none
  expired,  \* the quotes that are too old
  stopped   \* the emergency stop is on

vars == <<ask, pending, answer, order, expired, stopped>>

Init ==
  /\ ask \in [Requests -> [user : Users, quote : Quotes, key : Keys]]
  /\ pending = {}
  /\ answer = [r \in Requests |-> "none"]
  /\ order = [r \in Requests |-> "none"]
  /\ expired = {}
  /\ stopped = FALSE

\* The orders there are under r's key and for r's quote.
OrdersOfKey(r) ==
  {o \in Requests : order[o] # "none" /\ ask[o].user = ask[r].user /\ ask[o].key = ask[r].key}
OrdersOfQuote(r) ==
  {o \in Requests : order[o] # "none" /\ ask[o].quote = ask[r].quote}

OwnQuote(r) == Owner[ask[r].quote] = ask[r].user

Settle(r, what) ==
  /\ answer[r] = "none"
  /\ answer' = [answer EXCEPT ![r] = what]
  /\ pending' = pending \ {r}
  /\ UNCHANGED <<ask, expired, stopped>>

Stop(r) == stopped /\ r \notin pending /\ Settle(r, "stopped") /\ UNCHANGED order

Replay(r) == \E o \in OrdersOfKey(r) : Settle(r, o) /\ UNCHANGED order

Accept(r) ==
  /\ answer[r] = "none"
  /\ OrdersOfKey(r) = {}
  /\ pending' = pending \cup {r}
  /\ UNCHANGED <<ask, answer, order, expired, stopped>>

Refuse(r) ==
  /\ r \in pending
  /\ \/ ~OwnQuote(r) /\ Settle(r, "forbidden")
     \/ OwnQuote(r) /\ OrdersOfQuote(r) # {} /\ Settle(r, "consumed")
     \/ /\ OwnQuote(r) /\ OrdersOfQuote(r) = {} /\ ask[r].quote \in expired
        /\ Settle(r, "expired")
  /\ UNCHANGED order

\* The quote and the key are given away together with the answer.  An order the
\* partner refuses is kept, cancelled.
Create(r) ==
  /\ r \in pending
  /\ OwnQuote(r) /\ OrdersOfQuote(r) = {} /\ OrdersOfKey(r) = {}
  /\ \/ order' = [order EXCEPT ![r] = "AWAITING_PAYMENT"] /\ Settle(r, r)
     \/ order' = [order EXCEPT ![r] = "CANCELLED"] /\ Settle(r, "unavailable")

Lose(r) == Settle(r, "lost") /\ UNCHANGED order

\* Quotes get too old, an admin stops the desk or opens it again.
Outside ==
  /\ expired \subseteq expired' /\ stopped' \in BOOLEAN
  /\ UNCHANGED <<ask, pending, answer, order>>

Next ==
  \/ \E r \in Requests :
       Stop(r) \/ Replay(r) \/ Accept(r) \/ Refuse(r) \/ Create(r) \/ Lose(r)
  \/ Outside

Spec == Init /\ [][Next]_vars
==============================================================================
