---------------------------- MODULE OrderCreation ----------------------------
(***************************************************************************)
(* POST /orders: a quote is turned into an order, at the partner and here. *)
(* Requests run concurrently in sessions of their own; retries of a caller *)
(* are further requests with the same or with a new idempotency key.       *)
(*                                                                         *)
(* create_order reads the emergency stop, its replay and the quote one     *)
(* after the other, each as last committed.  Its transaction begins to     *)
(* write with the UPDATE that marks the quote consumed, which locks the    *)
(* quote's row, and with the INSERT of the order, which makes a second     *)
(* INSERT for the same user and key wait.  Both are held while the partner *)
(* is called and are committed after it has answered.                      *)
(***************************************************************************)
EXTENDS Integers, FiniteSets

CONSTANTS
  Requests,   \* calls of POST /orders; the order a call creates has its name
  Users, Quotes, Keys,
  Owner,      \* the user each quote was made for
  MaxLosses   \* bound: requests that are lost to a crash or an exception

ASSUME OwnerAssumption == Owner \in [Quotes -> Users]
ASSUME LossesAssumption == MaxLosses \in Nat
ASSUME NamesAssumption ==
  Requests \cap {"none", "stopped", "forbidden", "consumed", "expired",
                 "unavailable", "lost"} = {}

VARIABLES
  ask,       \* ask[r]: the user, quote and idempotency key of request r
  at,        \* at[r]: what request r does next
  answer,    \* answer[r]: the order it is answered with, or the refusal
  order,     \* order[r]: status of the order r committed, "none" if it did not
  consumed,  \* the quotes committed as consumed
  expired,   \* the quotes past their expires_at
  stopped,   \* the emergency stop is on
  partnerOrders,  \* the orders the partner has created, by client_order_id
  losses     \* requests lost so far

vars == <<ask, at, answer, order, consumed, expired, stopped, partnerOrders,
          losses>>
committed == <<order, consumed>>
outside == <<expired, stopped, partnerOrders, losses>>

Steps == {"check_stop", "look_up", "read_quote", "consume", "insert",
          "look_again", "call_partner", "commit", "commit_refused", "answered"}

Init ==
  /\ ask \in [Requests -> [user : Users, quote : Quotes, key : Keys]]
  /\ at = [r \in Requests |-> "check_stop"]
  /\ answer = [r \in Requests |-> "none"]
  /\ order = [r \in Requests |-> "none"]
  /\ consumed = {} /\ expired = {}
  /\ stopped = FALSE
  /\ partnerOrders = {}
  /\ losses = 0

------------------------------------------------------------------------------
Proceed(r, step) == at' = [at EXCEPT ![r] = step] /\ UNCHANGED answer

Respond(r, what) ==
  /\ at' = [at EXCEPT ![r] = "answered"]
  /\ answer' = [answer EXCEPT ![r] = what]

Committed(o) == order[o] # "none"

SameQuote(r, o) == ask[o].quote = ask[r].quote

\* Mutant of SameKey: the replay looks for the key alone.
SameKeyOfAnyone(r, o) == ask[o].key = ask[r].key

SameKey(r, o) == ask[o].user = ask[r].user /\ ask[o].key = ask[r].key

\* Mutant of HoldsQuote: the session of a lost request is never closed.
HoldsQuoteWhenLost(r) ==
  \/ at[r] \in {"insert", "call_partner", "commit", "commit_refused"}
  \/ answer[r] = "lost"

\* Requests that hold the lock of their quote's row, and those that have an
\* uncommitted order as well.
Inserted(r) == at[r] \in {"call_partner", "commit", "commit_refused"}
HoldsQuote(r) == at[r] = "insert" \/ Inserted(r)

\* ensure_not_stopped
CheckStop(r) ==
  /\ at[r] = "check_stop"
  /\ IF stopped THEN Respond(r, "stopped") ELSE Proceed(r, "look_up")
  /\ UNCHANGED <<ask, committed, outside>>

\* Mutant of Replay: the status of the order is the answer.
ReplayStatus(r, otherwise) ==
  \/ \E o \in Requests :
       Committed(o) /\ SameKey(r, o) /\ Respond(r, order[o])
  \/ (\A o \in Requests : Committed(o) => ~SameKey(r, o)) /\ otherwise

\* Answer with the order of the same user and key, if there is one.
Replay(r, otherwise) ==
  \/ \E o \in Requests : Committed(o) /\ SameKey(r, o) /\ Respond(r, o)
  \/ (\A o \in Requests : Committed(o) => ~SameKey(r, o)) /\ otherwise

LookUpReplay(r) ==
  /\ at[r] = "look_up"
  /\ Replay(r, Proceed(r, "read_quote"))
  /\ UNCHANGED <<ask, committed, outside>>

ReadQuote(r) ==
  LET q == ask[r].quote IN
  /\ at[r] = "read_quote"
  /\ IF Owner[q] # ask[r].user THEN Respond(r, "forbidden")
     ELSE IF q \in consumed THEN Respond(r, "consumed")
     ELSE IF q \in expired THEN Respond(r, "expired")
     ELSE Proceed(r, "consume")
  /\ UNCHANGED <<ask, committed, outside>>

\* Mutant of ConsumeQuote: consumed_at is committed at once.
ConsumeQuoteAtOnce(r) ==
  /\ at[r] = "consume"
  /\ \A t \in Requests \ {r} : HoldsQuote(t) => ~SameQuote(r, t)
  /\ consumed' = consumed \cup {ask[r].quote}
  /\ Proceed(r, "insert")
  /\ UNCHANGED <<ask, order, outside>>

\* The flush of consumed_at waits for the row lock; nothing is committed, and
\* what another request has committed meanwhile is not read again.
ConsumeQuote(r) ==
  /\ at[r] = "consume"
  /\ \A t \in Requests \ {r} : HoldsQuote(t) => ~SameQuote(r, t)
  /\ Proceed(r, "insert")
  /\ UNCHANGED <<ask, committed, outside>>

\* Mutants of Conflicts: one of the two constraints is missing.
ConflictsByQuote(r, o) == SameQuote(r, o)
ConflictsByKey(r, o) == SameKey(r, o)

\* uq_orders_quote and uq_orders_user_idempotency
Conflicts(r, o) == SameQuote(r, o) \/ SameKey(r, o)

\* The INSERT waits for an uncommitted one with the same user and key.  An
\* IntegrityError rolls back, which gives up the lock of the quote.
InsertOrder(r) ==
  /\ at[r] = "insert"
  /\ \A t \in Requests \ {r} : Inserted(t) => ~Conflicts(r, t)
  /\ IF \E o \in Requests : Committed(o) /\ Conflicts(r, o)
     THEN Proceed(r, "look_again")
     ELSE Proceed(r, "call_partner")
  /\ UNCHANGED <<ask, committed, outside>>

\* What has conflicted is a replay or another order of the quote.
ReplayAfterConflict(r) ==
  /\ at[r] = "look_again"
  /\ Replay(r, Respond(r, "consumed"))
  /\ UNCHANGED <<ask, committed, outside>>

\* create_fiat_order / create_order of the adapter
PartnerCreates(r) ==
  /\ at[r] = "call_partner"
  /\ partnerOrders' = partnerOrders \cup {r}
  /\ Proceed(r, "commit")
  /\ UNCHANGED <<ask, committed, expired, stopped, losses>>

\* An error says nothing of the order: it may be the answer that was lost.
PartnerMayHave(r) == partnerOrders' \in {partnerOrders, partnerOrders \cup {r}}

\* Mutant of PartnerRefuses: the error is swallowed.
PartnerRefusesUnnoticed(r) ==
  /\ at[r] = "call_partner"
  /\ PartnerMayHave(r)
  /\ Proceed(r, "commit")
  /\ UNCHANGED <<ask, committed, expired, stopped, losses>>

\* PartnerError: a rejection, but as well a failure of the network or an invalid
\* response after the partner has created the order.
PartnerRefuses(r) ==
  /\ at[r] = "call_partner"
  /\ PartnerMayHave(r)
  /\ Proceed(r, "commit_refused")
  /\ UNCHANGED <<ask, committed, expired, stopped, losses>>

Commit(r, status) ==
  /\ order' = [order EXCEPT ![r] = status]
  /\ consumed' = consumed \cup {ask[r].quote}

CommitOrder(r) ==
  /\ at[r] = "commit"
  /\ Commit(r, "AWAITING_PAYMENT")
  /\ Respond(r, r)
  /\ UNCHANGED <<ask, outside>>

\* The order is kept as CANCELLED, without a partner_order_id, and the quote stays
\* consumed.
CommitRefused(r) ==
  /\ at[r] = "commit_refused"
  /\ Commit(r, "CANCELLED")
  /\ Respond(r, "unavailable")
  /\ UNCHANGED <<ask, outside>>

------------------------------------------------------------------------------
\* The server dies, the connection is lost, an exception other than
\* PartnerError is raised: the transaction is rolled back, the partner's
\* order is not.
Lose(r) ==
  /\ at[r] # "answered" /\ losses < MaxLosses
  /\ losses' = losses + 1
  /\ Respond(r, "lost")
  /\ UNCHANGED <<ask, committed, expired, stopped, partnerOrders>>

QuoteExpires(q) ==
  /\ q \notin expired
  /\ expired' = expired \cup {q}
  /\ UNCHANGED <<ask, at, answer, committed, stopped, partnerOrders, losses>>

\* An admin's emergency stop, and its end.
SetStopped(value) ==
  /\ stopped' = value
  /\ UNCHANGED <<ask, at, answer, committed, expired, partnerOrders, losses>>

ActivateStop == SetStopped(TRUE)
DeactivateStop == SetStopped(FALSE)

ServerStep(r) ==
  \/ CheckStop(r) \/ LookUpReplay(r) \/ ReadQuote(r) \/ ConsumeQuote(r)
  \/ InsertOrder(r) \/ ReplayAfterConflict(r) \/ CommitOrder(r) \/ CommitRefused(r)

PartnerStep(r) == PartnerCreates(r) \/ PartnerRefuses(r)

Next ==
  \/ \E r \in Requests : ServerStep(r) \/ PartnerStep(r) \/ Lose(r)
  \/ \E q \in Quotes : QuoteExpires(q)
  \/ ActivateStop \/ DeactivateStop

Spec == Init /\ [][Next]_vars

\* A request is served to its end: the event loop runs every coroutine that
\* can run, the database grants a lock that is free, the partner answers.
Fairness ==
  \A r \in Requests : WF_vars(ServerStep(r)) /\ WF_vars(PartnerStep(r))

FairSpec == Spec /\ Fairness

------------------------------------------------------------------------------
Refusals == {"stopped", "forbidden", "consumed", "expired", "unavailable", "lost"}

TypeOK ==
  /\ ask \in [Requests -> [user : Users, quote : Quotes, key : Keys]]
  /\ at \in [Requests -> Steps]
  /\ answer \in [Requests -> Requests \cup Refusals \cup {"none"}]
  /\ order \in [Requests -> {"none", "AWAITING_PAYMENT", "CANCELLED"}]
  /\ consumed \subseteq Quotes /\ expired \subseteq Quotes
  /\ stopped \in BOOLEAN
  /\ partnerOrders \subseteq Requests
  /\ losses \in 0..MaxLosses

\* Requests of one user with one idempotency key are never answered with
\* different orders, whatever quotes they name and however they overlap.
SameKeySameOrder ==
  \A r, s \in Requests :
    /\ SameKey(r, s)
    /\ {answer[r], answer[s]} \subseteq Requests
    => answer[r] = answer[s]

\* A quote is consumed by exactly one order: a request that fails before its
\* commit leaves it usable, one that is refused by the partner does not.
ConsumedByOneOrder ==
  \A q \in Quotes :
    Cardinality({o \in Requests : Committed(o) /\ ask[o].quote = q})
      = IF q \in consumed THEN 1 ELSE 0

\* "quote already consumed" is only said of a quote that has an order.
ConsumedAnswerIsTrue ==
  \A r \in Requests : answer[r] = "consumed" =>
    \E o \in Requests : Committed(o) /\ SameQuote(r, o)

\* An order that awaits payment exists at the partner, and what exists there is
\* known here as an order, at least a cancelled one, unless its request was lost.
PartnerAgrees ==
  \A r \in Requests :
    /\ order[r] = "AWAITING_PAYMENT" => r \in partnerOrders
    /\ r \in partnerOrders =>
         Committed(r) \/ at[r] \in {"commit", "commit_refused"} \/ answer[r] = "lost"

\* Two orders at the partner for one quote mean that a request was lost after
\* the partner had created the first.
SecondPartnerOrderMeansLoss ==
  \A r, s \in partnerOrders :
    r # s /\ SameQuote(r, s) => "lost" \in {answer[r], answer[s]}

\* create_order keeps the promise of OrderDesk: each of its answers takes effect at
\* one moment, although the stop, the key, the quote and the partner are asked one
\* after the other and other requests commit in between.
Pending ==
  {r \in Requests :
     at[r] \in {"read_quote", "consume", "insert", "look_again", "call_partner",
               "commit", "commit_refused"}}
Desk == INSTANCE OrderDesk WITH pending <- Pending
ImplementsDesk == Desk!Spec

\* No request waits for ever: the lock of a quote and the wait for a key do
\* not form a cycle, and every holder lets go.
EveryRequestIsAnswered ==
  \A r \in Requests : at[r] # "answered" ~> at[r] = "answered"

\* What create_order says of the quote ("mark quote consumed before calling
\* the partner (no double-spend of a quote)"): the partner is given at most
\* one order for it.
OnePartnerOrderPerQuote ==
  \A r, s \in partnerOrders : SameQuote(r, s) => r = s
==============================================================================
