------------------------- MODULE OrderCreationProofs -------------------------
(***************************************************************************)
(* Proofs about OrderCreation for any set of requests, quotes and keys.    *)
(* The heart of the invariant is that orders which are inserted or         *)
(* committed never conflict: the wait of the INSERT and its IntegrityError *)
(* keep every quote and every idempotency key with one order.              *)
(***************************************************************************)
EXTENDS OrderCreation, FiniteSetTheorems, TLAPS

\* An order that exists, committed or not.
Claims(r) == Inserted(r) \/ Committed(r)

NoConflicts ==
  \A r, t \in Requests : Claims(r) /\ Claims(t) /\ r # t => ~Conflicts(r, t)

OrdersAreAnswered ==
  \A r \in Requests :
    /\ Committed(r) => at[r] = "answered"
    /\ at[r] # "answered" => answer[r] = "none"

ConsumedHasOrder ==
  /\ \A r \in Requests : Committed(r) => ask[r].quote \in consumed
  /\ \A q \in consumed : \E r \in Requests : Committed(r) /\ ask[r].quote = q

AnswersAreTrue ==
  \A r \in Requests :
    /\ answer[r] \in Requests =>
         Committed(answer[r]) /\ SameKey(r, answer[r])
    /\ answer[r] = "consumed" =>
         \E o \in Requests : Committed(o) /\ SameQuote(r, o)

\* Whoever looks again has met an order that stays.
ConflictsRemain ==
  \A r \in Requests : at[r] = "look_again" =>
    \E o \in Requests : Committed(o) /\ Conflicts(r, o)

PartnerKnows ==
  \A r \in Requests :
    /\ at[r] = "commit" => r \in partnerOrders
    /\ order[r] = "AWAITING_PAYMENT" => r \in partnerOrders
    /\ r \in partnerOrders =>
         Committed(r) \/ at[r] \in {"commit", "commit_refused"} \/ answer[r] = "lost"

IInv == /\ TypeOK /\ NoConflicts /\ OrdersAreAnswered /\ ConsumedHasOrder
        /\ AnswersAreTrue /\ ConflictsRemain /\ PartnerKnows

------------------------------------------------------------------------------
LEMMA InitInvariant == Init => IInv
<1> SUFFICES ASSUME Init PROVE IInv
  OBVIOUS
<1>1. TypeOK
  <2>1. losses \in 0..MaxLosses
    BY LossesAssumption DEF Init
  <2>2. QED BY <2>1 DEF Init, TypeOK, Steps
<1>2. \A r \in Requests : ~Claims(r)
  BY DEF Init, Claims, Inserted, Committed
<1>3. NoConflicts /\ OrdersAreAnswered /\ ConsumedHasOrder
  BY <1>2 DEF Init, NoConflicts, OrdersAreAnswered, ConsumedHasOrder, Claims
<1>4. AnswersAreTrue
  BY NamesAssumption DEF Init, AnswersAreTrue
<1>5. ConflictsRemain /\ PartnerKnows
  BY DEF Init, ConflictsRemain, PartnerKnows
<1>6. QED BY <1>1, <1>3, <1>4, <1>5 DEF IInv

\* A step of one request that commits nothing: it goes on, or it is answered
\* with a refusal or with a committed order of its key.
TrueAnswer(r, what) ==
  \/ what \in Refusals \ {"consumed"}
  \/ what = "consumed" /\ \E o \in Requests : Committed(o) /\ SameQuote(r, o)
  \/ what \in Requests /\ Committed(what) /\ SameKey(r, what)

LEMMA AnswerKeepsInvariant ==
  ASSUME IInv, NEW r \in Requests, NEW what, TrueAnswer(r, what),
         Respond(r, what), UNCHANGED <<ask, committed, partnerOrders>>,
         expired' \subseteq Quotes, stopped' \in BOOLEAN, losses' \in 0..MaxLosses,
         at[r] # "answered", at[r] \in {"commit", "commit_refused"} => what = "lost"
  PROVE  IInv'
<1> USE DEF Respond, committed
<1>1. TypeOK'
  BY DEF IInv, TypeOK, Steps, TrueAnswer, Refusals
<1>2. \A t \in Requests : /\ Committed(t)' <=> Committed(t)
                          /\ Inserted(t)' => Inserted(t)
  BY DEF IInv, TypeOK, Committed, Inserted
<1>3. NoConflicts'
  BY <1>2 DEF IInv, NoConflicts, Claims, Conflicts, SameQuote, SameKey
<1>4. OrdersAreAnswered'
  BY <1>2 DEF IInv, TypeOK, OrdersAreAnswered
<1>5. ConsumedHasOrder'
  BY <1>2 DEF IInv, ConsumedHasOrder
<1>6. AnswersAreTrue'
  <2>1. ASSUME NEW t \in Requests
        PROVE  \/ t # r /\ answer'[t] = answer[t]
               \/ t = r /\ answer'[t] = what
    BY DEF IInv, TypeOK
  <2>2. QED
    BY <1>2, <2>1, NamesAssumption
    DEF IInv, AnswersAreTrue, SameQuote, SameKey, TrueAnswer, Refusals
<1>7. PartnerKnows'
  BY <1>2 DEF IInv, TypeOK, PartnerKnows, Committed, OrdersAreAnswered
<1>8. ConflictsRemain'
  BY <1>2 DEF IInv, TypeOK, ConflictsRemain, Conflicts, SameQuote, SameKey
<1>9. QED BY <1>1, <1>3, <1>4, <1>5, <1>6, <1>7, <1>8 DEF IInv

LEMMA ProceedKeepsInvariant ==
  ASSUME IInv, NEW r \in Requests, NEW step \in Steps \ {"answered"},
         Proceed(r, step), UNCHANGED <<ask, committed, expired, stopped, losses>>,
         at[r] # "answered",
         step \in {"call_partner", "commit", "commit_refused"} =>
           \A t \in Requests \ {r} : Claims(t) => ~Conflicts(r, t),
         \/ step \notin {"commit", "commit_refused"} /\ UNCHANGED partnerOrders
         \/ step = "commit" /\ partnerOrders' = partnerOrders \cup {r}
         \/ /\ step = "commit_refused"
            /\ partnerOrders' \in {partnerOrders, partnerOrders \cup {r}},
         at[r] \in {"commit", "commit_refused"} => step \in {"commit", "commit_refused"},
         step = "look_again" => \E o \in Requests : Committed(o) /\ Conflicts(r, o)
  PROVE  IInv'
<1> USE DEF Proceed, committed
<1>1. TypeOK'
  BY DEF IInv, TypeOK
<1>2. \A t \in Requests : Committed(t)' <=> Committed(t)
  BY DEF Committed
<1>3. \A t \in Requests : t # r => at'[t] = at[t]
  BY DEF IInv, TypeOK
<1>4. at'[r] = step
  BY DEF IInv, TypeOK
<1>5. NoConflicts'
  <2>1. ASSUME NEW t \in Requests, NEW u \in Requests, Claims(t)', Claims(u)',
               t # u, Conflicts(t, u)
        PROVE  FALSE
    <3>1. ~Committed(r)
      BY DEF IInv, OrdersAreAnswered
    <3>2. \A x \in Requests : Claims(x)' /\ x # r => Claims(x)
      BY <1>2, <1>3 DEF Claims, Inserted
    <3>3. Claims(r)' => \A x \in Requests \ {r} : Claims(x) => ~Conflicts(r, x)
      BY <1>2, <1>4, <3>1 DEF Claims, Inserted
    <3>4. Conflicts(u, t)
      BY <2>1 DEF Conflicts, SameQuote, SameKey
    <3>5. QED BY <2>1, <3>2, <3>3, <3>4 DEF IInv, NoConflicts
  <2>2. QED BY <2>1 DEF NoConflicts, Conflicts, SameQuote, SameKey
<1>6. OrdersAreAnswered'
  BY <1>2, <1>3, <1>4 DEF IInv, OrdersAreAnswered
<1>7. ConsumedHasOrder' /\ AnswersAreTrue'
  BY <1>2 DEF IInv, ConsumedHasOrder, AnswersAreTrue, SameQuote, SameKey
<1>8. PartnerKnows'
  BY <1>2, <1>3, <1>4
  DEF IInv, TypeOK, PartnerKnows, OrdersAreAnswered, Committed
<1>9. ConflictsRemain'
  BY <1>2, <1>3, <1>4 DEF IInv, ConflictsRemain, Conflicts, SameQuote, SameKey
<1>10. QED BY <1>1, <1>5, <1>6, <1>7, <1>8, <1>9 DEF IInv

\* The commit of an inserted order.
LEMMA CommitKeepsInvariant ==
  ASSUME IInv, NEW r \in Requests,
         \/ CommitOrder(r)
         \/ CommitRefused(r)
  PROVE  IInv'
<1>1. PICK status \in {"AWAITING_PAYMENT", "CANCELLED"} :
        /\ Commit(r, status)
        /\ at[r] = IF status = "CANCELLED" THEN "commit_refused" ELSE "commit"
        /\ Respond(r, IF status = "CANCELLED" THEN "unavailable" ELSE r)
        /\ UNCHANGED <<ask, outside>>
  BY DEF CommitOrder, CommitRefused
<1> USE DEF Commit, Respond, outside
<1>2. TypeOK'
  BY <1>1 DEF IInv, TypeOK, Steps, Refusals
<1>3. /\ at'[r] = "answered" /\ order'[r] = status
      /\ answer'[r] = IF status = "CANCELLED" THEN "unavailable" ELSE r
      /\ \A t \in Requests \ {r} : /\ at'[t] = at[t] /\ order'[t] = order[t]
                                   /\ answer'[t] = answer[t]
  BY <1>1 DEF IInv, TypeOK
<1>4. \A t \in Requests : Committed(t)' <=> Committed(t) \/ t = r
  BY <1>3 DEF Committed
<1>5. Inserted(r) /\ \A t \in Requests : Claims(t)' => Claims(t)
  BY <1>1, <1>3, <1>4 DEF Claims, Inserted
<1>6. NoConflicts'
  BY <1>1, <1>5 DEF IInv, NoConflicts, Conflicts, SameQuote, SameKey
<1>7. OrdersAreAnswered'
  BY <1>3, <1>4 DEF IInv, OrdersAreAnswered
<1>8. ConsumedHasOrder'
  BY <1>1, <1>4 DEF IInv, ConsumedHasOrder
<1>9. AnswersAreTrue'
  <2>1. ASSUME NEW t \in Requests, answer'[t] \in Requests
        PROVE  order'[answer'[t]] # "none" /\ SameKey(t, answer'[t])
    <3>1. CASE t = r
      <4>1. status = "AWAITING_PAYMENT" /\ answer'[r] = r
        BY <1>3, <2>1, <3>1, NamesAssumption
      <4>2. QED BY <1>3, <3>1, <4>1 DEF SameKey
    <3>2. CASE t # r
      BY <1>3, <1>4, <2>1, <3>2 DEF IInv, AnswersAreTrue, Committed
    <3>3. QED BY <3>1, <3>2
  <2>2. ASSUME NEW t \in Requests, answer'[t] = "consumed"
        PROVE  \E o \in Requests : order'[o] # "none" /\ SameQuote(t, o)
    <3>1. t # r
      BY <1>3, <2>2, NamesAssumption
    <3>2. QED
      BY <1>3, <1>4, <2>2, <3>1 DEF IInv, AnswersAreTrue, Committed
  <2>3. UNCHANGED ask
    BY <1>1
  <2>4. QED BY <2>1, <2>2, <2>3 DEF AnswersAreTrue, Committed, SameKey, SameQuote
<1>10. PartnerKnows'
  BY <1>1, <1>3, <1>4 DEF IInv, PartnerKnows, Committed
<1>11. ConflictsRemain'
  BY <1>1, <1>3, <1>4 DEF IInv, ConflictsRemain, Conflicts, SameQuote, SameKey
<1>12. QED BY <1>2, <1>6, <1>7, <1>8, <1>9, <1>10, <1>11 DEF IInv

------------------------------------------------------------------------------
LEMMA ReplayIsTrue ==
  ASSUME IInv, NEW r \in Requests, at[r] \notin {"answered", "commit", "commit_refused"},
         \E o \in Requests : Committed(o) /\ SameKey(r, o) /\ Respond(r, o),
         UNCHANGED <<ask, committed, outside>>
  PROVE  IInv'
<1>1. PICK o \in Requests : Committed(o) /\ SameKey(r, o) /\ Respond(r, o)
  OBVIOUS
<1>2. TrueAnswer(r, o)
  BY <1>1 DEF TrueAnswer
<1>3. QED
  BY <1>1, <1>2, AnswerKeepsInvariant DEF outside, IInv, TypeOK

\* A request is refused, for a reason other than "consumed".
LEMMA RefusalIsTrue ==
  ASSUME IInv, NEW r \in Requests, at[r] \notin {"answered", "commit", "commit_refused"},
         NEW what \in Refusals \ {"consumed"}, Respond(r, what),
         UNCHANGED <<ask, committed, outside>>
  PROVE  IInv'
<1>1. TrueAnswer(r, what)
  BY DEF TrueAnswer
<1>2. QED BY <1>1, AnswerKeepsInvariant DEF outside, IInv, TypeOK

LEMMA ConsumedIsTrue ==
  ASSUME IInv, NEW r \in Requests, at[r] \notin {"answered", "commit", "commit_refused"},
         \E o \in Requests : Committed(o) /\ SameQuote(r, o),
         Respond(r, "consumed"), UNCHANGED <<ask, committed, outside>>
  PROVE  IInv'
<1>1. TrueAnswer(r, "consumed")
  BY DEF TrueAnswer
<1>2. QED BY <1>1, AnswerKeepsInvariant DEF outside, IInv, TypeOK

\* A request goes on to a step before its order is inserted.
EarlySteps == {"look_up", "read_quote", "consume", "insert"}

LEMMA EarlyStep ==
  ASSUME IInv, NEW r \in Requests, at[r] \notin {"answered", "commit", "commit_refused"},
         NEW step \in EarlySteps, Proceed(r, step),
         UNCHANGED <<ask, committed, outside>>
  PROVE  IInv'
<1>1. step \in Steps \ {"answered", "look_again", "call_partner", "commit",
                        "commit_refused"}
  BY DEF EarlySteps, Steps
<1>2. QED BY <1>1, ProceedKeepsInvariant DEF outside

LEMMA ServerKeepsInvariant ==
  ASSUME IInv, NEW r \in Requests, ServerStep(r)
  PROVE  IInv'
<1>1. CASE CheckStop(r)
  BY <1>1, RefusalIsTrue, EarlyStep DEF CheckStop, Refusals, EarlySteps
<1>2. CASE LookUpReplay(r)
  BY <1>2, ReplayIsTrue, EarlyStep DEF LookUpReplay, Replay, EarlySteps
<1>3. CASE ReadQuote(r)
  <2> DEFINE q == ask[r].quote
  <2>1. CASE Respond(r, "consumed") /\ q \in consumed
    <3>1. \E o \in Requests : Committed(o) /\ SameQuote(r, o)
      BY <2>1 DEF IInv, ConsumedHasOrder, SameQuote
    <3>2. QED BY <1>3, <2>1, <3>1, ConsumedIsTrue DEF ReadQuote
  <2>2. CASE Respond(r, "forbidden") \/ Respond(r, "expired")
    BY <1>3, <2>2, RefusalIsTrue DEF ReadQuote, Refusals
  <2>3. CASE Proceed(r, "consume")
    BY <1>3, <2>3, EarlyStep DEF ReadQuote, EarlySteps
  <2>4. QED BY <1>3, <2>1, <2>2, <2>3 DEF ReadQuote
<1>4. CASE ConsumeQuote(r)
  BY <1>4, EarlyStep DEF ConsumeQuote, EarlySteps
<1>5. CASE InsertOrder(r)
  <2>0. at[r] = "insert" /\ UNCHANGED <<ask, committed, outside>>
    BY <1>5 DEF InsertOrder
  <2>1. CASE \E o \in Requests : Committed(o) /\ Conflicts(r, o)
    <3>1. Proceed(r, "look_again")
      BY <1>5, <2>1 DEF InsertOrder
    <3>2. QED
      BY <2>0, <2>1, <3>1, ProceedKeepsInvariant DEF outside, Steps
  <2>2. CASE ~\E o \in Requests : Committed(o) /\ Conflicts(r, o)
    <3>1. Proceed(r, "call_partner")
      BY <1>5, <2>2 DEF InsertOrder
    <3>2. \A t \in Requests \ {r} : Claims(t) => ~Conflicts(r, t)
      BY <1>5, <2>2 DEF InsertOrder, Claims
    <3>3. QED
      BY <2>0, <3>1, <3>2, ProceedKeepsInvariant DEF outside, Steps
  <2>3. QED BY <2>1, <2>2
<1>6. CASE ReplayAfterConflict(r)
  <2>1. at[r] = "look_again" /\ UNCHANGED <<ask, committed, outside>>
    BY <1>6 DEF ReplayAfterConflict
  <2>2. CASE \E o \in Requests : Committed(o) /\ SameKey(r, o) /\ Respond(r, o)
    BY <2>1, <2>2, ReplayIsTrue
  <2>3. CASE /\ \A o \in Requests : Committed(o) => ~SameKey(r, o)
             /\ Respond(r, "consumed")
    <3>1. \E o \in Requests : Committed(o) /\ SameQuote(r, o)
      BY <2>1, <2>3 DEF IInv, ConflictsRemain, Conflicts
    <3>2. QED
      BY <2>1, <2>3, <3>1, ConsumedIsTrue
  <2>4. QED BY <1>6, <2>2, <2>3 DEF ReplayAfterConflict, Replay
<1>7. CASE CommitOrder(r) \/ CommitRefused(r)
  BY <1>7, CommitKeepsInvariant
<1>8. QED BY <1>1, <1>2, <1>3, <1>4, <1>5, <1>6, <1>7 DEF ServerStep

LEMMA PartnerKeepsInvariant ==
  ASSUME IInv, NEW r \in Requests, PartnerStep(r)
  PROVE  IInv'
<1>1. /\ at[r] = "call_partner" /\ UNCHANGED <<ask, committed>>
      /\ UNCHANGED <<expired, stopped, losses>>
  BY DEF PartnerStep, PartnerCreates, PartnerRefuses, outside
<1>2. \A t \in Requests \ {r} : Claims(t) => ~Conflicts(r, t)
  BY <1>1 DEF IInv, NoConflicts, Claims, Inserted
<1>3. CASE PartnerCreates(r)
  BY <1>1, <1>2, <1>3, ProceedKeepsInvariant DEF PartnerCreates, Steps
<1>4. CASE PartnerRefuses(r)
  BY <1>1, <1>2, <1>4, ProceedKeepsInvariant
  DEF PartnerRefuses, PartnerMayHave, Steps
<1>5. QED BY <1>3, <1>4 DEF PartnerStep

LEMMA NextInvariant == IInv /\ [Next]_vars => IInv'
<1> SUFFICES ASSUME IInv, [Next]_vars PROVE IInv'
  OBVIOUS
<1>1. ASSUME NEW r \in Requests, Lose(r) PROVE IInv'
  <2>1. TrueAnswer(r, "lost")
    BY DEF TrueAnswer, Refusals
  <2>2. losses' \in 0..MaxLosses
    BY <1>1, LossesAssumption DEF Lose, IInv, TypeOK
  <2>3. QED
    BY <1>1, <2>1, <2>2, AnswerKeepsInvariant DEF Lose, IInv, TypeOK
<1>2. ASSUME UNCHANGED <<ask, at, answer, committed, partnerOrders, losses>>,
             expired' \subseteq Quotes, stopped' \in BOOLEAN
      PROVE  IInv'
  BY <1>2
  DEF committed, IInv, TypeOK, NoConflicts, OrdersAreAnswered,
      ConsumedHasOrder, AnswersAreTrue, ConflictsRemain, PartnerKnows, Claims, Inserted,
      Committed, Conflicts, SameQuote, SameKey
<1>3. ASSUME NEW q \in Quotes, QuoteExpires(q) PROVE IInv'
  BY <1>2, <1>3 DEF QuoteExpires, IInv, TypeOK
<1>4. CASE ActivateStop \/ DeactivateStop
  BY <1>2, <1>4 DEF ActivateStop, DeactivateStop, SetStopped, IInv, TypeOK
<1>5. CASE UNCHANGED vars
  BY <1>2, <1>5 DEF vars, committed, IInv, TypeOK
<1>6. QED
  BY <1>1, <1>3, <1>4, <1>5, ServerKeepsInvariant, PartnerKeepsInvariant
  DEF Next

LEMMA Invariant == Spec => []IInv
BY InitInvariant, NextInvariant, PTL DEF Spec

------------------------------------------------------------------------------
\* The rows, the requests and their answers are well typed.
THEOREM TypeCorrect == Spec => []TypeOK
<1>1. IInv => TypeOK
  BY DEF IInv
<1>2. QED BY <1>1, Invariant, PTL

\* Calls of create_order with one user and one idempotency key never return
\* different orders, whatever quotes they name and however they overlap.
THEOREM OneOrderPerKey == Spec => []SameKeySameOrder
<1>1. ASSUME IInv PROVE SameKeySameOrder
  <2> SUFFICES ASSUME NEW r \in Requests, NEW s \in Requests, SameKey(r, s),
                      answer[r] \in Requests, answer[s] \in Requests
               PROVE  answer[r] = answer[s]
    BY DEF SameKeySameOrder
  <2>1. /\ Committed(answer[r]) /\ SameKey(r, answer[r])
        /\ Committed(answer[s]) /\ SameKey(s, answer[s])
    BY <1>1 DEF IInv, AnswersAreTrue
  <2>2. Conflicts(answer[r], answer[s])
    BY <2>1 DEF Conflicts, SameKey
  <2>3. QED BY <1>1, <2>1, <2>2 DEF IInv, NoConflicts, Claims
<1>2. QED BY <1>1, Invariant, PTL

\* create_order consumes a quote exactly when it commits the one order of it.
THEOREM OneOrderPerQuote == Spec => []ConsumedByOneOrder
<1>1. ASSUME IInv PROVE ConsumedByOneOrder
  <2> SUFFICES ASSUME NEW q \in Quotes
               PROVE  Cardinality({o \in Requests :
                                     Committed(o) /\ ask[o].quote = q})
                        = IF q \in consumed THEN 1 ELSE 0
    BY DEF ConsumedByOneOrder
  <2> DEFINE ordersOf == {o \in Requests : Committed(o) /\ ask[o].quote = q}
  <2>1. CASE q \in consumed
    <3>1. PICK o \in ordersOf : TRUE
      BY <1>1, <2>1 DEF IInv, ConsumedHasOrder
    <3>2. ordersOf = {o}
      BY <1>1, <3>1 DEF IInv, NoConflicts, Claims, Conflicts, SameQuote
    <3>3. QED BY <2>1, <3>2, FS_Singleton
  <2>2. CASE q \notin consumed
    <3>1. ordersOf = {}
      BY <1>1, <2>2 DEF IInv, ConsumedHasOrder
    <3>2. QED BY <2>2, <3>1, FS_EmptySet
  <2>3. QED BY <2>1, <2>2
<1>2. QED BY <1>1, Invariant, PTL

\* What create_order tells a caller about a consumed quote is true, and no order
\* awaits a payment that the partner does not know of.  It says nothing of a
\* cancelled order: after a PartnerError the partner may have it or not.
THEOREM AnswersHold == Spec => [](ConsumedAnswerIsTrue /\ PartnerAgrees)
<1>1. IInv => ConsumedAnswerIsTrue /\ PartnerAgrees
  BY DEF IInv, AnswersAreTrue, PartnerKnows, ConsumedAnswerIsTrue, PartnerAgrees
<1>2. QED BY <1>1, Invariant, PTL

\* What awaits payment here exists at the partner, and what the partner has made
\* is an order here unless its request was lost.
THEOREM PartnerKnowsTheOrders == Spec => []PartnerAgrees
BY AnswersHold, PTL

\* The partner is given a second order for a quote only after a request was
\* lost between its creation at the partner and the commit of create_order.
THEOREM SecondOrderNeedsLoss == Spec => []SecondPartnerOrderMeansLoss
<1>1. ASSUME IInv PROVE SecondPartnerOrderMeansLoss
  <2> SUFFICES ASSUME NEW r \in partnerOrders, NEW s \in partnerOrders,
                      r # s, SameQuote(r, s),
                      answer[r] # "lost", answer[s] # "lost"
               PROVE  FALSE
    BY DEF SecondPartnerOrderMeansLoss
  <2>1. r \in Requests /\ s \in Requests
    BY <1>1 DEF IInv, TypeOK
  <2>2. Claims(r) /\ Claims(s)
    BY <1>1, <2>1 DEF IInv, PartnerKnows, Claims, Inserted
  <2>3. QED BY <1>1, <2>1, <2>2 DEF IInv, NoConflicts, Conflicts
<1>2. QED BY <1>1, Invariant, PTL

------------------------------------------------------------------------------
(* create_order implements OrderDesk *)

\* Whoever gets past the checks of the quote owns it.
OwnersChecked ==
  \A r \in Requests :
    at[r] \in {"consume", "insert", "look_again"} \/ Inserted(r) =>
      Owner[ask[r].quote] = ask[r].user

LEMMA OwnersStayChecked == IInv /\ OwnersChecked /\ [Next]_vars => OwnersChecked'
<1> SUFFICES ASSUME IInv, OwnersChecked, [Next]_vars PROVE OwnersChecked'
  OBVIOUS
<1>1. at \in [Requests -> Steps]
  BY DEF IInv, TypeOK
<1>2. ASSUME NEW r \in Requests, NEW what, Respond(r, what), UNCHANGED ask
      PROVE  OwnersChecked'
  BY <1>1, <1>2 DEF Respond, OwnersChecked, Inserted
<1>3. ASSUME NEW r \in Requests, NEW step, Proceed(r, step), UNCHANGED ask,
             \/ step \in {"look_up", "read_quote"}
             \/ Owner[ask[r].quote] = ask[r].user
      PROVE  OwnersChecked'
  BY <1>1, <1>3 DEF Proceed, OwnersChecked, Inserted
<1>4. ASSUME NEW r \in Requests, ServerStep(r) PROVE OwnersChecked'
  <2>1. UNCHANGED ask
    BY <1>4 DEF ServerStep, CheckStop, LookUpReplay, ReadQuote, ConsumeQuote, InsertOrder,
                ReplayAfterConflict, CommitOrder, CommitRefused
  <2>2. CASE \E what : Respond(r, what)
    BY <1>2, <2>1, <2>2
  <2>3. CASE \E step : /\ Proceed(r, step)
                       /\ \/ step \in {"look_up", "read_quote"}
                          \/ Owner[ask[r].quote] = ask[r].user
    BY <1>3, <2>1, <2>3
  <2>4. CASE CheckStop(r) \/ LookUpReplay(r)
    BY <2>2, <2>3, <2>4 DEF CheckStop, LookUpReplay, Replay
  <2>5. CASE ReadQuote(r)
    BY <2>2, <2>3, <2>5 DEF ReadQuote
  <2>6. CASE ConsumeQuote(r)
    BY <2>3, <2>6 DEF ConsumeQuote, OwnersChecked
  <2>7. CASE InsertOrder(r)
    BY <2>3, <2>7 DEF InsertOrder, OwnersChecked
  <2>8. CASE ReplayAfterConflict(r) \/ CommitOrder(r) \/ CommitRefused(r)
    BY <2>2, <2>8 DEF ReplayAfterConflict, Replay, CommitOrder, CommitRefused
  <2>9. QED
    BY <1>4, <2>4, <2>5, <2>6, <2>7, <2>8 DEF ServerStep
<1>5. ASSUME NEW r \in Requests, PartnerStep(r) PROVE OwnersChecked'
  BY <1>3, <1>5 DEF PartnerStep, PartnerCreates, PartnerRefuses, OwnersChecked, Inserted
<1>6. ASSUME NEW r \in Requests, Lose(r) PROVE OwnersChecked'
  BY <1>2, <1>6 DEF Lose
<1>7. CASE UNCHANGED <<ask, at>>
  BY <1>7 DEF OwnersChecked, Inserted
<1>8. QED
  BY <1>4, <1>5, <1>6, <1>7
  DEF Next, QuoteExpires, ActivateStop, DeactivateStop, SetStopped, vars

LEMMA OwnersAreChecked == Spec => []OwnersChecked
<1>1. Init => OwnersChecked
  BY DEF Init, OwnersChecked, Inserted
<1>2. QED
  BY <1>1, OwnersStayChecked, Invariant, PTL DEF Spec

\* The answer of a request is the end of it at the desk.
LEMMA DeskSettles ==
  ASSUME IInv, NEW r \in Requests, at[r] # "answered", NEW what, Respond(r, what),
         UNCHANGED <<ask, expired, stopped>>
  PROVE  Desk!Settle(r, what)
<1>1. answer[r] = "none"
  BY DEF IInv, OrdersAreAnswered
<1>2. Pending' = Pending \ {r}
  BY DEF Respond, Pending, IInv, TypeOK
<1>3. QED
  BY <1>1, <1>2 DEF Respond, Desk!Settle

\* A request that goes on after it was accepted changes nothing at the desk.
LEMMA DeskWaits ==
  ASSUME IInv, NEW r \in Requests, NEW step, Proceed(r, step),
         r \in Pending <=> step \in {"read_quote", "consume", "insert", "look_again",
                                    "call_partner", "commit", "commit_refused"},
         UNCHANGED <<ask, committed, expired, stopped>>
  PROVE  UNCHANGED Desk!vars
<1>1. Pending' = Pending
  BY DEF Proceed, Pending, IInv, TypeOK
<1>2. QED
  BY <1>1 DEF Proceed, Desk!vars, committed

LEMMA DeskRefuses ==
  ASSUME IInv, OwnersChecked, NEW r \in Requests, at[r] \in {"read_quote", "look_again"},
         NEW what, Respond(r, what), UNCHANGED <<ask, committed, outside>>,
         \/ what = "forbidden" /\ Owner[ask[r].quote] # ask[r].user
         \/ /\ what = "consumed" /\ Owner[ask[r].quote] = ask[r].user
            /\ \E o \in Requests : Committed(o) /\ SameQuote(r, o)
         \/ /\ what = "expired" /\ Owner[ask[r].quote] = ask[r].user
            /\ ask[r].quote \in expired
            /\ \A o \in Requests : Committed(o) => ~SameQuote(r, o)
  PROVE  Desk!Refuse(r)
<1>1. Desk!Settle(r, what) /\ r \in Pending /\ UNCHANGED order
  BY DeskSettles DEF outside, committed, Pending
<1>2. QED
  BY <1>1 DEF Desk!Refuse, Desk!OwnQuote, Desk!OrdersOfQuote, Committed, SameQuote

\* An order is committed when there is none of its quote or of its key.
LEMMA DeskCreates ==
  ASSUME IInv, OwnersChecked, NEW r \in Requests, CommitOrder(r) \/ CommitRefused(r)
  PROVE  Desk!Create(r)
<1>1. Inserted(r) /\ at[r] # "answered" /\ r \in Pending
  BY DEF CommitOrder, CommitRefused, Inserted, Pending
<1>2. Desk!OwnQuote(r)
  BY <1>1 DEF OwnersChecked, Desk!OwnQuote
<1>3. Desk!OrdersOfQuote(r) = {} /\ Desk!OrdersOfKey(r) = {}
  <2>1. ASSUME NEW o \in Requests, Committed(o) PROVE ~Conflicts(r, o)
    <3>1. o # r
      BY <1>1, <2>1 DEF IInv, OrdersAreAnswered
    <3>2. QED
      BY <1>1, <2>1, <3>1 DEF IInv, NoConflicts, Claims
  <2>2. QED
    BY <2>1
    DEF Conflicts, SameKey, SameQuote, Committed, Desk!OrdersOfKey, Desk!OrdersOfQuote
<1>4. CASE CommitOrder(r)
  <2>1. Desk!Settle(r, r) /\ order' = [order EXCEPT ![r] = "AWAITING_PAYMENT"]
    BY <1>1, <1>4, DeskSettles DEF CommitOrder, Commit, outside
  <2>2. QED
    BY <1>1, <1>2, <1>3, <2>1 DEF Desk!Create
<1>5. CASE CommitRefused(r)
  <2>1. Desk!Settle(r, "unavailable") /\ order' = [order EXCEPT ![r] = "CANCELLED"]
    BY <1>1, <1>5, DeskSettles DEF CommitRefused, Commit, outside
  <2>2. QED
    BY <1>1, <1>2, <1>3, <2>1 DEF Desk!Create
<1>6. QED
  BY <1>4, <1>5

LEMMA DeskReplays ==
  ASSUME IInv, NEW r \in Requests, at[r] # "answered", UNCHANGED <<ask, committed, outside>>,
         \E o \in Requests : Committed(o) /\ SameKey(r, o) /\ Respond(r, o)
  PROVE  Desk!Replay(r)
<1>1. PICK o \in Requests : Committed(o) /\ SameKey(r, o) /\ Respond(r, o)
  OBVIOUS
<1>2. Desk!Settle(r, o) /\ UNCHANGED order
  BY <1>1, DeskSettles DEF outside, committed
<1>3. QED
  BY <1>1, <1>2 DEF Desk!Replay, Desk!OrdersOfKey, Committed, SameKey

\* Every statement of create_order is a step of the desk or none.
LEMMA ServerStepAtDesk ==
  ASSUME IInv, OwnersChecked, NEW r \in Requests, ServerStep(r)
  PROVE  Desk!Next \/ UNCHANGED Desk!vars
<1>1. CASE CheckStop(r)
  <2>1. at[r] = "check_stop" /\ r \notin Pending /\ UNCHANGED <<ask, committed, outside>>
    BY <1>1 DEF CheckStop, Pending
  <2>2. CASE stopped
    <3>1. Desk!Settle(r, "stopped")
      BY <1>1, <2>1, <2>2, DeskSettles DEF CheckStop, outside
    <3>2. Desk!Stop(r)
      BY <2>1, <2>2, <3>1 DEF Desk!Stop, committed
    <3>3. QED
      BY <3>2 DEF Desk!Next
  <2>3. CASE ~stopped
    BY <1>1, <2>1, <2>3, DeskWaits DEF CheckStop, outside
  <2>4. QED
    BY <2>2, <2>3
<1>2. CASE LookUpReplay(r)
  <2>1. at[r] = "look_up" /\ UNCHANGED <<ask, committed, outside>>
    BY <1>2 DEF LookUpReplay
  <2>2. CASE \E o \in Requests : Committed(o) /\ SameKey(r, o) /\ Respond(r, o)
    BY <2>1, <2>2, DeskReplays DEF Desk!Next
  <2>3. CASE /\ \A o \in Requests : Committed(o) => ~SameKey(r, o)
             /\ Proceed(r, "read_quote")
    <3>1. Desk!OrdersOfKey(r) = {} /\ answer[r] = "none"
      BY <2>1, <2>3 DEF IInv, OrdersAreAnswered, Desk!OrdersOfKey, Committed, SameKey
    <3>2. Pending' = Pending \cup {r}
      BY <2>3 DEF Proceed, Pending, IInv, TypeOK
    <3>3. Desk!Accept(r)
      BY <2>1, <2>3, <3>1, <3>2 DEF Desk!Accept, Proceed, committed, outside
    <3>4. QED
      BY <3>3 DEF Desk!Next
  <2>4. QED
    BY <1>2, <2>2, <2>3 DEF LookUpReplay, Replay
<1>3. CASE ReadQuote(r)
  <2> DEFINE q == ask[r].quote
  <2>1. at[r] = "read_quote" /\ r \in Pending /\ UNCHANGED <<ask, committed, outside>>
    BY <1>3 DEF ReadQuote, Pending
  <2>2. CASE Respond(r, "forbidden") /\ Owner[q] # ask[r].user
    BY <2>1, <2>2, DeskRefuses DEF Desk!Next
  <2>3. CASE Respond(r, "consumed") /\ Owner[q] = ask[r].user /\ q \in consumed
    <3>1. \E o \in Requests : Committed(o) /\ SameQuote(r, o)
      BY <2>3 DEF IInv, ConsumedHasOrder, SameQuote
    <3>2. QED
      BY <2>1, <2>3, <3>1, DeskRefuses DEF Desk!Next
  <2>4. CASE /\ Respond(r, "expired") /\ Owner[q] = ask[r].user
             /\ q \notin consumed /\ q \in expired
    <3>1. \A o \in Requests : Committed(o) => ~SameQuote(r, o)
      BY <2>4 DEF IInv, ConsumedHasOrder, SameQuote
    <3>2. QED
      BY <2>1, <2>4, <3>1, DeskRefuses DEF Desk!Next
  <2>5. CASE Proceed(r, "consume")
    BY <2>1, <2>5, DeskWaits DEF outside
  <2>6. QED
    BY <1>3, <2>2, <2>3, <2>4, <2>5 DEF ReadQuote
<1>4. CASE ConsumeQuote(r)
  <2>1. r \in Pending /\ Proceed(r, "insert") /\ UNCHANGED <<ask, committed, outside>>
    BY <1>4 DEF ConsumeQuote, Pending
  <2>2. QED
    BY <2>1, DeskWaits DEF outside
<1>5. CASE InsertOrder(r)
  <2>1. at[r] = "insert" /\ r \in Pending /\ UNCHANGED <<ask, committed, outside>>
    BY <1>5 DEF InsertOrder, Pending
  <2>2. \E step \in {"look_again", "call_partner"} : Proceed(r, step)
    BY <1>5 DEF InsertOrder
  <2>3. QED
    BY <2>1, <2>2, DeskWaits DEF outside
<1>6. CASE ReplayAfterConflict(r)
  <2>1. at[r] = "look_again" /\ r \in Pending /\ UNCHANGED <<ask, committed, outside>>
    BY <1>6 DEF ReplayAfterConflict, Pending
  <2>2. CASE \E o \in Requests : Committed(o) /\ SameKey(r, o) /\ Respond(r, o)
    BY <2>1, <2>2, DeskReplays DEF Desk!Next
  <2>3. CASE /\ \A o \in Requests : Committed(o) => ~SameKey(r, o)
             /\ Respond(r, "consumed")
    <3>1. \E o \in Requests : Committed(o) /\ SameQuote(r, o)
      BY <2>1, <2>3 DEF IInv, ConflictsRemain, Conflicts
    <3>2. Owner[ask[r].quote] = ask[r].user
      BY <2>1 DEF OwnersChecked
    <3>3. QED
      BY <2>1, <2>3, <3>1, <3>2, DeskRefuses DEF Desk!Next
  <2>4. QED
    BY <1>6, <2>2, <2>3 DEF ReplayAfterConflict, Replay
<1>7. CASE CommitOrder(r) \/ CommitRefused(r)
  BY <1>7, DeskCreates DEF Desk!Next
<1>8. QED
  BY <1>1, <1>2, <1>3, <1>4, <1>5, <1>6, <1>7 DEF ServerStep

LEMMA StepAtDesk == IInv /\ OwnersChecked /\ [Next]_vars => [Desk!Next]_(Desk!vars)
<1> SUFFICES ASSUME IInv, OwnersChecked, [Next]_vars
             PROVE  Desk!Next \/ UNCHANGED Desk!vars
  OBVIOUS
<1>1. ASSUME NEW r \in Requests, ServerStep(r)
      PROVE  Desk!Next \/ UNCHANGED Desk!vars
  BY <1>1, ServerStepAtDesk
<1>2. ASSUME NEW r \in Requests, PartnerStep(r)
      PROVE  UNCHANGED Desk!vars
  <2>1. r \in Pending /\ UNCHANGED <<ask, committed, expired, stopped>>
        /\ \E step \in {"commit", "commit_refused"} : Proceed(r, step)
    BY <1>2 DEF PartnerStep, PartnerCreates, PartnerRefuses, Pending
  <2>2. QED
    BY <2>1, DeskWaits
<1>3. ASSUME NEW r \in Requests, Lose(r)
      PROVE  Desk!Next
  <2>1. Desk!Settle(r, "lost") /\ UNCHANGED order
    BY <1>3, DeskSettles DEF Lose, committed
  <2>2. QED
    BY <2>1 DEF Desk!Next, Desk!Lose
<1>4. ASSUME UNCHANGED <<ask, at, answer, committed>>, expired \subseteq expired',
             stopped' \in BOOLEAN
      PROVE  Desk!Next
  BY <1>4 DEF Desk!Next, Desk!Outside, Pending, committed
<1>5. ASSUME NEW q \in Quotes, QuoteExpires(q)
      PROVE  Desk!Next
  BY <1>4, <1>5 DEF QuoteExpires, IInv, TypeOK
<1>6. CASE ActivateStop \/ DeactivateStop
  BY <1>4, <1>6 DEF ActivateStop, DeactivateStop, SetStopped
<1>7. CASE UNCHANGED vars
  BY <1>7 DEF vars, Desk!vars, Pending, committed
<1>8. QED
  BY <1>1, <1>2, <1>3, <1>5, <1>6, <1>7 DEF Next

\* create_order implements OrderDesk: however requests overlap, each of them is
\* answered as if it had been served alone at that moment, by what had been
\* ordered then; and one that comes after the order of its key gets that order.
THEOREM CreationImplementsDesk == Spec => ImplementsDesk
<1>1. Init => Desk!Init
  BY DEF Init, Desk!Init, Pending
<1>2. QED
  BY <1>1, StepAtDesk, Invariant, OwnersAreChecked, PTL DEF Spec, ImplementsDesk, Desk!Spec
------------------------------------------------------------------------------
\* Request t holds a lock that the next step of r needs: the quote's row, or
\* the uncommitted order with the same quote or the same key.
WaitsFor(r, t) ==
  /\ t # r
  /\ \/ at[r] = "consume" /\ HoldsQuote(t) /\ SameQuote(r, t)
     \/ at[r] = "insert" /\ Inserted(t) /\ Conflicts(r, t)

\* A request whose INSERT has returned waits for no lock.
LEMMA InsertedWaitsForNobody ==
  ASSUME NEW r \in Requests, NEW t \in Requests, Inserted(r)
  PROVE  ~WaitsFor(r, t)
BY DEF WaitsFor, Inserted

\* The two locks of create_order, the quote's row and the unique index, are
\* never waited for in a circle: however many requests there are, in no set of
\* them does each wait for another of the set, since all of them flush the quote
\* before the order.  It is the safety half of EveryRequestIsAnswered.
THEOREM LocksAreNotCircular ==
  ASSUME NEW S \in SUBSET Requests, S # {}
  PROVE  \E r \in S : \A t \in S : ~WaitsFor(r, t)
<1>1. CASE \E r \in S : Inserted(r)
  BY <1>1, InsertedWaitsForNobody
<1>2. CASE /\ \A r \in S : ~Inserted(r)
           /\ \E r \in S : at[r] = "insert"
  BY <1>2 DEF WaitsFor
<1>3. CASE \A r \in S : ~HoldsQuote(r)
  BY <1>3 DEF WaitsFor, HoldsQuote
<1>4. QED
  BY <1>1, <1>2, <1>3 DEF HoldsQuote

==============================================================================
