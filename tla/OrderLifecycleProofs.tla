------------------------ MODULE OrderLifecycleProofs -------------------------
(***************************************************************************)
(* Proofs about OrderLifecycle, for every set of orders, sessions and      *)
(* words and all amounts: type correctness, the implementation of          *)
(* OrderBooks, and with it what OrderBooksProofs proves of the books.      *)
(*                                                                         *)
(* The inductive invariant says what a session in flight has established:  *)
(* the order in hand exists and the copy read allows the step the handler  *)
(* is about to take.  When handlers do not overlap the copy is also the    *)
(* committed row.  The last part asks what optimistic locking would give   *)
(* sessions that do overlap.                                               *)
(***************************************************************************)
EXTENDS OrderLifecycle, TLAPS

RequestOps == {"cancel", "dispute", "admin_transition", "admin_refund", "webhook"}

\* The orders a session has read and not yet done with.
Held(rec) == rec.todo \cup ({rec.order} \ {NoOrder})

\* What a session has established about its order, given the rewards.
GoodRecord(rec, rewards) ==
  LET current == rec.seen[rec.order].status IN
  /\ rec.order \notin rec.todo
  /\ rec.op = "idle" => Held(rec) = {}
  /\ rec.op \in RequestOps => rec.order \in Orders
  /\ rec.op = "cancel" => current \in CANCELLABLE_STATUSES
  /\ rec.op = "dispute" =>
       /\ \/ current = "DISPUTED"
          \/ \E actor \in {"USER", "ADMIN"} :
               IsTransitionAllowed(current, "DISPUTED", actor)
       /\ rec.arg = "CONFIRMED" => rewards[rec.order] # "NONE"
  /\ rec.op = "admin_transition" =>
       \/ /\ rec.arg \in OrderStatus
          /\ current = rec.arg \/ IsTransitionAllowed(current, rec.arg, "ADMIN")
       \/ current = "REFUNDED" /\ rec.arg \in {"liability", "no_liability"}
  /\ rec.op = "webhook" => rec.arg \in PartnerWords
  /\ rec.op = "expire" =>
       \A o \in rec.todo : rec.seen[o].status = "AWAITING_PAYMENT"

SessionInv == \A s \in Sessions : GoodRecord(session[s], reward)

\* The liability a session has looked for and not found is not on the books.
NotFoundStands(rec, ledgers) ==
  rec.op = "admin_transition" /\ rec.arg = "no_liability" =>
    "referral_liability" \notin DOMAIN ledgers[rec.order]

\* When handlers do not overlap, one session is busy and has read what is
\* committed.
SerialInv ==
  OneAtATime =>
    /\ \A s, t \in Sessions :
         session[s].op # "idle" /\ session[t].op # "idle" => s = t
    /\ \A s \in Sessions : \A o \in Held(session[s]) :
         session[s].seen[o] = order[o]
    /\ \A s \in Sessions : NotFoundStands(session[s], ledger)

IInv == TypeOK /\ SessionInv /\ SerialInv

------------------------------------------------------------------------------
(* Facts about the operators *)

ClosedStatuses == {"EXPIRED", "CANCELLED", "REFUNDED"}

\* The statuses an order can be in after its creation.
LaterStatuses == OrderStatus \ {"CREATED", "QUOTE_CONFIRMED"}

\* No transition leaves a closed status or stays where it is, and an admin
\* moves no order back before its creation was complete.
LEMMA TransitionFacts ==
  ASSUME NEW current, NEW target, NEW actor,
         IsTransitionAllowed(current, target, actor)
  PROVE  /\ target \in OrderStatus /\ current # target
         /\ current \notin ClosedStatuses
         /\ actor = "ADMIN" => target \in LaterStatuses
BY DEF IsTransitionAllowed, TRANSITIONS, OrderStatus, ClosedStatuses,
       LaterStatuses

\* A walk along the happy path starts from an open status and takes a number
\* of transitions.
LEMMA AdvanceFacts ==
  ASSUME NEW current, NEW target, NEW actor,
         CanAdvance(current, target, actor)
  PROVE  /\ current \notin ClosedStatuses
         /\ current # target
         /\ AdvanceLength(current, target) \in Nat
<1>1. CASE OnHappyPath(current) /\ OnHappyPath(target)
  <2>1. HAPPY_PATH[current] < HAPPY_PATH[target]
    BY <1>1 DEF CanAdvance
  <2>2. /\ current \notin ClosedStatuses
        /\ HAPPY_PATH[current] \in Nat /\ HAPPY_PATH[target] \in Nat
    BY <1>1 DEF OnHappyPath, HAPPY_PATH, ClosedStatuses
  <2>3. QED BY <1>1, <2>1, <2>2 DEF AdvanceLength
<1>2. CASE ~(OnHappyPath(current) /\ OnHappyPath(target))
  <2>1. IsTransitionAllowed(current, target, actor)
    BY <1>2 DEF CanAdvance
  <2>2. AdvanceLength(current, target) = 1
    BY <1>2 DEF AdvanceLength
  <2>3. QED BY <2>1, <2>2, TransitionFacts
<1>3. QED BY <1>1, <1>2

\* A walk of the partner or of the polling loop along the happy path never
\* stops half way: every step from AWAITING_PAYMENT on is in the table
\* (advance_along_happy_path has no rollback of its own).
THEOREM WalksComplete ==
  ASSUME NEW actor \in {"PARTNER", "SYSTEM"},
         NEW current \in DOMAIN HAPPY_PATH \ {"CREATED", "QUOTE_CONFIRMED"},
         NEW target \in DOMAIN HAPPY_PATH,
         HAPPY_PATH[current] < HAPPY_PATH[target]
  PROVE  CanAdvance(current, target, actor)
<1>1. ASSUME NEW a \in DOMAIN HAPPY_PATH, NEW b \in DOMAIN HAPPY_PATH,
             HAPPY_PATH[current] <= HAPPY_PATH[a],
             HAPPY_PATH[b] = HAPPY_PATH[a] + 1
      PROVE  <<a, b>> \in {<<"AWAITING_PAYMENT", "PAYMENT_DETECTED">>,
                           <<"PAYMENT_DETECTED", "PAYMENT_CONFIRMING">>,
                           <<"PAYMENT_CONFIRMING", "PROCESSING">>,
                           <<"PROCESSING", "PAYOUT_SENT">>,
                           <<"PAYOUT_SENT", "COMPLETED">>}
  BY <1>1 DEF HAPPY_PATH
<1>2. ASSUME NEW a \in DOMAIN HAPPY_PATH, NEW b \in DOMAIN HAPPY_PATH,
             HAPPY_PATH[current] <= HAPPY_PATH[a],
             HAPPY_PATH[b] = HAPPY_PATH[a] + 1
      PROVE  IsTransitionAllowed(a, b, actor)
  BY <1>1, <1>2 DEF IsTransitionAllowed, TRANSITIONS
<1>3. QED BY <1>2 DEF CanAdvance, OnHappyPath

\* The same for a report of the partner, polled or pushed.
LEMMA ReportFacts ==
  ASSUME NEW current, NEW word \in EventWords, NEW actor,
         \/ ReportApplies(current, EVENT_STATUS_MAP[word], actor)
         \/ EventApplies(current, EVENT_STATUS_MAP[word])
  PROVE  /\ EVENT_STATUS_MAP[word] \in LaterStatuses
         /\ current \notin ClosedStatuses
         /\ AdvanceLength(current, EVENT_STATUS_MAP[word]) \in Nat
         /\ EventLength(current, EVENT_STATUS_MAP[word]) \in Nat
<1> DEFINE target == EVENT_STATUS_MAP[word]
<1>1. target \in LaterStatuses
  BY DEF EventWords, EVENT_STATUS_MAP, LaterStatuses, OrderStatus
<1> HIDE DEF target
<1>2. ASSUME NEW a, CanAdvance(current, target, a)
      PROVE  /\ current \notin ClosedStatuses
             /\ AdvanceLength(current, target) \in Nat
             /\ EventLength(current, target) \in Nat
  BY <1>2, AdvanceFacts DEF EventLength
<1>3. ASSUME NEW a, IsTransitionAllowed(current, target, a),
             target \notin PaymentProgress
      PROVE  /\ current \notin ClosedStatuses
             /\ AdvanceLength(current, target) \in Nat
             /\ EventLength(current, target) \in Nat
  <2>1. current \notin ClosedStatuses
    BY <1>3, TransitionFacts
  <2>2. ~OnHappyPath(target) \/ target = "AWAITING_PAYMENT"
    BY <1>1, <1>3 DEF OnHappyPath, HAPPY_PATH, PaymentProgress, LaterStatuses
  <2>3. target # "AWAITING_PAYMENT"
    BY DEF target, EventWords, EVENT_STATUS_MAP
  <2>4. QED BY <2>1, <2>2, <2>3 DEF AdvanceLength, EventLength
<1>4. ASSUME IsTransitionAllowed(current, "REFUND_REQUESTED", "PARTNER"),
             current = "COMPLETED", target = "REFUND_PROCESSING"
      PROVE  FALSE
  BY <1>4 DEF IsTransitionAllowed, TRANSITIONS
<1>5. QED BY <1>1, <1>2, <1>3, <1>4 DEF ReportApplies, EventApplies, target

------------------------------------------------------------------------------
(* The invariant *)

\* The rows keep their types, and a reward that exists does not vanish.
RowsKept ==
  /\ order' \in [Orders -> Row]
  /\ DOMAIN ledger' = Orders /\ \A o \in Orders : IsLedger(ledger'[o])
  /\ reward' \in [Orders -> RewardStatus]
  /\ \A o \in Orders : reward[o] # "NONE" => reward'[o] # "NONE"

LEMMA UnchangedRows ==
  ASSUME TypeOK, UNCHANGED <<order, books>>
  PROVE  RowsKept
BY DEF TypeOK, RowsKept, books

\* A session takes a step, the others wait: the invariant holds if it holds
\* of the session's new record.
LEMMA SessionStep ==
  ASSUME IInv, NEW s \in Sessions, NEW rec \in SessionRecord,
         session' = [session EXCEPT ![s] = rec],
         RowsKept,
         requisites' \in [Orders -> {"none", "valid", "lapsed", "deleted"}],
         partner' \in [Orders -> {"awaiting_payment"} \cup EventWords],
         pending' \in [Orders -> SUBSET PartnerWords],
         GoodRecord(rec, reward'),
         OneAtATime =>
           /\ \A t \in Sessions \ {s} : session[t].op = "idle"
           /\ \A o \in Held(rec) : rec.seen[o] = order'[o]
           /\ NotFoundStands(rec, ledger')
  PROVE  IInv'
<1>1. session' \in [Sessions -> SessionRecord]
  BY DEF IInv, TypeOK
<1>2. /\ session'[s] = rec
      /\ \A t \in Sessions \ {s} : session'[t] = session[t]
  BY DEF IInv, TypeOK
<1>3. TypeOK'
  BY <1>1 DEF TypeOK, RowsKept
<1>4. ASSUME NEW t \in Sessions PROVE GoodRecord(session'[t], reward')
  <2>1. CASE t = s
    BY <1>2, <2>1
  <2>2. CASE t # s
    <3>1. GoodRecord(session[t], reward) /\ session'[t] = session[t]
      BY <1>2, <2>2 DEF IInv, SessionInv
    <3>2. session[t].op = "dispute" => session[t].order \in Orders
      BY <3>1 DEF GoodRecord, RequestOps
    <3>3. QED BY <3>1, <3>2 DEF GoodRecord, RowsKept
  <2>3. QED BY <2>1, <2>2
<1>5. SerialInv'
  <2>1. ASSUME OneAtATime, NEW t \in Sessions, NEW o \in Held(session'[t])
        PROVE  t = s
    BY <1>2, <2>1 DEF IInv, SessionInv, GoodRecord
  <2>2. ASSUME OneAtATime, NEW t \in Sessions, session'[t].op # "idle"
        PROVE  t = s
    BY <1>2, <2>2
  <2>3. ASSUME OneAtATime, NEW t \in Sessions
        PROVE  NotFoundStands(session'[t], ledger')
    <3>1. CASE t = s
      BY <1>2, <2>3, <3>1
    <3>2. CASE t # s
      BY <1>2, <2>3, <3>2 DEF NotFoundStands
    <3>3. QED BY <3>1, <3>2
  <2>4. QED BY <1>2, <2>1, <2>2, <2>3 DEF SerialInv, Held
<1>6. QED BY <1>3, <1>4, <1>5 DEF IInv, SessionInv

\* The record of a session that is done.
LEMMA IdleRecord ==
  /\ Idle \in SessionRecord /\ Held(Idle) = {}
  /\ \A rewards : GoodRecord(Idle, rewards)
  /\ \A ledgers : NotFoundStands(Idle, ledgers)
<1>1. Idle \in SessionRecord
  BY DEF Idle, SessionRecord, Unread, Row, OrderStatus
<1>2. Held(Idle) = {} /\ Idle.op = "idle" /\ Idle.todo = {}
  BY DEF Held, Idle
<1>3. QED BY <1>1, <1>2 DEF GoodRecord, NotFoundStands, RequestOps

\* A busy session takes no step while another one is busy, if handlers do
\* not overlap.
LEMMA OthersIdle ==
  ASSUME IInv, OneAtATime, NEW s \in Sessions, session[s].op # "idle"
  PROVE  \A t \in Sessions \ {s} : session[t].op = "idle"
BY DEF IInv, SerialInv

\* A session that ends, by its commit or without it, keeps the invariant.
LEMMA CloseStep ==
  ASSUME IInv, NEW s \in Sessions, session[s].op # "idle", Close(s), RowsKept,
         requisites' \in [Orders -> {"none", "valid", "lapsed", "deleted"}],
         partner' \in [Orders -> {"awaiting_payment"} \cup EventWords],
         pending' \in [Orders -> SUBSET PartnerWords]
  PROVE  IInv'
BY IdleRecord, OthersIdle, SessionStep DEF Close

\* A handler that starts keeps the invariant if what it reads lets it start.
LEMMA BeginStep ==
  ASSUME IInv, NEW s \in Sessions, NEW op, NEW read \in SUBSET Orders,
         NEW inHand \in Orders \cup {NoOrder}, NEW arg,
         Begin(s, op, read, inHand, arg),
         UNCHANGED <<order, books, requisites, outside>>,
         op # "idle", arg # "no_liability",
         inHand \in Orders => inHand \in read,
         NEW rec,
         rec = [op |-> op, order |-> inHand, todo |-> read \ {inHand},
                arg |-> arg,
                seen |-> [o \in Orders |->
                            IF o \in read THEN order[o] ELSE Unread]],
         rec \in SessionRecord,
         GoodRecord(rec, reward)
  PROVE  IInv'
<1>1. session' = [session EXCEPT ![s] = rec]
  BY DEF Begin
<1>2. RowsKept
  BY UnchangedRows DEF IInv
<1>3. OneAtATime => \A t \in Sessions \ {s} : session[t].op = "idle"
  BY DEF Begin
<1>4. \A o \in Held(rec) : rec.seen[o] = order'[o]
  BY DEF Held
<1>5. GoodRecord(rec, reward')
  BY DEF books
<1>6. NotFoundStands(rec, ledger')
  BY DEF NotFoundStands
<1>7. QED
  BY <1>1, <1>2, <1>3, <1>4, <1>5, <1>6, SessionStep DEF IInv, TypeOK, outside
------------------------------------------------------------------------------
(* Every step keeps the invariant *)

\* A request that reads the row of one order.
LEMMA RequestBegins ==
  ASSUME IInv, NEW r \in Requests, NEW o \in Orders, NEW op \in RequestOps,
         NEW arg,
         arg \in {"none"} \cup OrderStatus \cup EventWords,
         Begin(r, op, {o}, o, arg),
         UNCHANGED <<order, books, requisites, outside>>,
         op = "cancel" => order[o].status \in CANCELLABLE_STATUSES,
         op = "dispute" =>
           /\ \/ order[o].status = "DISPUTED"
              \/ \E actor \in {"USER", "ADMIN"} :
                   IsTransitionAllowed(order[o].status, "DISPUTED", actor)
           /\ arg = "none",
         op = "admin_transition" =>
           /\ arg \in OrderStatus
           /\ \/ order[o].status = arg
              \/ IsTransitionAllowed(order[o].status, arg, "ADMIN"),
         op = "webhook" => arg \in PartnerWords
  PROVE  IInv'
<1> DEFINE seen == [x \in Orders |-> IF x \in {o} THEN order[x] ELSE Unread]
           rec == [op |-> op, order |-> o, todo |-> {o} \ {o}, arg |-> arg,
                   seen |-> seen]
<1>1. seen \in [Orders -> Row] /\ seen[o] = order[o]
  BY DEF IInv, TypeOK, Unread, Row, OrderStatus
<1> HIDE DEF seen
<1>2. rec \in SessionRecord
  BY <1>1 DEF SessionRecord, RequestOps
<1>3. GoodRecord(rec, reward)
  BY <1>1 DEF GoodRecord, RequestOps
<1>4. r \in Sessions /\ op # "idle" /\ arg # "no_liability"
  BY DEF Sessions, RequestOps, OrderStatus, EventWords, EVENT_STATUS_MAP
<1>5. rec = [op |-> op, order |-> o, todo |-> {o} \ {o}, arg |-> arg,
             seen |-> [x \in Orders |-> IF x \in {o} THEN order[x] ELSE Unread]]
  BY DEF seen
<1> HIDE DEF rec
<1>6. QED BY <1>2, <1>3, <1>4, <1>5, BeginStep

LEMMA RequestStarts ==
  ASSUME IInv, NEW r \in Requests, NEW o \in Orders,
         \/ CancelStart(r, o)
         \/ \E actor \in {"USER", "ADMIN"} : DisputeStart(r, o, actor)
         \/ \E target \in AdminTargets : AdminTransitionStart(r, o, target)
         \/ AdminRefundStart(r, o)
         \/ \E word \in PartnerWords : WebhookStart(r, o, word)
  PROVE  IInv'
<1>1. CASE CancelStart(r, o)
  BY <1>1, RequestBegins DEF CancelStart, RequestOps
<1>2. ASSUME NEW actor \in {"USER", "ADMIN"}, DisputeStart(r, o, actor)
      PROVE  IInv'
  BY <1>2, RequestBegins DEF DisputeStart, RequestOps
<1>3. ASSUME NEW target \in AdminTargets, AdminTransitionStart(r, o, target)
      PROVE  IInv'
  <2>1. target \in OrderStatus
    BY InputsAssumption
  <2>2. QED BY <1>3, <2>1, RequestBegins DEF AdminTransitionStart, RequestOps
<1>4. CASE AdminRefundStart(r, o)
  BY <1>4, RequestBegins DEF AdminRefundStart, RequestOps
<1>5. ASSUME NEW word \in PartnerWords, WebhookStart(r, o, word)
      PROVE  IInv'
  <2>1. word \in EventWords
    BY InputsAssumption
  <2>2. QED BY <1>5, <2>1, RequestBegins DEF WebhookStart, RequestOps
<1>6. QED BY <1>1, <1>2, <1>3, <1>4, <1>5

\* A handler that calls the partner, or reads a reward or the books, notes the
\* answer.
LEMMA RequestNotes ==
  ASSUME IInv, NEW r \in Requests, NEW arg,
         arg \in {"asked", "liability", "no_liability"} \cup RewardStatus,
         session' = [session EXCEPT ![r].arg = arg],
         session[r].op \in {"cancel", "dispute", "admin_refund",
                            "admin_transition"},
         session[r].op = "admin_transition" =>
           /\ arg \in {"liability", "no_liability"}
           /\ session[r].seen[session[r].order].status = "REFUNDED"
           /\ arg = "no_liability" =>
                "referral_liability" \notin DOMAIN ledger[session[r].order],
         session[r].op = "dispute" => arg = reward[session[r].order],
         UNCHANGED <<order, books, requisites>>,
         partner' \in [Orders -> {"awaiting_payment"} \cup EventWords],
         pending' \in [Orders -> SUBSET PartnerWords]
  PROVE  IInv'
<1> DEFINE rec == [session[r] EXCEPT !.arg = arg]
<1>1. r \in Sessions /\ session[r] \in SessionRecord
  BY DEF IInv, TypeOK, Sessions
<1>2. /\ rec \in SessionRecord
      /\ rec.op = session[r].op /\ rec.order = session[r].order
      /\ rec.todo = session[r].todo /\ rec.seen = session[r].seen
      /\ rec.arg = arg
  BY <1>1 DEF SessionRecord
<1>3. session' = [session EXCEPT ![r] = rec]
  OBVIOUS
<1> HIDE DEF rec
<1>4. GoodRecord(session[r], reward)
  BY <1>1 DEF IInv, SessionInv
<1>5. GoodRecord(rec, reward')
  BY <1>2, <1>4 DEF GoodRecord, Held, RequestOps, books
<1>6. OneAtATime => \A o \in Held(rec) : rec.seen[o] = order'[o]
  BY <1>1, <1>2 DEF IInv, SerialInv, Held
<1>7. OneAtATime => \A t \in Sessions \ {r} : session[t].op = "idle"
  BY <1>1, OthersIdle
<1>8. RowsKept
  BY UnchangedRows DEF IInv
<1>9. requisites' \in [Orders -> {"none", "valid", "lapsed", "deleted"}]
  BY DEF IInv, TypeOK
<1>10. NotFoundStands(rec, ledger')
  BY <1>2 DEF NotFoundStands, books
<1>11. QED
  BY <1>1, <1>2, <1>3, <1>5, <1>6, <1>7, <1>8, <1>9, <1>10, SessionStep
------------------------------------------------------------------------------
(* Commits *)

\* Posting a batch keeps a ledger a ledger.
LEMMA PostingsTyped ==
  ASSUME NEW l, IsLedger(l), NEW entries,
         DOMAIN entries \subseteq PostingKeys,
         \A k \in DOMAIN entries : entries[k] \in Int
  PROVE  IsLedger(PostEntries(l, entries))
BY DEF IsLedger, PostEntries

LEMMA EntriesTyped ==
  ASSUME NEW l, IsLedger(l), NEW fee \in Nat, NEW pf \in Nat, NEW nf \in Nat,
         NEW amount \in Nat, NEW read \in {l, EmptyLedger}
  PROVE  /\ IsLedger(PostEntries(l, CompletedEntries(fee, pf, nf, amount)))
         /\ IsLedger(PostEntries(l, RefundEntries(fee, read)))
<1> DEFINE c == CompletedEntries(fee, pf, nf, amount)
           d == RefundEntries(fee, read)
<1>1. DOMAIN c \subseteq PostingKeys /\ \A k \in DOMAIN c : c[k] \in Int
  BY DEF CompletedEntries, PostingKeys, Smaller
<1>2. Amount(read, "referral_liability") \in Int
  BY DEF Amount, IsLedger, EmptyLedger
<1>3. DOMAIN d \subseteq PostingKeys /\ \A k \in DOMAIN d : d[k] \in Int
  BY <1>2 DEF RefundEntries, PostingKeys
<1> HIDE DEF c, d
<1>4. QED BY <1>1, <1>3, PostingsTyped DEF c, d

\* The side effects of a move keep the types of the books.
LEMMA SideEffectsTyped ==
  ASSUME IInv, NEW o \in Orders, NEW previous, NEW status,
         SideEffects(o, previous, status)
  PROVE  /\ DOMAIN ledger' = Orders /\ \A x \in Orders : IsLedger(ledger'[x])
         /\ reward' \in [Orders -> RewardStatus]
         /\ \A x \in Orders : reward[x] # "NONE" => reward'[x] # "NONE"
<1>1. /\ DOMAIN ledger = Orders /\ \A x \in Orders : IsLedger(ledger[x])
      /\ reward \in [Orders -> RewardStatus]
  BY DEF IInv, TypeOK
<1>2. /\ ServiceFee[o] \in Nat /\ PartnerFee[o] \in Nat
      /\ NetworkFee[o] \in Nat /\ AccruedReward(o) \in Nat
  BY AmountsAssumption DEF AccruedReward
<1>3. CASE UNCHANGED books
  BY <1>1, <1>3 DEF books
<1>4. CASE status = "COMPLETED" /\ ~UNCHANGED books
  <2>1. /\ ledger' = [ledger EXCEPT ![o] = PostEntries(@,
             CompletedEntries(ServiceFee[o], PartnerFee[o], NetworkFee[o],
                              AccruedReward(o)))]
        /\ reward' = [reward EXCEPT ![o] =
             IF AccruedReward(o) > 0 THEN "CONFIRMED" ELSE @]
    BY <1>4 DEF SideEffects
  <2>2. QED BY <1>1, <1>2, <2>1, EntriesTyped DEF RewardStatus
<1>5. CASE status = "REFUNDED" /\ ~UNCHANGED books
  <2>1. /\ ledger' = [ledger EXCEPT ![o] =
             PostEntries(@, RefundEntries(ServiceFee[o], @))]
        /\ reward' = [reward EXCEPT ![o] = IF @ = "NONE" THEN @ ELSE "CANCELLED"]
    BY <1>5 DEF SideEffects, CancelReward
  <2>2. QED BY <1>1, <1>2, <2>1, EntriesTyped DEF RewardStatus
<1>6. QED BY <1>3, <1>4, <1>5 DEF SideEffects

\* An UPDATE writes a row.
LEMMA WriteTyped ==
  ASSUME IInv, NEW o \in Orders, NEW seen \in Row,
         NEW target \in OrderStatus, NEW n \in Nat,
         WriteStatus(o, seen, target, n)
  PROVE  order' \in [Orders -> Row]
BY DEF IInv, TypeOK, WriteStatus, Row

\* What is known of a request about to commit.
LEMMA InHandFacts ==
  ASSUME IInv, NEW s \in Sessions, session[s].op \in RequestOps
  PROVE  /\ InHand(s) \in Orders /\ Seen(s) \in Row
         /\ session[s].op # "idle"
         /\ GoodRecord(session[s], reward)
         /\ OneAtATime => Seen(s) = order[InHand(s)]
<1>1. session[s] \in SessionRecord /\ GoodRecord(session[s], reward)
  BY DEF IInv, TypeOK, SessionInv
<1>2. InHand(s) \in Orders /\ session[s].op # "idle"
  BY <1>1 DEF GoodRecord, InHand, RequestOps
<1>3. Seen(s) \in Row
  BY <1>1, <1>2 DEF SessionRecord, Seen
<1>4. InHand(s) \in Held(session[s])
  BY <1>2, OrdersAssumption DEF Held, InHand
<1>5. QED BY <1>1, <1>2, <1>3, <1>4 DEF IInv, SerialInv, Seen, InHand

LEMMA OutsideTyped ==
  ASSUME IInv
  PROVE  /\ requisites \in [Orders -> {"none", "valid", "lapsed", "deleted"}]
         /\ partner \in [Orders -> {"awaiting_payment"} \cup EventWords]
         /\ pending \in [Orders -> SUBSET PartnerWords]
BY DEF IInv, TypeOK

LEMMA RequestCommits ==
  ASSUME IInv, NEW r \in Requests,
         \/ CancelCommit(r) \/ DisputeCommit(r) \/ DisputeAgainCommit(r)
         \/ AdminTransitionCommit(r) \/ RefundAgainCommit(r)
         \/ AdminRefundCommit(r)
  PROVE  IInv'
<1>1. r \in Sessions
  BY DEF Sessions
<1>2. CASE CancelCommit(r)
  <2>1. Running(r, "cancel") /\ session[r].op \in RequestOps
    BY <1>2 DEF CancelCommit, Running, RequestOps
  <2>2. order' \in [Orders -> Row]
    BY <1>1, <1>2, <2>1, InHandFacts, WriteTyped DEF CancelCommit, OrderStatus
  <2>3. RowsKept
    BY <1>2, <2>2 DEF RowsKept, CancelCommit, books, IInv, TypeOK
  <2>4. QED BY <1>1, <1>2, <2>1, <2>3, CloseStep, InHandFacts, OutsideTyped
            DEF CancelCommit, outside
<1>3. CASE DisputeCommit(r)
  <2>1. session[r].op \in RequestOps
    BY <1>3 DEF DisputeCommit, Running, RequestOps
  <2>2. order' \in [Orders -> Row]
    BY <1>1, <1>3, <2>1, InHandFacts, WriteTyped DEF DisputeCommit, OrderStatus
  <2>3. RowsKept
    BY <1>1, <1>3, <2>1, <2>2, InHandFacts
    DEF RowsKept, DisputeCommit, FreezeReward, IInv, TypeOK, RewardStatus
  <2>4. QED BY <1>1, <1>3, <2>1, <2>3, CloseStep, InHandFacts, OutsideTyped
            DEF DisputeCommit, outside
<1>4. CASE DisputeAgainCommit(r)
  <2>1. session[r].op \in RequestOps
    BY <1>4 DEF DisputeAgainCommit, Running, RequestOps
  <2>2. RowsKept
    BY <1>1, <1>4, <2>1, InHandFacts
    DEF RowsKept, DisputeAgainCommit, IInv, TypeOK, RewardStatus
  <2>3. QED BY <1>1, <1>4, <2>1, <2>2, CloseStep, InHandFacts, OutsideTyped
            DEF DisputeAgainCommit, outside
<1>5. CASE AdminTransitionCommit(r)
  <2>1. session[r].op \in RequestOps /\ session[r].op = "admin_transition"
    BY <1>5 DEF AdminTransitionCommit, Running, RequestOps
  <2>2. session[r].arg \in OrderStatus
    BY <1>5 DEF AdminTransitionCommit
  <2>3. order' \in [Orders -> Row]
    BY <1>1, <1>5, <2>1, <2>2, InHandFacts, WriteTyped
    DEF AdminTransitionCommit, IInv, TypeOK
  <2>4. RowsKept
    BY <1>1, <1>5, <2>1, <2>3, InHandFacts, SideEffectsTyped
    DEF RowsKept, AdminTransitionCommit
  <2>5. QED BY <1>1, <1>5, <2>1, <2>4, CloseStep, InHandFacts, OutsideTyped
            DEF AdminTransitionCommit, outside
<1>6. CASE RefundAgainCommit(r)
  <2> DEFINE o == InHand(r)
             read == IF session[r].arg = "liability" THEN ledger[o] ELSE EmptyLedger
  <2>1. session[r].op \in RequestOps /\ o \in Orders
    BY <1>1, <1>6, InHandFacts DEF RefundAgainCommit, Running, RequestOps
  <2>2. /\ ledger' = [ledger EXCEPT ![o] =
             PostEntries(@, RefundEntries(ServiceFee[o], read))]
        /\ reward' = [reward EXCEPT ![o] = CancelReward(@)]
        /\ UNCHANGED order
    BY <1>6, <2>1 DEF RefundAgainCommit, IInv, TypeOK
  <2>3. /\ IsLedger(ledger[o]) /\ read \in {ledger[o], EmptyLedger}
        /\ ServiceFee[o] \in Nat
    BY <2>1, AmountsAssumption DEF IInv, TypeOK
  <2> HIDE DEF read
  <2>4. IsLedger(PostEntries(ledger[o], RefundEntries(ServiceFee[o], read)))
    BY <2>3, EntriesTyped
  <2>5. RowsKept
    BY <2>1, <2>2, <2>4
    DEF RowsKept, CancelReward, RewardStatus, IInv, TypeOK
  <2>6. QED BY <1>1, <1>6, <2>1, <2>5, CloseStep, InHandFacts, OutsideTyped
            DEF RefundAgainCommit, outside
<1>7. CASE AdminRefundCommit(r)
  <2>1. session[r].op \in RequestOps
    BY <1>7 DEF AdminRefundCommit, Running, RequestOps
  <2>2. CASE Seen(r).status \in DOMAIN RefundChain
    <3>1. RefundChain[Seen(r).status] \in Nat
      BY <2>2 DEF RefundChain
    <3>2. order' \in [Orders -> Row]
      BY <1>1, <1>7, <2>1, <2>2, <3>1, InHandFacts, WriteTyped
      DEF AdminRefundCommit, OrderStatus
    <3>3. RowsKept
      BY <1>1, <1>7, <2>1, <2>2, <3>2, InHandFacts, SideEffectsTyped
      DEF RowsKept, AdminRefundCommit
    <3>4. QED BY <1>1, <1>7, <2>1, <3>3, CloseStep, InHandFacts, OutsideTyped
              DEF AdminRefundCommit, outside
  <2>3. CASE Seen(r).status \notin DOMAIN RefundChain
    <3>1. RowsKept
      BY <1>7, <2>3, UnchangedRows DEF AdminRefundCommit, IInv
    <3>2. QED BY <1>1, <1>7, <2>1, <3>1, CloseStep, InHandFacts, OutsideTyped
              DEF AdminRefundCommit, outside
  <2>4. QED BY <2>2, <2>3
<1>8. QED BY <1>2, <1>3, <1>4, <1>5, <1>6, <1>7

\* The partner's report leaves its own status and the events typed.
LEMMA ReportTyped ==
  ASSUME IInv, NEW o \in Orders, NEW word \in EventWords, PartnerReports(o, word)
  PROVE  /\ partner' \in [Orders -> {"awaiting_payment"} \cup EventWords]
         /\ pending' \in [Orders -> SUBSET PartnerWords]
BY DEF IInv, TypeOK, PartnerReports

LEMMA RequestAsks ==
  ASSUME IInv, NEW r \in Requests,
         \/ CancelAtPartner(r) \/ RefundAtPartner(r) \/ DisputeReadsReward(r)
         \/ RefundAgainReads(r)
  PROVE  IInv'
<1>1. r \in Sessions
  BY DEF Sessions
<1>2. {"cancelled", "refund_processing"} \subseteq EventWords
  BY DEF EventWords, EVENT_STATUS_MAP
<1>3. CASE CancelAtPartner(r)
  <2>1. session[r].op \in RequestOps /\ session[r].op = "cancel"
    BY <1>3 DEF CancelAtPartner, Running, RequestOps
  <2>2. /\ partner' \in [Orders -> {"awaiting_payment"} \cup EventWords]
        /\ pending' \in [Orders -> SUBSET PartnerWords]
    BY <1>1, <1>2, <1>3, <2>1, InHandFacts, ReportTyped, OutsideTyped
    DEF CancelAtPartner, outside
  <2>3. QED BY <1>3, <2>1, <2>2, RequestNotes DEF CancelAtPartner
<1>4. CASE RefundAtPartner(r)
  <2>1. session[r].op \in RequestOps /\ session[r].op = "admin_refund"
    BY <1>4 DEF RefundAtPartner, Running, RequestOps
  <2>2. /\ partner' \in [Orders -> {"awaiting_payment"} \cup EventWords]
        /\ pending' \in [Orders -> SUBSET PartnerWords]
    BY <1>1, <1>2, <1>4, <2>1, InHandFacts, ReportTyped, OutsideTyped
    DEF RefundAtPartner, outside
  <2>3. QED BY <1>4, <2>1, <2>2, RequestNotes DEF RefundAtPartner
<1>5. CASE DisputeReadsReward(r)
  <2>1. session[r].op \in RequestOps /\ session[r].op = "dispute"
    BY <1>5 DEF DisputeReadsReward, Running, RequestOps
  <2>2. reward[InHand(r)] \in RewardStatus
    BY <1>1, <2>1, InHandFacts DEF IInv, TypeOK
  <2>3. QED BY <1>5, <2>1, <2>2, RequestNotes, OutsideTyped
            DEF DisputeReadsReward, outside, InHand
<1>6. CASE RefundAgainReads(r)
  <2> DEFINE arg == IF "referral_liability" \in DOMAIN ledger[InHand(r)]
                    THEN "liability" ELSE "no_liability"
  <2>1. session' = [session EXCEPT ![r].arg = arg]
    BY <1>6 DEF RefundAgainReads
  <2>2. /\ arg \in {"liability", "no_liability"}
        /\ arg = "no_liability" =>
             "referral_liability" \notin DOMAIN ledger[InHand(r)]
    OBVIOUS
  <2> HIDE DEF arg
  <2>3. QED BY <1>6, <2>1, <2>2, RequestNotes, OutsideTyped
            DEF RefundAgainReads, Running, outside, InHand, Seen
<1>7. QED BY <1>3, <1>4, <1>5, <1>6

LEMMA WebhookKeepsIInv ==
  ASSUME IInv, NEW r \in Requests, WebhookCommit(r)
  PROVE  IInv'
<1> DEFINE o == InHand(r)
           current == Seen(r).status
           word == session[r].arg
           target == EVENT_STATUS_MAP[word]
<1>1. /\ r \in Sessions
      /\ session[r].op \in RequestOps /\ session[r].op = "webhook"
  BY DEF Sessions, WebhookCommit, Running, RequestOps
<1>2. word \in EventWords
  BY <1>1, InHandFacts, InputsAssumption DEF GoodRecord
<1>3. pending' \in [Orders -> SUBSET PartnerWords]
  BY DEF WebhookCommit, IInv, TypeOK
<1>4. CASE target # current /\ EventApplies(current, target)
  <2>1. target \in OrderStatus /\ EventLength(current, target) \in Nat
    BY <1>2, <1>4, ReportFacts DEF LaterStatuses
  <2>2. WriteStatus(o, Seen(r), target, EventLength(current, target))
    BY <1>4 DEF WebhookCommit
  <2>3. SideEffects(o, current, target)
    BY <1>4 DEF WebhookCommit
  <2>4. RowsKept
    BY <1>1, <2>1, <2>2, <2>3, InHandFacts, WriteTyped, SideEffectsTyped
    DEF RowsKept
  <2>5. QED BY <1>1, <1>3, <2>4, CloseStep, InHandFacts, OutsideTyped
            DEF WebhookCommit
<1>5. CASE target = current \/ ~EventApplies(current, target)
  <2>1. RowsKept
    BY <1>5, UnchangedRows DEF WebhookCommit, IInv
  <2>2. QED BY <1>1, <1>3, <2>1, CloseStep, InHandFacts, OutsideTyped
            DEF WebhookCommit
<1>6. QED BY <1>4, <1>5

LEMMA RaisedKeepsIInv ==
  ASSUME IInv, NEW r \in Requests, WebhookRaises(r)
  PROVE  IInv'
<1>1. /\ r \in Sessions
      /\ session[r].op \in RequestOps /\ session[r].op = "webhook"
  BY DEF Sessions, WebhookRaises, Running, RequestOps
<1>2. session[r].arg \in EventWords
  BY <1>1, InHandFacts, InputsAssumption DEF GoodRecord
<1>3. EventLength(Seen(r).status, "COMPLETED") \in Nat
  BY <1>2, ReportFacts DEF WebhookRaises
<1>4. order' \in [Orders -> Row]
  BY <1>1, <1>3, InHandFacts, WriteTyped DEF WebhookRaises, OrderStatus
<1>5. RowsKept
  BY <1>4 DEF RowsKept, WebhookRaises, books, IInv, TypeOK
<1>6. QED BY <1>1, <1>5, CloseStep, InHandFacts, OutsideTyped
          DEF WebhookRaises, outside

------------------------------------------------------------------------------
(* The polling loop *)

\* A pass that starts reads the rows it will work on.
LEMMA PassBegins ==
  ASSUME IInv, NEW w \in Workers, NEW op \in {"expire", "poll"},
         NEW read \in SUBSET Orders,
         Begin(w, op, read, NoOrder, "none"),
         UNCHANGED <<order, books, requisites, outside>>,
         op = "expire" => \A o \in read : order[o].status = "AWAITING_PAYMENT"
  PROVE  IInv'
<1> DEFINE seen == [x \in Orders |-> IF x \in read THEN order[x] ELSE Unread]
           rec == [op |-> op, order |-> NoOrder, todo |-> read \ {NoOrder},
                   arg |-> "none", seen |-> seen]
<1>1. seen \in [Orders -> Row] /\ \A o \in read : seen[o] = order[o]
  BY DEF IInv, TypeOK, Unread, Row, OrderStatus
<1> HIDE DEF seen
<1>2. rec \in SessionRecord
  BY <1>1 DEF SessionRecord
<1>3. GoodRecord(rec, reward)
  BY <1>1 DEF GoodRecord, RequestOps
<1>4. w \in Sessions /\ op # "idle" /\ NoOrder \notin Orders
  BY OrdersAssumption DEF Sessions
<1>5. rec = [op |-> op, order |-> NoOrder, todo |-> read \ {NoOrder},
             arg |-> "none",
             seen |-> [x \in Orders |-> IF x \in read THEN order[x] ELSE Unread]]
  BY DEF seen
<1> HIDE DEF rec
<1>6. QED BY <1>2, <1>3, <1>4, <1>5, BeginStep

LEMMA ExpireKeepsIInv ==
  ASSUME IInv, NEW w \in Workers, ExpireCommit(w)
  PROVE  IInv'
<1>1. w \in Sessions /\ session[w].op # "idle" /\ session[w] \in SessionRecord
  BY DEF Sessions, ExpireCommit, Running, IInv, TypeOK
<1>2. \A o \in Orders : session[w].seen[o].version + 1 \in Nat
  BY <1>1 DEF SessionRecord, Row
<1>3. order' \in [Orders -> Row]
  BY <1>2 DEF ExpireCommit, IInv, TypeOK, Row, OrderStatus
<1>4. RowsKept
  BY <1>3 DEF RowsKept, ExpireCommit, IInv, TypeOK, books
<1>5. requisites' \in [Orders -> {"none", "valid", "lapsed", "deleted"}]
  BY DEF ExpireCommit, IInv, TypeOK
<1>6. QED BY <1>1, <1>4, <1>5, CloseStep, OutsideTyped DEF ExpireCommit, outside

\* The pass takes the next order in hand.
LEMMA AskKeepsIInv ==
  ASSUME IInv, NEW w \in Workers, NEW o \in Orders,
         PollAsk(w, o) \/ PollAskFails(w, o)
  PROVE  IInv'
<1> DEFINE arg == session'[w].arg
           rec == [session[w] EXCEPT !.order = o, !.arg = arg,
                                     !.todo = @ \ {o}]
<1>1. w \in Sessions /\ session[w] \in SessionRecord /\ session[w].op = "poll"
  BY DEF Sessions, PollAsk, PollAskFails, Running, IInv, TypeOK
<1>2. /\ arg \in {"awaiting_payment", "unavailable"} \cup EventWords
      /\ session' = [session EXCEPT ![w] = rec]
  BY <1>1 DEF PollAsk, PollAskFails, IInv, TypeOK, SessionRecord
<1> HIDE DEF arg
<1>3. /\ rec \in SessionRecord
      /\ rec.op = "poll" /\ rec.order = o /\ rec.seen = session[w].seen
      /\ rec.todo = session[w].todo \ {o}
  BY <1>1, <1>2 DEF SessionRecord
<1> HIDE DEF rec
<1>4. GoodRecord(rec, reward')
  BY <1>3 DEF GoodRecord, RequestOps
<1>5. Held(rec) \subseteq Held(session[w])
  BY <1>3, OrdersAssumption DEF Held, PollAsk, PollAskFails
<1>6. OneAtATime => \A x \in Held(rec) : rec.seen[x] = order'[x]
  BY <1>1, <1>3, <1>5 DEF IInv, SerialInv, PollAsk, PollAskFails
<1>7. RowsKept
  BY UnchangedRows DEF IInv, PollAsk, PollAskFails
<1>8. OneAtATime => \A t \in Sessions \ {w} : session[t].op = "idle"
  BY <1>1, OthersIdle
<1>9. UNCHANGED <<requisites, outside>>
  BY DEF PollAsk, PollAskFails
<1>10. NotFoundStands(rec, ledger')
  BY <1>3 DEF NotFoundStands
<1>11. QED BY <1>1, <1>2, <1>3, <1>4, <1>6, <1>7, <1>8, <1>9, <1>10, SessionStep,
              OutsideTyped DEF outside

\* What is known of the order in hand of a pass.
LEMMA PolledFacts ==
  ASSUME IInv, NEW w \in Workers, Running(w, "poll"), InHand(w) # NoOrder
  PROVE  /\ w \in Sessions /\ session[w] \in SessionRecord
         /\ InHand(w) \in Orders /\ InHand(w) \notin session[w].todo
         /\ Seen(w) \in Row
         /\ OneAtATime => Seen(w) = order[InHand(w)]
<1>1. /\ w \in Sessions /\ session[w] \in SessionRecord
      /\ GoodRecord(session[w], reward)
  BY DEF Sessions, IInv, TypeOK, SessionInv
<1>2. InHand(w) \in Orders /\ InHand(w) \notin session[w].todo
  BY <1>1 DEF SessionRecord, InHand, GoodRecord
<1>3. Seen(w) \in Row
  BY <1>1, <1>2 DEF SessionRecord, Seen
<1>4. InHand(w) \in Held(session[w])
  BY DEF Held, InHand
<1>5. QED BY <1>1, <1>2, <1>3, <1>4 DEF IInv, SerialInv, Seen, InHand

\* The pass goes on to its next order, or ends.
LEMMA PassGoesOn ==
  ASSUME IInv, NEW w \in Workers, Running(w, "poll"), InHand(w) # NoOrder,
         PollNext(w), RowsKept,
         \A o \in Orders \ {InHand(w)} : order'[o] = order[o],
         UNCHANGED <<requisites, outside>>
  PROVE  IInv'
<1>1. CASE session[w].todo = {}
  BY <1>1, PolledFacts, CloseStep, OutsideTyped
  DEF PollNext, Running, outside
<1>2. CASE session[w].todo # {}
  <2> DEFINE rec == [session[w] EXCEPT !.order = NoOrder, !.arg = "none",
                                       !.seen[InHand(w)] = Unread]
  <2>1. session[w] \in SessionRecord /\ w \in Sessions /\ InHand(w) \in Orders
    BY PolledFacts
  <2>2. Unread \in Row
    BY DEF Unread, Row, OrderStatus
  <2>3. /\ rec \in SessionRecord
        /\ rec.op = "poll" /\ rec.order = NoOrder /\ rec.todo = session[w].todo
        /\ \A o \in Orders \ {InHand(w)} : rec.seen[o] = session[w].seen[o]
    BY <2>1, <2>2 DEF SessionRecord, Running
  <2>4. session' = [session EXCEPT ![w] = rec]
    BY <1>2, <2>1 DEF PollNext, IInv, TypeOK
  <2> HIDE DEF rec
  <2>5. GoodRecord(rec, reward')
    BY <2>1, <2>3, OrdersAssumption DEF GoodRecord, RequestOps, SessionRecord
  <2>6. OneAtATime => \A o \in Held(rec) : rec.seen[o] = order'[o]
    <3>1. Held(rec) = session[w].todo
      BY <2>3 DEF Held
    <3>2. session[w].todo \subseteq Orders \ {InHand(w)}
      BY <2>1, PolledFacts DEF SessionRecord
    <3>3. OneAtATime =>
            \A o \in session[w].todo : session[w].seen[o] = order[o]
      BY <2>1 DEF IInv, SerialInv, Held
    <3>4. QED BY <2>3, <3>1, <3>2, <3>3
  <2>7. OneAtATime => \A t \in Sessions \ {w} : session[t].op = "idle"
    BY <2>1, OthersIdle DEF Running
  <2>8. NotFoundStands(rec, ledger')
    BY <2>3 DEF NotFoundStands
  <2>9. QED BY <2>1, <2>3, <2>4, <2>5, <2>6, <2>7, <2>8, SessionStep,
               OutsideTyped DEF outside
<1>3. QED BY <1>1, <1>2

LEMMA PollKeepsIInv ==
  ASSUME IInv, NEW w \in Workers, PollCommit(w) \/ PollSkip(w)
  PROVE  IInv'
<1>1. CASE PollCommit(w)
  <2> DEFINE word == session[w].arg
             target == EVENT_STATUS_MAP[word]
  <2>1. /\ InHand(w) \in Orders /\ Seen(w) \in Row
        /\ Running(w, "poll") /\ InHand(w) # NoOrder
    BY <1>1, PolledFacts DEF PollCommit
  <2>2. word \in EventWords /\ ReportApplies(Seen(w).status, target, "SYSTEM")
    BY <1>1 DEF PollCommit, AnswerApplies
  <2>3. target \in OrderStatus /\ AdvanceLength(Seen(w).status, target) \in Nat
    BY <2>2, ReportFacts DEF LaterStatuses
  <2>4. /\ WriteStatus(InHand(w), Seen(w), target,
                       AdvanceLength(Seen(w).status, target))
        /\ SideEffects(InHand(w), Seen(w).status, target)
    BY <1>1 DEF PollCommit
  <2>5. RowsKept
    BY <2>1, <2>3, <2>4, WriteTyped, SideEffectsTyped DEF RowsKept
  <2>6. \A o \in Orders \ {InHand(w)} : order'[o] = order[o]
    BY <2>4 DEF WriteStatus, IInv, TypeOK
  <2>7. QED BY <1>1, <2>1, <2>5, <2>6, PassGoesOn DEF PollCommit
<1>2. CASE PollSkip(w)
  <2>1. RowsKept
    BY <1>2, UnchangedRows DEF PollSkip, IInv
  <2>2. QED BY <1>2, <2>1, PassGoesOn DEF PollSkip
<1>3. QED BY <1>1, <1>2

LEMMA WorkerKeepsIInv ==
  ASSUME IInv, NEW w \in Workers, WorkerNext(w)
  PROVE  IInv'
<1>1. CASE ExpireStart(w)
  BY <1>1, PassBegins DEF ExpireStart, StaleOrders
<1>2. CASE PollStart(w)
  BY <1>2, PassBegins DEF PollStart, ActiveOrders
<1>3. QED BY <1>1, <1>2, ExpireKeepsIInv, PollKeepsIInv, AskKeepsIInv
          DEF WorkerNext

------------------------------------------------------------------------------
LEMMA EnvironmentKeepsIInv ==
  ASSUME IInv, Environment
  PROVE  IInv'
<1>1. ASSUME NEW s \in Sessions, Abort(s) PROVE IInv'
  BY <1>1, CloseStep, UnchangedRows, OutsideTyped DEF Abort, IInv, outside
<1>2. ASSUME NEW o \in Orders, RequisitesLapse(o) PROVE IInv'
  BY <1>2 DEF RequisitesLapse, IInv, TypeOK, SessionInv, SerialInv, books, outside
<1>3. ASSUME NEW o \in Orders, NEW word \in PartnerWords, PartnerProgress(o, word)
      PROVE  IInv'
  <2>1. word \in EventWords
    BY InputsAssumption
  <2>2. /\ partner' \in [Orders -> {"awaiting_payment"} \cup EventWords]
        /\ pending' \in [Orders -> SUBSET PartnerWords]
    BY <1>3, <2>1, ReportTyped DEF PartnerProgress
  <2>3. QED BY <1>3, <2>2
            DEF PartnerProgress, IInv, TypeOK, SessionInv, SerialInv, books
<1>4. QED BY <1>1, <1>2, <1>3 DEF Environment

LEMMA InitIInv == Init => IInv
<1> SUFFICES ASSUME Init PROVE IInv
  OBVIOUS
<1>1. IsLedger(EmptyLedger)
  BY DEF IsLedger, EmptyLedger
<1>2. TypeOK
  BY <1>1, IdleRecord
  DEF Init, TypeOK, Row, OrderStatus, RewardStatus
<1>3. SessionInv /\ SerialInv
  BY IdleRecord DEF Init, SessionInv, SerialInv, Idle
<1>4. QED BY <1>2, <1>3 DEF IInv

LEMMA NextIInv == IInv /\ [Next]_vars => IInv'
<1>1. ASSUME IInv, NEW r \in Requests, RequestNext(r) PROVE IInv'
  BY <1>1, RequestStarts, RequestCommits, RequestAsks, WebhookKeepsIInv,
     RaisedKeepsIInv
  DEF RequestNext
<1>2. ASSUME IInv, UNCHANGED vars PROVE IInv'
  BY <1>2 DEF IInv, TypeOK, SessionInv, SerialInv, vars, books, outside
<1>3. QED BY <1>1, <1>2, WorkerKeepsIInv, EnvironmentKeepsIInv DEF Next

LEMMA Inductive == Spec => []IInv
BY InitIInv, NextIInv, PTL DEF Spec

\* The rows and the sessions are well typed in every execution.
THEOREM TypeCorrect == Spec => []TypeOK
<1>1. IInv => TypeOK
  BY DEF IInv
<1>2. QED BY <1>1, Inductive, PTL

------------------------------------------------------------------------------
(* The handlers implement OrderBooks *)

\* OrderBooks computes postings with the same operators.
LEMMA SameLedgerOperators ==
  /\ Books!EmptyLedger = EmptyLedger
  /\ \A l, e : Books!PostEntries(l, e) = PostEntries(l, e)
  /\ \A fee, pf, nf, amount :
       Books!CompletedEntries(fee, pf, nf, amount)
         = CompletedEntries(fee, pf, nf, amount)
  /\ \A fee, l : Books!RefundEntries(fee, l) = RefundEntries(fee, l)
BY DEF Books!EmptyLedger, EmptyLedger, Books!PostEntries, PostEntries,
       Books!CompletedEntries, CompletedEntries, Books!Smaller, Smaller,
       Books!RefundEntries, RefundEntries, Books!Amount, Amount

StatusOf == [o \in Orders |-> order[o].status]

\* An order that is not closed may move.
LEMMA OpenMayMove ==
  ASSUME NEW o \in Orders, OneAtATime => order[o].status \notin ClosedStatuses
  PROVE  Books!MayMove(o)
BY DEF Books!MayMove, Books!Closed, ClosedStatuses

\* The statuses of OrderBooks.
LEMMA StatusSplit ==
  /\ LaterStatuses = Books!OtherStatus \cup {"COMPLETED", "REFUNDED"}
  /\ Books!OtherStatus \subseteq Books!UnpostedStatus
  /\ RewardMayRaise => "COMPLETED" \in Books!UnpostedStatus
BY DEF LaterStatuses, OrderStatus, Books!OtherStatus, Books!UnpostedStatus

\* What an UPDATE of one row is in OrderBooks.
LEMMA WriteIsMove ==
  ASSUME IInv, NEW o \in Orders, NEW seen, NEW target, NEW n,
         WriteStatus(o, seen, target, n)
  PROVE  /\ StatusOf' = [StatusOf EXCEPT ![o] = target]
         /\ StatusOf' = [x \in Orders |->
                           IF x \in {o} THEN target ELSE StatusOf[x]]
BY DEF IInv, TypeOK, WriteStatus, StatusOf

\* An order moves, and the books stay.
LEMMA MoveIsMove ==
  ASSUME IInv, NEW o \in Orders, NEW seen, NEW target \in Books!UnpostedStatus,
         NEW n, WriteStatus(o, seen, target, n), UNCHANGED books,
         OneAtATime => order[o].status \notin ClosedStatuses
  PROVE  Books!Next
<1>1. Books!MayMove(o)
  BY OpenMayMove
<1>2. Books!Move({o}, target)
  <2>1. StatusOf' = [x \in Orders |->
                      IF x \in {o} THEN target ELSE StatusOf[x]]
    BY WriteIsMove
  <2>2. UNCHANGED <<ledger, reward>>
    BY DEF books
  <2>3. QED BY <1>1, <2>1, <2>2 DEF Books!Move, StatusOf
<1>3. QED BY <1>2 DEF Books!Next

\* A reward is frozen, and the order becomes or stays disputed.
LEMMA FreezeIsFreeze ==
  ASSUME NEW o \in Orders, reward[o] # "NONE",
         reward' = [reward EXCEPT ![o] = "FROZEN"], UNCHANGED ledger,
         \/ StatusOf' = [StatusOf EXCEPT ![o] = "DISPUTED"]
         \/ UNCHANGED StatusOf,
         OneAtATime => order[o].status \notin ClosedStatuses
  PROVE  Books!Next
<1>1. Books!Freeze(o)
  BY OpenMayMove DEF Books!Freeze, StatusOf
<1>2. QED BY <1>1 DEF Books!Next

\* The refund of a refunded order is booked once more.
LEMMA RefundAgain ==
  ASSUME NEW o \in Orders, UNCHANGED StatusOf,
         OneAtATime => StatusOf[o] = "REFUNDED",
         NEW read \in {ledger[o], EmptyLedger},
         OneAtATime => read = ledger[o],
         ledger' = [ledger EXCEPT ![o] =
           PostEntries(@, RefundEntries(ServiceFee[o], read))],
         reward' = [reward EXCEPT ![o] = IF @ = "NONE" THEN @ ELSE "CANCELLED"]
  PROVE  Books!Next
<1>1. /\ ledger' = [ledger EXCEPT ![o] =
                   Books!PostEntries(@, Books!RefundEntries(ServiceFee[o], read))]
      /\ read \in {ledger[o], Books!EmptyLedger}
  BY SameLedgerOperators
<1>2. Books!Refund(o)
  BY <1>1 DEF Books!Refund, StatusOf
<1>3. QED BY <1>2 DEF Books!Next

\* A refund that finds no liability posts what it would have posted, had it
\* looked again.
LEMMA NothingOwed ==
  ASSUME NEW l, "referral_liability" \notin DOMAIN l
  PROVE  \A fee : RefundEntries(fee, EmptyLedger) = RefundEntries(fee, l)
BY DEF RefundEntries, Amount, EmptyLedger

\* An order moves, with its side effects.
LEMMA SideEffectsAreBooks ==
  ASSUME IInv, NEW o \in Orders, NEW seen, NEW previous,
         NEW target \in LaterStatuses, target # previous,
         NEW n, WriteStatus(o, seen, target, n),
         SideEffects(o, previous, target),
         OneAtATime => order[o].status \notin ClosedStatuses
  PROVE  Books!Next
<1>1. Books!MayMove(o)
  BY OpenMayMove
<1>2. CASE target = "COMPLETED"
  <2>1. /\ ledger' = [ledger EXCEPT ![o] = PostEntries(@,
             CompletedEntries(ServiceFee[o], PartnerFee[o], NetworkFee[o],
                              AccruedReward(o)))]
        /\ reward' = [reward EXCEPT ![o] =
             IF AccruedReward(o) > 0 THEN "CONFIRMED" ELSE @]
    BY <1>2 DEF SideEffects
  <2>2. Books!Complete(o)
    BY <1>1, <1>2, <2>1, WriteIsMove, SameLedgerOperators
    DEF Books!Complete, StatusOf, AccruedReward
  <2>3. QED BY <2>2 DEF Books!Next
<1>3. CASE target = "REFUNDED"
  <2>1. /\ ledger' = [ledger EXCEPT ![o] =
             PostEntries(@, RefundEntries(ServiceFee[o], @))]
        /\ reward' = [reward EXCEPT ![o] = IF @ = "NONE" THEN @ ELSE "CANCELLED"]
    BY <1>3 DEF SideEffects, CancelReward
  <2>2. Books!Refund(o)
    BY <1>1, <1>3, <2>1, WriteIsMove, SameLedgerOperators
    DEF Books!Refund, StatusOf
  <2>3. QED BY <2>2 DEF Books!Next
<1>4. CASE target \notin {"COMPLETED", "REFUNDED"}
  <2>1. UNCHANGED books
    BY <1>4 DEF SideEffects
  <2>2. target \in Books!UnpostedStatus
    BY <1>4, StatusSplit
  <2>3. QED BY <2>1, <2>2, MoveIsMove
<1>5. QED BY <1>2, <1>3, <1>4

LEMMA RequestImplementsBooks ==
  ASSUME IInv, NEW r \in Requests,
         \/ CancelCommit(r) \/ DisputeCommit(r) \/ DisputeAgainCommit(r)
         \/ AdminTransitionCommit(r) \/ RefundAgainCommit(r)
         \/ AdminRefundCommit(r) \/ WebhookCommit(r) \/ WebhookRaises(r)
  PROVE  Books!Next \/ UNCHANGED <<StatusOf, books>>
<1> DEFINE o == InHand(r)
           current == Seen(r).status
<1>1. /\ r \in Sessions /\ session[r].op \in RequestOps
      /\ o \in Orders /\ GoodRecord(session[r], reward)
      /\ OneAtATime => Seen(r) = order[o]
  <2>1. r \in Sessions /\ session[r].op \in RequestOps
    BY DEF Sessions, RequestOps, Running, CancelCommit, DisputeCommit,
           DisputeAgainCommit, AdminTransitionCommit, RefundAgainCommit,
           AdminRefundCommit, WebhookCommit, WebhookRaises
  <2>2. QED BY <2>1, InHandFacts
<1>2. CASE CancelCommit(r)
  <2>1. WriteStatus(o, Seen(r), "CANCELLED", 1) /\ UNCHANGED books
    BY <1>2 DEF CancelCommit
  <2>2. current \in CANCELLABLE_STATUSES
    BY <1>1, <1>2 DEF CancelCommit, Running, GoodRecord, Seen, InHand
  <2>3. OneAtATime => order[o].status \notin ClosedStatuses
    BY <1>1, <2>2 DEF CANCELLABLE_STATUSES, ClosedStatuses
  <2>4. "CANCELLED" \in Books!UnpostedStatus
    BY StatusSplit DEF Books!OtherStatus
  <2>5. QED BY <1>1, <2>1, <2>3, <2>4, MoveIsMove
<1>3. ASSUME DisputeCommit(r) \/ DisputeAgainCommit(r)
      PROVE  OneAtATime => order[o].status \notin ClosedStatuses
  <2>1. \/ current = "DISPUTED"
        \/ \E actor \in {"USER", "ADMIN"} :
             IsTransitionAllowed(current, "DISPUTED", actor)
    BY <1>1, <1>3
    DEF DisputeCommit, DisputeAgainCommit, Running, GoodRecord, Seen, InHand
  <2>2. current \notin ClosedStatuses
    BY <2>1, TransitionFacts DEF ClosedStatuses
  <2>3. QED BY <1>1, <2>2
<1>4. CASE DisputeCommit(r)
  <2>1. /\ WriteStatus(o, Seen(r), "DISPUTED", 1)
        /\ reward' = [reward EXCEPT ![o] = IF @ = "CONFIRMED" THEN "FROZEN" ELSE @]
        /\ UNCHANGED ledger
    BY <1>4 DEF DisputeCommit, FreezeReward
  <2>2. CASE reward[o] = "CONFIRMED"
    <3>1. reward' = [reward EXCEPT ![o] = "FROZEN"] /\ reward[o] # "NONE"
      BY <2>1, <2>2
    <3>2. StatusOf' = [StatusOf EXCEPT ![o] = "DISPUTED"]
      BY <1>1, <2>1, WriteIsMove
    <3>3. QED BY <1>1, <1>3, <1>4, <2>1, <3>1, <3>2, FreezeIsFreeze
  <2>3. CASE reward[o] # "CONFIRMED"
    <3>1. UNCHANGED books
      BY <2>1, <2>3 DEF books, IInv, TypeOK
    <3>2. "DISPUTED" \in Books!UnpostedStatus
      BY StatusSplit DEF Books!OtherStatus
    <3>3. QED BY <1>1, <1>3, <1>4, <2>1, <3>1, <3>2, MoveIsMove
  <2>4. QED BY <2>2, <2>3
<1>5. CASE DisputeAgainCommit(r)
  <2>1. /\ reward' = [reward EXCEPT ![o] =
             IF session[r].arg = "CONFIRMED" THEN "FROZEN" ELSE @]
        /\ UNCHANGED <<order, ledger>>
    BY <1>5 DEF DisputeAgainCommit
  <2>2. UNCHANGED StatusOf
    BY <2>1 DEF StatusOf
  <2>3. CASE session[r].arg = "CONFIRMED"
    <3>1. reward[o] # "NONE"
      BY <1>1, <1>5, <2>3 DEF GoodRecord, InHand, DisputeAgainCommit, Running
    <3>2. QED BY <1>1, <1>3, <1>5, <2>1, <2>2, <2>3, <3>1, FreezeIsFreeze
  <2>4. CASE session[r].arg # "CONFIRMED"
    BY <2>1, <2>2, <2>4 DEF books, IInv, TypeOK
  <2>5. QED BY <2>3, <2>4
<1>6. CASE AdminTransitionCommit(r)
  <2> DEFINE target == session[r].arg
  <2>1. current = target \/ IsTransitionAllowed(current, target, "ADMIN")
    <3>1. target \notin {"liability", "no_liability"}
      BY <1>6 DEF AdminTransitionCommit, OrderStatus
    <3>2. QED BY <1>1, <1>6, <3>1
              DEF GoodRecord, AdminTransitionCommit, Running, Seen, InHand
  <2>2. CASE current = target
    <3>1. UNCHANGED StatusOf
      BY <1>6, <2>2 DEF AdminTransitionCommit, StatusOf
    <3>2. SideEffects(o, current, target)
      BY <1>6 DEF AdminTransitionCommit
    <3>3. target # "REFUNDED"
      BY <1>6, <2>2 DEF AdminTransitionCommit
    <3>4. QED BY <2>2, <3>1, <3>2, <3>3 DEF SideEffects
  <2>3. CASE current # target
    <3>1. target \in LaterStatuses /\ current \notin ClosedStatuses
      BY <2>1, <2>3, TransitionFacts
    <3>2. WriteStatus(o, Seen(r), target, 1) /\ SideEffects(o, current, target)
      BY <1>6, <2>3 DEF AdminTransitionCommit
    <3>3. QED BY <1>1, <2>3, <3>1, <3>2, SideEffectsAreBooks
  <2>4. QED BY <2>2, <2>3
<1>7. CASE AdminRefundCommit(r)
  <2>1. CASE current \in DOMAIN RefundChain
    <3>1. /\ WriteStatus(o, Seen(r), "REFUNDED", RefundChain[current])
          /\ SideEffects(o, current, "REFUNDED")
      BY <1>7, <2>1 DEF AdminRefundCommit
    <3>2. "REFUNDED" \in LaterStatuses /\ current \notin ClosedStatuses
      BY <2>1 DEF RefundChain, ClosedStatuses, LaterStatuses, OrderStatus
    <3>3. "REFUNDED" # current
      BY <3>2 DEF ClosedStatuses
    <3>4. QED BY <1>1, <3>1, <3>2, <3>3, SideEffectsAreBooks
  <2>2. CASE current \notin DOMAIN RefundChain
    BY <1>7, <2>2 DEF AdminRefundCommit, StatusOf
  <2>3. QED BY <2>1, <2>2
<1>8. CASE WebhookCommit(r)
  <2> DEFINE word == session[r].arg
             target == EVENT_STATUS_MAP[word]
  <2>1. word \in EventWords
    BY <1>1, <1>8, InputsAssumption DEF GoodRecord, WebhookCommit, Running
  <2>2. CASE target # current /\ EventApplies(current, target)
    <3>1. target \in LaterStatuses /\ current \notin ClosedStatuses
      BY <2>1, <2>2, ReportFacts
    <3>2. /\ WriteStatus(o, Seen(r), target, EventLength(current, target))
          /\ SideEffects(o, current, target)
      BY <1>8, <2>2 DEF WebhookCommit
    <3>3. QED BY <1>1, <2>2, <3>1, <3>2, SideEffectsAreBooks
  <2>3. CASE target = current \/ ~EventApplies(current, target)
    BY <1>8, <2>3 DEF WebhookCommit, StatusOf
  <2>4. QED BY <2>2, <2>3
<1>9. CASE RefundAgainCommit(r)
  <2>1. /\ current = "REFUNDED" /\ session[r].op = "admin_transition"
        /\ session[r].arg \in {"liability", "no_liability"}
    <3>1. session[r].arg \notin OrderStatus
      BY <1>9 DEF RefundAgainCommit, OrderStatus
    <3>2. QED BY <1>1, <1>9, <3>1
              DEF RefundAgainCommit, Running, GoodRecord, Seen, InHand
  <2>2. OneAtATime /\ session[r].arg = "no_liability" =>
          "referral_liability" \notin DOMAIN ledger[o]
    BY <1>1, <2>1 DEF IInv, SerialInv, NotFoundStands, InHand
  <2>3. UNCHANGED StatusOf /\ (OneAtATime => StatusOf[o] = "REFUNDED")
    BY <1>1, <1>9, <2>1 DEF RefundAgainCommit, StatusOf
  <2> DEFINE read == IF session[r].arg = "liability" \/ OneAtATime
                     THEN ledger[o] ELSE EmptyLedger
  <2>4. /\ ledger' = [ledger EXCEPT ![o] = PostEntries(@,
             RefundEntries(ServiceFee[o],
                           IF session[r].arg = "liability" THEN @
                           ELSE EmptyLedger))]
        /\ reward' = [reward EXCEPT ![o] = IF @ = "NONE" THEN @ ELSE "CANCELLED"]
    BY <1>9 DEF RefundAgainCommit, CancelReward
  <2>5. RefundEntries(ServiceFee[o],
                      IF session[r].arg = "liability" THEN ledger[o]
                      ELSE EmptyLedger) = RefundEntries(ServiceFee[o], read)
    BY <2>1, <2>2, NothingOwed
  <2>6. read \in {ledger[o], EmptyLedger} /\ (OneAtATime => read = ledger[o])
    OBVIOUS
  <2> HIDE DEF read
  <2>7. ledger' = [ledger EXCEPT ![o] =
                     PostEntries(@, RefundEntries(ServiceFee[o], read))]
    BY <1>1, <2>4, <2>5 DEF IInv, TypeOK
  <2>8. QED BY <1>1, <2>3, <2>4, <2>6, <2>7, RefundAgain
<1>10. CASE WebhookRaises(r)
  <2>1. session[r].arg \in EventWords
    BY <1>1, <1>10, InputsAssumption DEF GoodRecord, WebhookRaises, Running
  <2>2. /\ EVENT_STATUS_MAP[session[r].arg] = "COMPLETED"
        /\ EventApplies(current, "COMPLETED")
        /\ WriteStatus(o, Seen(r), "COMPLETED", EventLength(current, "COMPLETED"))
        /\ UNCHANGED books /\ RewardMayRaise
    BY <1>10 DEF WebhookRaises
  <2>3. current \notin ClosedStatuses
    BY <2>1, <2>2, ReportFacts
  <2>4. "COMPLETED" \in Books!UnpostedStatus
    BY <2>2, StatusSplit
  <2>5. QED BY <1>1, <2>2, <2>3, <2>4, MoveIsMove
<1>11. QED BY <1>2, <1>4, <1>5, <1>6, <1>7, <1>8, <1>9, <1>10

LEMMA WorkerImplementsBooks ==
  ASSUME IInv, NEW w \in Workers, ExpireCommit(w) \/ PollCommit(w)
  PROVE  Books!Next
<1>1. CASE ExpireCommit(w)
  <2> DEFINE stale == session[w].todo
  <2>1. /\ w \in Sessions /\ session[w].op = "expire"
        /\ stale \in SUBSET Orders /\ stale \subseteq Held(session[w])
        /\ \A o \in stale : session[w].seen[o].status = "AWAITING_PAYMENT"
    BY <1>1 DEF ExpireCommit, Running, Sessions, IInv, TypeOK, SessionRecord,
                SessionInv, GoodRecord, Held
  <2>2. ASSUME NEW o \in stale PROVE Books!MayMove(o)
    <3>1. OneAtATime => order[o].status = "AWAITING_PAYMENT"
      BY <2>1, <2>2 DEF IInv, SerialInv
    <3>2. QED BY <2>1, <2>2, <3>1, OpenMayMove DEF ClosedStatuses
  <2>3. StatusOf' = [o \in Orders |->
                      IF o \in stale THEN "EXPIRED" ELSE StatusOf[o]]
    BY <1>1 DEF ExpireCommit, StatusOf
  <2>4. UNCHANGED <<ledger, reward>>
    BY <1>1 DEF ExpireCommit, books
  <2>5. "EXPIRED" \in Books!UnpostedStatus
    BY StatusSplit DEF Books!OtherStatus
  <2>6. ASSUME NEW moved \in SUBSET Orders, moved = stale PROVE Books!Next
    <3>1. Books!Move(moved, "EXPIRED")
      BY <2>2, <2>3, <2>4, <2>5, <2>6 DEF Books!Move, StatusOf
    <3>2. QED BY <2>5, <3>1 DEF Books!Next
  <2>7. QED BY <2>1, <2>6
<1>2. CASE PollCommit(w)
  <2> DEFINE current == Seen(w).status
             word == session[w].arg
             target == EVENT_STATUS_MAP[word]
  <2>1. /\ InHand(w) \in Orders
        /\ OneAtATime => Seen(w) = order[InHand(w)]
    BY <1>2, PolledFacts DEF PollCommit
  <2>2. /\ word \in EventWords /\ target # current
        /\ ReportApplies(current, target, "SYSTEM")
    BY <1>2 DEF PollCommit, AnswerApplies
  <2>3. target \in LaterStatuses /\ current \notin ClosedStatuses
    BY <2>2, ReportFacts
  <2>4. /\ WriteStatus(InHand(w), Seen(w), target, AdvanceLength(current, target))
        /\ SideEffects(InHand(w), current, target)
    BY <1>2 DEF PollCommit
  <2>5. QED BY <2>1, <2>2, <2>3, <2>4, SideEffectsAreBooks
<1>3. QED BY <1>1, <1>2

\* Every step of the handlers is a step of the books or leaves them alone.
LEMMA StepImplementsBooks ==
  ASSUME IInv, [Next]_vars
  PROVE  Books!Next \/ UNCHANGED <<StatusOf, books>>
<1>1. ASSUME UNCHANGED <<order, books>> PROVE UNCHANGED <<StatusOf, books>>
  BY <1>1 DEF StatusOf
<1>2. ASSUME NEW r \in Requests, RequestNext(r)
      PROVE  Books!Next \/ UNCHANGED <<StatusOf, books>>
  <2>1. \/ UNCHANGED <<order, books>>
        \/ CancelCommit(r) \/ DisputeCommit(r) \/ DisputeAgainCommit(r)
        \/ AdminTransitionCommit(r) \/ RefundAgainCommit(r)
        \/ AdminRefundCommit(r) \/ WebhookCommit(r) \/ WebhookRaises(r)
    BY <1>2 DEF RequestNext, CancelStart, DisputeStart, AdminTransitionStart,
                AdminRefundStart, WebhookStart, CancelAtPartner,
                DisputeReadsReward, RefundAgainReads, RefundAtPartner
  <2>2. QED BY <1>1, <2>1, RequestImplementsBooks
<1>3. ASSUME NEW w \in Workers, WorkerNext(w)
      PROVE  Books!Next \/ UNCHANGED <<StatusOf, books>>
  <2>1. UNCHANGED <<order, books>> \/ ExpireCommit(w) \/ PollCommit(w)
    BY <1>3 DEF WorkerNext, ExpireStart, PollStart, PollSkip, PollAsk,
                PollAskFails
  <2>2. QED BY <1>1, <2>1, WorkerImplementsBooks
<1>4. ASSUME Environment PROVE UNCHANGED <<order, books>>
  BY <1>4 DEF Environment, Abort, RequisitesLapse, PartnerProgress
<1>5. ASSUME UNCHANGED vars PROVE UNCHANGED <<order, books>>
  BY <1>5 DEF vars, books
<1>6. CASE Next
  BY <1>1, <1>2, <1>3, <1>4, <1>6 DEF Next
<1>7. QED BY <1>1, <1>5, <1>6

\* Whatever sessions overlap, are lost or run late, the handlers are an
\* implementation of OrderBooks (order_side_effects.py behind every
\* transition): the books change only with a completion, a refund or a
\* dispute, and then as OrderBooks says.
THEOREM Implementation == Spec => ImplementsBooks
<1>1. Init => Books!Init
  BY SameLedgerOperators DEF Init, Books!Init
<1>2. IInv /\ [Next]_vars => [Books!Next]_Books!vars
  BY StepImplementsBooks DEF StatusOf, books, Books!vars
<1>3. QED BY <1>1, <1>2, Inductive, PTL DEF Spec, ImplementsBooks, Books!Spec

------------------------------------------------------------------------------
(* What OrderBooksProofs proves of the books holds of the handlers *)

Proved == INSTANCE OrderBooksProofs
            WITH status <- [o \in Orders |-> order[o].status]

LEMMA BooksAssumed == Proved!AmountsAssumption
BY AmountsAssumption DEF Proved!AmountsAssumption

\* The two instances of OrderBooks are the same specification.
LEMMA SameBooks == Books!Spec => Proved!Spec
<1>1. Books!Init => Proved!Init
  BY DEF Books!Init, Proved!Init, Books!EmptyLedger, Proved!EmptyLedger
<1>2. /\ \A l, e : Books!PostEntries(l, e) = Proved!PostEntries(l, e)
      /\ \A fee, pf, nf, amount :
           Books!CompletedEntries(fee, pf, nf, amount)
             = Proved!CompletedEntries(fee, pf, nf, amount)
      /\ \A fee, l : Books!RefundEntries(fee, l) = Proved!RefundEntries(fee, l)
  BY DEF Books!PostEntries, Proved!PostEntries,
         Books!CompletedEntries, Proved!CompletedEntries,
         Books!Smaller, Proved!Smaller,
         Books!RefundEntries, Proved!RefundEntries,
         Books!Amount, Proved!Amount
<1>3. Books!Next => Proved!Next
  <2>1. ASSUME NEW moved \in SUBSET Orders, NEW to \in Books!UnpostedStatus,
               Books!Move(moved, to)
        PROVE  Proved!Move(moved, to)
    BY <2>1 DEF Books!Move, Proved!Move, Books!MayMove, Proved!MayMove,
                Books!Closed, Proved!Closed,
                Books!UnpostedStatus, Proved!UnpostedStatus,
                Books!OtherStatus, Proved!OtherStatus
  <2>2. ASSUME NEW o \in Orders, Books!Complete(o) PROVE Proved!Complete(o)
    BY <1>2, <2>2 DEF Books!Complete, Proved!Complete,
                Books!MayMove, Proved!MayMove, Books!Closed, Proved!Closed
  <2>3. ASSUME NEW o \in Orders, Books!Refund(o) PROVE Proved!Refund(o)
    BY <1>2, <2>3 DEF Books!Refund, Proved!Refund,
                Books!EmptyLedger, Proved!EmptyLedger,
                Books!MayMove, Proved!MayMove, Books!Closed, Proved!Closed
  <2>4. ASSUME NEW o \in Orders, Books!Freeze(o) PROVE Proved!Freeze(o)
    BY <2>4 DEF Books!Freeze, Proved!Freeze,
                Books!MayMove, Proved!MayMove, Books!Closed, Proved!Closed
  <2>5. Books!UnpostedStatus = Proved!UnpostedStatus
    BY DEF Books!UnpostedStatus, Proved!UnpostedStatus,
           Books!OtherStatus, Proved!OtherStatus
  <2>6. QED BY <2>1, <2>2, <2>3, <2>4, <2>5 DEF Books!Next, Proved!Next
<1>4. [Books!Next]_Books!vars => [Proved!Next]_Proved!vars
  BY <1>3 DEF Books!vars, Proved!vars
<1>5. QED BY <1>1, <1>4, PTL DEF Books!Spec, Proved!Spec

\* Even when handlers overlap: a COMPLETED order is recognised if no reward
\* fails to be computed, a REFUNDED one reversed and its reward not payable, a
\* reward accrued exactly once, completions sum to zero, and a discrepancy is
\* the referrer's share.
THEOREM HandlersKeepTheBooks ==
  Spec => [](/\ ~RewardMayRaise => CompletedIsRecognized
             /\ RefundedIsReversed
             /\ RewardMatchesLiability
             /\ RecognitionBalanced
             /\ DiscrepancyIsReferralShare)
<1>1. Proved!CompletedIsRecognized => CompletedIsRecognized
  BY DEF Proved!CompletedIsRecognized, CompletedIsRecognized,
         Books!CompletedIsRecognized
<1>2. Proved!RefundedIsReversed => RefundedIsReversed
  BY DEF Proved!RefundedIsReversed, RefundedIsReversed,
         Books!RefundedIsReversed
<1>3. Proved!RewardMatchesLiability => RewardMatchesLiability
  BY DEF Proved!RewardMatchesLiability, RewardMatchesLiability,
         Books!RewardMatchesLiability, Proved!Smaller, Books!Smaller
<1>4. Proved!RecognitionBalanced => RecognitionBalanced
  BY DEF Proved!RecognitionBalanced, RecognitionBalanced,
         Books!RecognitionBalanced, Proved!RecognitionSum, Books!RecognitionSum,
         Proved!Amount, Books!Amount
<1>5. Proved!DiscrepancyIsReferralShare => DiscrepancyIsReferralShare
  BY DEF Proved!DiscrepancyIsReferralShare, DiscrepancyIsReferralShare,
         Books!DiscrepancyIsReferralShare, Proved!Residual, Books!Residual,
         Proved!RecognitionSum, Books!RecognitionSum,
         Proved!RefundSum, Books!RefundSum, Proved!Amount, Books!Amount
<1>6. QED BY <1>1, <1>2, <1>3, <1>4, <1>5, Implementation, SameBooks,
             BooksAssumed, Proved!BooksAgree, PTL DEF ImplementsBooks

\* The same one by one.  A COMPLETED order has its fee and profit on the books,
\* whichever handler completed it and whatever it overwrote, unless a reward
\* fails to be computed.
THEOREM CompletionsAreRecognized ==
  ~RewardMayRaise => (Spec => []CompletedIsRecognized)
<1> SUFFICES ASSUME ~RewardMayRaise PROVE Spec => []CompletedIsRecognized
  OBVIOUS
<1>1. (~RewardMayRaise => CompletedIsRecognized) => CompletedIsRecognized
  OBVIOUS
<1>2. QED BY <1>1, HandlersKeepTheBooks, PTL

\* A REFUNDED order has its refund on the books and no payable reward.
THEOREM RefundsAreReversed == Spec => []RefundedIsReversed
BY HandlersKeepTheBooks, PTL

\* What completions have posted for an order sums to zero, stale ones included.
THEOREM CompletionsBalance == Spec => []RecognitionBalanced
BY HandlersKeepTheBooks, PTL

\* An order's discrepancy in reconcile() is nothing or the referrer's share.
THEOREM DiscrepanciesAreShares == Spec => []DiscrepancyIsReferralShare
BY HandlersKeepTheBooks, PTL

\* When handlers do not overlap, reconcile() finds nothing and the reward of
\* a refunded order is cancelled.
THEOREM SerialHandlersBalance ==
  OneAtATime => (Spec => [](ReconciliationIsZero /\ RefundCancelsReward))
<1> SUFFICES ASSUME OneAtATime
             PROVE  Spec => [](ReconciliationIsZero /\ RefundCancelsReward)
  OBVIOUS
<1>1. Proved!ReconciliationIsZero => ReconciliationIsZero
  BY DEF Proved!ReconciliationIsZero, ReconciliationIsZero,
         Proved!Residual, Residual, Proved!RecognitionSum, RecognitionSum,
         Proved!RefundSum, RefundSum, Proved!Amount, Amount
<1>2. Proved!RefundCancelsReward => RefundCancelsReward
  BY DEF Proved!RefundCancelsReward, RefundCancelsReward
<1>3. QED BY <1>1, <1>2, Implementation, SameBooks, BooksAssumed,
             Proved!SerialBooksBalance, PTL DEF ImplementsBooks

\* The reward of a refunded order is cancelled, when handlers do not overlap.
THEOREM SerialRefundsCancelRewards ==
  OneAtATime => (Spec => []RefundCancelsReward)
BY SerialHandlersBalance, PTL

------------------------------------------------------------------------------
(* What the version column would give *)

\* "Optimistic locking via the version column" (state_machine.py:5): a step of
\* a session overwrites a row only if its copy is that row, whatever other
\* sessions are in flight.  The code counts versions and does not compare them.
HasCurrent(s, o) == session'[s] # session[s] => session[s].seen[o] = order[o]

RowsAreLocked ==
  \A s \in Sessions, o \in Orders : order'[o] # order[o] => HasCurrent(s, o)

OptimisticLocking == [][RowsAreLocked]_vars

\* A session that ends takes a step, and so does a pass that goes on.
LEMMA CloseIsAStep ==
  ASSUME IInv, NEW s \in Sessions, session[s].op # "idle", Close(s)
  PROVE  session'[s] # session[s]
BY DEF IInv, TypeOK, Close, Idle

LEMMA PassIsAStep ==
  ASSUME IInv, NEW w \in Workers, Running(w, "poll"), InHand(w) # NoOrder,
         PollNext(w)
  PROVE  session'[w] # session[w]
<1>1. w \in Sessions /\ session[w] \in SessionRecord
  BY PolledFacts
<1>2. CASE session[w].todo = {}
  BY <1>1, <1>2, CloseIsAStep DEF PollNext, Running
<1>3. CASE session[w].todo # {}
  <2>1. session'[w] = [session[w] EXCEPT !.order = NoOrder, !.arg = "none",
                                         !.seen[InHand(w)] = Unread]
    BY <1>1, <1>3 DEF PollNext, IInv, TypeOK
  <2>2. session'[w].order = NoOrder
    BY <1>1, <2>1 DEF SessionRecord
  <2>3. QED BY <2>2 DEF InHand
<1>4. QED BY <1>2, <1>3

------------------------------------------------------------------------------
(* Rows move on *)

\* Nothing was paid out yet, or ever will be.
Unpaid == {"CREATED", "QUOTE_CONFIRMED", "AWAITING_PAYMENT", "PAYMENT_DETECTED",
           "PAYMENT_CONFIRMING", "EXPIRED", "CANCELLED"}

\* Orders come to an unpaid status from unpaid ones only.
LEMMA UnpaidBefore ==
  ASSUME NEW current, NEW target \in Unpaid, NEW actor,
         \/ IsTransitionAllowed(current, target, actor)
         \/ CanAdvance(current, target, actor)
  PROVE  current \in Unpaid
<1>1. CASE IsTransitionAllowed(current, target, actor)
  BY <1>1 DEF IsTransitionAllowed, TRANSITIONS, Unpaid
<1>2. CASE OnHappyPath(current) /\ OnHappyPath(target)
            /\ HAPPY_PATH[current] < HAPPY_PATH[target]
  BY <1>2 DEF OnHappyPath, HAPPY_PATH, Unpaid
<1>3. QED BY <1>1, <1>2 DEF CanAdvance

LEMMA UnpaidBeforeReport ==
  ASSUME NEW current, NEW target \in Unpaid, NEW actor,
         ReportApplies(current, target, actor) \/ EventApplies(current, target)
  PROVE  current \in Unpaid
<1>1. target # "REFUND_PROCESSING"
  BY DEF Unpaid
<1>2. QED BY <1>1, UnpaidBefore DEF ReportApplies, EventApplies

\* A walk takes at least one transition.
LEMMA WalkIsLong ==
  ASSUME NEW current, NEW target, NEW actor,
         ReportApplies(current, target, actor) \/ EventApplies(current, target)
  PROVE  AdvanceLength(current, target) > 0 /\ EventLength(current, target) > 0
<1>1. ASSUME NEW a, CanAdvance(current, target, a)
      PROVE  AdvanceLength(current, target) > 0
  <2>1. CASE OnHappyPath(current) /\ OnHappyPath(target)
    <3>1. /\ HAPPY_PATH[current] < HAPPY_PATH[target]
          /\ HAPPY_PATH[current] \in Nat /\ HAPPY_PATH[target] \in Nat
      BY <1>1, <2>1 DEF CanAdvance, OnHappyPath, HAPPY_PATH
    <3>2. QED BY <2>1, <3>1 DEF AdvanceLength
  <2>2. CASE ~(OnHappyPath(current) /\ OnHappyPath(target))
    BY <2>2 DEF AdvanceLength
  <2>3. QED BY <2>1, <2>2
<1>2. ASSUME NEW a, IsTransitionAllowed(current, target, a),
             target \notin PaymentProgress
      PROVE  AdvanceLength(current, target) > 0
  <2>1. CASE OnHappyPath(current) /\ OnHappyPath(target)
    <3>1. target \in {"CREATED", "QUOTE_CONFIRMED", "AWAITING_PAYMENT"}
      BY <1>2, <2>1 DEF OnHappyPath, HAPPY_PATH, PaymentProgress
    <3>2. \/ current = "CREATED" /\ target = "QUOTE_CONFIRMED"
          \/ current = "QUOTE_CONFIRMED" /\ target = "AWAITING_PAYMENT"
      BY <1>2, <3>1 DEF IsTransitionAllowed, TRANSITIONS
    <3>3. QED BY <2>1, <3>2 DEF AdvanceLength, HAPPY_PATH
  <2>2. CASE ~(OnHappyPath(current) /\ OnHappyPath(target))
    BY <2>2 DEF AdvanceLength
  <2>3. QED BY <2>1, <2>2
<1>3. ASSUME target = "REFUND_PROCESSING"
      PROVE  AdvanceLength(current, target) > 0
  BY <1>3 DEF AdvanceLength, OnHappyPath, HAPPY_PATH
<1>4. QED BY <1>1, <1>2, <1>3 DEF ReportApplies, EventApplies, EventLength

\* An open row moves on to a newer version, and to an unpaid status from one.
MovesOn(o) ==
  /\ order'[o].version > order[o].version
  /\ order[o].status \notin ClosedStatuses
  /\ order'[o].status \in Unpaid => order[o].status \in Unpaid

LEMMA WriteMovesOn ==
  ASSUME IInv, NEW o \in Orders, NEW seen, NEW target, NEW n \in Nat, n > 0,
         WriteStatus(o, seen, target, n),
         order'[o] # order[o] => seen = order[o],
         seen.status \notin ClosedStatuses,
         target \in Unpaid => seen.status \in Unpaid
  PROVE  \A x \in Orders : order'[x] = order[x] \/ MovesOn(x)
<1>1. order \in [Orders -> Row] /\ order[o] \in Row
  BY DEF IInv, TypeOK
<1>2. order'[o].status = target /\ order'[o].version = seen.version + n
  BY <1>1 DEF WriteStatus
<1>3. order[o].version \in Nat
  BY <1>1 DEF Row
<1>4. order'[o] = order[o] \/ MovesOn(o)
  BY <1>2, <1>3 DEF MovesOn
<1>5. \A x \in Orders : x # o => order'[x] = order[x]
  BY <1>1 DEF WriteStatus
<1>6. QED BY <1>4, <1>5

LEMMA RequestMovesOn ==
  ASSUME IInv, RowsAreLocked, NEW r \in Requests,
         \/ CancelCommit(r) \/ DisputeCommit(r) \/ DisputeAgainCommit(r)
         \/ AdminTransitionCommit(r) \/ RefundAgainCommit(r)
         \/ AdminRefundCommit(r) \/ WebhookCommit(r) \/ WebhookRaises(r)
  PROVE  \A x \in Orders : order'[x] = order[x] \/ MovesOn(x)
<1> DEFINE o == InHand(r)
           seen == Seen(r)
           current == seen.status
<1>1. /\ o \in Orders /\ GoodRecord(session[r], reward)
      /\ order'[o] # order[o] => seen = order[o]
  <2>1. r \in Sessions /\ session[r].op \in RequestOps /\ Close(r)
    BY DEF Sessions, RequestOps, Running, CancelCommit, DisputeCommit,
           DisputeAgainCommit, AdminTransitionCommit, RefundAgainCommit,
           AdminRefundCommit, WebhookCommit, WebhookRaises
  <2>2. session'[r] # session[r] /\ o \in Orders
    BY <2>1, InHandFacts, CloseIsAStep
  <2>3. QED BY <2>1, <2>2, InHandFacts DEF RowsAreLocked, HasCurrent, Seen, InHand
<1>2. CASE UNCHANGED order
  BY <1>2
<1>3. CASE CancelCommit(r)
  <2>1. WriteStatus(o, seen, "CANCELLED", 1)
    BY <1>3 DEF CancelCommit
  <2>2. current \in CANCELLABLE_STATUSES
    BY <1>1, <1>3 DEF CancelCommit, Running, GoodRecord, Seen, InHand
  <2>3. current \in Unpaid /\ current \notin ClosedStatuses
    BY <2>2 DEF CANCELLABLE_STATUSES, Unpaid, ClosedStatuses
  <2>4. 1 \in Nat /\ 1 > 0
    OBVIOUS
  <2>5. QED BY <1>1, <2>1, <2>3, <2>4, WriteMovesOn
<1>4. CASE DisputeCommit(r)
  <2>1. WriteStatus(o, seen, "DISPUTED", 1)
    BY <1>4 DEF DisputeCommit
  <2>2. "DISPUTED" \notin Unpaid /\ 1 \in Nat /\ 1 > 0
    BY DEF Unpaid
  <2>3. \E actor \in {"USER", "ADMIN"} :
          IsTransitionAllowed(current, "DISPUTED", actor)
    BY <1>1, <1>4 DEF DisputeCommit, Running, GoodRecord, Seen, InHand
  <2>4. current \notin ClosedStatuses
    BY <2>3, TransitionFacts
  <2>5. QED BY <1>1, <2>1, <2>2, <2>4, WriteMovesOn
<1>5. CASE DisputeAgainCommit(r)
  BY <1>2, <1>5 DEF DisputeAgainCommit
<1>6. CASE AdminTransitionCommit(r)
  <2> DEFINE target == session[r].arg
  <2>1. CASE current = target
    BY <1>2, <1>6, <2>1 DEF AdminTransitionCommit
  <2>2. CASE current # target
    <3>1. WriteStatus(o, seen, target, 1)
      BY <1>6, <2>2 DEF AdminTransitionCommit
    <3>2. IsTransitionAllowed(current, target, "ADMIN")
      <4>1. target \notin {"liability", "no_liability"}
        BY <1>6 DEF AdminTransitionCommit, OrderStatus
      <4>2. QED BY <1>1, <1>6, <2>2, <4>1
                DEF GoodRecord, AdminTransitionCommit, Running, Seen, InHand
    <3>3. /\ target \in Unpaid => current \in Unpaid
          /\ current \notin ClosedStatuses
      BY <3>2, UnpaidBefore, TransitionFacts
    <3>4. 1 \in Nat /\ 1 > 0
      OBVIOUS
    <3>5. QED BY <1>1, <3>1, <3>3, <3>4, WriteMovesOn
  <2>3. QED BY <2>1, <2>2
<1>7. CASE AdminRefundCommit(r)
  <2>1. CASE current \in DOMAIN RefundChain
    <3>1. WriteStatus(o, seen, "REFUNDED", RefundChain[current])
      BY <1>7, <2>1 DEF AdminRefundCommit
    <3>2. RefundChain[current] \in Nat /\ RefundChain[current] > 0
      BY <2>1 DEF RefundChain
    <3>3. "REFUNDED" \notin Unpaid /\ current \notin ClosedStatuses
      BY <2>1 DEF Unpaid, RefundChain, ClosedStatuses
    <3>4. QED BY <1>1, <3>1, <3>2, <3>3, WriteMovesOn
  <2>2. CASE current \notin DOMAIN RefundChain
    BY <1>2, <1>7, <2>2 DEF AdminRefundCommit
  <2>3. QED BY <2>1, <2>2
<1>8. CASE WebhookCommit(r)
  <2> DEFINE word == session[r].arg
             target == EVENT_STATUS_MAP[word]
             n == EventLength(current, target)
  <2>1. word \in EventWords
    BY <1>1, <1>8, InputsAssumption DEF GoodRecord, WebhookCommit, Running
  <2>2. CASE target # current /\ EventApplies(current, target)
    <3>1. WriteStatus(o, seen, target, n)
      BY <1>8, <2>2 DEF WebhookCommit
    <3>2. n \in Nat /\ n > 0
      BY <2>1, <2>2, ReportFacts, WalkIsLong
    <3>3. /\ target \in Unpaid => current \in Unpaid
          /\ current \notin ClosedStatuses
      BY <2>1, <2>2, UnpaidBeforeReport, ReportFacts
    <3>4. QED BY <1>1, <3>1, <3>2, <3>3, WriteMovesOn
  <2>3. CASE target = current \/ ~EventApplies(current, target)
    BY <1>2, <1>8, <2>3 DEF WebhookCommit
  <2>4. QED BY <2>2, <2>3
<1>9. CASE RefundAgainCommit(r)
  BY <1>2, <1>9 DEF RefundAgainCommit
<1>10. CASE WebhookRaises(r)
  <2> DEFINE n == EventLength(current, "COMPLETED")
  <2>1. session[r].arg \in EventWords
    BY <1>1, <1>10, InputsAssumption DEF GoodRecord, WebhookRaises, Running
  <2>2. /\ EVENT_STATUS_MAP[session[r].arg] = "COMPLETED"
        /\ EventApplies(current, "COMPLETED")
        /\ WriteStatus(o, seen, "COMPLETED", n)
    BY <1>10 DEF WebhookRaises
  <2>3. n \in Nat /\ n > 0 /\ current \notin ClosedStatuses
    BY <2>1, <2>2, ReportFacts, WalkIsLong
  <2>4. "COMPLETED" \notin Unpaid
    BY DEF Unpaid
  <2>5. QED BY <1>1, <2>2, <2>3, <2>4, WriteMovesOn
<1>11. QED BY <1>3, <1>4, <1>5, <1>6, <1>7, <1>8, <1>9, <1>10

LEMMA WorkerMovesOn ==
  ASSUME IInv, RowsAreLocked, NEW w \in Workers, ExpireCommit(w) \/ PollCommit(w)
  PROVE  \A x \in Orders : order'[x] = order[x] \/ MovesOn(x)
<1>1. CASE ExpireCommit(w)
  <2> DEFINE stale == session[w].todo
  <2>1. /\ w \in Sessions /\ session[w].op = "expire"
        /\ stale \in SUBSET Orders /\ stale \subseteq Held(session[w])
        /\ \A o \in stale : session[w].seen[o].status = "AWAITING_PAYMENT"
    BY <1>1 DEF ExpireCommit, Running, Sessions, IInv, TypeOK, SessionRecord,
                SessionInv, GoodRecord, Held
  <2>2. ASSUME NEW x \in Orders, x \in stale, order'[x] # order[x]
        PROVE  MovesOn(x)
    <3>1. session'[w] # session[w]
      BY <1>1, <2>1, CloseIsAStep DEF ExpireCommit
    <3>2. session[w].seen[x] = order[x] /\ order[x] \in Row
      BY <2>1, <2>2, <3>1 DEF RowsAreLocked, HasCurrent, IInv, TypeOK
    <3>3. order'[x] = [status |-> "EXPIRED", version |-> order[x].version + 1]
      BY <1>1, <2>2, <3>2 DEF ExpireCommit
    <3>4. order[x].status = "AWAITING_PAYMENT" /\ order[x].version \in Nat
      BY <2>1, <2>2, <3>2 DEF Row
    <3>5. QED BY <3>3, <3>4 DEF MovesOn, Unpaid, ClosedStatuses
  <2>3. ASSUME NEW x \in Orders, x \notin stale PROVE order'[x] = order[x]
    BY <1>1, <2>3 DEF ExpireCommit
  <2>4. QED BY <2>2, <2>3
<1>2. CASE PollCommit(w)
  <2> DEFINE o == InHand(w)
             seen == Seen(w)
             current == seen.status
             word == session[w].arg
             target == EVENT_STATUS_MAP[word]
             n == AdvanceLength(current, target)
  <2>1. o \in Orders /\ (order'[o] # order[o] => seen = order[o])
    <3>1. session'[w] # session[w]
      BY <1>2, PassIsAStep DEF PollCommit
    <3>2. QED BY <1>2, <3>1, PolledFacts
              DEF PollCommit, RowsAreLocked, HasCurrent, Seen, InHand
  <2>2. word \in EventWords /\ ReportApplies(current, target, "SYSTEM")
    BY <1>2 DEF PollCommit, AnswerApplies
  <2>3. WriteStatus(o, seen, target, n)
    BY <1>2 DEF PollCommit
  <2>4. n \in Nat /\ n > 0
    BY <2>2, ReportFacts, WalkIsLong
  <2>5. /\ target \in Unpaid => current \in Unpaid
        /\ current \notin ClosedStatuses
    BY <2>2, UnpaidBeforeReport, ReportFacts
  <2>6. QED BY <2>1, <2>3, <2>4, <2>5, WriteMovesOn
<1>3. QED BY <1>1, <1>2

LEMMA RowsMoveOn ==
  ASSUME IInv, [Next]_vars, [RowsAreLocked]_vars
  PROVE  \A x \in Orders : order'[x] = order[x] \/ MovesOn(x)
<1>1. CASE UNCHANGED order
  BY <1>1
<1>2. ASSUME RowsAreLocked, NEW r \in Requests, RequestNext(r)
      PROVE  \A x \in Orders : order'[x] = order[x] \/ MovesOn(x)
  <2>1. \/ UNCHANGED order
        \/ CancelCommit(r) \/ DisputeCommit(r) \/ DisputeAgainCommit(r)
        \/ AdminTransitionCommit(r) \/ RefundAgainCommit(r)
        \/ AdminRefundCommit(r) \/ WebhookCommit(r) \/ WebhookRaises(r)
    BY <1>2 DEF RequestNext, CancelStart, DisputeStart, AdminTransitionStart,
                AdminRefundStart, WebhookStart, CancelAtPartner,
                DisputeReadsReward, RefundAgainReads, RefundAtPartner
  <2>2. QED BY <1>1, <1>2, <2>1, RequestMovesOn
<1>3. ASSUME RowsAreLocked, NEW w \in Workers, WorkerNext(w)
      PROVE  \A x \in Orders : order'[x] = order[x] \/ MovesOn(x)
  <2>1. UNCHANGED order \/ ExpireCommit(w) \/ PollCommit(w)
    BY <1>3 DEF WorkerNext, ExpireStart, PollStart, PollSkip, PollAsk,
                PollAskFails
  <2>2. QED BY <1>1, <1>3, <2>1, WorkerMovesOn
<1>4. ASSUME Environment PROVE UNCHANGED order
  BY <1>4 DEF Environment, Abort, RequisitesLapse, PartnerProgress
<1>5. ASSUME UNCHANGED vars PROVE UNCHANGED order
  BY <1>5 DEF vars
<1>6. CASE Next /\ RowsAreLocked
  BY <1>1, <1>2, <1>3, <1>4, <1>6 DEF Next
<1>7. QED BY <1>1, <1>5, <1>6

\* The UPDATE checks the version it has read: that would be enough for every
\* change of a row to move its version up, however sessions overlap.
THEOREM LockedVersionsGrow == Spec /\ OptimisticLocking => VersionOnlyGrows
<1>1. IInv /\ [Next]_vars /\ [RowsAreLocked]_vars =>
        [\A o \in Orders :
           order'[o] # order[o] => order'[o].version > order[o].version]_order
  BY RowsMoveOn DEF MovesOn
<1>2. QED BY <1>1, Inductive, PTL DEF Spec, OptimisticLocking, VersionOnlyGrows

\* It would also be enough for EXPIRED, CANCELLED and REFUNDED to be final.
THEOREM LockedClosedStaysClosed ==
  Spec /\ OptimisticLocking => ClosedStaysClosed
<1>1. IInv /\ [Next]_vars /\ [RowsAreLocked]_vars =>
        [\A o \in Orders :
           order[o].status \in {"EXPIRED", "CANCELLED", "REFUNDED"}
           => order'[o].status = order[o].status]_order
  BY RowsMoveOn DEF MovesOn, ClosedStatuses
<1>2. QED BY <1>1, Inductive, PTL DEF Spec, OptimisticLocking, ClosedStaysClosed

\* A step that changes a row is of a session that holds the order.
LEMMA RequestHolds ==
  ASSUME IInv, NEW r \in Requests, RequestNext(r),
         NEW o \in Orders, order'[o] # order[o]
  PROVE  /\ r \in Sessions /\ o \in Held(session[r])
         /\ \A s \in Sessions \ {r} : session'[s] = session[s]
<1>1. \/ CancelCommit(r) \/ DisputeCommit(r)
      \/ AdminTransitionCommit(r) \/ AdminRefundCommit(r)
      \/ WebhookCommit(r) \/ WebhookRaises(r)
  BY DEF RequestNext, CancelStart, DisputeStart, AdminTransitionStart,
         AdminRefundStart, WebhookStart, CancelAtPartner, DisputeReadsReward,
         DisputeAgainCommit, RefundAgainReads, RefundAgainCommit,
         RefundAtPartner
<1>2. /\ r \in Sessions /\ session[r].op \in RequestOps /\ Close(r)
      /\ \E target, n : WriteStatus(InHand(r), Seen(r), target, n)
  BY <1>1 DEF Sessions, RequestOps, Running, CancelCommit, DisputeCommit,
              AdminTransitionCommit, AdminRefundCommit, WebhookCommit,
              WebhookRaises
<1>3. InHand(r) \in Orders
  BY <1>2, InHandFacts
<1>4. o = InHand(r)
  BY <1>2 DEF WriteStatus, IInv, TypeOK
<1>5. o \in Held(session[r])
  BY <1>3, <1>4, OrdersAssumption DEF Held, InHand
<1>6. QED BY <1>2, <1>5 DEF Close, IInv, TypeOK

LEMMA WorkerHolds ==
  ASSUME IInv, NEW w \in Workers, WorkerNext(w),
         NEW o \in Orders, order'[o] # order[o]
  PROVE  /\ w \in Sessions /\ o \in Held(session[w])
         /\ \A s \in Sessions \ {w} : session'[s] = session[s]
<1>1. ExpireCommit(w) \/ PollCommit(w)
  BY DEF WorkerNext, ExpireStart, PollStart, PollSkip, PollAsk, PollAskFails
<1>2. w \in Sessions
  BY DEF Sessions
<1>3. CASE ExpireCommit(w)
  <2>1. o \in session[w].todo
    BY <1>3 DEF ExpireCommit, IInv, TypeOK
  <2>2. QED BY <1>2, <1>3, <2>1 DEF ExpireCommit, Close, Held, IInv, TypeOK
<1>4. CASE PollCommit(w)
  <2>1. o = InHand(w) /\ o # NoOrder
    BY <1>4 DEF PollCommit, WriteStatus, IInv, TypeOK
  <2>2. \A s \in Sessions \ {w} : session'[s] = session[s]
    BY <1>4 DEF PollCommit, PollNext, Close, IInv, TypeOK
  <2>3. QED BY <1>2, <2>1, <2>2 DEF Held, InHand
<1>5. QED BY <1>1, <1>3, <1>4

\* Handlers that do not overlap write over what they have read.
LEMMA SerialIsLocked == OneAtATime => (Spec => OptimisticLocking)
<1> SUFFICES ASSUME OneAtATime PROVE Spec => OptimisticLocking
  OBVIOUS
<1>1. ASSUME IInv, Next, NEW s \in Sessions, NEW o \in Orders,
             order'[o] # order[o], session'[s] # session[s]
      PROVE  session[s].seen[o] = order[o]
  <2>1. Environment => order' = order
    BY DEF Environment, Abort, RequisitesLapse, PartnerProgress
  <2>2. o \in Held(session[s])
    BY <1>1, <2>1, RequestHolds, WorkerHolds DEF Next
  <2>3. QED BY <1>1, <2>2 DEF IInv, SerialInv
<1>2. IInv /\ [Next]_vars => [RowsAreLocked]_vars
  BY <1>1 DEF RowsAreLocked, HasCurrent
<1>3. QED BY <1>2, Inductive, PTL DEF Spec, OptimisticLocking

\* When handlers do not overlap, every change of a row moves its version up.
THEOREM SerialVersionsGrow == OneAtATime => (Spec => VersionOnlyGrows)
BY SerialIsLocked, LockedVersionsGrow

\* When handlers do not overlap, EXPIRED, CANCELLED and REFUNDED orders stay
\* as they are.
THEOREM SerialClosedStaysClosed == OneAtATime => (Spec => ClosedStaysClosed)
BY SerialIsLocked, LockedClosedStaysClosed

------------------------------------------------------------------------------
(* What a step posts *)

\* The four things a step can do to the books of an order.
Untouched(o) ==
  /\ ledger'[o] = ledger[o] /\ reward'[o] = reward[o]
  /\ order'[o].status = "REFUNDED" => order[o].status = "REFUNDED"

Completed(o) ==
  /\ order'[o].status = "COMPLETED"
  /\ ledger'[o] = PostEntries(ledger[o],
       CompletedEntries(ServiceFee[o], PartnerFee[o], NetworkFee[o],
                        AccruedReward(o)))

Refunded(o) ==
  /\ order'[o].status = "REFUNDED"
  /\ ledger'[o] = PostEntries(ledger[o], RefundEntries(ServiceFee[o], ledger[o]))
  /\ reward'[o] = CancelReward(reward[o])

\* Frozen by the dispute of a session, which moves the order or found it
\* disputed when it read it.
Frozen(o) ==
  /\ ledger'[o] = ledger[o] /\ reward[o] # "NONE"
  /\ \/ order'[o].status = "DISPUTED"
     \/ /\ order'[o] = order[o]
        /\ \E s \in Sessions : /\ session'[s] # session[s]
                               /\ session[s].seen[o].status = "DISPUTED"

Touches(o) == Untouched(o) \/ Completed(o) \/ Refunded(o) \/ Frozen(o)

\* An admin session that has read a refunded order finds it refunded, and what
\* it has not found on the books is still not there.
RefundedStays ==
  \A r \in Requests :
    session[r].op = "admin_transition" /\ Seen(r).status = "REFUNDED" =>
      /\ order[InHand(r)].status = "REFUNDED"
      /\ NotFoundStands(session[r], ledger)

LEMMA SideEffectsTouch ==
  ASSUME IInv, NEW o \in Orders, NEW previous, NEW target,
         SideEffects(o, previous, target),
         \/ order'[o].status = target
         \/ /\ order'[o] = order[o]
            /\ target = previous /\ target # "REFUNDED",
         \A x \in Orders \ {o} : order'[x] = order[x]
  PROVE  \A x \in Orders : Touches(x)
<1>1. DOMAIN ledger = Orders /\ reward \in [Orders -> RewardStatus]
  BY DEF IInv, TypeOK
<1>2. ASSUME NEW x \in Orders \ {o} PROVE Untouched(x)
  BY <1>1 DEF SideEffects, Untouched, books
<1>3. CASE target = "COMPLETED" /\ previous # "COMPLETED"
  BY <1>1, <1>2, <1>3 DEF SideEffects, Completed, Touches
<1>4. CASE target = "REFUNDED"
  BY <1>1, <1>2, <1>4 DEF SideEffects, Refunded, Touches
<1>5. CASE target # "REFUNDED" /\ (target = "COMPLETED" => previous = "COMPLETED")
  <2>1. Untouched(o)
    BY <1>5 DEF SideEffects, Untouched, books
  <2>2. QED BY <1>2, <2>1 DEF Touches
<1>6. QED BY <1>3, <1>4, <1>5

\* An UPDATE followed by its side effects.
LEMMA WriteTouches ==
  ASSUME IInv, NEW o \in Orders, NEW seen, NEW target, NEW n, NEW previous,
         WriteStatus(o, seen, target, n), SideEffects(o, previous, target)
  PROVE  \A x \in Orders : Touches(x)
<1>1. order'[o].status = target /\ \A x \in Orders \ {o} : order'[x] = order[x]
  BY DEF IInv, TypeOK, WriteStatus
<1>2. QED BY <1>1, SideEffectsTouch

\* Rows move to a status other than REFUNDED, the books stay.
LEMMA BooksAlone ==
  ASSUME UNCHANGED books,
         \A x \in Orders : order'[x] = order[x] \/ order'[x].status # "REFUNDED"
  PROVE  \A x \in Orders : Touches(x)
BY DEF Touches, Untouched, books

LEMMA RequestTouches ==
  ASSUME IInv, RefundedStays, NEW r \in Requests,
         \/ CancelCommit(r) \/ DisputeCommit(r) \/ DisputeAgainCommit(r)
         \/ AdminTransitionCommit(r) \/ RefundAgainCommit(r)
         \/ AdminRefundCommit(r) \/ WebhookCommit(r) \/ WebhookRaises(r)
  PROVE  \A x \in Orders : Touches(x)
<1> DEFINE o == InHand(r)
           current == Seen(r).status
<1>1. /\ r \in Sessions /\ o \in Orders /\ GoodRecord(session[r], reward)
      /\ session'[r] # session[r]
  <2>1. r \in Sessions /\ session[r].op \in RequestOps /\ Close(r)
    BY DEF Sessions, RequestOps, Running, CancelCommit, DisputeCommit,
           DisputeAgainCommit, AdminTransitionCommit, RefundAgainCommit,
           AdminRefundCommit, WebhookCommit, WebhookRaises
  <2>2. QED BY <2>1, InHandFacts, CloseIsAStep
<1>2. /\ DOMAIN ledger = Orders /\ reward \in [Orders -> RewardStatus]
      /\ order \in [Orders -> Row]
  BY DEF IInv, TypeOK
<1>3. CASE CancelCommit(r)
  BY <1>1, <1>2, <1>3, BooksAlone DEF CancelCommit, WriteStatus
<1>4. CASE DisputeCommit(r)
  <2>1. ASSUME NEW x \in Orders PROVE Untouched(x) \/ Frozen(x)
    BY <1>1, <1>2, <1>4, <2>1
    DEF DisputeCommit, WriteStatus, FreezeReward, Untouched, Frozen
  <2>2. QED BY <2>1 DEF Touches
<1>5. CASE DisputeAgainCommit(r)
  <2>1. session[r].arg = "CONFIRMED" => reward[o] # "NONE"
    BY <1>1, <1>5 DEF GoodRecord, DisputeAgainCommit, Running, InHand
  <2>2. ASSUME NEW x \in Orders PROVE Untouched(x) \/ Frozen(x)
    BY <1>1, <1>2, <1>5, <2>1, <2>2
    DEF DisputeAgainCommit, Untouched, Frozen, Seen, InHand
  <2>3. QED BY <2>2 DEF Touches
<1>6. CASE AdminTransitionCommit(r)
  <2> DEFINE target == session[r].arg
  <2>1. SideEffects(o, current, target)
    BY <1>6 DEF AdminTransitionCommit
  <2>2. CASE current # target
    BY <1>1, <1>6, <2>1, <2>2, WriteTouches DEF AdminTransitionCommit
  <2>3. CASE current = target
    <3>1. order' = order
      BY <1>6, <2>3 DEF AdminTransitionCommit
    <3>2. target # "REFUNDED"
      BY <1>6, <2>3 DEF AdminTransitionCommit
    <3>3. QED BY <1>1, <2>1, <2>3, <3>1, <3>2, SideEffectsTouch
  <2>4. QED BY <2>2, <2>3
<1>7. CASE AdminRefundCommit(r)
  <2>1. CASE current \in DOMAIN RefundChain
    BY <1>1, <1>7, <2>1, WriteTouches DEF AdminRefundCommit
  <2>2. CASE current \notin DOMAIN RefundChain
    BY <1>7, <2>2, BooksAlone DEF AdminRefundCommit
  <2>3. QED BY <2>1, <2>2
<1>8. CASE WebhookCommit(r)
  <2> DEFINE target == EVENT_STATUS_MAP[session[r].arg]
  <2>1. CASE target # current /\ EventApplies(current, target)
    BY <1>1, <1>8, <2>1, WriteTouches DEF WebhookCommit
  <2>2. CASE target = current \/ ~EventApplies(current, target)
    BY <1>8, <2>2, BooksAlone DEF WebhookCommit
  <2>3. QED BY <2>1, <2>2
<1>9. CASE RefundAgainCommit(r)
  <2>1. /\ current = "REFUNDED" /\ session[r].op = "admin_transition"
        /\ session[r].arg \in {"liability", "no_liability"}
    <3>1. session[r].arg \notin OrderStatus
      BY <1>9 DEF RefundAgainCommit, OrderStatus
    <3>2. QED BY <1>1, <1>9, <3>1
              DEF RefundAgainCommit, Running, GoodRecord, Seen, InHand
  <2>2. /\ order[o].status = "REFUNDED"
        /\ session[r].arg = "no_liability" =>
             "referral_liability" \notin DOMAIN ledger[o]
    BY <2>1 DEF RefundedStays, NotFoundStands, InHand
  <2>3. RefundEntries(ServiceFee[o],
                      IF session[r].arg = "liability" THEN ledger[o]
                      ELSE EmptyLedger) = RefundEntries(ServiceFee[o], ledger[o])
    BY <2>1, <2>2, NothingOwed
  <2>4. Refunded(o)
    BY <1>1, <1>2, <1>9, <2>2, <2>3 DEF RefundAgainCommit, Refunded
  <2>5. \A x \in Orders \ {o} : Untouched(x)
    BY <1>2, <1>9 DEF RefundAgainCommit, Untouched
  <2>6. QED BY <2>4, <2>5 DEF Touches
<1>10. CASE WebhookRaises(r)
  <2>1. \A x \in Orders : order'[x] = order[x] \/ order'[x].status # "REFUNDED"
    BY <1>1, <1>2, <1>10 DEF WebhookRaises, WriteStatus
  <2>2. QED BY <1>10, <2>1, BooksAlone DEF WebhookRaises
<1>11. QED BY <1>3, <1>4, <1>5, <1>6, <1>7, <1>8, <1>9, <1>10

\* Every step completes, refunds or freezes an order, or leaves it alone.
LEMMA StepTouches ==
  ASSUME IInv, RefundedStays, [Next]_vars
  PROVE  \A x \in Orders : Touches(x)
<1>1. CASE UNCHANGED <<order, books>>
  BY <1>1, BooksAlone
<1>2. ASSUME NEW r \in Requests, RequestNext(r)
      PROVE  \A x \in Orders : Touches(x)
  <2>1. \/ UNCHANGED <<order, books>>
        \/ CancelCommit(r) \/ DisputeCommit(r) \/ DisputeAgainCommit(r)
        \/ AdminTransitionCommit(r) \/ RefundAgainCommit(r)
        \/ AdminRefundCommit(r) \/ WebhookCommit(r) \/ WebhookRaises(r)
    BY <1>2 DEF RequestNext, CancelStart, DisputeStart, AdminTransitionStart,
                AdminRefundStart, WebhookStart, CancelAtPartner,
                DisputeReadsReward, RefundAgainReads, RefundAtPartner
  <2>2. QED BY <1>1, <2>1, RequestTouches
<1>3. ASSUME NEW w \in Workers, WorkerNext(w)
      PROVE  \A x \in Orders : Touches(x)
  <2>1. UNCHANGED <<order, books>> \/ ExpireCommit(w) \/ PollCommit(w)
    BY <1>3 DEF WorkerNext, ExpireStart, PollStart, PollSkip, PollAsk,
                PollAskFails
  <2>2. CASE ExpireCommit(w)
    BY <2>2, BooksAlone DEF ExpireCommit
  <2>3. CASE PollCommit(w)
    BY <2>3, PolledFacts, WriteTouches DEF PollCommit
  <2>4. QED BY <1>1, <2>1, <2>2, <2>3
<1>4. ASSUME Environment PROVE UNCHANGED <<order, books>>
  BY <1>4 DEF Environment, Abort, RequisitesLapse, PartnerProgress
<1>5. ASSUME UNCHANGED vars PROVE UNCHANGED <<order, books>>
  BY <1>5 DEF vars, books
<1>6. CASE Next
  BY <1>1, <1>2, <1>3, <1>4, <1>6 DEF Next
<1>7. QED BY <1>1, <1>5, <1>6

\* A session that is in an admin transition after a step was before, or has
\* just read its order or the books.
LEMMA AdminReads ==
  ASSUME IInv, [Next]_vars, NEW r \in Requests,
         session'[r].op = "admin_transition"
  PROVE  \/ session'[r] = session[r]
         \/ RefundAgainReads(r)
         \/ \E o \in Orders : /\ session'[r].order = o
                              /\ session'[r].seen[o] = order[o]
                              /\ session'[r].arg \in OrderStatus
                              /\ order'[o] = order[o]
<1>1. session \in [Sessions -> SessionRecord] /\ r \in Sessions
  BY DEF IInv, TypeOK, Sessions
<1>2. ASSUME NEW s \in Sessions, NEW op, NEW read, NEW inHand, NEW arg,
             Begin(s, op, read, inHand, arg), op # "admin_transition"
      PROVE  session'[r] = session[r]
  BY <1>1, <1>2 DEF Begin
<1>3. ASSUME NEW s \in Sessions, Close(s) PROVE session'[r] = session[r]
  BY <1>1, <1>3 DEF Close, Idle
<1>4. ASSUME NEW s \in Requests, RequestNext(s),
             ~\E o \in Orders, target \in AdminTargets :
                AdminTransitionStart(s, o, target)
      PROVE  session'[r] = session[r] \/ RefundAgainReads(r)
  <2>1. s \in Sessions
    BY DEF Sessions
  <2>2. CASE RefundAgainReads(s)
    BY <1>1, <2>1, <2>2 DEF RefundAgainReads
  <2>3. CASE CancelAtPartner(s) \/ DisputeReadsReward(s) \/ RefundAtPartner(s)
    BY <1>1, <2>1, <2>3
    DEF CancelAtPartner, DisputeReadsReward, RefundAtPartner, Running,
        SessionRecord
  <2>4. QED BY <1>2, <1>3, <1>4, <2>1, <2>2, <2>3
            DEF RequestNext, CancelStart, DisputeStart, AdminRefundStart,
                WebhookStart, CancelCommit, DisputeCommit, DisputeAgainCommit,
                AdminTransitionCommit, RefundAgainCommit, AdminRefundCommit,
                WebhookCommit, WebhookRaises
<1>5. ASSUME NEW s \in Requests, NEW o \in Orders, NEW target \in AdminTargets,
             AdminTransitionStart(s, o, target)
      PROVE  \/ session'[r] = session[r]
             \/ /\ session'[r].order = o /\ session'[r].seen[o] = order[o]
                /\ session'[r].arg \in OrderStatus
                /\ order'[o] = order[o]
  BY <1>1, <1>5, InputsAssumption DEF AdminTransitionStart, Begin
<1>6. ASSUME NEW w \in Workers, WorkerNext(w) PROVE session'[r] = session[r]
  <2>1. w \in Sessions /\ w # r
    BY SessionsAssumption DEF Sessions
  <2>2. QED BY <1>1, <1>6, <2>1
            DEF WorkerNext, ExpireStart, ExpireCommit, PollStart, PollCommit,
                PollSkip, PollNext, PollAsk, PollAskFails, Begin, Close
<1>7. ASSUME Environment PROVE session'[r] = session[r]
  BY <1>3, <1>7 DEF Environment, Abort, RequisitesLapse, PartnerProgress
<1>8. QED BY <1>4, <1>5, <1>6, <1>7 DEF Next, vars

------------------------------------------------------------------------------
(* The books when rows are locked *)

\* An unpaid order is off the books.
UnpaidInv ==
  \A o \in Orders : order[o].status \in Unpaid =>
    ledger[o] = EmptyLedger /\ reward[o] = "NONE"

\* The refund on the books is that of a refunded order, and reversed the
\* share that is on the books.
LedgerInv ==
  \A o \in Orders :
    /\ Proved!RefundMatches(ledger[o], ServiceFee[o], Proved!Share(o))
    /\ Proved!RefundKeys \cap DOMAIN ledger[o] # {} => order[o].status = "REFUNDED"

LockedInv == IInv /\ Proved!IInv /\ RefundedStays /\ UnpaidInv /\ LedgerInv

\* OrderBooksProofs computes postings with the same operators.
LEMMA SameProvedOperators ==
  /\ \A l, e : Proved!PostEntries(l, e) = PostEntries(l, e)
  /\ \A fee, l : Proved!RefundEntries(fee, l) = RefundEntries(fee, l)
  /\ \A l : Proved!IsLedger(l) <=> IsLedger(l)
  /\ \A l : Proved!Residual(l) = Residual(l)
BY DEF Proved!PostEntries, PostEntries, Proved!RefundEntries, RefundEntries,
       Proved!Amount, Amount, Proved!IsLedger, IsLedger,
       Proved!PostingKeys, PostingKeys, Proved!Residual, Residual,
       Proved!RecognitionSum, RecognitionSum, Proved!RefundSum, RefundSum

\* What OrderBooksProofs knows of the ledger of an order.
LEMMA ProvedFacts ==
  ASSUME Proved!IInv, NEW o \in Orders
  PROVE  /\ ServiceFee[o] \in Nat /\ Proved!Share(o) \in Nat
         /\ Proved!IsLedger(ledger[o])
         /\ Proved!RecognitionShape(ledger[o], ServiceFee[o], Proved!Share(o))
         /\ Proved!RefundShape(ledger[o], ServiceFee[o], Proved!Share(o))
BY BooksAssumed, Proved!ShareFacts
DEF Proved!IInv, Proved!TypeOK, Proved!OrderInv

LEMMA LockedInit == Init => RefundedStays /\ UnpaidInv /\ LedgerInv
<1> SUFFICES ASSUME Init PROVE RefundedStays /\ UnpaidInv /\ LedgerInv
  OBVIOUS
<1>1. RefundedStays
  BY DEF Init, RefundedStays, Idle, Sessions
<1>2. UnpaidInv
  BY DEF Init, UnpaidInv
<1>3. LedgerInv
  BY DEF Init, LedgerInv, EmptyLedger, Proved!RefundMatches
<1>4. QED BY <1>1, <1>2, <1>3

LEMMA KeepsRefundedStays ==
  ASSUME LockedInv, [Next]_vars, [RowsAreLocked]_vars
  PROVE  RefundedStays'
<1> SUFFICES ASSUME NEW r \in Requests,
                    session'[r].op = "admin_transition",
                    Seen(r)'.status = "REFUNDED"
             PROVE  /\ order'[InHand(r)'].status = "REFUNDED"
                    /\ NotFoundStands(session'[r], ledger')
  BY DEF RefundedStays
<1>1. \A x \in Orders : order'[x] = order[x] \/ MovesOn(x)
  BY RowsMoveOn DEF LockedInv
<1>2. CASE session'[r] = session[r]
  <2> DEFINE o == InHand(r)
  <2>1. /\ order[o].status = "REFUNDED" /\ InHand(r)' = o
        /\ NotFoundStands(session[r], ledger)
    BY <1>2 DEF LockedInv, RefundedStays, Seen, InHand
  <2>2. o \in Orders
    BY <1>2, InHandFacts DEF LockedInv, RequestOps, Sessions
  <2>3. order'[o].status = "REFUNDED"
    BY <1>1, <2>1, <2>2 DEF MovesOn, ClosedStatuses
  <2>4. Touches(o) /\ ~Completed(o)
    BY <2>2, <2>3, StepTouches DEF LockedInv, Completed
  <2>5. "referral_liability" \in DOMAIN ledger'[o] =>
          "referral_liability" \in DOMAIN ledger[o]
    BY <2>4 DEF Touches, Untouched, Refunded, Frozen, PostEntries, RefundEntries
  <2>6. QED BY <1>2, <2>1, <2>3, <2>5 DEF NotFoundStands, InHand
<1>3. CASE RefundAgainReads(r)
  <2>1. session \in [Sessions -> SessionRecord] /\ r \in Sessions
    BY DEF LockedInv, IInv, TypeOK, Sessions
  <2>2. /\ UNCHANGED <<order, ledger>> /\ InHand(r)' = InHand(r)
        /\ session[r].op = "admin_transition" /\ Seen(r).status = "REFUNDED"
        /\ session'[r].arg = "no_liability" =>
             "referral_liability" \notin DOMAIN ledger[InHand(r)]
    BY <1>3, <2>1 DEF RefundAgainReads, Running, books, InHand, SessionRecord
  <2>3. QED BY <2>2 DEF LockedInv, RefundedStays, NotFoundStands, InHand
<1>4. CASE \E o \in Orders : /\ session'[r].order = o
                             /\ session'[r].seen[o] = order[o]
                             /\ session'[r].arg \in OrderStatus
                             /\ order'[o] = order[o]
  BY <1>4 DEF Seen, InHand, NotFoundStands, OrderStatus
<1>5. QED BY <1>2, <1>3, <1>4, AdminReads DEF LockedInv

LEMMA KeepsUnpaidInv ==
  ASSUME LockedInv, [Next]_vars, [RowsAreLocked]_vars
  PROVE  UnpaidInv'
<1> SUFFICES ASSUME NEW o \in Orders, order'[o].status \in Unpaid
             PROVE  ledger'[o] = EmptyLedger /\ reward'[o] = "NONE"
  BY DEF UnpaidInv
<1>1. order[o].status \in Unpaid
  BY RowsMoveOn DEF LockedInv, MovesOn
<1>2. ledger[o] = EmptyLedger /\ reward[o] = "NONE"
  BY <1>1 DEF LockedInv, UnpaidInv
<1>3. Touches(o)
  BY StepTouches DEF LockedInv
<1>4. QED BY <1>2, <1>3
          DEF Touches, Untouched, Completed, Refunded, Frozen, Unpaid

LEMMA KeepsLedgerInv ==
  ASSUME LockedInv, [Next]_vars, [RowsAreLocked]_vars
  PROVE  LedgerInv'
<1> DEFINE Matches(l, o) == Proved!RefundMatches(l, ServiceFee[o], Proved!Share(o))
<1> SUFFICES ASSUME NEW o \in Orders
             PROVE  /\ Matches(ledger'[o], o)
                    /\ Proved!RefundKeys \cap DOMAIN ledger'[o] # {} =>
                         order'[o].status = "REFUNDED"
  BY DEF LedgerInv, Proved!Share, Proved!Smaller
<1>1. /\ Matches(ledger[o], o)
      /\ Proved!RefundKeys \cap DOMAIN ledger[o] # {} =>
           order[o].status = "REFUNDED"
  BY DEF LockedInv, LedgerInv
<1>2. order[o].status = "REFUNDED" => order'[o].status = "REFUNDED"
  BY RowsMoveOn DEF LockedInv, MovesOn, ClosedStatuses
<1>3. CASE Untouched(o) \/ Frozen(o)
  BY <1>1, <1>2, <1>3 DEF Untouched, Frozen
<1>4. CASE Completed(o)
  <2>1. Proved!RefundKeys \cap DOMAIN ledger[o] = {}
    BY <1>1, <1>2, <1>4 DEF Completed
  <2>2. Proved!RefundKeys \cap DOMAIN ledger'[o] = {}
    BY <1>4, <2>1
    DEF Completed, PostEntries, CompletedEntries, Proved!RefundKeys
  <2>3. QED BY <2>2 DEF Proved!RefundMatches
<1>5. CASE Refunded(o)
  <2>1. ledger'[o] = Proved!PostEntries(ledger[o],
                       Proved!RefundEntries(ServiceFee[o], ledger[o]))
    BY <1>5, SameProvedOperators DEF Refunded
  <2>2. Proved!IInv
    BY DEF LockedInv
  <2> HIDE DEF Matches
  <2>3. Matches(ledger[o], o) => Matches(ledger'[o], o)
    BY <2>1, <2>2, BooksAssumed, ProvedFacts, Proved!RefundKeepsShapes
    DEF Matches
  <2>4. QED BY <1>1, <1>5, <2>3 DEF Refunded
<1>6. QED BY <1>3, <1>4, <1>5, StepTouches DEF LockedInv, Touches

LEMMA LockedInductive == Spec /\ OptimisticLocking => []LockedInv
<1>1. Spec => []Proved!IInv
  BY Implementation, SameBooks, BooksAssumed, Proved!Inductive, PTL
  DEF ImplementsBooks
<1>2. IInv /\ Proved!IInv /\ RefundedStays /\ UnpaidInv /\ LedgerInv
      /\ [Next]_vars /\ [RowsAreLocked]_vars
      => (RefundedStays /\ UnpaidInv /\ LedgerInv)'
  BY KeepsRefundedStays, KeepsUnpaidInv, KeepsLedgerInv DEF LockedInv
<1>3. IInv /\ Proved!IInv /\ RefundedStays /\ UnpaidInv /\ LedgerInv => LockedInv
  BY DEF LockedInv
<1>4. QED BY <1>1, <1>2, <1>3, LockedInit, Inductive, PTL
          DEF Spec, OptimisticLocking

\* However sessions overlap, the version check would be enough for reconcile()
\* to find nothing ...
THEOREM LockedBooksBalance ==
  Spec /\ OptimisticLocking => []ReconciliationIsZero
<1>1. ASSUME LockedInv, NEW o \in Orders PROVE Residual(ledger[o]) = 0
  <2>1. /\ Proved!IInv
        /\ Proved!RefundMatches(ledger[o], ServiceFee[o], Proved!Share(o))
    BY <1>1 DEF LockedInv, LedgerInv
  <2>2. Proved!Residual(ledger[o]) = 0
    BY <2>1, BooksAssumed, ProvedFacts, Proved!ShapeSums
  <2>3. QED BY <2>2, SameProvedOperators
<1>2. LockedInv => ReconciliationIsZero
  BY <1>1 DEF ReconciliationIsZero
<1>3. QED BY <1>2, LockedInductive, PTL

\* ... and for an order before its payout, or closed unpaid, to have nothing on
\* the books, however sessions overlap.
THEOREM LockedUnpaidIsOffTheBooks ==
  Spec /\ OptimisticLocking => []UnpaidOrderIsOffTheBooks
<1>1. LockedInv => UnpaidOrderIsOffTheBooks
  BY DEF LockedInv, UnpaidInv, UnpaidOrderIsOffTheBooks, Unpaid
<1>2. QED BY <1>1, LockedInductive, PTL

\* The version check would not be enough for rewards: a dispute of a disputed
\* order writes no row, and may freeze the reward that a refund has cancelled
\* since.  It would have to check the version as well.
RewardsAreLocked ==
  \A s \in Sessions, o \in Orders : reward'[o] # reward[o] => HasCurrent(s, o)

LockingOfRewards == [][RewardsAreLocked]_vars

\* With both checks, the reward of a refunded order is cancelled, if it had one.
THEOREM LockedRefundsCancelRewards ==
  Spec /\ OptimisticLocking /\ LockingOfRewards => []RefundCancelsReward
<1>1. Init => RefundCancelsReward
  BY DEF Init, RefundCancelsReward
<1>2. LockedInv /\ RefundCancelsReward /\ [Next]_vars /\ [RowsAreLocked]_vars
      /\ [RewardsAreLocked]_vars => RefundCancelsReward'
  <2> SUFFICES ASSUME LockedInv, RefundCancelsReward, [Next]_vars,
                      [RowsAreLocked]_vars, [RewardsAreLocked]_vars,
                      NEW o \in Orders, order'[o].status = "REFUNDED"
               PROVE  reward'[o] \in {"NONE", "CANCELLED"}
    BY DEF RefundCancelsReward
  <2>1. order[o].status = "REFUNDED" => reward[o] \in {"NONE", "CANCELLED"}
    BY DEF RefundCancelsReward
  <2>2. CASE Untouched(o)
    BY <2>1, <2>2 DEF Untouched
  <2>3. CASE Refunded(o)
    BY <2>3 DEF Refunded, CancelReward
  <2>4. CASE Frozen(o)
    <3>1. /\ order'[o] = order[o]
          /\ \E s \in Sessions : /\ session'[s] # session[s]
                                 /\ session[s].seen[o].status = "DISPUTED"
      BY <2>4 DEF Frozen
    <3>2. ~(reward'[o] # reward[o])
      BY <3>1 DEF RewardsAreLocked, HasCurrent, vars
    <3>3. QED BY <2>1, <3>1, <3>2
  <2>5. Touches(o) /\ ~Completed(o)
    BY StepTouches DEF LockedInv, Completed
  <2>6. QED BY <2>2, <2>3, <2>4, <2>5 DEF Touches
<1>3. QED BY <1>1, <1>2, LockedInductive, PTL
          DEF Spec, OptimisticLocking, LockingOfRewards

\* When handlers do not overlap, an order before its payout, or closed unpaid,
\* has nothing on the books.
THEOREM SerialUnpaidIsOffTheBooks ==
  OneAtATime => (Spec => []UnpaidOrderIsOffTheBooks)
BY SerialIsLocked, LockedUnpaidIsOffTheBooks
==============================================================================
