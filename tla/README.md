# RootSwap in TLA+

RootSwap turns quotes of exchange partners into orders and follows each order
until it is completed, closed or refunded. The money side (a ledger, a referral
reward) is derived from the order's status. Everything is kept in one SQL
database and touched by many short transactions: API requests, partner
webhooks, an admin's actions and a polling loop per server process. No handler
locks an order while it thinks, so what is hard about this code is what
overlapping handlers leave behind. That is what these modules are about.

Paths below are relative to `src/backend/app` unless they start with `src/`.

## The system and its parts

| Part | Code | State it keeps | Operations | Hard behaviour | What makes it correct |
|---|---|---|---|---|---|
| Order state machine | `services/state_machine.py`, `core/enums.py` | none (table) | `transition`, `advance_along_happy_path` | reports that skip statuses; the version column | a walk never stops half way; closed orders stay closed; versions grow |
| Order creation | `services/order_orchestrator.py` `create_order`, `models/order.py` | `orders`, `quotes.consumed_at` | create, replay | overlapping and repeated requests, a crash around the partner call | one order per key and per quote; answers are true; an order to be paid exists at the partner, and no request but a lost one leaves an order there that is unknown here |
| Cancel, expiry | `services/order_orchestrator.py` | `orders`, `payment_instructions` | cancel, expire | the partner is called between read and commit | an unpaid order does not stay open; it is off the books |
| Ledger | `services/ledger.py` | `ledger_entries`, unique posting keys | recognise, reverse, reconcile | repeated and reordered postings | every order nets to zero |
| Referral rewards | `services/referral.py` | `referral_rewards`, one row per order | accrue, freeze, cancel | completed twice, disputed and refunded meanwhile | reward and liability exist together, accrued once, not payable after a refund |
| Side effects | `services/order_side_effects.py` | none | couples a transition to ledger and reward | called with a stale previous status | a completed order is recognised (if its reward can be computed), a refunded one reversed |
| Webhook processor | `services/webhook_processor.py` | `webhook_events`, unique by partner and event | ingest, apply, retry | repeated, reordered, late and early events; deliveries and loops with old copies of one event | early events are kept; events are given up only after all attempts; what is processed stays processed; retries end |
| Polling loop | `services/polling.py` | none | expire, poll, retry | one old snapshot for many partner calls; one loop per process | completions are noticed without webhooks |
| Circuit breaker | `services/circuit_breaker.py`, `models/partner.py` | columns of `partners` | record success / failure, reset | no lock around the partner call; only changed columns are written | an outage opens it; cooldowns are served; it is probed again |
| Emergency stop | `services/emergency_stop.py` | `system_flags` | activate, check, deactivate | checked once, then acted on | no request that starts after it creates an order |
| Quote engine | `services/quote_engine.py`, `fees.py`, `root_score.py` | `quotes`, columns of `partners` | ask the partners, record, rank | partial answers, timeouts; several rows locked one by one; counters from stale copies | fees add up; scores lie in 0..100; the better offer leads; lock cycles need a probe and end |
| Orders, admin, webhook, quote APIs | `api/v1/*.py` | none | one transaction per request | two of them at once | see the parts they call |
| Partner registry and adapters | `partners/*.py` | adapters, `partners` rows | create, cancel, refund, status | answers, refuses, fails, is silent | external |
| Referral registration | `services/referral.py`, `api/v1/auth.py` | `users.referred_by_user_id` | register, attach | concurrent registration | set once, never oneself |
| Rate limiter | `middleware/rate_limit.py` | Redis or memory buckets | count | fallback, clearing | at most the limit per window |
| Security | `security/*.py`, `api/deps.py` | none | tokens, roles, encryption, masking | - | pure checks |
| Notifications, audit, observability | `services/notifications.py`, `audit.py`, `observability/*.py` | output only | - | - | - |
| Mini App | `src/mini-app/src` | screen and token state | wizard, order screen, re-authentication | answers out of order | the newest status is shown |
| Bot | `src/bot/bot.py` | none | a link | - | - |

How they interact: an API request, a webhook or the polling loop opens a
database session, reads the order, possibly calls the partner, moves the order
through the state machine, lets the side effects post to the ledger and the
reward, and commits. Quote requests additionally read and write the breaker's
columns of each partner. The admin's actions go through the same services.

## Sessions and transactions

The models rest on how SQLAlchemy and PostgreSQL (READ COMMITTED) run a handler:

* **Read.** The handler's ORM object is a copy of the committed row. Nothing
  refreshes it (`expire_on_commit=False`, no `version_id_col`, no `FOR UPDATE`).
* **Partner call.** An `await` with no lock on the order held; any other session
  may commit meanwhile.
* **Write and commit.** The `UPDATE ... WHERE id` overwrites what was committed
  since the read, and holds the row's lock until the commit. Everything the
  handler reads after it (posting keys, reward) is as last committed and is kept
  still by that lock for other handlers of the same order. Update, side effects
  and commit are therefore one action of `OrderLifecycle`.
* **The two exceptions.** `transition()` returns at once when the order has the
  target's status already: no order row is updated, and no lock taken. Twice
  something is written all the same. A dispute of a disputed order reads the reward
  and freezes it (`DisputeReadsReward`, `DisputeAgainCommit`). An admin's transition
  of a REFUNDED order to REFUNDED runs `post_refund` and `cancel_rewards_for_order`
  again (`RefundAgainReads`, `RefundAgainCommit`): when a stale handler completes the
  order after the first has looked for the liability to the referrer, the second
  cancels the reward of that completion, and the liability is not reversed. Both are
  two actions each, and any handler may commit in between.
* **Abort.** `get_db` closes the session without a commit when a handler raises
  or the process dies: the transaction is gone, what the partner did is not.
* **Exceptions in a webhook.** `_process_event` catches every exception and commits
  the event for another attempt, with what was flushed before. After an error of the
  database nothing can be committed (`Abort`). Behind the last write the notification
  may raise (`ApplyRaises`): all of the order's changes are kept. Between
  `transition()` and the postings one computation may raise: that of the reward,
  whose rate (`referral_reward_percent`) is a string of the settings that nothing
  validates. `RewardMayRaise` says whether it does; if so, `WebhookRaises` leaves the
  order COMPLETED with nothing on the books, and no retry books it, since the event
  then finds the status it asks for.
* **Changed columns only.** The ORM writes the columns that differ from what it
  read. `CircuitBreaker`, `QuoteRound` and `WebhookInbox` model this column by
  column; for orders the status and the version always change together.
* **Autoflush.** A query flushes what the session has changed so far.
  `_process_event` counts the attempt on its copy, and looking up the order then
  sends that UPDATE: from there on the event's row is locked, and the order is read
  behind the lock. In one flush rows go in the order of their primary keys.
* **Commits in the middle.** `transition()` commits its audit row by itself when it
  refuses, which gives the event's row away before the event is marked PROCESSED
  (`Refuse`, `SettleRefused`).
* **A failed insert.** The IntegrityError of `create_order` rolls back, which
  gives up the quote's row, before the replay is looked for by a query of its own
  (`ReplayAfterConflict`).

## Modules

| Module | Stands for | Notes |
|---|---|---|
| `OrderStateMachine` | the transition table and the walk along the happy path | pure operators |
| `OrderLedger` | posting batches, skipping of existing keys, the residual | pure operators; amounts are any naturals |
| `OrderBooks` | what the handlers promise about money | abstract specification: status, ledger, reward |
| `PartnerEvents` | what a partner's word means and whether it applies | pure operators, shared by the next and by `WebhookInbox` |
| `OrderLifecycle` | every handler of a created order | composes the operator modules, implements `OrderBooks` |
| `OrderDesk` | what `POST /orders` promises its callers | abstract specification: every answer is one step |
| `OrderCreation` | `create_order` under concurrency and loss | with quotes, keys, emergency stop, the partner's orders; implements `OrderDesk` |
| `CircuitBreaker` | one partner's breaker under concurrency | columns and copies |
| `WebhookInbox` | deliveries and retries of partner events | the image of an order is its status |
| `QuoteRanking` | amounts, fees and RootScore | pure operators on integers |
| `QuoteRound` | `create_quotes` over the rows of several partners | composes `QuoteRanking` with calls, records, row locks |
| `MC...` | instances for TLC | one per module with a state |
| `...Proofs` | theorems and proofs | of `OrderBooks`, `OrderLifecycle`, `OrderCreation`, `CircuitBreaker`, `WebhookInbox`, `QuoteRanking`, `QuoteRound` |

State and actions against the code:

* `OrderLifecycle`: `order` is status and version of the row; `ledger[o]` the
  postings by posting key; `reward[o]` the reward's status; `requisites[o]` the
  payment instructions (`none` for SELL, then `valid`, `lapsed`, `deleted`);
  `partner[o]` what the partner's status endpoint answers; `pending[o]` the events
  that are not marked PROCESSED; `session[s]` the handler a session runs, with the
  copies it has read. `CancelStart / CancelAtPartner / CancelCommit` is
  `cancel_user_order`; `DisputeStart / DisputeCommit` are `dispute_order` and
  `admin_dispute_order`; `AdminTransition*`, `RefundAgain*`, `AdminRefund*` the admin
  endpoints; `WebhookStart / WebhookCommit / WebhookRaises` `ingest_webhook`;
  `Expire*` and `Poll*` the loop. `RefundAtPartner` may leave the partner as it is:
  `admin_refund_order` skips an adapter that is no fiat partner.
* `OrderBooks`: `Refund` reverses the share on the books or, of handlers that
  overlap, none, as a refund does that has looked for it too early. `Move` may bring
  an order to COMPLETED only with `RewardMayRaise`.
* `OrderCreation`: `at[r]` is the line of `create_order` a request has reached, one
  value per statement that reads, locks or writes; an order has the name of the
  request that made it. A row lock or a waiting insert is a guard of the step that
  needs it (`ConsumeQuote`, `InsertOrder`). A `PartnerError` is "any partner-side
  failure (network, rejection, invalid response)" (`partners/base.py:15`): after
  `PartnerRefuses` the partner may have the order (`PartnerMayHave`), which is
  committed as CANCELLED here, without its `partner_order_id`.
* `OrderDesk`: the same requests, answered in one step each. Nothing is said of locks,
  of uncommitted rows, of `consumed_at` or of the partner: a quote is taken when there
  is an order for it, a key when there is an order under it. The refinement mapping
  (`OrderCreation!Desk`) gives it `ask`, `answer`, `order`, `expired` and `stopped` as
  they are, and as `pending` the requests that are past the look-up of their key. A
  request is accepted only while nothing is ordered under its key, so one that comes
  later gets that order (or is stopped, or lost). One that was accepted before may
  still be told that its quote is consumed, and by the very order its key made: this
  is what two overlapping submits with one key can lead to, and nothing more.
* `CircuitBreaker`: `row` holds state, failure count (saturated at the threshold)
  and whether the cooldown is unset, running or elapsed; `copy[s]` what a session
  read. `Update` writes the columns whose new value differs from the copy.

* `WebhookInbox`: `body[e]` is what event `e` says (its word and the order with its
  `partner_order_id`, chosen once); `event[e]` the committed row (`ABSENT` before the
  first delivery; attempts saturate at `MaxAttempts`); `tried[e]` counts committed
  attempts, which the row does not always do; `order[o]` is `UNCOMMITTED` until
  `create_order` commits. A session's `copy` is what it has read: one row for a
  delivery, all RETRYING rows for a pass of `retry_pending_events`. `Lock` is the
  flush of the INSERT or UPDATE with the look-up of the order behind it; the actions
  of `Commit` are the branches of `_process_event`; `DuplicateInsert` is the
  IntegrityError. `ApplyRaises` is the branch of an unexpected exception after the
  order has been written: its new status, the image of it here, is committed and the
  event is retried. Whether postings came with it is told by `OrderLifecycle`
  (`WebhookCommit` that leaves the event pending, `WebhookRaises`).
* `QuoteRanking`: amounts in the smallest units (kopecks, 1/10^8 of the asset), with
  `Parts` to the unit for what a customer may ask; `Per` units of the asset cost
  `Rate` kopecks, which gives each price of `CRYPTO_RATES_RUB` (BTC 8 for 1, XMR 1 for
  50, USDT 1 for 12500). What is not quantized, the worth of the amount and what
  is left of it, is counted in `1/Scale` of a kopeck and is exact; each `quantize()` of
  the code is a `HalfEven`, also that of a sale's amount. `HalfUp` is the service fee's
  rounding, percentages are in tenths of a percent, `Decimal`'s unrounded divisions in
  `1/Precision`.
* `QuoteRound`: `row[p]` holds the columns of a partner that requests and admins
  write (`enabled`, breaker state, cooldown, the two counters; the failure count is
  in `CircuitBreaker`, so that here a failure may or may not open a breaker);
  `request[r]` is the position in `create_quotes` with the rows as read. `Gather`
  reads and calls, `PartnersAnswered` is the end of `asyncio.gather`, `FlushRow` each
  wait for a row lock, `CommitRecords` the commit of the records, `Answer` the
  ranking. `LockedBefore` is the order in which a request locks rows: the first
  record's flush also writes every row made HALF_OPEN, by primary key.
  `DeadlockVictim` is the database, which aborts one of the requests in a cycle.

The partner is external in all of them: it may create, refuse or create and fail
to say so, send any status word its own progress allows, lose or delay events, or
fail to answer.

## Runs

| Run | Instance | What it shows |
|---|---|---|
| `lifecycle_serial` | one order, handlers one at a time, 8 partner words, 10 admin targets, versions to 12, rewards that raise | types; every order nets to zero; unpaid orders have nothing on the books; rewards of refunded orders are cancelled; versions grow; closed orders stay closed; `OrderBooks` is implemented |
| `lifecycle_overlap` | one sale, two API sessions and a loop in any interleaving, an admin who asks for COMPLETED and REFUNDED (twice, too), versions to 8 | what survives overwriting: a completed order is recognised, a refunded one reversed, reward and liability match, completions sum to zero, a discrepancy is the referrer's share; `OrderBooks` is implemented |
| `lifecycle_loop` | two orders (BUY, SELL), a loop, one API session, fairness | a lapsed order does not stay open; a completion is noticed without its webhook |
| `creation_overlap` | three requests, two quotes, two keys, two users, one loss, errors of a partner that has made the order | one order per key and per quote; true answers; what awaits payment exists at the partner and what exists there is known here, unless its request was lost; `OrderDesk` is implemented; every request is answered, so the locks form no cycle |
| `breaker_quotes` | three quote requests, one admin, threshold 3, fairness | an open breaker has a cooldown, serves it and is probed again; a lasting outage opens it although counts are lost |
| `inbox_retries` | one event with four possible bodies, two deliveries, two loops, three attempts, an order that may be created late, moved, cancelled or sent back | an event that overtakes its order is kept; dead letters have had all attempts; what is processed stays so; retries end, for ever retried is nothing |
| `quotes_round` | two requests (a BUY and a SELL of any amount of a set of eight, at the price of XMR, with fractions of a unit), two partners, five calls, admin switches, probes | scores in range; fees add up to the rounding of what is paid out; the better offer leads; locks form a cycle only with a probe; admin switches stick; every request ends |
| `lifecycle_lost_update` | as `lifecycle_overlap`, with a purchase and no refund by transition | `VersionOnlyGrows` fails: a cancelled order is expired at the same version |
| `lifecycle_unbalanced` | as `lifecycle_lost_update` | `ReconciliationIsZero` fails: refunded, completed by a stale request, refunded again |
| `lifecycle_stays_frozen` | as `lifecycle_serial` | `FrozenOnlyInDispute` fails: the reward of a dismissed dispute stays frozen |
| `creation_second_order` | two requests, one loss | `OnePartnerOrderPerQuote` fails: a lost request and its retry make two orders at the partner |
| `breaker_stuck_open` | two quote requests, threshold 2, resets overlap them | `OpenIsProbedAgain` fails: OPEN without a cooldown |

The last five are disagreements between the code and its own documentation; the
quoted lines are in `PROJECT.json` under `findings`.

### Bounds, and why they are enough

* One order in the safety runs: orders share no row, except in the expiry and the
  polling pass, which read several; `lifecycle_loop` has two, the proofs any number.
* Two API sessions and one loop: an overwrite needs a reader, a writer and
  something that happens between them; with three sessions every such triple is
  there. `RequestSymmetry` exchanges the API sessions, which have equal roles, in
  runs of safety properties only.
* `lifecycle_overlap` is of a sale, which no loop expires: an expiry would triple its
  states and touches no books. Overlapping expiries are in `lifecycle_loop`, in
  `lifecycle_lost_update` and in the proofs.
* `RewardMayRaise` is TRUE in `lifecycle_serial` and `lifecycle_loop`, FALSE in the
  runs of overlapping handlers, since `CompletedIsRecognized` is about settings with
  which rewards can be computed; the proofs of everything else are for both.
* `MaxVersion` keeps admin requests and disputes from starting past a row version
  (they could go round for ever: disputed, completed, disputed). 12 versions serve
  a full run to COMPLETED (7), a dispute, a completion and a refund (12 or more).
* Fees 5 (of which 2 to the referrer), 1 and 3 are distinct and no sum of two of
  them is a third by accident of a wrong posting.
* `PartnerWords` of the overlapping runs are the first and the last word of a
  payment; the walk covers the statuses in between. The serial runs have the refund
  and failure words as well.
* `Threshold` 3 with three quote requests: counts can be lost (two requests write
  the same successor) and still reach the threshold; counts past it are not told
  apart by any guard.
* Three requests for two quotes and two keys are the smallest instance with a
  replay, a race for a quote and a bystander; the MC specification fixes what the
  first request asks for and the user of the second, which is a choice of names.

* `inbox_retries`: one event, since events share nothing but their orders, which the
  environment moves in any case; its word is payment progress, a word that PARTNER
  may be refused, an unknown one, or one without an order. Two deliveries and two
  loops are the least with which a stale copy of each kind meets a newer row. With
  three attempts there is one between the first and the last. `MCOtherMoves` are one
  move that makes the event refused, one that makes it late, and one back.
* `quotes_round`: the two mock fiat partners with the fees of the code, whose primary
  keys are in the opposite order of their registration, because only then can locks
  cross. `MCInit` starts in three kinds of states a longer history leads to: a
  partner with many calls, one to be probed beside one that answers, and any amounts
  (including ones that leave half a kopeck, or nothing, after the fees; none of the
  sales is worth whole kopecks). `MaxCalls` and `MaxSwitched`
  bound the counters, which otherwise grow for ever.
* `Precision` 1000 in `quotes_round` keeps the products within TLC's 32-bit
  integers; the proofs hold for every precision.

### Deadlock

The order runs stop when every order is closed and the version bound admits no
further request, so they do not check for deadlock; nor do `inbox_retries`, which
stops when the event is processed and its order final, and `quotes_round`, where
nobody has to ask for quotes and the bound on calls is reached. The creation and breaker runs
do, but there the environment can always step (the emergency stop, a new quote
request): that requests do not wait for each other is `EveryRequestIsAnswered`.

### Fairness

* `WorkerFairness` (strong): a server process keeps looping; a pass may be cut
  short by a crash, an exception or a partner that does not answer, but not every
  pass at the same place. `run_polling_loop` catches every exception and sleeps.
  Nothing is assumed of customers, admins, webhooks or aborts.
* `OrderCreation!FairSpec` (weak, per request): the event loop runs a coroutine
  that can run, PostgreSQL grants a lock that is free, and a call to the partner
  ends (with an answer, a refusal or an exception).
* `CircuitBreaker!FairSpec`: time passes (weak), and every session slot of quote
  requests is used again and again: customers keep asking, so a request that finds
  the partner callable again and again is made, and not every one of them is aborted
  (strong, because the breaker opens and other sessions run in between). `wait_for`
  bounds the call. Nothing is assumed of resets.
* `WebhookInbox!Fairness`: a session goes on with what it has begun (weak), every
  loop starts a pass and takes an event of it (weak, it does nothing else), and a
  loop that waits for a row gets it in its turn (strong: PostgreSQL queues waiters).
  Nothing is assumed of deliveries beginning or of aborts; `RetriesEnd` says what it
  needs of them, that from some time on no session is cut short over the event.
* `QuoteRound!Fairness`: calls end (weak, `wait_for`), a lock is granted in turn
  (strong), records, answers and the database's deadlock detection proceed (weak).

## What is proved

For every set of orders, sessions, requests, quotes and users, and for all amounts:

* `OrderBooksProofs`. The inductive invariant says which shapes the ledger of an
  order can have: no recognition or a whole batch; no refund or a whole batch that
  did or did not reverse the share, whether or not the share is on the books.
  Single postings would not be inductive, because a later batch skips the keys of
  an earlier one. From the shapes follow the sums (`BooksAgree`) and, without
  overlapping, zero (`SerialBooksBalance`). That a COMPLETED order is recognised
  is proved from `~RewardMayRaise`, everything else with and without it.
* `OrderLifecycleProofs`. The inductive invariant `IInv` adds to the types what a
  session in flight has established (its order exists, the copy it read allows the
  step it is about to take) and, when handlers do not overlap, that its copy is the
  committed row. It is needed because commits act on copies: without it the step
  from a copy to a new status could be any. With it every step is a step or a
  stutter of `OrderBooks` (`Implementation`), and the theorems about the books carry
  over (`HandlersKeepTheBooks`, `SerialHandlersBalance`).
  `WalksComplete` shows that a walk that starts after creation never meets a missing
  transition, which is why a refused report can be modelled as one no-op.
  Each invariant the runs check is a theorem of its own.
  The last part is about the "optimistic locking via the `version` column" of
  `state_machine.py:5`, which `lifecycle_lost_update` and `lifecycle_unbalanced` show
  is not there. `OptimisticLocking` states it of a step: a row is overwritten only by
  a session whose copy is that row. The theorems say what the check would give, for
  any number of sessions that overlap, abort or run late: every change of a row moves
  its version up, closed orders stay closed, an unpaid order is off the books and
  `reconcile()` finds nothing (`LockedVersionsGrow`, `LockedClosedStaysClosed`,
  `LockedUnpaidIsOffTheBooks`, `LockedBooksBalance`): the check would be enough to
  rule out what those two runs find. `RowsMoveOn` carries the first two.
  `StepTouches` sorts the steps by what they do to the books of an order, and with it
  `LockedInv` says that a refund on the books is that of an order that is, and stays,
  REFUNDED (`LedgerInv`); `RefundedStays` and `NotFoundStands` are needed for the refund
  an admin books once more without writing a row: the order is REFUNDED still, and the
  share it did not find has not been posted since.
  The check of the order's row is not enough for its reward: a dispute of a disputed
  order writes no row, and may freeze a reward that a refund has cancelled since. So
  `LockedRefundsCancelRewards` also needs `LockingOfRewards`, the same check on that
  write. Handlers that do not overlap satisfy the check (`SerialIsLocked`), which
  gives `SerialVersionsGrow`, `SerialClosedStaysClosed` and
  `SerialUnpaidIsOffTheBooks`.
* `OrderCreationProofs`. `IInv`: no two orders or pending inserts conflict; an
  answer is a committed order of the same key; a consumed quote has its order; the
  partner has the orders that are awaiting payment, and whatever it has is a committed
  order, is about to be one, or was lost (`PartnerKnowsTheOrders`; nothing is claimed of
  where a CANCELLED order is alive). `SecondOrderNeedsLoss` gives the
  exact circumstances of the second order that `creation_second_order` finds.
  `CreationImplementsDesk` goes through `create_order` statement by statement
  (`ServerStepAtDesk`): the checks of the quote, the flush and the partner call change
  nothing at the desk, a commit is `Create`, a refusal `Refuse`. Two invariants carry
  it. `NoConflicts` says that whoever has inserted an order meets no committed order
  of its key or quote when it commits, although it looked long before;
  `OwnersChecked`, that whoever is past `ReadQuote` owns its quote, so that a late
  "consumed" of `InsertOrder` is never said to somebody who had to be told
  "forbidden".
* `CircuitBreakerProofs`. `IInv`: types and, if resets run alone, that an open row has a
  cooldown and that the copy of a reset in flight has the state of the row: only then
  does the reset write the state whenever it clears the cooldown. `CooldownServed`
  needs no such condition.
* `WebhookInboxProofs`. `IInv`: one session at most holds a row; neither the row nor
  a copy of it counts an attempt that was not committed, which is why
  `DeadLettersAreEarned` holds although older counts overwrite newer ones; who
  inserts a row is its first writer; and what a holder found of the order is as recent
  as any PROCESSED on the row (`FoundIsRecent`): an order looked up as missing may
  have come since, but the event has not been processed since. That gives
  `EarlyEventsAreKept` and the action property `ProcessedStays`.
* `QuoteRankingProofs`. The rounding operators are bounded first (a rounded quotient
  is off by at most half a unit), then each factor of the score lies in
  `0..Precision` and the weights add up to `FullScore`: `RootScoreInRange`.
  `FeesOfAnOfferAddUp` bounds what the roundings lose, for any price and any fraction
  of a unit: half a kopeck for a SELL, where only the amount paid out is rounded off the
  sum, and one unit of the asset for a BUY, where the converted service fee is as well.
  `RootScoreMonotone` compares two offers of one request: a lower partner's fee pays
  out no less and costs no more in total (`LowerFeePaysMore`), each factor moves the
  right way, and no rounding turns two of them round. The last is the delicate part:
  `HalfEvenMonotone` shows it for rounding to even, where two values at a tie may go
  to different sides (`HalfEvenTie`).
* `QuoteRoundProofs`. `IInv`: who makes an offer found the amount large enough (so
  that the fees of `QuoteRanking` apply), the rows a request holds and the rows still
  due are its candidates, and a request that probes nobody holds only rows registered
  before those still due. From the last follows `LockCyclesNeedProbes`, for any number
  of requests: in a set that waits for itself, take the request that waits for the row
  registered first; whoever holds that row waits for one registered later, and so on
  for ever.
  `RankingIsASort` treats `Ranked`, which gives an offer the place after those ahead
  of it. `Ahead` is a strict total order, so the places are distinct
  (`AheadHasLowerPlace`); there are as many places as offers, so each is taken
  (`PlacesAreTaken`, an injection between finite sets of one size). With
  `RootScoreMonotone` that gives `BetterOffersLead`.
  `AdminSwitchesStick` needs that a request's record leaves `enabled` as its copy has
  it, so that the UPDATE does not carry it.

Assumptions are those on the constants, named in the modules: amounts are naturals
and a reward is only earned on a positive fee (`AmountsAssumption`; the reward is a
share of the fee); orders and sessions are distinct from the markers;
inputs are among the known words; there are finitely many partners
(`FinitelyManyAssumption`; they are rows of a table, and places are counted). TLC
evaluates them in the runs.

Only model-checked: liveness (`LapsedOrderIsClosed`, `CompletionIsNoticed`,
`EveryRequestIsAnswered`, `OpenIsProbedAgain`, `OutageOpens`, `RetriesEnd`,
`EveryRequestEnds`), since fairness and ENABLED are out of the prover's reach.
Of `EveryRequestIsAnswered` the part without time is proved: the two locks of
`create_order` are never waited for in a circle (`LocksAreNotCircular`).
Every invariant and every other property the passing runs check is also a theorem.

## What is not modelled, and why

* Strings and arithmetic of one request: address checksums, masking, encryption,
  signatures, tokens. They keep no state.
* Output: notifications (but for the exception they may raise), audit rows, metrics,
  logs.
* Of the quotes: the labels (best, fastest, lowest fee), the filter by route and
  source type, the rates of the crypto mock (its docstring says "disabled by default",
  while `sync_partner_rows` inserts it enabled), and the moving average of the latency,
  a constant of a partner here. RootScore's branches for a missing reserve, KYC and a
  breaker that is not CLOSED cannot be reached from `create_quotes`, which scores only
  partners it has just recorded as a success.
* Rows that several orders' expiries lock in one transaction (see the hazards): the
  expiry is one action per order.
* Start-up, migrations, deployment, the bot.
* Registration and attachment of referrers: it changes nothing an order depends on
  but whether there is a reward, which is a constant of the order.
* The rate limiter, in front of the handlers, and the Mini App, a client: neither is
  read by anything modelled here. What repeated submits of the wizard do is in
  `OrderCreation`.

## Plan

Done: 1. `OrderStateMachine`, `OrderLedger`; 2. `OrderBooks`; 3. `OrderLifecycle`
and its refinement; 4. `OrderCreation`; 5. `CircuitBreaker`; 6. `PartnerEvents`,
`WebhookInbox`; 7. `QuoteRanking`, `QuoteRound`; proofs of each.

What would come next: `OrderScreen` and `ApiSession` (the Mini App's polling screen
and re-authentication), `ReferralProgram`, `RateLimiter`, and an abstract inbox of
which `OrderLifecycle`'s `pending` and `WebhookInbox` are both refinements.
