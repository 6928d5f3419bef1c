----------------------------- MODULE WebhookInbox ----------------------------
(***************************************************************************)
(* The inbox of partner webhooks: deliveries of an event, which may repeat *)
(* and overlap, and the polling loops that process RETRYING events again.  *)
(*                                                                         *)
(* A session SELECTs the event's row into a copy; a loop copies all of the *)
(* RETRYING rows at the start of its pass.  _process_event counts the      *)
(* attempt on the copy, and looking up the order flushes it: the INSERT or *)
(* UPDATE locks the row until the commit, whoever else has a copy waits,   *)
(* and the order is read behind the lock.  The UPDATE carries the columns  *)
(* that differ from the copy.  transition() commits by itself when it      *)
(* refuses, which gives the lock away before the event is settled.         *)
(***************************************************************************)
EXTENDS PartnerEvents, FiniteSets

CONSTANTS
  Orders,
  NoOrder,      \* an event that names none
  Events,       \* (partner_code, external_event_id)
  NoEvent,      \* "no event in hand"
  Bodies,       \* what an event may say: [word, order], its event_type and
                \* the order with its partner_order_id
  Deliveries,   \* sessions of POST /webhooks/partners/{code}
  Workers,      \* sessions of polling loops, one per server process
  MaxAttempts,  \* webhook_max_processing_attempts
  OtherMoves    \* the moves <<from, to>> other handlers make (OrderLifecycle)

Sessions == Deliveries \cup Workers

ASSUME EventsAssumption ==
  /\ NoOrder \notin Orders /\ NoEvent \notin Events
  /\ \A b \in Bodies : b.order \in Orders \cup {NoOrder}
ASSUME SessionsAssumption == Deliveries \cap Workers = {}
ASSUME MaxAttemptsAssumption == MaxAttempts \in Nat \ {0}
ASSUME MovesAssumption == OtherMoves \subseteq OrderStatus \X OrderStatus

VARIABLES
  body,     \* body[e]: what the first delivery of e says
  order,    \* order[o]: its status, "UNCOMMITTED" before create_order commits
  event,    \* event[e]: the committed row, "ABSENT" before the first delivery
  session,  \* session[s]: what session s is doing, with its copies of rows
  tried     \* tried[e]: committed attempts at e, counted up to MaxAttempts

vars == <<body, order, event, session, tried>>

\* Attempts from the maximum on are told apart by nothing.
EventRow ==
  [status : {"ABSENT", "RECEIVED", "RETRYING", "PROCESSED", "DEAD_LETTER"},
   attempts : 0..MaxAttempts]
Absent == [status |-> "ABSENT", attempts |-> 0]

\* step: idle, pass (a loop between two events), read (has a copy of the
\* event), holds (has locked its row and read the order), refused (transition()
\* has committed its refusal).
Idle == [step |-> "idle", hand |-> NoEvent, todo |-> {}, found |-> "none",
         copy |-> [e \in Events |-> Absent]]

Init ==
  /\ body \in [Events -> Bodies]
  /\ order = [o \in Orders |-> "UNCOMMITTED"]
  /\ event = [e \in Events |-> Absent]
  /\ session = [s \in Sessions |-> Idle]
  /\ tried = [e \in Events |-> 0]

------------------------------------------------------------------------------
(* Sessions *)

At(s, step) == session[s].step = step
Hand(s) == session[s].hand
Copy(s) == session[s].copy[Hand(s)]

\* Mutant of Incremented: one more than the maximum is told apart.
OneTooMany(n) == IF n <= MaxAttempts THEN n + 1 ELSE n

Incremented(n) == IF n < MaxAttempts THEN n + 1 ELSE MaxAttempts

\* Mutant of Locked: the row is only written at the commit (no autoflush), and
\* nobody waits for anybody.
NobodyWaits(e) == FALSE /\ e \in Events

\* The row of e is inserted or updated by a transaction not yet committed.
Locked(e) == \E t \in Sessions : At(t, "holds") /\ Hand(t) = e

\* The pass goes on with its next event; a delivery, or a pass with nothing
\* left to do, ends.
Proceed(s) ==
  session' = [session EXCEPT ![s] =
    IF session[s].todo = {} THEN Idle
    ELSE [@ EXCEPT !.step = "pass", !.hand = NoEvent, !.found = "none",
                   !.copy[Hand(s)] = Absent]]

\* The commit of _process_event: the attempt counted on the copy, and the
\* status if it is not the copy's.
Settle(s, status) ==
  /\ event' = [event EXCEPT ![Hand(s)] =
       [status |-> IF status = Copy(s).status THEN @.status ELSE status,
        attempts |-> Incremented(Copy(s).attempts)]]
  /\ tried' = [tried EXCEPT ![Hand(s)] = Incremented(@)]

------------------------------------------------------------------------------
(* Reading the event *)

\* ingest_webhook looks the event up; one that is PROCESSED is answered at once.
Deliver(d, e) ==
  /\ At(d, "idle")
  /\ event[e].status # "PROCESSED"
  /\ session' = [session EXCEPT ![d] =
       [Idle EXCEPT !.step = "read", !.hand = e, !.copy[e] = event[e]]]
  /\ UNCHANGED <<body, order, event, tried>>

\* Mutant of Retrying: the loop takes the rows that were only RECEIVED.
ReceivedOnly == {e \in Events : event[e].status = "RECEIVED"}

\* retry_pending_events reads every RETRYING row ...
Retrying == {e \in Events : event[e].status = "RETRYING"}

PassStart(w) ==
  /\ At(w, "idle")
  /\ Retrying # {}
  /\ session' = [session EXCEPT ![w] =
       [Idle EXCEPT !.step = "pass", !.todo = Retrying,
                    !.copy = [e \in Events |->
                                IF e \in Retrying THEN event[e] ELSE Absent]]]
  /\ UNCHANGED <<body, order, event, tried>>

\* ... and takes them one by one.
PassTakes(w, e) ==
  /\ At(w, "pass") /\ e \in session[w].todo
  /\ session' = [session EXCEPT ![w].step = "read", ![w].hand = e,
                                ![w].todo = @ \ {e}]
  /\ UNCHANGED <<body, order, event, tried>>

\* The INSERT meets a row committed since the look-up: it is rolled back and
\* the delivery answered with that row, processed or not.
DuplicateInsert(d) ==
  /\ At(d, "read") /\ ~Locked(Hand(d))
  /\ Copy(d) = Absent /\ event[Hand(d)] # Absent
  /\ session' = [session EXCEPT ![d] = Idle]
  /\ UNCHANGED <<body, order, event, tried>>

\* Looking up the order flushes the INSERT or UPDATE of the event's row first.
Lock(s) ==
  /\ At(s, "read") /\ ~Locked(Hand(s))
  /\ Copy(s) = Absent => event[Hand(s)] = Absent
  /\ session' = [session EXCEPT ![s].step = "holds",
       ![s].found = IF body[Hand(s)].order = NoOrder THEN "none"
                    ELSE order[body[Hand(s)].order]]
  /\ UNCHANGED <<body, order, event, tried>>

------------------------------------------------------------------------------
(* Processing it *)

Known(e) == body[e].word \in EventWords
Target(s) == EVENT_STATUS_MAP[body[Hand(s)].word]
Holds(s) == At(s, "holds")

\* The order has been found, and the event stands for a status of it.
Decidable(s) ==
  Known(Hand(s)) /\ session[s].found \notin {"none", "UNCOMMITTED"}

Applies(s) ==
  /\ Decidable(s) /\ session[s].found # Target(s)
  /\ EventApplies(session[s].found, Target(s))

\* UnknownWebhookEventError.
UnknownEvent(s) ==
  /\ Holds(s) /\ ~Known(Hand(s))
  /\ Settle(s, "DEAD_LETTER")
  /\ Proceed(s)
  /\ UNCHANGED <<body, order>>

\* An event without an order, a repeated one, one that walks back: nothing to
\* do, and nothing refused by transition().
NothingToDo(s) ==
  /\ Holds(s) /\ Known(Hand(s))
  /\ \/ session[s].found = "none"
     \/ Decidable(s) /\ session[s].found = Target(s)
     \/ Decidable(s) /\ ~Applies(s) /\ WalksBack(session[s].found, Target(s))
  /\ Settle(s, "PROCESSED")
  /\ Proceed(s)
  /\ UNCHANGED <<body, order>>

\* The order is moved with the event's commit.
Apply(s) ==
  /\ Holds(s) /\ Applies(s)
  /\ order' = [order EXCEPT ![body[Hand(s)].order] = Target(s)]
  /\ Settle(s, "PROCESSED")
  /\ Proceed(s)
  /\ UNCHANGED body

\* Mutant of AfterFailure: given up one attempt early.
OneTooFew(s) ==
  IF Incremented(Copy(s).attempts) >= MaxAttempts - 1 THEN "DEAD_LETTER"
  ELSE "RETRYING"

\* What becomes of an event whose processing failed.
AfterFailure(s) ==
  IF Incremented(Copy(s).attempts) = MaxAttempts THEN "DEAD_LETTER"
  ELSE "RETRYING"

\* Mutant of OrderMissing: an order that is not there is nothing to do.
MissingIsNothingToDo(s) ==
  /\ Holds(s) /\ Known(Hand(s)) /\ session[s].found = "UNCOMMITTED"
  /\ Settle(s, "PROCESSED")
  /\ Proceed(s)
  /\ UNCHANGED <<body, order>>

\* The order is not there (yet).
OrderMissing(s) ==
  /\ Holds(s) /\ Known(Hand(s)) /\ session[s].found = "UNCOMMITTED"
  /\ Settle(s, AfterFailure(s))
  /\ Proceed(s)
  /\ UNCHANGED <<body, order>>

\* An exception behind the flush of transition(): the session is committed with
\* what was flushed, and the event is not PROCESSED.  Behind the last write (in
\* the notification) the books are made too, before the first posting (in the
\* computation of the reward) they are not: OrderLifecycle!WebhookCommit and
\* WebhookRaises.  Here the two are one, an order that has moved.
ApplyRaises(s) ==
  /\ Holds(s) /\ Applies(s)
  /\ order' = [order EXCEPT ![body[Hand(s)].order] = Target(s)]
  /\ Settle(s, AfterFailure(s))
  /\ Proceed(s)
  /\ UNCHANGED body

\* transition() refuses, writes its audit row and commits: the attempt, and
\* the row as RECEIVED if it was this delivery's INSERT.
Refuse(s) ==
  /\ Holds(s) /\ Decidable(s) /\ session[s].found # Target(s)
  /\ ~Applies(s) /\ ~WalksBack(session[s].found, Target(s))
  /\ Settle(s, IF Copy(s) = Absent THEN "RECEIVED" ELSE Copy(s).status)
  /\ session' = [session EXCEPT ![s].step = "refused"]
  /\ UNCHANGED <<body, order>>

\* The second commit, which marks the event PROCESSED.
SettleRefused(s) ==
  /\ At(s, "refused") /\ ~Locked(Hand(s))
  /\ event' = [event EXCEPT ![Hand(s)].status = "PROCESSED"]
  /\ Proceed(s)
  /\ UNCHANGED <<body, order, tried>>

\* The session ends without a commit: a crash, a lost connection.
Abort(s) ==
  /\ ~At(s, "idle")
  /\ session' = [session EXCEPT ![s] = Idle]
  /\ UNCHANGED <<body, order, event, tried>>

------------------------------------------------------------------------------
(* The rest of the system *)

\* create_order commits the order with its partner_order_id (OrderCreation).
OrderCommitted(o) ==
  /\ order[o] = "UNCOMMITTED"
  /\ order' = [order EXCEPT ![o] = "AWAITING_PAYMENT"]
  /\ UNCHANGED <<body, event, session, tried>>

\* Another handler moves it (OrderLifecycle).
OrderMoved(o, status) ==
  /\ <<order[o], status>> \in OtherMoves
  /\ order' = [order EXCEPT ![o] = status]
  /\ UNCHANGED <<body, event, session, tried>>

------------------------------------------------------------------------------
Commit(s) ==
  \/ UnknownEvent(s) \/ NothingToDo(s) \/ Apply(s) \/ OrderMissing(s)
  \/ ApplyRaises(s) \/ Refuse(s)

Process(s) == Lock(s) \/ Commit(s) \/ SettleRefused(s)

Next ==
  \/ \E d \in Deliveries :
       DuplicateInsert(d) \/ \E e \in Events : Deliver(d, e)
  \/ \E w \in Workers : PassStart(w) \/ \E e \in Events : PassTakes(w, e)
  \/ \E s \in Sessions : Process(s) \/ Abort(s)
  \/ \E o \in Orders :
       OrderCommitted(o) \/ \E status \in OrderStatus : OrderMoved(o, status)

\* Sessions go on with what they have begun, every server process keeps making
\* passes, and a loop that waits for a row gets its turn.  Nothing is assumed of
\* deliveries beginning, or of aborts.
Fairness ==
  /\ \A s \in Sessions : WF_vars(Process(s) \/ DuplicateInsert(s))
  /\ \A w \in Workers :
       /\ WF_vars(PassStart(w)) /\ WF_vars(\E e \in Events : PassTakes(w, e))
       /\ SF_vars(Lock(w))

Spec == Init /\ [][Next]_vars
FairSpec == Spec /\ Fairness

------------------------------------------------------------------------------
(* Properties *)

SessionRecord ==
  [step : {"idle", "pass", "read", "holds", "refused"},
   hand : Events \cup {NoEvent}, todo : SUBSET Events,
   found : {"none", "UNCOMMITTED"} \cup OrderStatus,
   copy : [Events -> EventRow]]

\* Type invariant of the committed rows and of the sessions.
TypeOK ==
  /\ body \in [Events -> Bodies]
  /\ order \in [Orders -> OrderStatus \cup {"UNCOMMITTED"}]
  /\ event \in [Events -> EventRow]
  /\ session \in [Sessions -> SessionRecord]
  /\ tried \in [Events -> 0..MaxAttempts]

\* An event that overtakes its order is kept where a loop or an admin finds it:
\* it is never taken for done (PROCESSED), nor left where no loop looks
\* (RECEIVED).
EarlyEventIsKept ==
  \A e \in Events :
    /\ Known(e) /\ body[e].order # NoOrder
    /\ order[body[e].order] = "UNCOMMITTED"
    => event[e].status \in {"ABSENT", "RETRYING", "DEAD_LETTER"}

\* An event with a known word is only given up after as many attempts as
\* webhook_max_processing_attempts says, although sessions that overlap write
\* the same count, or an older one, over each other's.
DeadLetterIsEarned ==
  \A e \in Events :
    Known(e) /\ event[e].status = "DEAD_LETTER" => tried[e] = MaxAttempts

\* What was processed stays PROCESSED, whatever the deliveries and passes that
\* read the event before write after: it is only taken back by one that finds
\* its order moved back to where the event applies once more.
ProcessedIsKept ==
  [][\A e \in Events :
       event[e].status = "PROCESSED" /\ event'[e].status # "PROCESSED" =>
         \E s \in Sessions : Holds(s) /\ Hand(s) = e /\ Applies(s)]_vars

\* Once no session is cut short over it any more, no event is retried for ever:
\* it is processed or put to the dead letters, whether its order turns up or not.
RetriesEnd ==
  \A e \in Events :
    <>[][\A s \in Sessions :
           Abort(s) => e # Hand(s) /\ e \notin session[s].todo]_vars
    => (event[e].status = "RETRYING" ~>
          event[e].status \in {"PROCESSED", "DEAD_LETTER"})
==============================================================================
