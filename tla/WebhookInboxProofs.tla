------------------------- MODULE WebhookInboxProofs --------------------------
(***************************************************************************)
(* Proofs about WebhookInbox for any events, orders, deliveries and        *)
(* workers.  The argument: the lock on an event's row makes the session    *)
(* that holds it the only writer, so what it found about the order is as   *)
(* recent as any word PROCESSED on the row; and no copy counts more        *)
(* attempts than were made.                                                *)
(***************************************************************************)
EXTENDS WebhookInbox, TLAPS

\* A session past the look-up has an event in hand.
HandsAreFull ==
  \A s \in Sessions : session[s].step \in {"read", "holds", "refused"} =>
                        Hand(s) \in Events

\* The row lock.
OneHolder ==
  \A s, t \in Sessions : Holds(s) /\ Holds(t) /\ Hand(s) = Hand(t) => s = t

\* Neither the row nor any copy of it counts an attempt nobody made.
CountsAreTried ==
  \A e \in Events :
    /\ event[e].attempts <= tried[e]
    /\ \A s \in Sessions : session[s].copy[e].attempts <= tried[e]

\* An order looked up as missing may have come since, but the event has not
\* been processed since.
FoundIsRecent ==
  \A s \in Sessions : Holds(s) =>
    IF body[Hand(s)].order = NoOrder THEN session[s].found = "none"
    ELSE /\ session[s].found # "none"
         /\ order[body[Hand(s)].order] = "UNCOMMITTED" =>
              session[s].found = "UNCOMMITTED"
         /\ session[s].found = "UNCOMMITTED" /\ Known(Hand(s)) =>
              event[Hand(s)].status # "PROCESSED"

\* Who inserts the row is the first.
InsertIsFirst ==
  \A s \in Sessions :
    Holds(s) /\ Copy(s) = Absent => event[Hand(s)] = Absent

RefusedHasOrder ==
  \A s \in Sessions : At(s, "refused") =>
    /\ Known(Hand(s))
    /\ body[Hand(s)].order # NoOrder
    /\ order[body[Hand(s)].order] # "UNCOMMITTED"

ProcessedIsKnown ==
  \A e \in Events : event[e].status = "PROCESSED" => Known(e)

IInv == /\ TypeOK /\ HandsAreFull /\ OneHolder /\ CountsAreTried
        /\ FoundIsRecent /\ InsertIsFirst /\ RefusedHasOrder
        /\ ProcessedIsKnown /\ EarlyEventIsKept /\ DeadLetterIsEarned

------------------------------------------------------------------------------
LEMMA InitInvariant == Init => IInv
<1> SUFFICES ASSUME Init PROVE IInv
  OBVIOUS
<1>1. Absent \in EventRow
  BY MaxAttemptsAssumption DEF Absent, EventRow
<1>2. TypeOK
  BY <1>1, MaxAttemptsAssumption DEF Init, TypeOK, Idle, SessionRecord
<1>3. /\ HandsAreFull /\ OneHolder /\ CountsAreTried /\ FoundIsRecent
      /\ InsertIsFirst /\ RefusedHasOrder
  BY DEF Init, Idle, Absent, HandsAreFull, OneHolder, CountsAreTried,
         FoundIsRecent, InsertIsFirst, RefusedHasOrder, Holds, At
<1>4. ProcessedIsKnown /\ EarlyEventIsKept /\ DeadLetterIsEarned
  BY DEF Init, Absent, ProcessedIsKnown, EarlyEventIsKept, DeadLetterIsEarned
<1>5. QED BY <1>2, <1>3, <1>4 DEF IInv

\* Counting an attempt.
LEMMA IncrementedIs ==
  ASSUME NEW n \in 0..MaxAttempts
  PROVE  /\ Incremented(n) \in 0..MaxAttempts /\ n <= Incremented(n)
         /\ \A m \in 0..MaxAttempts : m <= n => Incremented(m) <= Incremented(n)
BY MaxAttemptsAssumption DEF Incremented

\* An action that only moves session s, to a step in which it holds nothing,
\* with copies of the rows as they are, were, or as Absent.
LetsGo(s) ==
  /\ session' \in [Sessions -> SessionRecord]
  /\ \A t \in Sessions \ {s} : session'[t] = session[t]
  /\ session'[s].step \in {"idle", "pass", "read"}
  /\ session'[s].step = "read" => session'[s].hand \in Events
  /\ \A e \in Events :
       session'[s].copy[e] \in {session[s].copy[e], event[e], Absent}

LEMMA LetsGoKeepsInvariant ==
  ASSUME IInv, NEW s \in Sessions, LetsGo(s),
         UNCHANGED <<body, order, event, tried>>
  PROVE  IInv'
<1> USE DEF IInv, LetsGo
<1>1. TypeOK'
  BY DEF TypeOK
<1>2. HandsAreFull' /\ OneHolder'
  BY DEF HandsAreFull, OneHolder, Holds, At, Hand
<1>3. CountsAreTried'
  BY DEF CountsAreTried, Absent, TypeOK
<1>4. FoundIsRecent' /\ InsertIsFirst' /\ RefusedHasOrder'
  BY DEF FoundIsRecent, InsertIsFirst, Copy, RefusedHasOrder, Holds, At, Hand, Known
<1>5. ProcessedIsKnown' /\ EarlyEventIsKept' /\ DeadLetterIsEarned'
  BY DEF ProcessedIsKnown, EarlyEventIsKept, DeadLetterIsEarned, Known
<1>6. QED BY <1>1, <1>2, <1>3, <1>4, <1>5

LEMMA AbsentIsRow == Absent \in EventRow
BY MaxAttemptsAssumption DEF Absent, EventRow

LEMMA ProceedLetsGo ==
  ASSUME TypeOK, NEW s \in Sessions, Hand(s) \in Events, Proceed(s)
  PROVE  LetsGo(s)
<1> USE AbsentIsRow DEF Proceed, LetsGo, Hand
<1>1. CASE session[s].todo = {}
  BY <1>1 DEF Idle, TypeOK, SessionRecord
<1>2. CASE session[s].todo # {}
  <2> DEFINE next == [session[s] EXCEPT !.step = "pass", !.hand = NoEvent,
                        !.found = "none", !.copy[Hand(s)] = Absent]
  <2>1. session[s] \in SessionRecord /\ session[s].copy \in [Events -> EventRow]
    BY DEF TypeOK, SessionRecord
  <2>2. [session[s].copy EXCEPT ![Hand(s)] = Absent] \in [Events -> EventRow]
    BY <2>1
  <2>3. next \in SessionRecord
    BY <2>1, <2>2 DEF SessionRecord
  <2>4. session' = [session EXCEPT ![s] = next]
    BY <1>2
  <2>5. \A e \in Events : next.copy[e] \in {session[s].copy[e], Absent}
    BY <2>1, <2>3
  <2> HIDE DEF next
  <2>6. session'[s] = next /\ \A t \in Sessions \ {s} : session'[t] = session[t]
    BY <2>4 DEF TypeOK
  <2>7. next.step = "pass"
    BY <2>1 DEF next, SessionRecord
  <2>8. QED BY <2>3, <2>4, <2>5, <2>6, <2>7 DEF TypeOK
<1>3. QED BY <1>1, <1>2

LEMMA IdleLetsGo ==
  ASSUME TypeOK, NEW s \in Sessions, session' = [session EXCEPT ![s] = Idle]
  PROVE  LetsGo(s)
BY AbsentIsRow DEF LetsGo, Idle, TypeOK, SessionRecord

LEMMA ReadingKeepsInvariant ==
  ASSUME IInv, NEW s \in Sessions, NEW e \in Events,
         \/ Deliver(s, e) \/ PassStart(s) \/ PassTakes(s, e)
         \/ DuplicateInsert(s) \/ Abort(s)
  PROVE  IInv'
<1> USE AbsentIsRow DEF IInv
<1>1. LetsGo(s) /\ UNCHANGED <<body, order, event, tried>>
  <2>1. CASE Deliver(s, e)
    BY <2>1 DEF Deliver, LetsGo, Idle, TypeOK, SessionRecord
  <2>2. CASE PassStart(s)
    BY <2>2 DEF PassStart, Retrying, LetsGo, Idle, TypeOK, SessionRecord
  <2>3. CASE PassTakes(s, e)
    BY <2>3 DEF PassTakes, LetsGo, TypeOK, SessionRecord
  <2>4. CASE DuplicateInsert(s)
    BY <2>4, IdleLetsGo DEF DuplicateInsert
  <2>5. CASE Abort(s)
    BY <2>5, IdleLetsGo DEF Abort
  <2>6. QED BY <2>1, <2>2, <2>3, <2>4, <2>5
<1>2. QED BY <1>1, LetsGoKeepsInvariant

LEMMA LockKeepsInvariant ==
  ASSUME IInv, NEW s \in Sessions, Lock(s)
  PROVE  IInv'
<1> USE DEF IInv
<1>1. Hand(s) \in Events /\ At(s, "read") /\ ~Locked(Hand(s))
  BY DEF Lock, HandsAreFull, At
<1>2. UNCHANGED <<body, order, event, tried>>
  BY DEF Lock
<1>3. /\ session'[s].step = "holds" /\ Hand(s)' = Hand(s)
      /\ session'[s].copy = session[s].copy
      /\ session'[s].found = IF body[Hand(s)].order = NoOrder THEN "none"
                             ELSE order[body[Hand(s)].order]
      /\ \A t \in Sessions \ {s} : session'[t] = session[t]
  BY DEF Lock, Hand, TypeOK, SessionRecord
<1>4. body[Hand(s)].order \in Orders \cup {NoOrder}
  BY <1>1, EventsAssumption DEF TypeOK
<1>5. TypeOK'
  <2> DEFINE found == IF body[Hand(s)].order = NoOrder THEN "none"
                      ELSE order[body[Hand(s)].order]
  <2>1. found \in {"none", "UNCOMMITTED"} \cup OrderStatus
    BY <1>4 DEF TypeOK
  <2> HIDE DEF found
  <2>2. [session[s] EXCEPT !.step = "holds", !.found = found] \in SessionRecord
    BY <2>1 DEF TypeOK, SessionRecord
  <2>3. session' = [session EXCEPT ![s] =
                      [session[s] EXCEPT !.step = "holds", !.found = found]]
    BY DEF Lock, found, TypeOK
  <2>4. session' \in [Sessions -> SessionRecord]
    BY <2>2, <2>3 DEF TypeOK
  <2>5. QED BY <1>2, <2>4 DEF TypeOK
<1>6. HandsAreFull' /\ OneHolder'
  BY <1>1, <1>3 DEF HandsAreFull, OneHolder, Locked, Holds, At, Hand
<1>7. CountsAreTried'
  BY <1>2, <1>3 DEF CountsAreTried
<1>8. FoundIsRecent'
  <2>1. body[Hand(s)].order # NoOrder =>
          order[body[Hand(s)].order] \in OrderStatus \cup {"UNCOMMITTED"}
    BY <1>4 DEF TypeOK
  <2>2. body[Hand(s)].order # NoOrder =>
          order[body[Hand(s)].order] # "none"
    BY <2>1 DEF OrderStatus
  <2>3. order[body[Hand(s)].order] = "UNCOMMITTED" /\ Known(Hand(s))
        /\ body[Hand(s)].order # NoOrder => event[Hand(s)].status # "PROCESSED"
    BY <1>1 DEF EarlyEventIsKept
  <2>4. QED BY <1>2, <1>3, <2>2, <2>3 DEF FoundIsRecent, Holds, At, Hand, Known
<1>9. InsertIsFirst' /\ RefusedHasOrder'
  BY <1>2, <1>3 DEF Lock, InsertIsFirst, RefusedHasOrder, Holds, At, Hand, Copy,
                    Known
<1>10. ProcessedIsKnown' /\ EarlyEventIsKept' /\ DeadLetterIsEarned'
  BY <1>2 DEF ProcessedIsKnown, EarlyEventIsKept, DeadLetterIsEarned, Known
<1>11. QED BY <1>5, <1>6, <1>7, <1>8, <1>9, <1>10

------------------------------------------------------------------------------
(* Commits *)

\* A status that may be written on the row of e.
MayWrite(e, status) ==
  /\ status = "PROCESSED" => Known(e)
  /\ status = "DEAD_LETTER" /\ Known(e) => tried'[e] = MaxAttempts
  /\ status \in {"PROCESSED", "RECEIVED"} /\ body[e].order # NoOrder =>
       order'[body[e].order] # "UNCOMMITTED"

\* No order is uncommitted again.
OrdersStay ==
  /\ order' \in [Orders -> OrderStatus \cup {"UNCOMMITTED"}]
  /\ \A o \in Orders : order[o] # "UNCOMMITTED" => order'[o] # "UNCOMMITTED"

\* transition() has refused session s, and the order is there.
TurnedDown(s) ==
  /\ session' = [session EXCEPT ![s].step = "refused"]
  /\ Known(Hand(s)) /\ body[Hand(s)].order # NoOrder
  /\ order[body[Hand(s)].order] # "UNCOMMITTED"

LEMMA CommitKeepsInvariant ==
  ASSUME IInv, NEW s \in Sessions, NEW e \in Events, e = Hand(s),
         \A t \in Sessions \ {s} : Holds(t) => Hand(t) # e,
         event' \in [Events -> EventRow],
         \A f \in Events \ {e} : event'[f] = event[f],
         event'[e].attempts <= tried'[e],
         event'[e].status # event[e].status => MayWrite(e, event'[e].status),
         tried' \in [Events -> 0..MaxAttempts],
         \A f \in Events : tried[f] <= tried'[f],
         body' = body, OrdersStay,
         LetsGo(s) \/ TurnedDown(s)
  PROVE  IInv'
<1> USE DEF IInv, OrdersStay
<1>1. TypeOK'
  BY DEF TypeOK, LetsGo, TurnedDown, SessionRecord
<1>2. /\ \A t \in Sessions \ {s} : session'[t] = session[t]
      /\ session'[s].step \in {"idle", "pass", "read", "refused"}
      /\ session'[s].step = "refused" => TurnedDown(s) /\ Hand(s)' = Hand(s)
      /\ session'[s].step = "read" => Hand(s)' \in Events
  BY DEF LetsGo, TurnedDown, Hand, TypeOK, SessionRecord
<1>3. HandsAreFull'
  BY <1>2 DEF HandsAreFull, Hand
<1>4. OneHolder'
  BY <1>2 DEF OneHolder, Holds, At, Hand
<1>5. CountsAreTried'
  <2> SUFFICES ASSUME NEW f \in Events
               PROVE  /\ event'[f].attempts <= tried'[f]
                      /\ \A t \in Sessions : session'[t].copy[f].attempts <= tried'[f]
    BY DEF CountsAreTried
  <2>1. /\ tried[f] \in Nat /\ tried'[f] \in Nat /\ tried[f] <= tried'[f]
        /\ event[f].attempts \in Nat /\ event'[f].attempts \in Nat
    BY MaxAttemptsAssumption DEF TypeOK, EventRow
  <2>2. event'[f].attempts <= tried'[f]
    BY <2>1 DEF CountsAreTried
  <2>3. \A t \in Sessions : session[t].copy[f].attempts \in Nat
                            /\ session[t].copy[f].attempts <= tried'[f]
    BY <2>1 DEF CountsAreTried, TypeOK, SessionRecord, EventRow
  <2>4. session'[s].copy[f] \in {session[s].copy[f], event[f], Absent}
    BY DEF LetsGo, TurnedDown, TypeOK, SessionRecord
  <2>5. session'[s].copy[f].attempts <= tried'[f]
    BY <2>1, <2>3, <2>4 DEF Absent, CountsAreTried
  <2>6. QED BY <1>2, <2>2, <2>3, <2>5
<1>6. FoundIsRecent'
  <2> SUFFICES ASSUME NEW t \in Sessions, Holds(t)'
               PROVE  IF body[Hand(t)].order = NoOrder
                      THEN session[t].found = "none"
                      ELSE /\ session[t].found # "none"
                           /\ order'[body[Hand(t)].order] = "UNCOMMITTED" =>
                                session[t].found = "UNCOMMITTED"
                           /\ session[t].found = "UNCOMMITTED" /\ Known(Hand(t))
                                => event'[Hand(t)].status # "PROCESSED"
    BY <1>2 DEF FoundIsRecent, Holds, At, Hand, Known
  <2>1. t # s /\ Holds(t)
    BY <1>2 DEF Holds, At
  <2>2. Hand(t) \in Events /\ Hand(t) # e
    BY <2>1 DEF HandsAreFull, Holds, At
  <2>3. body[Hand(t)].order \in Orders \cup {NoOrder}
    BY <2>2, EventsAssumption DEF TypeOK
  <2>4. QED BY <2>1, <2>2, <2>3 DEF FoundIsRecent
<1>12. InsertIsFirst'
  BY <1>2, <1>3 DEF InsertIsFirst, HandsAreFull, Holds, At, Hand, Copy
<1>7. RefusedHasOrder'
  <2> SUFFICES ASSUME NEW t \in Sessions, At(t, "refused")'
               PROVE  /\ Known(Hand(t)) /\ Hand(t)' = Hand(t)
                      /\ body[Hand(t)].order # NoOrder
                      /\ order'[body[Hand(t)].order] # "UNCOMMITTED"
    BY DEF RefusedHasOrder, Known
  <2>1. CASE t = s
    <3>1. body[e].order \in Orders \cup {NoOrder}
      BY EventsAssumption DEF TypeOK
    <3>2. QED BY <1>2, <2>1, <3>1 DEF TurnedDown, At
  <2>2. CASE t # s
    <3>1. At(t, "refused") /\ Hand(t)' = Hand(t)
      BY <1>2, <2>2 DEF At, Hand
    <3>2. body[Hand(t)].order \in Orders \cup {NoOrder}
      BY <3>1, EventsAssumption DEF TypeOK, HandsAreFull, At
    <3>3. QED BY <3>1, <3>2 DEF RefusedHasOrder
  <2>3. QED BY <2>1, <2>2
<1>8. ProcessedIsKnown'
  BY DEF ProcessedIsKnown, MayWrite, Known
<1>9. EarlyEventIsKept'
  <2> SUFFICES ASSUME NEW f \in Events, Known(f), body[f].order # NoOrder,
                      order'[body[f].order] = "UNCOMMITTED"
               PROVE  event'[f].status \in {"ABSENT", "RETRYING", "DEAD_LETTER"}
    BY DEF EarlyEventIsKept, Known
  <2>1. body[f].order \in Orders
    BY EventsAssumption DEF TypeOK
  <2>2. event[f].status \in {"ABSENT", "RETRYING", "DEAD_LETTER"}
    BY <2>1 DEF EarlyEventIsKept
  <2>3. event'[f].status \in {"ABSENT", "RECEIVED", "RETRYING", "PROCESSED",
                              "DEAD_LETTER"}
    BY DEF EventRow
  <2>4. QED BY <2>2, <2>3 DEF MayWrite
<1>10. DeadLetterIsEarned'
  <2> SUFFICES ASSUME NEW f \in Events, Known(f), event'[f].status = "DEAD_LETTER"
               PROVE  tried'[f] = MaxAttempts
    BY DEF DeadLetterIsEarned, Known
  <2>1. CASE event'[f].status = event[f].status
    BY <2>1, MaxAttemptsAssumption DEF DeadLetterIsEarned, TypeOK
  <2>2. CASE event'[f].status # event[f].status
    BY <2>2 DEF MayWrite
  <2>3. QED BY <2>1, <2>2
<1>11. QED BY <1>1, <1>3, <1>4, <1>5, <1>6, <1>7, <1>8, <1>9, <1>10, <1>12

LEMMA HolderIsAlone ==
  ASSUME IInv, NEW s \in Sessions, Holds(s)
  PROVE  /\ Hand(s) \in Events
         /\ \A t \in Sessions \ {s} : Holds(t) => Hand(t) # Hand(s)
         /\ body[Hand(s)].order \in Orders \cup {NoOrder}
         /\ Copy(s) \in EventRow /\ Copy(s).attempts <= tried[Hand(s)]
<1>1. Hand(s) \in Events
  BY DEF IInv, HandsAreFull, Holds, At
<1>2. QED
  BY <1>1, EventsAssumption
     DEF IInv, OneHolder, CountsAreTried, TypeOK, SessionRecord, Copy, Hand

LEMMA SettleWrites ==
  ASSUME IInv, NEW s \in Sessions, Holds(s), NEW status, Settle(s, status),
         status \in {"RECEIVED", "RETRYING", "PROCESSED", "DEAD_LETTER"}
           \/ status = Copy(s).status
  PROVE  /\ event' \in [Events -> EventRow]
         /\ \A f \in Events \ {Hand(s)} : event'[f] = event[f]
         /\ event'[Hand(s)].attempts <= tried'[Hand(s)]
         /\ event'[Hand(s)].status # event[Hand(s)].status =>
              event'[Hand(s)].status = status /\ status # Copy(s).status
         /\ tried' \in [Events -> 0..MaxAttempts]
         /\ \A f \in Events : tried[f] <= tried'[f]
         /\ tried'[Hand(s)] = Incremented(tried[Hand(s)])
<1> DEFINE row == [status |-> IF status = Copy(s).status
                              THEN event[Hand(s)].status ELSE status,
                   attempts |-> Incremented(Copy(s).attempts)]
<1>1. /\ Hand(s) \in Events /\ Copy(s) \in EventRow
      /\ Copy(s).attempts <= tried[Hand(s)]
  BY HolderIsAlone
<1>2. /\ event \in [Events -> EventRow] /\ tried \in [Events -> 0..MaxAttempts]
  BY DEF IInv, TypeOK
<1>3. /\ tried[Hand(s)] \in 0..MaxAttempts
      /\ Copy(s).attempts \in 0..MaxAttempts
  BY <1>1, <1>2 DEF EventRow
<1>4. /\ row.attempts \in 0..MaxAttempts
      /\ row.attempts <= Incremented(tried[Hand(s)])
      /\ Incremented(tried[Hand(s)]) \in 0..MaxAttempts
      /\ tried[Hand(s)] <= Incremented(tried[Hand(s)])
  BY <1>1, <1>3, IncrementedIs
<1>5. row \in EventRow
  BY <1>1, <1>2, <1>4 DEF EventRow
<1>6. event' = [event EXCEPT ![Hand(s)] = row]
  BY <1>1, <1>2 DEF Settle
<1>7. tried' = [tried EXCEPT ![Hand(s)] = Incremented(tried[Hand(s)])]
  BY <1>1, <1>2 DEF Settle
<1>8. \A f \in Events : tried[f] <= tried'[f]
  BY <1>2, <1>4, <1>7, MaxAttemptsAssumption
<1>9. event'[Hand(s)] = row
  BY <1>1, <1>2, <1>6
<1>10. row.status = IF status = Copy(s).status
                    THEN event[Hand(s)].status ELSE status
  OBVIOUS
<1> HIDE DEF row
<1>11. tried'[Hand(s)] = Incremented(tried[Hand(s)])
  BY <1>1, <1>2, <1>7
<1>12. QED
  BY <1>1, <1>2, <1>4, <1>5, <1>6, <1>7, <1>8, <1>9, <1>10, <1>11

LEMMA AfterFailureIs ==
  ASSUME IInv, NEW s \in Sessions, Holds(s)
  PROVE  /\ AfterFailure(s) \in {"RETRYING", "DEAD_LETTER"}
         /\ AfterFailure(s) = "DEAD_LETTER" =>
              Incremented(tried[Hand(s)]) = MaxAttempts
<1>1. /\ Copy(s).attempts \in 0..MaxAttempts
      /\ tried[Hand(s)] \in 0..MaxAttempts
      /\ Copy(s).attempts <= tried[Hand(s)]
  BY HolderIsAlone DEF IInv, TypeOK, EventRow
<1>2. QED BY <1>1, MaxAttemptsAssumption DEF AfterFailure, Incremented

\* A session that settles its event, leaves the order as it is, and goes on.
LEMMA SettlingKeepsInvariant ==
  ASSUME IInv, NEW s \in Sessions, Holds(s), NEW status, Settle(s, status),
         status \in {"RECEIVED", "RETRYING", "PROCESSED", "DEAD_LETTER"}
           \/ status = Copy(s).status,
         status = "PROCESSED" => Known(Hand(s)),
         status = "DEAD_LETTER" /\ Known(Hand(s)) /\ status # Copy(s).status =>
           Incremented(tried[Hand(s)]) = MaxAttempts,
         OrdersStay,
         status \in {"PROCESSED", "RECEIVED"} /\ body[Hand(s)].order # NoOrder =>
           order'[body[Hand(s)].order] # "UNCOMMITTED",
         Proceed(s) \/ TurnedDown(s), body' = body
  PROVE  IInv'
<1>1. /\ Hand(s) \in Events
      /\ \A t \in Sessions \ {s} : Holds(t) => Hand(t) # Hand(s)
  BY HolderIsAlone
<1>2. /\ event' \in [Events -> EventRow]
      /\ \A f \in Events \ {Hand(s)} : event'[f] = event[f]
      /\ event'[Hand(s)].attempts <= tried'[Hand(s)]
      /\ event'[Hand(s)].status # event[Hand(s)].status =>
           event'[Hand(s)].status = status /\ status # Copy(s).status
      /\ tried' \in [Events -> 0..MaxAttempts]
      /\ \A f \in Events : tried[f] <= tried'[f]
      /\ tried'[Hand(s)] = Incremented(tried[Hand(s)])
  BY SettleWrites
<1>3. event'[Hand(s)].status # event[Hand(s)].status =>
        MayWrite(Hand(s), event'[Hand(s)].status)
  BY <1>2 DEF MayWrite
<1>4. LetsGo(s) \/ TurnedDown(s)
  BY <1>1, ProceedLetsGo DEF IInv
<1>5. QED
  BY <1>1, <1>2, <1>3, <1>4, CommitKeepsInvariant

LEMMA OrdersUnchanged == ASSUME TypeOK, order' = order PROVE OrdersStay
BY DEF TypeOK, OrdersStay

\* What the session found: nothing only for an event that names no order, and
\* a status only of an order that is committed.
LEMMA FoundIs ==
  ASSUME IInv, NEW s \in Sessions, Holds(s)
  PROVE  /\ session[s].found = "none" => body[Hand(s)].order = NoOrder
         /\ session[s].found \notin {"none", "UNCOMMITTED"} =>
              /\ body[Hand(s)].order \in Orders
              /\ order[body[Hand(s)].order] # "UNCOMMITTED"
         /\ session[s].found = "UNCOMMITTED" /\ Known(Hand(s)) =>
              event[Hand(s)].status # "PROCESSED"
BY HolderIsAlone DEF IInv, FoundIsRecent

LEMMA TargetIs ==
  ASSUME NEW s, Known(Hand(s))
  PROVE  Target(s) \in OrderStatus /\ Target(s) # "UNCOMMITTED"
BY DEF Known, Target, EventWords, EVENT_STATUS_MAP, OrderStatus

LEMMA ProcessingKeepsInvariant ==
  ASSUME IInv, NEW s \in Sessions, Commit(s)
  PROVE  IInv'
<1> USE DEF IInv
<1>1. CASE UnknownEvent(s)
  BY <1>1, OrdersUnchanged, SettlingKeepsInvariant DEF UnknownEvent
<1>2. CASE NothingToDo(s)
  <2>1. Known(Hand(s)) /\ Holds(s) /\ session[s].found # "UNCOMMITTED"
    BY <1>2 DEF NothingToDo, Decidable
  <2>2. body[Hand(s)].order # NoOrder => order[body[Hand(s)].order] # "UNCOMMITTED"
    BY <2>1, FoundIs
  <2>3. QED
    BY <1>2, <2>1, <2>2, OrdersUnchanged, SettlingKeepsInvariant DEF NothingToDo
<1>3. CASE Apply(s) \/ ApplyRaises(s)
  <2>1. /\ Holds(s) /\ Known(Hand(s))
        /\ session[s].found \notin {"none", "UNCOMMITTED"}
    BY <1>3 DEF Apply, ApplyRaises, Applies, Decidable
  <2>2. Target(s) \in OrderStatus /\ Target(s) # "UNCOMMITTED"
    BY <2>1, TargetIs
  <2>3. body[Hand(s)].order \in Orders
    BY <2>1, FoundIs
  <2>4. order' = [order EXCEPT ![body[Hand(s)].order] = Target(s)]
    BY <1>3 DEF Apply, ApplyRaises
  <2>5. OrdersStay /\ order'[body[Hand(s)].order] # "UNCOMMITTED"
    BY <2>2, <2>3, <2>4 DEF OrdersStay, TypeOK
  <2>6. CASE Apply(s)
    BY <2>1, <2>5, <2>6, SettlingKeepsInvariant DEF Apply
  <2>7. CASE ApplyRaises(s)
    BY <2>1, <2>5, <2>7, AfterFailureIs, SettlingKeepsInvariant DEF ApplyRaises
  <2>8. QED BY <1>3, <2>6, <2>7
<1>4. CASE OrderMissing(s)
  BY <1>4, AfterFailureIs, OrdersUnchanged, SettlingKeepsInvariant
     DEF OrderMissing
<1>5. CASE Refuse(s)
  <2>1. /\ Holds(s) /\ Known(Hand(s))
        /\ session[s].found \notin {"none", "UNCOMMITTED"}
    BY <1>5 DEF Refuse, Decidable
  <2>2. /\ body[Hand(s)].order \in Orders
        /\ order[body[Hand(s)].order] # "UNCOMMITTED"
    BY <2>1, FoundIs
  <2>3. TurnedDown(s)
    BY <1>5, <2>1, <2>2, EventsAssumption DEF Refuse, TurnedDown
  <2>4. PICK status : /\ Settle(s, status)
                      /\ status = "RECEIVED" \/ status = Copy(s).status
    BY <1>5 DEF Refuse
  <2>5. QED
    BY <1>5, <2>1, <2>2, <2>3, <2>4, OrdersUnchanged, SettlingKeepsInvariant
       DEF Refuse
<1>6. QED BY <1>1, <1>2, <1>3, <1>4, <1>5 DEF Commit

LEMMA SecondCommitKeepsInvariant ==
  ASSUME IInv, NEW s \in Sessions, SettleRefused(s)
  PROVE  IInv'
<1> USE DEF IInv
<1>1. At(s, "refused") /\ ~Locked(Hand(s)) /\ Hand(s) \in Events
  BY DEF SettleRefused, HandsAreFull, At
<1>2. /\ event' = [event EXCEPT ![Hand(s)] =
                     [event[Hand(s)] EXCEPT !.status = "PROCESSED"]]
      /\ UNCHANGED <<body, order, tried>> /\ Proceed(s)
  BY <1>1 DEF SettleRefused, TypeOK
<1>3. /\ event[Hand(s)] \in EventRow
      /\ [event[Hand(s)] EXCEPT !.status = "PROCESSED"] \in EventRow
      /\ [event[Hand(s)] EXCEPT !.status = "PROCESSED"].attempts =
           event[Hand(s)].attempts
      /\ [event[Hand(s)] EXCEPT !.status = "PROCESSED"].status = "PROCESSED"
  BY <1>1 DEF TypeOK, EventRow
<1>4. /\ event' \in [Events -> EventRow]
      /\ \A f \in Events \ {Hand(s)} : event'[f] = event[f]
      /\ event'[Hand(s)].attempts = event[Hand(s)].attempts
      /\ event'[Hand(s)].status = "PROCESSED"
  BY <1>1, <1>2, <1>3 DEF TypeOK
<1>5. MayWrite(Hand(s), "PROCESSED")
  BY <1>1, <1>2 DEF MayWrite, RefusedHasOrder
<1>6. \A t \in Sessions \ {s} : Holds(t) => Hand(t) # Hand(s)
  BY <1>1 DEF Locked, Holds
<1>7. LetsGo(s) /\ OrdersStay
  BY <1>1, <1>2, ProceedLetsGo, OrdersUnchanged
<1>8. /\ tried' \in [Events -> 0..MaxAttempts]
      /\ \A f \in Events : tried[f] <= tried'[f]
      /\ event'[Hand(s)].attempts <= tried'[Hand(s)]
  BY <1>1, <1>2, <1>4, MaxAttemptsAssumption DEF TypeOK, CountsAreTried
<1>9. body' = body
  BY <1>2
<1>10. event'[Hand(s)].status # event[Hand(s)].status =>
         MayWrite(Hand(s), event'[Hand(s)].status)
  BY <1>4, <1>5
<1>11. QED
  BY <1>1, <1>4, <1>6, <1>7, <1>8, <1>9, <1>10, CommitKeepsInvariant

LEMMA OrderStepKeepsInvariant ==
  ASSUME IInv, OrdersStay, UNCHANGED <<body, event, session, tried>>
  PROVE  IInv'
<1> USE DEF IInv, OrdersStay
<1>1. TypeOK' /\ HandsAreFull' /\ OneHolder' /\ CountsAreTried'
  BY DEF TypeOK, HandsAreFull, OneHolder, CountsAreTried, Holds, At, Hand
<1>2. \A e \in Events : body[e].order \in Orders \cup {NoOrder}
  BY EventsAssumption DEF TypeOK
<1>3. FoundIsRecent' /\ InsertIsFirst' /\ RefusedHasOrder'
  BY <1>2 DEF FoundIsRecent, InsertIsFirst, Copy, RefusedHasOrder, HandsAreFull, Holds, At, Hand,
              Known
<1>4. ProcessedIsKnown' /\ EarlyEventIsKept' /\ DeadLetterIsEarned'
  BY <1>2 DEF ProcessedIsKnown, EarlyEventIsKept, DeadLetterIsEarned, Known
<1>5. QED BY <1>1, <1>3, <1>4

LEMMA NextInvariant == IInv /\ [Next]_vars => IInv'
<1> SUFFICES ASSUME IInv, [Next]_vars PROVE IInv'
  OBVIOUS
<1>1. ASSUME NEW d \in Deliveries, NEW e \in Events,
             DuplicateInsert(d) \/ Deliver(d, e)
      PROVE  IInv'
  BY <1>1, ReadingKeepsInvariant DEF Sessions
<1>2. ASSUME NEW d \in Deliveries, DuplicateInsert(d)
      PROVE  IInv'
  <2>1. Hand(d) \in Events /\ d \in Sessions
    BY <1>2 DEF DuplicateInsert, IInv, HandsAreFull, At, Sessions
  <2>2. QED BY <1>1, <1>2, <2>1
<1>3. ASSUME NEW w \in Workers, PassStart(w)
      PROVE  IInv'
  <2>1. \E e \in Events : TRUE
    BY <1>3 DEF PassStart, Retrying
  <2>2. QED BY <1>3, <2>1, ReadingKeepsInvariant DEF Sessions
<1>4. ASSUME NEW w \in Workers, NEW e \in Events, PassTakes(w, e)
      PROVE  IInv'
  BY <1>4, ReadingKeepsInvariant DEF Sessions
<1>5. ASSUME NEW s \in Sessions, Process(s)
      PROVE  IInv'
  BY <1>5, LockKeepsInvariant, ProcessingKeepsInvariant,
     SecondCommitKeepsInvariant DEF Process
<1>6. ASSUME NEW s \in Sessions, Abort(s)
      PROVE  IInv'
  BY <1>6, IdleLetsGo, LetsGoKeepsInvariant DEF Abort, IInv
<1>7. ASSUME NEW o \in Orders, OrderCommitted(o)
      PROVE  IInv'
  <2>1. OrdersStay
    BY <1>7 DEF OrderCommitted, OrdersStay, IInv, TypeOK, OrderStatus
  <2>2. QED BY <1>7, <2>1, OrderStepKeepsInvariant DEF OrderCommitted
<1>8. ASSUME NEW o \in Orders, NEW status \in OrderStatus, OrderMoved(o, status)
      PROVE  IInv'
  <2>1. status # "UNCOMMITTED"
    BY DEF OrderStatus
  <2>2. OrdersStay
    BY <1>8, <2>1 DEF OrderMoved, OrdersStay, IInv, TypeOK
  <2>3. QED BY <1>8, <2>2, OrderStepKeepsInvariant DEF OrderMoved
<1>9. CASE UNCHANGED vars
  BY <1>9, OrdersUnchanged, OrderStepKeepsInvariant DEF vars, IInv
<1>10. QED
  BY <1>1, <1>2, <1>3, <1>4, <1>5, <1>6, <1>7, <1>8, <1>9 DEF Next

LEMMA InvariantHolds == Spec => []IInv
BY InitInvariant, NextInvariant, PTL DEF Spec

------------------------------------------------------------------------------
(* Theorems *)

\* The rows and the sessions are always of their types.
THEOREM TypeCorrect == Spec => []TypeOK
<1>1. IInv => TypeOK
  BY DEF IInv
<1>2. QED BY <1>1, InvariantHolds, PTL

\* However deliveries, passes and aborts interleave, an event that overtakes
\* its order is never taken for done, nor left as RECEIVED.
THEOREM EarlyEventsAreKept == Spec => []EarlyEventIsKept
<1>1. IInv => EarlyEventIsKept
  BY DEF IInv
<1>2. QED BY <1>1, InvariantHolds, PTL

\* No event with a known word is given up before its attempts are used up,
\* whatever counts the sessions that overlap write over each other's.
THEOREM DeadLettersAreEarned == Spec => []DeadLetterIsEarned
<1>1. IInv => DeadLetterIsEarned
  BY DEF IInv
<1>2. QED BY <1>1, InvariantHolds, PTL

\* Nobody takes PROCESSED back but a session that found the order where the
\* event applies.
THEOREM ProcessedStays == Spec => ProcessedIsKept
<1> DEFINE Kept ==
      \A e \in Events :
        event[e].status = "PROCESSED" /\ event'[e].status # "PROCESSED" =>
          \E s \in Sessions : Holds(s) /\ Hand(s) = e /\ Applies(s)
<1>1. IInv /\ [Next]_vars => [Kept]_vars
  <2> SUFFICES ASSUME IInv, Next, NEW e \in Events,
                      event[e].status = "PROCESSED",
                      event'[e].status # "PROCESSED"
               PROVE  \E s \in Sessions : Holds(s) /\ Hand(s) = e /\ Applies(s)
    OBVIOUS
  <2>1. event # event'
    OBVIOUS
  <2>2. PICK s \in Sessions : Commit(s) \/ SettleRefused(s)
    BY <2>1 DEF Next, Deliver, DuplicateInsert, PassStart, PassTakes, Process,
                Lock, Abort, OrderCommitted, OrderMoved
  <2>3. CASE SettleRefused(s)
    BY <2>3 DEF SettleRefused, IInv, TypeOK, HandsAreFull, At
  <2>4. CASE Commit(s)
    <3>1. Holds(s)
      BY <2>4 DEF Commit, UnknownEvent, NothingToDo, Apply, OrderMissing,
                  ApplyRaises, Refuse, Applies
    <3>2. ASSUME NEW status, Settle(s, status),
                 status \in {"RECEIVED", "RETRYING", "PROCESSED", "DEAD_LETTER"}
                   \/ status = Copy(s).status
          PROVE  /\ Hand(s) = e /\ status # "PROCESSED"
                 /\ status # Copy(s).status
      BY <3>1, <3>2, SettleWrites
    <3>3. CASE UnknownEvent(s)
      BY <3>2, <3>3 DEF UnknownEvent, IInv, ProcessedIsKnown
    <3>4. CASE NothingToDo(s) \/ Apply(s)
      BY <3>2, <3>4 DEF NothingToDo, Apply
    <3>5. CASE OrderMissing(s)
      BY <3>1, <3>2, <3>5, FoundIs, AfterFailureIs DEF OrderMissing
    <3>6. CASE ApplyRaises(s)
      BY <3>1, <3>2, <3>6, AfterFailureIs DEF ApplyRaises
    <3>7. CASE Refuse(s)
      <4>1. Copy(s) = Absent /\ Hand(s) = e
        BY <3>2, <3>7 DEF Refuse
      <4>2. event[e].status = "ABSENT"
        BY <3>1, <4>1 DEF IInv, InsertIsFirst, Absent
      <4>3. QED BY <4>2
    <3>8. QED BY <2>4, <3>3, <3>4, <3>5, <3>6, <3>7 DEF Commit
  <2>5. QED BY <2>2, <2>3, <2>4
<1>2. QED BY <1>1, InvariantHolds, PTL DEF Spec, ProcessedIsKept
==============================================================================
