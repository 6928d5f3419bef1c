------------------------ MODULE CircuitBreakerProofs -------------------------
(***************************************************************************)
(* Proofs about CircuitBreaker for any number of sessions and any failure  *)
(* threshold: the row is well typed, an open breaker has a cooldown as     *)
(* long as resets run alone, and a running cooldown is served.             *)
(***************************************************************************)
EXTENDS CircuitBreaker, TLAPS

\* A reset that runs alone has an up-to-date copy.
ResetsAlone ==
  \A a \in Admins : InFlight(a) =>
    /\ copy[a].state = row.state
    /\ \A t \in Sessions \ {a} : ~InFlight(t)

IInv == TypeOK /\ (~ResetsOverlap => OpenHasCooldown /\ ResetsAlone)

------------------------------------------------------------------------------
LEMMA FreshIsRow == Fresh \in Columns
BY ThresholdAssumption DEF Fresh, Columns

\* What an UPDATE leaves, column by column.
LEMMA UpdateColumns ==
  ASSUME row \in Columns, NEW seen \in Columns, NEW new \in Columns,
         Update(seen, new)
  PROVE  /\ row' \in Columns
         /\ row'.state = IF new.state # seen.state THEN new.state ELSE row.state
         /\ row'.cooldown = IF new.cooldown # seen.cooldown
                            THEN new.cooldown ELSE row.cooldown
<1>1. DOMAIN row = {"state", "failures", "cooldown"}
  BY DEF Columns
<1>2. row' = [column \in {"state", "failures", "cooldown"} |->
                IF new[column] # seen[column] THEN new[column] ELSE row[column]]
  BY <1>1 DEF Update
<1>3. row' = [state |-> IF new.state # seen.state THEN new.state ELSE row.state,
              failures |-> IF new.failures # seen.failures
                           THEN new.failures ELSE row.failures,
              cooldown |-> IF new.cooldown # seen.cooldown
                           THEN new.cooldown ELSE row.cooldown]
  BY <1>2
<1>4. QED BY <1>3 DEF Columns

\* A session in flight holds a copy of the row.
LEMMA CopyTyped ==
  ASSUME TypeOK, NEW s \in Sessions, InFlight(s)
  PROVE  copy[s] \in Columns
BY DEF TypeOK, InFlight, Idle

\* What a reset, or the success of a call, writes.
LEMMA ResetWrites ==
  ASSUME TypeOK, NEW a \in Sessions, InFlight(a), Update(copy[a], Fresh)
  PROVE  /\ row' \in Columns
         /\ copy[a].state = row.state \/ copy[a].state = "OPEN"
              => row'.state = "CLOSED"
<1>1. copy[a] \in Columns /\ row \in Columns
  BY CopyTyped DEF TypeOK
<1>2. QED BY <1>1, FreshIsRow, UpdateColumns DEF Fresh, Columns

LEMMA SuccessWrites ==
  ASSUME TypeOK, NEW s \in Sessions, QuoteSucceeds(s)
  PROVE  /\ row' \in Columns
         /\ IF HalfOpen(s) THEN row'.state = "CLOSED"
            ELSE row'.state = row.state /\ row'.cooldown = row.cooldown
<1>1. copy[s] \in Columns /\ row \in Columns
  BY CopyTyped DEF TypeOK, QuoteSucceeds
<1>2. CASE HalfOpen(s)
  <2>1. InFlight(s) /\ Update(copy[s], Fresh) /\ copy[s].state = "OPEN"
    BY <1>2 DEF QuoteSucceeds, HalfOpen
  <2>2. QED BY <1>2, <2>1, ResetWrites
<1>3. CASE ~HalfOpen(s)
  <2> DEFINE new == [copy[s] EXCEPT !.failures = 0]
  <2>1. new \in Columns /\ Update(copy[s], new)
    BY <1>1, <1>3, ThresholdAssumption DEF QuoteSucceeds, Columns
  <2>2. new.state = copy[s].state /\ new.cooldown = copy[s].cooldown
    BY <1>1 DEF Columns
  <2>3. QED BY <1>1, <1>3, <2>1, <2>2, UpdateColumns
<1>4. QED BY <1>2, <1>3

LEMMA FailureWrites ==
  ASSUME TypeOK, NEW s \in Sessions, QuoteFailsAnyhow(s)
  PROVE  /\ row' \in Columns
         /\ row'.cooldown \in {"running", row.cooldown}
         /\ row'.state \in {"OPEN", row.state}
         /\ row'.state = "OPEN" /\ row.state # "OPEN"
              => row'.cooldown = "running"
<1>1. copy[s] \in Columns /\ row \in Columns
  BY CopyTyped DEF TypeOK, QuoteFailsAnyhow, QuoteFails
<1>2. Incremented(copy[s].failures) \in 0..Threshold
  BY <1>1, ThresholdAssumption DEF Columns, Incremented
<1>3. PICK flushed \in BOOLEAN : QuoteFails(s, flushed)
  BY DEF QuoteFailsAnyhow
<1>4. row' = [state |-> IF Opens(copy[s]) /\ (HalfOpen(s) => flushed)
                        THEN "OPEN" ELSE row.state,
              failures |-> Incremented(copy[s].failures),
              cooldown |-> IF Opens(copy[s]) THEN "running" ELSE row.cooldown]
  BY <1>3 DEF QuoteFails
<1>5. QED BY <1>1, <1>2, <1>4 DEF Columns

------------------------------------------------------------------------------
LEMMA InitInvariant == Init => IInv
<1> SUFFICES ASSUME Init PROVE IInv
  OBVIOUS
<1>1. TypeOK
  BY FreshIsRow DEF Init, TypeOK
<1>2. OpenHasCooldown /\ ResetsAlone
  BY DEF Init, OpenHasCooldown, ResetsAlone, Fresh, Idle, InFlight, Sessions
<1>3. QED BY <1>1, <1>2 DEF IInv

\* A session that starts, and one that ends after `row` was written.
LEMMA SessionStarts ==
  ASSUME IInv, NEW s \in Sessions, Read(s), UNCHANGED <<row, down>>,
         ~InFlight(s),
         ResetsOverlap \/ \A t \in Admins : ~InFlight(t),
         s \in Admins => ResetsOverlap \/ \A t \in Sessions : ~InFlight(t)
  PROVE  IInv'
<1>1. TypeOK'
  BY DEF IInv, TypeOK, Read
<1>2. ASSUME ~ResetsOverlap PROVE ResetsAlone'
  BY <1>2 DEF IInv, TypeOK, ResetsAlone, Read, InFlight, Idle, Sessions
<1>3. ~ResetsOverlap => OpenHasCooldown'
  BY DEF IInv, OpenHasCooldown
<1>4. QED BY <1>1, <1>2, <1>3 DEF IInv

LEMMA SessionEnds ==
  ASSUME IInv, NEW s \in Sessions, InFlight(s), Release(s), UNCHANGED down,
         row' \in Columns,
         ~ResetsOverlap => OpenHasCooldown'
  PROVE  IInv'
<1>1. TypeOK'
  BY DEF IInv, TypeOK, Release
<1>2. ASSUME ~ResetsOverlap, NEW a \in Admins, InFlight(a)'
      PROVE FALSE
  BY <1>2 DEF IInv, TypeOK, ResetsAlone, Release, InFlight, Idle, Sessions
<1>3. QED BY <1>1, <1>2 DEF IInv, ResetsAlone

LEMMA NextInvariant == IInv /\ [Next]_vars => IInv'
<1> SUFFICES ASSUME IInv, [Next]_vars PROVE IInv'
  OBVIOUS
<1> USE DEF IInv
<1>1. ASSUME NEW s \in Quoters, QuoteStart(s) PROVE IInv'
  BY <1>1, SessionStarts, SessionsAssumption DEF QuoteStart, Sessions
<1>2. ASSUME NEW s \in Quoters, QuoteSucceeds(s) PROVE IInv'
  <2>1. s \in Sessions /\ InFlight(s) /\ Release(s) /\ UNCHANGED down
    BY <1>2 DEF QuoteSucceeds, Sessions
  <2>2. row' \in Columns /\ (~ResetsOverlap => OpenHasCooldown')
    BY <1>2, <2>1, SuccessWrites DEF OpenHasCooldown
  <2>3. QED BY <2>1, <2>2, SessionEnds
<1>3. ASSUME NEW s \in Quoters, QuoteFailsAnyhow(s) PROVE IInv'
  <2>1. s \in Sessions /\ InFlight(s) /\ Release(s) /\ UNCHANGED down
    BY <1>3 DEF QuoteFailsAnyhow, QuoteFails, Sessions
  <2>2. row' \in Columns /\ (~ResetsOverlap => OpenHasCooldown')
    BY <1>3, <2>1, FailureWrites DEF OpenHasCooldown, TypeOK, Columns
  <2>3. QED BY <2>1, <2>2, SessionEnds
<1>4. ASSUME NEW a \in Admins, ResetStart(a) PROVE IInv'
  BY <1>4, SessionStarts DEF ResetStart, Sessions
<1>5. ASSUME NEW a \in Admins, ResetCommit(a) PROVE IInv'
  <2>1. a \in Sessions /\ InFlight(a) /\ Release(a) /\ UNCHANGED down
    BY <1>5 DEF ResetCommit, Sessions
  <2>2. row' \in Columns /\ (~ResetsOverlap => row'.state = "CLOSED")
    BY <1>5, <2>1, ResetWrites DEF ResetCommit, ResetsAlone
  <2>3. QED BY <2>1, <2>2, SessionEnds DEF OpenHasCooldown
<1>6. ASSUME NEW s \in Sessions, Abort(s) PROVE IInv'
  <2>1. InFlight(s) /\ Release(s) /\ UNCHANGED <<row, down>>
    BY <1>6 DEF Abort
  <2>2. QED BY <2>1, SessionEnds DEF OpenHasCooldown, TypeOK
<1>7. CASE CooldownElapses
  BY <1>7 DEF CooldownElapses, TypeOK, Columns, OpenHasCooldown, ResetsAlone,
              InFlight
<1>8. CASE PartnerGoesDown
  BY <1>8 DEF PartnerGoesDown, TypeOK, OpenHasCooldown, ResetsAlone, InFlight
<1>9. CASE UNCHANGED vars
  BY <1>9 DEF vars, TypeOK, OpenHasCooldown, ResetsAlone, InFlight
<1>10. QED
  BY <1>1, <1>2, <1>3, <1>4, <1>5, <1>6, <1>7, <1>8, <1>9 DEF Next

LEMMA Invariant == Spec => []IInv
BY InitInvariant, NextInvariant, PTL DEF Spec

------------------------------------------------------------------------------
\* The row and the copies are well typed: HALF_OPEN is never committed
\* (quote_engine.create_quotes records every partner it called).
THEOREM TypeCorrect == Spec => []TypeOK
<1>1. IInv => TypeOK
  BY DEF IInv
<1>2. QED BY <1>1, Invariant, PTL

\* However quote requests overlap, an open breaker has a cooldown, provided
\* that no reset overlaps them (circuit_breaker._open, record_success, reset).
THEOREM OpenKeepsItsCooldown == ~ResetsOverlap => (Spec => []OpenHasCooldown)
<1> SUFFICES ASSUME ~ResetsOverlap PROVE Spec => []OpenHasCooldown
  OBVIOUS
<1>1. IInv => OpenHasCooldown
  BY DEF IInv
<1>2. QED BY <1>1, Invariant, PTL

\* A running cooldown is cut short by a reset or by a late probe only, resets
\* overlapping or not (record_success writes no state it did not change).
THEOREM CooldownServed == Spec => CooldownIsServed
<1> DEFINE
  Served == (row.state = "OPEN" /\ row.cooldown = "running") =>
    \/ row'.state = "OPEN" /\ row'.cooldown # "none"
    \/ \E s \in Sessions : /\ InFlight(s) /\ ~InFlight(s)'
                           /\ s \in Admins \/ HalfOpen(s)
<1>1. ASSUME TypeOK, [Next]_vars PROVE Served
  <2> SUFFICES ASSUME row.state = "OPEN", row.cooldown = "running"
               PROVE  \/ row'.state = "OPEN" /\ row'.cooldown # "none"
                      \/ \E s \in Sessions : /\ InFlight(s) /\ ~InFlight(s)'
                                             /\ s \in Admins \/ HalfOpen(s)
    OBVIOUS
  <2>0. ASSUME NEW s \in Sessions, Release(s) PROVE ~InFlight(s)'
    BY <1>1, <2>0 DEF TypeOK, Release, InFlight, Idle
  <2>1. ASSUME NEW s \in Quoters, QuoteSucceeds(s)
        PROVE HalfOpen(s) \/ (row'.state = "OPEN" /\ row'.cooldown # "none")
    BY <1>1, <2>1, SuccessWrites DEF Sessions
  <2>2. ASSUME NEW s \in Quoters, QuoteSucceeds(s)
        PROVE s \in Sessions /\ InFlight(s) /\ ~InFlight(s)'
    BY <2>0, <2>2 DEF QuoteSucceeds, Sessions
  <2>3. ASSUME NEW s \in Quoters, QuoteFailsAnyhow(s)
        PROVE row'.state = "OPEN" /\ row'.cooldown # "none"
    BY <1>1, <2>3, FailureWrites DEF Sessions
  <2>4. ASSUME NEW a \in Admins, ResetCommit(a)
        PROVE a \in Sessions /\ InFlight(a) /\ ~InFlight(a)'
    BY <2>0, <2>4 DEF ResetCommit, Sessions
  <2>5. ASSUME UNCHANGED row
        PROVE row'.state = "OPEN" /\ row'.cooldown # "none"
    BY <2>5
  <2>6. CASE CooldownElapses
    BY <1>1, <2>6 DEF CooldownElapses, TypeOK, Columns
  <2>7. QED
    BY <1>1, <2>1, <2>2, <2>3, <2>4, <2>5, <2>6
    DEF Next, vars, QuoteStart, ResetStart, Abort, PartnerGoesDown
<1>2. TypeOK /\ [Next]_vars => [Served]_vars
  BY <1>1
<1>3. QED BY <1>2, TypeCorrect, PTL DEF Spec, CooldownIsServed
==============================================================================
