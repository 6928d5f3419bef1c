---------------------------- MODULE CircuitBreaker ---------------------------
(***************************************************************************)
(* The circuit breaker of one partner: a row of the partners table that    *)
(* quote requests and admin resets read, change in memory and write back.  *)
(*                                                                         *)
(* A quote request reads the row, calls the partner with no lock held, and *)
(* records the outcome.  The ORM's UPDATE carries only the columns whose   *)
(* value differs from the one that was read, so two sessions that overlap  *)
(* can leave a row that neither of them computed.  HALF_OPEN exists in the *)
(* memory of a probing session; it never reaches a commit, because every   *)
(* partner that is called is recorded before the commit.                   *)
(***************************************************************************)
EXTENDS Integers

CONSTANTS
  Quoters,        \* sessions of POST /quotes
  Admins,         \* sessions of POST /admin/partners/{code}/reset-circuit
  Threshold,      \* circuit_breaker_failure_threshold
  ResetsOverlap   \* FALSE: a reset runs when nothing else is in flight

Sessions == Quoters \cup Admins

ASSUME ThresholdAssumption == Threshold \in Nat \ {0}
ASSUME SessionsAssumption ==
  Quoters \cap Admins = {} /\ ResetsOverlap \in BOOLEAN

VARIABLES
  row,   \* the committed columns: state, consecutive failures, cooldown
  copy,  \* copy[s]: the columns session s has read, Idle when it runs nothing
  down   \* the partner fails every call from now on (external)

vars == <<row, copy, down>>

\* cooldown_until is unset, in the future or in the past.  Counts of failures
\* from the threshold on are told apart by nothing and stand as Threshold.
Columns == [state    : {"CLOSED", "OPEN"},
            failures : 0..Threshold,
            cooldown : {"none", "running", "elapsed"}]

Fresh == [state |-> "CLOSED", failures |-> 0, cooldown |-> "none"]
Idle == [state |-> "idle", failures |-> 0, cooldown |-> "none"]

Init ==
  /\ row = Fresh
  /\ copy = [s \in Sessions |-> Idle]
  /\ down = FALSE

------------------------------------------------------------------------------
InFlight(s) == copy[s].state # "idle"

\* s reads the row.
Read(s) == copy' = [copy EXCEPT ![s] = row]

Release(s) == copy' = [copy EXCEPT ![s] = Idle]

\* Mutant of CanAttempt: an open breaker admits no probe.
CanAttemptClosed(partner) == partner.state = "CLOSED"

CanAttempt(partner) ==
  partner.state = "CLOSED" \/ partner.cooldown = "elapsed"

\* to_half_open_if_ready: the copy is a probe's.
HalfOpen(s) == copy[s].state = "OPEN"

\* Mutant of Update: every column is written.
UpdateEveryColumn(seen, new) == row' = new

\* The UPDATE of a session that read `seen` and made it `new`.
Update(seen, new) ==
  row' = [column \in DOMAIN row |->
            IF new[column] # seen[column] THEN new[column] ELSE row[column]]

\* create_quotes selects the partner as a candidate and calls it.
QuoteStart(s) ==
  /\ ~InFlight(s)
  /\ ResetsOverlap \/ \A t \in Admins : ~InFlight(t)
  /\ CanAttempt(row)
  /\ Read(s)
  /\ UNCHANGED <<row, down>>

\* Mutant of QuoteSucceeds: a success clears the cooldown of any breaker.
QuoteSucceedsAndClears(s) ==
  /\ InFlight(s) /\ ~down
  /\ Update(copy[s], IF HalfOpen(s) THEN Fresh
                     ELSE [copy[s] EXCEPT !.failures = 0, !.cooldown = "none"])
  /\ Release(s)
  /\ UNCHANGED down

\* record_success closes a breaker that was half open.
QuoteSucceeds(s) ==
  /\ InFlight(s) /\ ~down
  /\ Update(copy[s], IF HalfOpen(s) THEN Fresh ELSE [copy[s] EXCEPT !.failures = 0])
  /\ Release(s)
  /\ UNCHANGED down

\* Mutant of Incremented: failures are not counted.
NotIncremented(failures) == failures

Incremented(failures) ==
  IF failures < Threshold THEN failures + 1 ELSE Threshold

\* record_failure opens the breaker after a failed probe, or at the threshold.
Opens(seen) ==
  \/ seen.state = "OPEN"
  \/ Incremented(seen.failures) = Threshold

\* Mutant of QuoteFails: a failed probe leaves the breaker half open.
QuoteFailsHalfOpen(s, flushed) ==
  /\ InFlight(s)
  /\ row' = [state |-> IF HalfOpen(s) THEN "HALF_OPEN"
                       ELSE IF Opens(copy[s]) THEN "OPEN" ELSE row.state,
             failures |-> Incremented(copy[s].failures),
             cooldown |-> IF Opens(copy[s]) THEN "running" ELSE row.cooldown]
  /\ Release(s)
  /\ UNCHANGED down

\* The count and, when it opens, the new cooldown always differ from what was
\* read.  The state does not when the probe fails (it was read as OPEN), except
\* if the HALF_OPEN of memory was flushed with the record of another partner.
QuoteFails(s, flushed) ==
  /\ InFlight(s)
  /\ row' = [state |-> IF Opens(copy[s]) /\ (HalfOpen(s) => flushed)
                       THEN "OPEN" ELSE row.state,
             failures |-> Incremented(copy[s].failures),
             cooldown |-> IF Opens(copy[s]) THEN "running" ELSE row.cooldown]
  /\ Release(s)
  /\ UNCHANGED down

\* reset: its read and its commit are two steps.
ResetStart(a) ==
  /\ ~InFlight(a)
  /\ ResetsOverlap \/ \A t \in Sessions : ~InFlight(t)
  /\ Read(a)
  /\ UNCHANGED <<row, down>>

ResetCommit(a) ==
  /\ InFlight(a)
  /\ Update(copy[a], Fresh)
  /\ Release(a)
  /\ UNCHANGED down

\* A session that ends without its commit.
Abort(s) ==
  /\ InFlight(s)
  /\ Release(s)
  /\ UNCHANGED <<row, down>>

CooldownElapses ==
  /\ row.cooldown = "running"
  /\ row' = [row EXCEPT !.cooldown = "elapsed"]
  /\ UNCHANGED <<copy, down>>

PartnerGoesDown == ~down /\ down' = TRUE /\ UNCHANGED <<row, copy>>

QuoteFailsAnyhow(s) == \E flushed \in BOOLEAN : QuoteFails(s, flushed)

Next ==
  \/ \E s \in Quoters : QuoteStart(s) \/ QuoteSucceeds(s) \/ QuoteFailsAnyhow(s)
  \/ \E a \in Admins : ResetStart(a) \/ ResetCommit(a)
  \/ \E s \in Sessions : Abort(s)
  \/ CooldownElapses
  \/ PartnerGoesDown

Spec == Init /\ [][Next]_vars

\* Time passes.  As long as customers ask for quotes, some request that finds
\* the partner callable is carried to its end: wait_for bounds the call.
FairSpec ==
  /\ Spec
  /\ WF_vars(CooldownElapses)
  /\ \A s \in Quoters : /\ SF_vars(QuoteStart(s))
                        /\ SF_vars(QuoteSucceeds(s) \/ QuoteFailsAnyhow(s))

------------------------------------------------------------------------------
TypeOK ==
  /\ row \in Columns
  /\ copy \in [Sessions -> Columns \cup {Idle}]
  /\ down \in BOOLEAN

\* An open breaker has a cooldown to wait for: no mix of columns written by
\* overlapping sessions leaves OPEN without cooldown_until.
OpenHasCooldown == row.state = "OPEN" => row.cooldown # "none"

\* A cooldown that runs is cut short by an admin, or by a probe of an earlier
\* opening that succeeds late; the success of a call that was made before the
\* breaker opened does not close it.
CooldownIsServed ==
  [][(row.state = "OPEN" /\ row.cooldown = "running") =>
       \/ row'.state = "OPEN" /\ row'.cooldown # "none"
       \/ \E s \in Sessions : /\ InFlight(s) /\ ~InFlight(s)'
                              /\ s \in Admins \/ HalfOpen(s)]_vars

\* An open breaker is not open for ever without a probe.
OpenIsProbedAgain == row.state = "OPEN" ~> CanAttempt(row)

\* A partner that is down for good is cut off once the admins stop resetting
\* it, although overlapping requests overwrite each other's failure counts.
OutageOpens ==
  <>[](\A a \in Admins : ~InFlight(a)) => (down ~> row.state = "OPEN")
==============================================================================
