------------------------------ MODULE QuoteRound -----------------------------
(***************************************************************************)
(* POST /quotes: overlapping requests over the rows of the partners table. *)
(*                                                                         *)
(* A request reads every partner's row, calls the partners it may call all *)
(* at once with no lock held, and records their answers one after the      *)
(* other.  record_success and record_failure flush, so the request takes   *)
(* the row locks one by one and keeps them until its commit; in one flush  *)
(* the rows go in the order of their primary keys.  The UPDATE carries the *)
(* columns that differ from what was read.  When requests wait for each    *)
(* other the database aborts one of them.  Then the offers are ranked.     *)
(*                                                                         *)
(* Failures are not counted here: a failure may or may not open a breaker  *)
(* (CircuitBreaker counts them).                                           *)
(***************************************************************************)
EXTENDS QuoteRanking, FiniteSets

CONSTANTS
  Requests,    \* sessions of POST /quotes
  Key,         \* Key[p]: the place of p's row in the order of primary keys
  Asks,        \* what may be asked for
  MaxCalls,    \* bound: no request calls a partner that was called that often
  MaxSwitched  \* bound: nor does an admin switch one called more often than this

ASSUME FinitelyManyAssumption == IsFiniteSet(Partners)
ASSUME KeysAssumption ==
  /\ Key \in [Partners -> Nat]
  /\ \A p, q \in Partners : Key[p] = Key[q] => p = q
ASSUME AsksAssumption == Asks \subseteq Ask /\ Asks # {}
ASSUME BoundsAssumption == MaxCalls \in Nat /\ MaxSwitched \in Nat

VARIABLES
  row,      \* row[p]: the committed columns of partner p
  request   \* request[r]: what request r is doing

vars == <<row, request>>

Row == [enabled : BOOLEAN, state : {"CLOSED", "OPEN"},
        cooldown : {"none", "running", "elapsed"}, total : Nat, ok : Nat]
Fresh == [enabled |-> TRUE, state |-> "CLOSED", cooldown |-> "none",
          total |-> 0, ok |-> 0]

\* A session asks for one thing, again and again.
\* step: idle, calling (the partners in `called`), recording (has the locks on
\* the rows in `held`, and takes the ones in `due`), ranking (has committed),
\* answered.  seen: the rows as they were read.  got: the partners' answers.
Idle(ask) ==
  [step |-> "idle", ask |-> ask, called |-> {}, seen |-> [p \in Partners |-> Fresh],
   got |-> [p \in Partners |-> "none"], due |-> {}, held |-> {}]

Init ==
  /\ row = [p \in Partners |-> Fresh]
  /\ \E ask \in [Requests -> Asks] :
       request = [r \in Requests |-> Idle(ask[r])]

------------------------------------------------------------------------------
(* Reading and calling *)

At(r, step) == request[r].step = step
Become(r, with) == request' = [request EXCEPT ![r] = with]

\* Mutant of GoIdle: the session is not closed, its transaction stays open.
KeepLocks(r) == Become(r, [Idle(request[r].ask) EXCEPT !.held = request[r].held])

\* The request is over; its session is closed, which rolls back what it has not
\* committed.
GoIdle(r) == Become(r, Idle(request[r].ask))

\* can_attempt, after to_half_open_if_ready.
CanAttempt(partner) ==
  partner.state = "CLOSED" \/ partner.cooldown = "elapsed"

Candidates == {p \in Partners : row[p].enabled /\ CanAttempt(row[p])}

\* The rows are read, and gather() calls the candidates.
Gather(r) ==
  /\ At(r, "idle")
  /\ Candidates # {} /\ \A p \in Candidates : row[p].total < MaxCalls
  /\ Become(r, [request[r] EXCEPT
       !.step = "calling", !.called = Candidates,
       !.seen = [p \in Partners |-> IF p \in Candidates THEN row[p] ELSE Fresh]])
  /\ UNCHANGED row

\* The partners r found OPEN with the cooldown over: HALF_OPEN in its memory.
HalfOpen(r) == {p \in request[r].called : request[r].seen[p].state = "OPEN"}

\* p is the first candidate, in the order of the adapters.
Leads(r, p) == \A q \in request[r].called : Position[p] <= Position[q]

\* Mutant of LockedBefore: failures are recorded before successes.
FailuresFirst(r, p, q) ==
  LET fails(x) == request[r].got[x] = "failed"
  IN IF fails(p) = fails(q) THEN Position[p] <= Position[q] ELSE fails(p)

\* The order in which r locks rows.  Its first record flushes that row and every
\* row that is HALF_OPEN, by primary key; the other records follow in the order
\* of the adapters.
LockedBefore(r, p, q) ==
  LET flushed == {x \in request[r].called : Leads(r, x)} \cup HalfOpen(r)
  IN IF p \in flushed THEN q \in flushed => Key[p] <= Key[q]
     ELSE q \notin flushed /\ Position[p] <= Position[q]

\* The row r locks next.
NextRow(r, p) ==
  /\ At(r, "recording") /\ p \in request[r].due
  /\ \A q \in request[r].due : LockedBefore(r, p, q)

Answers == {"offer", "no_reserve", "failed"}

\* All of the candidates have answered or have timed out.
PartnersAnswered(r, got) ==
  /\ At(r, "calling")
  /\ \A p \in Partners :
       /\ got[p] = "none" <=> p \notin request[r].called
       /\ TooSmall(request[r].ask, p) => got[p] \notin {"offer", "no_reserve"}
  /\ Become(r, [request[r] EXCEPT !.step = "recording", !.got = got,
                                  !.due = request[r].called])
  /\ UNCHANGED row

------------------------------------------------------------------------------
(* Recording *)

Free(p) == \A t \in Requests : p \notin request[t].held

\* The UPDATE of the next row waits for its lock.
FlushRow(r, p) ==
  /\ NextRow(r, p) /\ Free(p)
  /\ Become(r, [request[r] EXCEPT !.held = @ \cup {p}, !.due = @ \ {p}])
  /\ UNCHANGED row

\* record_success closes a breaker that was half open.
RecordSuccess(seen) ==
  [seen EXCEPT !.total = @ + 1, !.ok = @ + 1, !.state = "CLOSED",
               !.cooldown = IF seen.state = "OPEN" THEN "none" ELSE @]

\* Mutant of RecordFailure: a failed probe leaves the breaker half open.
RecordFailureHalfOpen(seen, opens) ==
  [seen EXCEPT !.total = @ + 1,
               !.state = IF seen.state = "OPEN" THEN "HALF_OPEN"
                         ELSE IF opens THEN "OPEN" ELSE @,
               !.cooldown = IF opens THEN "running" ELSE @]

\* record_failure; `opens` when the breaker was half open or counts enough.
RecordFailure(seen, opens) ==
  [seen EXCEPT !.total = @ + 1, !.state = IF opens THEN "OPEN" ELSE @,
               !.cooldown = IF opens THEN "running" ELSE @]

Recorded(r, p, opened) ==
  LET seen == request[r].seen[p]
  IN IF request[r].got[p] = "failed" THEN RecordFailure(seen, p \in opened)
     ELSE RecordSuccess(seen)

\* Mutant of Written: every column is written.
WrittenInFull(r, p, new, opened) == new

\* The row of p after the UPDATEs of r.  HALF_OPEN was flushed before the record
\* if another row was recorded first, and a new cooldown is later than any old
\* one: these columns are written in any case.
Written(r, p, new, opened) ==
  LET seen == request[r].seen[p]
      anyhow == (IF p \in HalfOpen(r) /\ ~Leads(r, p) THEN {"state"} ELSE {})
                  \cup (IF p \in opened THEN {"cooldown"} ELSE {})
  IN [column \in DOMAIN new |->
        IF new[column] # seen[column] \/ column \in anyhow
        THEN new[column] ELSE row[p][column]]

Failed(r) == {p \in request[r].called : request[r].got[p] = "failed"}
Usable(r) == {p \in request[r].called : request[r].got[p] = "offer"}

\* "persist circuit breaker/stat updates": the locks are given up.  Without an
\* offer, PartnerUnavailableError.
CommitRecords(r, opened) ==
  /\ At(r, "recording") /\ request[r].due = {}
  /\ HalfOpen(r) \cap Failed(r) \subseteq opened /\ opened \subseteq Failed(r)
  /\ row' = [p \in Partners |->
               IF p \in request[r].called
               THEN Written(r, p, Recorded(r, p, opened), opened) ELSE row[p]]
  /\ IF Usable(r) = {} THEN GoIdle(r)
     ELSE Become(r, [request[r] EXCEPT !.step = "ranking", !.held = {}])

------------------------------------------------------------------------------
(* Ranking *)

\* The score of p, with the counters as r has them in memory.
Score(r, p) ==
  LET seen == request[r].seen[p]
  IN RootScore(request[r].ask, Usable(r), p, seen.ok + 1, seen.total + 1)

\* The offers that the service fee leaves something of.
OffersAmong ==
  [ask \in Asks |-> [usable \in SUBSET Partners |-> Offered(ask, usable)]]
Offers(r) == OffersAmong[request[r].ask][Usable(r)]

\* max(key=root_score), and the stable sort by it, in reverse: of two offers
\* with one score the one of the adapter registered first comes first.
Ahead(score, p, q) ==
  score[p] > score[q] \/ (score[p] = score[q] /\ Position[p] < Position[q])

Ranked(score) ==
  [i \in 1..Cardinality(DOMAIN score) |->
     CHOOSE p \in DOMAIN score :
       Cardinality({q \in DOMAIN score : Ahead(score, q, p)}) = i - 1]

\* The quotes are committed and answered, in the order of their scores.  If no
\* offer is left, PartnerUnavailableError.
Answer(r) ==
  /\ At(r, "ranking")
  /\ IF Offers(r) = {} THEN GoIdle(r)
     ELSE Become(r, [request[r] EXCEPT !.step = "answered"])
  /\ UNCHANGED row

Done(r) == At(r, "answered") /\ GoIdle(r) /\ UNCHANGED row

------------------------------------------------------------------------------
(* The rest of the system *)

\* The session ends without a commit: a crash, or an adapter that raises
\* something else than a PartnerError.
Abort(r) == ~At(r, "idle") /\ GoIdle(r) /\ UNCHANGED row

WaitsFor(r, t) ==
  r # t /\ \E p \in request[t].held : NextRow(r, p)

\* A cycle of waits.
Deadlocked(set) ==
  \A r \in set : \E t, u \in set : WaitsFor(r, t) /\ WaitsFor(u, r)

\* The database breaks it.
DeadlockVictim(r) ==
  /\ \E set \in SUBSET Requests : r \in set /\ Deadlocked(set)
  /\ Abort(r)

\* An admin's UPDATE waits for the row as well.
SetEnabled(p, enabled) ==
  /\ Free(p) /\ row[p].total <= MaxSwitched
  /\ row' = [row EXCEPT ![p].enabled = enabled]
  /\ UNCHANGED request

EnablePartner(p) == SetEnabled(p, TRUE)
DisablePartner(p) == SetEnabled(p, FALSE)

SwitchPartner(p) == EnablePartner(p) \/ DisablePartner(p)

CooldownElapses(p) ==
  /\ row[p].cooldown = "running"
  /\ row' = [row EXCEPT ![p].cooldown = "elapsed"]
  /\ UNCHANGED request

------------------------------------------------------------------------------
GetAnswers(r) ==
  \E got \in [Partners -> Answers \cup {"none"}] : PartnersAnswered(r, got)
Flush(r) == \E p \in Partners : FlushRow(r, p)
Record(r) == \E opened \in SUBSET Partners : CommitRecords(r, opened)

Next ==
  \/ \E r \in Requests :
       \/ Gather(r) \/ GetAnswers(r) \/ Flush(r) \/ Record(r)
       \/ Answer(r) \/ Done(r) \/ DeadlockVictim(r) \/ Abort(r)
  \/ \E p \in Partners : SwitchPartner(p) \/ CooldownElapses(p)

\* A request goes on, and one that waits for a lock gets it in its turn; the
\* calls end with the timeout at the latest.
Fairness ==
  \A r \in Requests :
    /\ WF_vars(GetAnswers(r)) /\ SF_vars(Flush(r)) /\ WF_vars(Record(r))
    /\ WF_vars(Answer(r)) /\ WF_vars(Done(r)) /\ WF_vars(DeadlockVictim(r))

Spec == Init /\ [][Next]_vars
FairSpec == Spec /\ Fairness

------------------------------------------------------------------------------
(* Properties *)

RequestRecord ==
  [step : {"idle", "calling", "recording", "ranking", "answered"},
   ask : Asks, called : SUBSET Partners, seen : [Partners -> Row],
   got : [Partners -> Answers \cup {"none"}],
   due : SUBSET Partners, held : SUBSET Partners]

\* Type invariant; HALF_OPEN is never committed.
TypeOK ==
  /\ row \in [Partners -> Row]
  /\ request \in [Requests -> RequestRecord]

\* "RootScore: 0..100", for every offer, although overlapping requests write the
\* counters of a partner from stale copies and leave more successes than calls.
ScoreInRange ==
  \A r \in Requests : At(r, "answered") =>
    \A p \in Offers(r) : Score(r, p) \in 0..FullScore

\* What the user pays is worth what the user gets and the three fees of the
\* offer, although they are rounded one by one: to half a fiat unit for a SELL,
\* to a unit of the asset for a BUY.
FeesAddUp ==
  \A r \in Requests : At(r, "answered") =>
    LET ask == request[r].ask
    IN \A p \in Offers(r) :
         LET got == FinalAmountOut(ask, Usable(r), p)
             fees == TotalFee(ask, Usable(r), p)
         IN IF ask.direction = "SELL"
            THEN /\ 2 * (Scale * (got + fees) - ask.amount * Rate) <= Scale
                 /\ 2 * (ask.amount * Rate - Scale * (got + fees)) <= Scale
            ELSE /\ Parts * Rate * got + Scale * fees - ask.amount * Per <= Parts * Rate
                 /\ ask.amount * Per - (Parts * Rate * got + Scale * fees) <= Parts * Rate

\* p's offer is as good as q's, whichever way one looks at it.
AsGood(r, p, q) ==
  LET seen == request[r].seen
  IN /\ FeePermille[p] <= FeePermille[q] /\ Minutes[p] <= Minutes[q]
     /\ Latency[p] <= Latency[q]
     /\ (seen[q].ok + 1) * (seen[p].total + 1) <= (seen[p].ok + 1) * (seen[q].total + 1)

\* No offer is ranked behind one with a lower score, and none is scored below
\* one it is as good as in every respect.
BetterOfferLeads ==
  \A r \in Requests : At(r, "answered") =>
    LET score == [p \in Offers(r) |-> Score(r, p)]
        answer == Ranked(score)
    IN \A i, j \in DOMAIN answer : i < j =>
         /\ score[answer[i]] >= score[answer[j]]
         /\ AsGood(r, answer[j], answer[i]) => score[answer[i]] = score[answer[j]]

\* Requests wait for each other's rows, in a cycle of any length, only when one
\* of them probes a partner whose cooldown is over: all others lock in the order
\* of the adapters.
LockCycleNeedsProbe ==
  \A set \in SUBSET Requests :
    set # {} /\ Deadlocked(set) => \E r \in set : HalfOpen(r) # {}

\* A request that has read a partner as enabled or disabled never writes that
\* back: only an admin switches a partner.
AdminSwitchSticks ==
  [][\A p \in Partners :
       row'[p].enabled # row[p].enabled => SwitchPartner(p)]_vars

\* Every request comes to its end, answer or error.
EveryRequestEnds == \A r \in Requests : ~At(r, "idle") ~> At(r, "idle")
==============================================================================
