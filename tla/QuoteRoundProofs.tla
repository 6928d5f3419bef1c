--------------------------- MODULE QuoteRoundProofs --------------------------
(***************************************************************************)
(* Proofs about POST /quotes, for any number of partners and of requests   *)
(* that overlap, and for all tariffs.                                      *)
(***************************************************************************)
EXTENDS QuoteRound, QuoteRankingProofs, FiniteSetTheorems, FunctionTheorems

\* A partner that makes an offer has found the amount large enough.
AnswersAreQuotes ==
  \A r \in Requests : \A p \in Partners :
    request[r].got[p] \in {"offer", "no_reserve"} => ~TooSmall(request[r].ask, p)

\* Locks are held while recording only, and never on a row that is still due.
RowsTaken ==
  \A r \in Requests :
    IF At(r, "recording")
    THEN /\ request[r].held \cup request[r].due = request[r].called
         /\ request[r].held \cap request[r].due = {}
    ELSE request[r].held = {} /\ request[r].due = {}

\* A request that probes nobody takes its rows in the order of the adapters.
InAdapterOrder ==
  \A r \in Requests :
    HalfOpen(r) = {} =>
      \A p \in request[r].held, q \in request[r].due : Position[p] < Position[q]

IInv == TypeOK /\ AnswersAreQuotes /\ RowsTaken /\ InAdapterOrder

------------------------------------------------------------------------------
(* Rows *)

LEMMA FreshIsRow == Fresh \in Row
  BY DEF Fresh, Row

LEMMA IdleIsRequest ==
  ASSUME NEW ask \in Asks
  PROVE  Idle(ask) \in RequestRecord
  BY FreshIsRow DEF Idle, RequestRecord, Answers

LEMMA IdleHasNothing ==
  ASSUME NEW ask
  PROVE  /\ Idle(ask).step = "idle" /\ Idle(ask).held = {} /\ Idle(ask).due = {}
         /\ \A p \in Partners : Idle(ask).got[p] = "none"
  BY DEF Idle

LEMMA RecordedIsRow ==
  ASSUME TypeOK, NEW r \in Requests, NEW p \in Partners, NEW opened
  PROVE  /\ Recorded(r, p, opened) \in Row
         /\ Recorded(r, p, opened).enabled = request[r].seen[p].enabled
<1> DEFINE seen == request[r].seen[p]
<1>1. seen \in Row
  BY DEF TypeOK, RequestRecord
<1>2. Recorded(r, p, opened) = IF request[r].got[p] = "failed"
        THEN RecordFailure(seen, p \in opened) ELSE RecordSuccess(seen)
  BY DEF Recorded
<1> HIDE DEF seen
<1>3. RecordSuccess(seen) \in Row /\ RecordSuccess(seen).enabled = seen.enabled
  <2> DEFINE cooldown == IF seen.state = "OPEN" THEN "none" ELSE seen.cooldown
  <2>1. /\ cooldown \in {"none", "running", "elapsed"}
        /\ seen.total + 1 \in Nat /\ seen.ok + 1 \in Nat
    BY <1>1 DEF Row
  <2>2. RecordSuccess(seen) =
          [seen EXCEPT !.total = seen.total + 1, !.ok = seen.ok + 1,
                       !.state = "CLOSED", !.cooldown = cooldown]
    BY DEF RecordSuccess
  <2> HIDE DEF cooldown
  <2>3. RecordSuccess(seen) \in Row
    BY <1>1, <2>1, <2>2, Zenon DEF Row
  <2>4. QED
    BY <1>1, <2>2, <2>3 DEF Row
<1>4. ASSUME NEW opens \in BOOLEAN
      PROVE  RecordFailure(seen, opens) \in Row
             /\ RecordFailure(seen, opens).enabled = seen.enabled
  <2> DEFINE state == IF opens THEN "OPEN" ELSE seen.state
             cooldown == IF opens THEN "running" ELSE seen.cooldown
  <2>1. /\ cooldown \in {"none", "running", "elapsed"}
        /\ state \in {"CLOSED", "OPEN"} /\ seen.total + 1 \in Nat
    BY <1>1 DEF Row
  <2>2. RecordFailure(seen, opens) =
          [seen EXCEPT !.total = seen.total + 1, !.state = state, !.cooldown = cooldown]
    BY DEF RecordFailure
  <2> HIDE DEF state, cooldown
  <2>3. RecordFailure(seen, opens) \in Row
    BY <1>1, <2>1, <2>2, Zenon DEF Row
  <2>4. QED
    BY <1>1, <2>2, <2>3 DEF Row
<1>5. (p \in opened) \in BOOLEAN
  OBVIOUS
<1>6. CASE request[r].got[p] = "failed"
  BY <1>2, <1>4, <1>5, <1>6, Zenon DEF seen
<1>7. CASE request[r].got[p] # "failed"
  BY <1>2, <1>3, <1>7, Zenon DEF seen
<1>8. QED
  BY <1>6, <1>7

LEMMA WrittenIsRow ==
  ASSUME TypeOK, NEW r \in Requests, NEW p \in Partners, NEW opened,
         NEW new \in Row, new.enabled = request[r].seen[p].enabled
  PROVE  /\ Written(r, p, new, opened) \in Row
         /\ Written(r, p, new, opened).enabled = row[p].enabled
<1>1. row[p] \in Row /\ request[r].seen[p] \in Row
  BY DEF TypeOK, RequestRecord
<1>2. DOMAIN new = {"enabled", "state", "cooldown", "total", "ok"}
  BY DEF Row
<1> DEFINE seen == request[r].seen[p]
           anyhow == (IF p \in HalfOpen(r) /\ ~Leads(r, p) THEN {"state"} ELSE {})
                       \cup (IF p \in opened THEN {"cooldown"} ELSE {})
           value(column) == IF new[column] # seen[column] \/ column \in anyhow
                            THEN new[column] ELSE row[p][column]
<1>3. Written(r, p, new, opened) = [column \in DOMAIN new |-> value(column)]
  BY DEF Written
<1>4. "enabled" \notin anyhow
  OBVIOUS
<1> HIDE DEF anyhow
<1>5. value("enabled") = row[p].enabled
  BY <1>4
<1>6. /\ value("enabled") \in BOOLEAN /\ value("state") \in {"CLOSED", "OPEN"}
      /\ value("cooldown") \in {"none", "running", "elapsed"}
      /\ value("total") \in Nat /\ value("ok") \in Nat
  BY <1>1 DEF Row
<1> HIDE DEF value
<1>7. Written(r, p, new, opened) =
        [enabled |-> value("enabled"), state |-> value("state"),
         cooldown |-> value("cooldown"), total |-> value("total"), ok |-> value("ok")]
  BY <1>2, <1>3
<1>8. QED
  BY <1>5, <1>6, <1>7 DEF Row

------------------------------------------------------------------------------
(* The ranking: a stable sort by score *)

\* The scores of some partners.
Scores(score) ==
  /\ DOMAIN score \in SUBSET Partners
  /\ \A p \in DOMAIN score : score[p] \in Nat

LEMMA AheadIsStrictOrder ==
  ASSUME NEW score, Scores(score),
         NEW p \in DOMAIN score, NEW q \in DOMAIN score, NEW t \in DOMAIN score
  PROVE  /\ ~Ahead(score, p, p)
         /\ p # q => Ahead(score, p, q) \/ Ahead(score, q, p)
         /\ Ahead(score, p, q) => ~Ahead(score, q, p)
         /\ Ahead(score, p, q) /\ Ahead(score, q, t) => Ahead(score, p, t)
<1>1. /\ score[p] \in Nat /\ score[q] \in Nat /\ score[t] \in Nat
      /\ p \in Partners /\ q \in Partners /\ t \in Partners
  BY DEF Scores
<1>2. /\ Position[p] \in Nat /\ Position[q] \in Nat /\ Position[t] \in Nat
      /\ Position[p] = Position[q] => p = q
  BY <1>1, AdaptersAssumption
<1>3. QED
  BY <1>1, <1>2, SMT DEF Ahead

\* How many are ahead of p.
Place(score, p) == Cardinality({q \in DOMAIN score : Ahead(score, q, p)})

LEMMA PlacesAreCounted ==
  ASSUME NEW score, Scores(score), NEW p \in DOMAIN score
  PROVE  Place(score, p) \in 0..(Cardinality(DOMAIN score) - 1)
<1> DEFINE all == DOMAIN score
           before == {q \in all : Ahead(score, q, p)}
<1>1. IsFiniteSet(all)
  BY FinitelyManyAssumption, FS_Subset DEF Scores
<1>2. /\ IsFiniteSet(before) /\ Cardinality(before) <= Cardinality(all)
      /\ Cardinality(all) = Cardinality(before) => all = before
  BY <1>1, FS_Subset
<1>3. before # all
  BY AheadIsStrictOrder
<1>4. Cardinality(before) \in Nat /\ Cardinality(all) \in Nat
  BY <1>1, <1>2, FS_CardinalityType
<1>5. Place(score, p) = Cardinality(before)
  BY DEF Place
<1> HIDE DEF all, before
<1>6. Cardinality(before) \in 0..(Cardinality(all) - 1)
  BY <1>2, <1>3, <1>4, SMT
<1>7. QED
  BY <1>5, <1>6 DEF all

LEMMA AheadHasLowerPlace ==
  ASSUME NEW score, Scores(score), NEW p \in DOMAIN score, NEW q \in DOMAIN score,
         Ahead(score, p, q)
  PROVE  Place(score, p) < Place(score, q)
<1> DEFINE all == DOMAIN score
           beforep == {t \in all : Ahead(score, t, p)}
           beforeq == {t \in all : Ahead(score, t, q)}
<1>1. beforep \in SUBSET beforeq
  BY AheadIsStrictOrder
<1>2. p \in beforeq /\ p \notin beforep
  BY AheadIsStrictOrder
<1>3. IsFiniteSet(all)
  BY FinitelyManyAssumption, FS_Subset DEF Scores
<1>4. IsFiniteSet(beforeq)
  BY <1>3, FS_Subset
<1>5. Place(score, p) = Cardinality(beforep) /\ Place(score, q) = Cardinality(beforeq)
  BY DEF Place
<1> HIDE DEF all, beforep, beforeq
<1>6. /\ IsFiniteSet(beforep) /\ Cardinality(beforep) <= Cardinality(beforeq)
      /\ Cardinality(beforeq) # Cardinality(beforep)
  BY <1>1, <1>2, <1>4, FS_Subset
<1>7. Cardinality(beforep) \in Nat /\ Cardinality(beforeq) \in Nat
  BY <1>4, <1>6, FS_CardinalityType
<1>8. QED
  BY <1>5, <1>6, <1>7, SMT

\* Every place is taken by exactly one.
LEMMA PlacesAreTaken ==
  ASSUME NEW score, Scores(score)
  PROVE  /\ Cardinality(DOMAIN score) \in Nat
         /\ \A p, q \in DOMAIN score : Place(score, p) = Place(score, q) => p = q
         /\ \A i \in 1..Cardinality(DOMAIN score) :
              \E p \in DOMAIN score : Place(score, p) = i - 1
<1> DEFINE all == DOMAIN score
           n == Cardinality(all)
           places == 0..(n - 1)
           place == [p \in all |-> Place(score, p)]
<1>1. IsFiniteSet(all)
  BY FinitelyManyAssumption, FS_Subset DEF Scores
<1>2. n \in Nat
  BY <1>1, FS_CardinalityType
<1>3. place \in [all -> places]
  BY PlacesAreCounted
<1>4. ASSUME NEW p \in all, NEW q \in all, Place(score, p) = Place(score, q)
      PROVE  p = q
  <2>1. SUFFICES ASSUME p # q PROVE FALSE
    OBVIOUS
  <2>2. Place(score, p) < Place(score, q) \/ Place(score, q) < Place(score, p)
    BY <2>1, AheadIsStrictOrder, AheadHasLowerPlace
  <2>3. Place(score, p) \in 0..(n - 1) /\ Place(score, q) \in 0..(n - 1)
    BY PlacesAreCounted
  <2> HIDE DEF n
  <2>4. QED
    BY <1>2, <1>4, <2>2, <2>3, SMT
<1>5. place \in Injection(all, places)
  <2>1. \A p, q \in all : place[p] = place[q] => p = q
    BY <1>4
  <2> HIDE DEF place, places, all
  <2>2. QED
    BY <1>3, <2>1, Fun_IsInj
<1>6. IsFiniteSet(places) /\ Cardinality(places) = n
  <2> HIDE DEF n
  <2>1. 0 \in Int /\ n - 1 \in Int /\ (IF 0 > n - 1 THEN 0 ELSE (n - 1) - 0 + 1) = n
    BY <1>2, SMT
  <2>2. QED
    BY <2>1, FS_Interval
<1>7. place \in Surjection(all, places)
  <2> HIDE DEF place, places
  <2>1. QED
    BY <1>5, <1>6, FS_Injection DEF n
<1>8. ASSUME NEW i \in 1..n
      PROVE  \E p \in all : Place(score, p) = i - 1
  <2>1. i - 1 \in places
    <3> HIDE DEF n
    <3>1. QED
      BY <1>2, SMT
  <2>2. \E p \in all : place[p] = i - 1
    <3> HIDE DEF place, places, all
    <3>1. QED
      BY <1>7, <2>1, Fun_SurjectionProperties
  <2>3. QED
    BY <2>2
<1>9. QED
  BY <1>2, <1>4, <1>8

LEMMA RankedByPlace ==
  ASSUME NEW score, Scores(score), NEW i \in 1..Cardinality(DOMAIN score)
  PROVE  Ranked(score)[i] \in DOMAIN score /\ Place(score, Ranked(score)[i]) = i - 1
<1>1. \E p \in DOMAIN score : Place(score, p) = i - 1
  BY PlacesAreTaken
<1>2. Ranked(score)[i] = CHOOSE p \in DOMAIN score : Place(score, p) = i - 1
  BY DEF Ranked, Place
<1>3. QED
  BY <1>1, <1>2

\* The answer lists every offer exactly once, each ahead of those that follow.
THEOREM RankingIsASort ==
  ASSUME NEW score, Scores(score)
  PROVE  /\ Ranked(score) \in Bijection(1..Cardinality(DOMAIN score), DOMAIN score)
         /\ \A i, j \in DOMAIN Ranked(score) :
              i < j => Ahead(score, Ranked(score)[i], Ranked(score)[j])
<1> DEFINE n == Cardinality(DOMAIN score)
           answer == Ranked(score)
<1>1. n \in Nat
  BY PlacesAreTaken
<1>2. answer \in [1..n -> DOMAIN score]
  <2>1. \A i \in 1..n : answer[i] \in DOMAIN score
    BY RankedByPlace
  <2> DEFINE pick(i) ==
               CHOOSE p \in DOMAIN score :
                 Cardinality({q \in DOMAIN score : Ahead(score, q, p)}) = i - 1
  <2>2. answer = [i \in 1..n |-> pick(i)]
    BY DEF Ranked
  <2> HIDE DEF answer, n, pick
  <2>3. QED
    BY <2>1, <2>2
<1>3. \A i \in 1..n : Place(score, answer[i]) = i - 1
  BY RankedByPlace
<1>4. ASSUME NEW i \in 1..n, NEW j \in 1..n, answer[i] = answer[j] PROVE i = j
  <2>1. i - 1 = j - 1
    BY <1>3, <1>4
  <2> HIDE DEF answer, n
  <2>2. QED
    BY <1>1, <2>1, SMT
<1>5. ASSUME NEW p \in DOMAIN score PROVE \E i \in 1..n : answer[i] = p
  <2>1. Place(score, p) \in 0..(n - 1)
    BY PlacesAreCounted
  <2> DEFINE i == Place(score, p) + 1
  <2>2. i \in 1..n /\ i - 1 = Place(score, p)
    <3> HIDE DEF n
    <3>1. QED
      BY <1>1, <2>1, SMT
  <2>3. answer[i] \in DOMAIN score /\ Place(score, answer[i]) = Place(score, p)
    BY <1>2, <1>3, <2>2
  <2>4. answer[i] = p
    BY <2>3, PlacesAreTaken
  <2> HIDE DEF i, answer, n
  <2>5. QED
    BY <2>2, <2>4
<1>6. answer \in Bijection(1..n, DOMAIN score)
  <2> HIDE DEF answer, n
  <2>1. QED
    BY <1>2, <1>4, <1>5, Fun_IsBij
<1>7. ASSUME NEW i \in 1..n, NEW j \in 1..n, i < j
      PROVE  Ahead(score, answer[i], answer[j])
  <2>1. /\ answer[i] \in DOMAIN score /\ Place(score, answer[i]) = i - 1
        /\ answer[j] \in DOMAIN score /\ Place(score, answer[j]) = j - 1
    BY RankedByPlace
  <2>2. ~Ahead(score, answer[j], answer[i])
    <3>1. SUFFICES ASSUME Ahead(score, answer[j], answer[i]) PROVE FALSE
      OBVIOUS
    <3>2. j - 1 < i - 1
      BY <2>1, <3>1, AheadHasLowerPlace
    <3> HIDE DEF n
    <3>3. QED
      BY <1>1, <1>7, <3>2, SMT
  <2>3. answer[i] # answer[j]
    <3>1. i # j
      <4> HIDE DEF n
      <4>1. QED
        BY <1>1, <1>7, SMT
    <3>2. QED
      BY <1>4, <3>1
  <2>4. QED
    BY <2>1, <2>2, <2>3, AheadIsStrictOrder
<1>8. DOMAIN answer = 1..n
  BY <1>2
<1>9. QED
  BY <1>6, <1>7, <1>8

------------------------------------------------------------------------------
(* The invariant is inductive *)

LEMMA InvInit == Init => IInv
<1> SUFFICES ASSUME Init PROVE IInv
  OBVIOUS
<1>1. row \in [Partners -> Row]
  BY FreshIsRow DEF Init
<1>2. PICK ask \in [Requests -> Asks] : request = [r \in Requests |-> Idle(ask[r])]
  BY DEF Init
<1>3. \A r \in Requests : request[r] = Idle(ask[r]) /\ Idle(ask[r]) \in RequestRecord
  BY <1>2, IdleIsRequest
<1>4. TypeOK
  BY <1>1, <1>2, <1>3 DEF TypeOK
<1>5. \A r \in Requests :
        /\ request[r].step = "idle" /\ request[r].held = {} /\ request[r].due = {}
        /\ \A p \in Partners : request[r].got[p] = "none"
  BY <1>3, IdleHasNothing
<1>6. AnswersAreQuotes /\ RowsTaken /\ InAdapterOrder
  <2>1. AnswersAreQuotes
    BY <1>5 DEF AnswersAreQuotes
  <2>2. RowsTaken
    BY <1>5 DEF RowsTaken, At
  <2>3. InAdapterOrder
    BY <1>5 DEF InAdapterOrder
  <2>4. QED
    BY <2>1, <2>2, <2>3
<1>7. QED
  BY <1>4, <1>6 DEF IInv

\* A request that ends keeps nothing.
LEMMA IdleKeeps ==
  ASSUME IInv, NEW r \in Requests, GoIdle(r), row' \in [Partners -> Row]
  PROVE  IInv'
<1> DEFINE idle == Idle(request[r].ask)
<1>1. request[r].ask \in Asks /\ idle \in RequestRecord
  BY IdleIsRequest DEF IInv, TypeOK, RequestRecord
<1>2. request' = [request EXCEPT ![r] = idle]
  BY DEF GoIdle, Become
<1>3. /\ idle.step = "idle" /\ idle.held = {} /\ idle.due = {}
      /\ \A p \in Partners : idle.got[p] = "none"
  BY DEF Idle
<1> HIDE DEF idle
<1>4. /\ request'[r] = idle
      /\ \A t \in Requests : t # r => request'[t] = request[t]
  BY <1>2 DEF IInv, TypeOK
<1>5. TypeOK'
  BY <1>1, <1>2 DEF IInv, TypeOK
<1>6. AnswersAreQuotes'
  BY <1>3, <1>4 DEF IInv, AnswersAreQuotes
<1>7. RowsTaken'
  BY <1>3, <1>4 DEF IInv, RowsTaken, At
<1>8. InAdapterOrder'
  BY <1>3, <1>4 DEF IInv, InAdapterOrder, HalfOpen
<1>9. QED
  BY <1>5, <1>6, <1>7, <1>8 DEF IInv

\* A request goes on with its record changed to `with`.
LEMMA GoesOn ==
  ASSUME IInv, NEW r \in Requests, NEW with \in RequestRecord, Become(r, with),
         row' \in [Partners -> Row],
         \A p \in Partners :
           with.got[p] \in {"offer", "no_reserve"} => ~TooSmall(with.ask, p),
         IF with.step = "recording"
         THEN with.held \cup with.due = with.called /\ with.held \cap with.due = {}
         ELSE with.held = {} /\ with.due = {},
         {p \in with.called : with.seen[p].state = "OPEN"} = {} =>
           \A p \in with.held, q \in with.due : Position[p] < Position[q]
  PROVE  IInv'
<1>1. /\ request' = [request EXCEPT ![r] = with] /\ request'[r] = with
      /\ \A t \in Requests : t # r => request'[t] = request[t]
  BY DEF Become, IInv, TypeOK
<1>2. TypeOK'
  BY <1>1 DEF IInv, TypeOK
<1>3. AnswersAreQuotes'
  BY <1>1 DEF IInv, AnswersAreQuotes
<1>4. RowsTaken'
  BY <1>1 DEF IInv, RowsTaken, At
<1>5. InAdapterOrder'
  BY <1>1 DEF IInv, InAdapterOrder, HalfOpen
<1>6. QED
  BY <1>2, <1>3, <1>4, <1>5 DEF IInv

LEMMA RequestIsRecord ==
  ASSUME IInv, NEW r \in Requests
  PROVE  request[r] \in RequestRecord
  BY DEF IInv, TypeOK

LEMMA GatherKeeps ==
  ASSUME IInv, NEW r \in Requests, Gather(r)
  PROVE  IInv'
<1> DEFINE seen == [p \in Partners |-> IF p \in Candidates THEN row[p] ELSE Fresh]
           with == [request[r] EXCEPT !.step = "calling", !.called = Candidates,
                                      !.seen = seen]
<1>1. Become(r, with) /\ row' \in [Partners -> Row] /\ At(r, "idle")
  BY DEF Gather, IInv, TypeOK
<1>2. seen \in [Partners -> Row] /\ Candidates \in SUBSET Partners
  BY FreshIsRow DEF IInv, TypeOK, Candidates
<1> HIDE DEF seen
<1>3. request[r] \in RequestRecord
  BY RequestIsRecord
<1>4. with \in RequestRecord
  BY <1>2, <1>3, Zenon DEF RequestRecord
<1>5. /\ with.step = "calling" /\ with.got = request[r].got /\ with.ask = request[r].ask
      /\ with.held = request[r].held /\ with.due = request[r].due
  BY <1>3 DEF RequestRecord
<1> HIDE DEF with
<1>6. request[r].held = {} /\ request[r].due = {}
  BY <1>1 DEF IInv, RowsTaken, At
<1>7. \A p \in Partners :
        request[r].got[p] \in {"offer", "no_reserve"} => ~TooSmall(request[r].ask, p)
  BY DEF IInv, AnswersAreQuotes
<1>8. QED
  BY <1>1, <1>4, <1>5, <1>6, <1>7, GoesOn

LEMMA PartnersAnsweredKeeps ==
  ASSUME IInv, NEW r \in Requests, NEW got \in [Partners -> Answers \cup {"none"}],
         PartnersAnswered(r, got)
  PROVE  IInv'
<1> DEFINE called == request[r].called
           with == [request[r] EXCEPT !.step = "recording", !.got = got, !.due = called]
<1>1. /\ Become(r, with) /\ row' \in [Partners -> Row] /\ At(r, "calling")
      /\ \A p \in Partners :
           TooSmall(request[r].ask, p) => got[p] \notin {"offer", "no_reserve"}
  BY DEF PartnersAnswered, IInv, TypeOK
<1>2. request[r] \in RequestRecord
  BY RequestIsRecord
<1>3. called \in SUBSET Partners
  BY <1>2 DEF RequestRecord
<1> HIDE DEF called
<1>4. with \in RequestRecord
  BY <1>2, <1>3, Zenon DEF RequestRecord
<1>5. /\ with.step = "recording" /\ with.got = got /\ with.ask = request[r].ask
      /\ with.held = request[r].held /\ with.due = called /\ with.called = called
  BY <1>2 DEF RequestRecord, called
<1> HIDE DEF with
<1>6. request[r].held = {}
  BY <1>1 DEF IInv, RowsTaken, At
<1>7. QED
  BY <1>1, <1>4, <1>5, <1>6, GoesOn

\* The row that is locked comes before all that are still due.
LEMMA FlushRowKeeps ==
  ASSUME IInv, NEW r \in Requests, NEW p \in Partners, FlushRow(r, p)
  PROVE  IInv'
<1> DEFINE held == request[r].held
           due == request[r].due
           taken == held \cup {p}
           left == due \ {p}
           with == [request[r] EXCEPT !.held = taken, !.due = left]
<1>1. /\ Become(r, with) /\ row' \in [Partners -> Row] /\ NextRow(r, p)
  BY DEF FlushRow, IInv, TypeOK
<1>2. request[r] \in RequestRecord
  BY RequestIsRecord
<1>3. /\ held \in SUBSET Partners /\ due \in SUBSET Partners
      /\ request[r].called \in SUBSET Partners
  BY <1>2 DEF RequestRecord
<1>4. /\ request[r].step = "recording" /\ p \in due
      /\ \A q \in due : LockedBefore(r, p, q)
  BY <1>1 DEF NextRow, At
<1>5. held \cup due = request[r].called /\ held \cap due = {}
  BY <1>4 DEF IInv, RowsTaken, At
<1>6. ASSUME HalfOpen(r) = {}, NEW h \in taken, NEW q \in left
      PROVE  Position[h] < Position[q]
  <2>1. CASE h \in held
    BY <1>6, <2>1 DEF IInv, InAdapterOrder
  <2>2. CASE h = p
    <3>1. q \in due /\ q # p /\ q \in request[r].called /\ LockedBefore(r, p, q)
      BY <1>4, <1>5
    <3>2. Position[p] <= Position[q]
      BY <1>4, <1>5, <1>6, <3>1 DEF LockedBefore, Leads
    <3>3. Position[p] # Position[q] /\ Position[p] \in Nat /\ Position[q] \in Nat
      BY <1>3, <3>1, AdaptersAssumption
    <3>4. QED
      BY <2>2, <3>2, <3>3, SMT
  <2>3. QED
    BY <1>6, <2>1, <2>2
<1>7. taken \in SUBSET Partners /\ left \in SUBSET Partners
  BY <1>3
<1>8. taken \cup left = request[r].called /\ taken \cap left = {}
  BY <1>4, <1>5
<1> HIDE DEF held, due, taken, left
<1>9. with \in RequestRecord
  BY <1>2, <1>7, Zenon DEF RequestRecord
<1>10. /\ with.step = "recording" /\ with.got = request[r].got
       /\ with.ask = request[r].ask /\ with.called = request[r].called
       /\ with.seen = request[r].seen /\ with.held = taken /\ with.due = left
  BY <1>2, <1>4 DEF RequestRecord
<1> HIDE DEF with
<1>11. \A q \in Partners :
         request[r].got[q] \in {"offer", "no_reserve"} => ~TooSmall(request[r].ask, q)
  BY DEF IInv, AnswersAreQuotes
<1>12. {q \in with.called : with.seen[q].state = "OPEN"} = {} =>
         \A h \in with.held, q \in with.due : Position[h] < Position[q]
  BY <1>6, <1>10 DEF HalfOpen
<1>13. QED
  BY <1>1, <1>8, <1>9, <1>10, <1>11, <1>12, GoesOn

LEMMA RowsStayRows ==
  ASSUME IInv, NEW r \in Requests, NEW opened, CommitRecords(r, opened)
  PROVE  /\ row' \in [Partners -> Row]
         /\ \A p \in Partners : row'[p].enabled = row[p].enabled
<1> DEFINE after(p) == IF p \in request[r].called
                       THEN Written(r, p, Recorded(r, p, opened), opened) ELSE row[p]
<1>1. row' = [p \in Partners |-> after(p)]
  BY DEF CommitRecords
<1>2. ASSUME NEW p \in Partners
      PROVE  after(p) \in Row /\ after(p).enabled = row[p].enabled
  <2>1. row[p] \in Row /\ TypeOK
    BY DEF IInv, TypeOK
  <2>2. /\ Recorded(r, p, opened) \in Row
        /\ Recorded(r, p, opened).enabled = request[r].seen[p].enabled
    BY <2>1, RecordedIsRow
  <2>3. /\ Written(r, p, Recorded(r, p, opened), opened) \in Row
        /\ Written(r, p, Recorded(r, p, opened), opened).enabled = row[p].enabled
    BY <2>1, <2>2, WrittenIsRow
  <2>4. QED
    BY <2>1, <2>3
<1> HIDE DEF after
<1>3. QED
  BY <1>1, <1>2

LEMMA CommitRecordsKeeps ==
  ASSUME IInv, NEW r \in Requests, NEW opened, CommitRecords(r, opened)
  PROVE  IInv'
<1> DEFINE none == {}
           with == [request[r] EXCEPT !.step = "ranking", !.held = none]
<1>1. row' \in [Partners -> Row]
  BY RowsStayRows
<1>2. CASE GoIdle(r)
  BY <1>1, <1>2, IdleKeeps
<1>3. CASE Become(r, with)
  <2>1. request[r] \in RequestRecord /\ none \in SUBSET Partners
    BY RequestIsRecord
  <2> HIDE DEF none
  <2>2. with \in RequestRecord
    BY <2>1, Zenon DEF RequestRecord
  <2>3. /\ with.step = "ranking" /\ with.got = request[r].got
        /\ with.ask = request[r].ask /\ with.held = none /\ with.due = request[r].due
    BY <2>1 DEF RequestRecord
  <2> HIDE DEF with
  <2>4. request[r].due = {}
    BY DEF CommitRecords
  <2>5. \A q \in Partners :
          request[r].got[q] \in {"offer", "no_reserve"} => ~TooSmall(request[r].ask, q)
    BY DEF IInv, AnswersAreQuotes
  <2>6. none = {}
    BY DEF none
  <2>7. QED
    BY <1>1, <1>3, <2>2, <2>3, <2>4, <2>5, <2>6, GoesOn
<1>4. QED
  BY <1>2, <1>3 DEF CommitRecords

LEMMA AnswerKeeps ==
  ASSUME IInv, NEW r \in Requests, Answer(r)
  PROVE  IInv'
<1> DEFINE with == [request[r] EXCEPT !.step = "answered"]
<1>1. row' \in [Partners -> Row] /\ At(r, "ranking")
  BY DEF Answer, IInv, TypeOK
<1>2. CASE GoIdle(r)
  BY <1>1, <1>2, IdleKeeps
<1>3. CASE Become(r, with)
  <2>1. request[r] \in RequestRecord
    BY RequestIsRecord
  <2>2. with \in RequestRecord
    BY <2>1, Zenon DEF RequestRecord
  <2>3. /\ with.step = "answered" /\ with.got = request[r].got
        /\ with.ask = request[r].ask /\ with.held = request[r].held
        /\ with.due = request[r].due
    BY <2>1 DEF RequestRecord
  <2> HIDE DEF with
  <2>4. request[r].held = {} /\ request[r].due = {}
    BY <1>1 DEF IInv, RowsTaken, At
  <2>5. \A q \in Partners :
          request[r].got[q] \in {"offer", "no_reserve"} => ~TooSmall(request[r].ask, q)
    BY DEF IInv, AnswersAreQuotes
  <2>6. QED
    BY <1>1, <1>3, <2>2, <2>3, <2>4, <2>5, GoesOn
<1>4. QED
  BY <1>2, <1>3 DEF Answer

\* The rows change, and no request.
LEMMA RowsChange ==
  ASSUME IInv, row' \in [Partners -> Row], UNCHANGED request
  PROVE  IInv'
<1>1. TypeOK'
  BY DEF IInv, TypeOK
<1>2. AnswersAreQuotes'
  BY DEF IInv, AnswersAreQuotes
<1>3. RowsTaken'
  BY DEF IInv, RowsTaken, At
<1>4. InAdapterOrder'
  BY DEF IInv, InAdapterOrder, HalfOpen
<1>5. QED
  BY <1>1, <1>2, <1>3, <1>4 DEF IInv

LEMMA SwitchKeeps ==
  ASSUME IInv, NEW p \in Partners, SwitchPartner(p) \/ CooldownElapses(p)
  PROVE  IInv'
<1>1. row \in [Partners -> Row] /\ row[p] \in Row
  BY DEF IInv, TypeOK
<1>2. ASSUME NEW enabled \in BOOLEAN, SetEnabled(p, enabled) PROVE IInv'
  <2>1. [row[p] EXCEPT !.enabled = enabled] \in Row
    BY <1>1 DEF Row
  <2>2. row' = [row EXCEPT ![p] = [row[p] EXCEPT !.enabled = enabled]]
    BY <1>2 DEF SetEnabled
  <2>3. row' \in [Partners -> Row]
    BY <1>1, <2>1, <2>2
  <2>4. QED
    BY <1>2, <2>3, RowsChange DEF SetEnabled
<1>3. CASE CooldownElapses(p)
  <2>1. [row[p] EXCEPT !.cooldown = "elapsed"] \in Row
    BY <1>1 DEF Row
  <2>2. row' = [row EXCEPT ![p] = [row[p] EXCEPT !.cooldown = "elapsed"]]
    BY <1>3 DEF CooldownElapses
  <2>3. row' \in [Partners -> Row]
    BY <1>1, <2>1, <2>2
  <2>4. QED
    BY <1>3, <2>3, RowsChange DEF CooldownElapses
<1>4. QED
  BY <1>2, <1>3 DEF SwitchPartner, EnablePartner, DisablePartner

LEMMA InvNext == IInv /\ [Next]_vars => IInv'
<1> SUFFICES ASSUME IInv, [Next]_vars PROVE IInv'
  OBVIOUS
<1>1. row \in [Partners -> Row]
  BY DEF IInv, TypeOK
<1>2. CASE UNCHANGED vars
  BY <1>1, <1>2, RowsChange DEF vars
<1>3. ASSUME NEW r \in Requests, Gather(r) PROVE IInv'
  BY <1>3, GatherKeeps
<1>4. ASSUME NEW r \in Requests, GetAnswers(r) PROVE IInv'
  BY <1>4, PartnersAnsweredKeeps DEF GetAnswers
<1>5. ASSUME NEW r \in Requests, Flush(r) PROVE IInv'
  BY <1>5, FlushRowKeeps DEF Flush
<1>6. ASSUME NEW r \in Requests, Record(r) PROVE IInv'
  BY <1>6, CommitRecordsKeeps DEF Record
<1>7. ASSUME NEW r \in Requests, Answer(r) PROVE IInv'
  BY <1>7, AnswerKeeps
<1>8. ASSUME NEW r \in Requests, Done(r) \/ DeadlockVictim(r) \/ Abort(r) PROVE IInv'
  <2>1. GoIdle(r) /\ UNCHANGED row
    BY <1>8 DEF Done, DeadlockVictim, Abort
  <2>2. QED
    BY <1>1, <2>1, IdleKeeps
<1>9. ASSUME NEW p \in Partners, SwitchPartner(p) \/ CooldownElapses(p) PROVE IInv'
  BY <1>9, SwitchKeeps
<1>10. QED
  BY <1>2, <1>3, <1>4, <1>5, <1>6, <1>7, <1>8, <1>9 DEF Next

LEMMA InvHolds == Spec => []IInv
  BY InvInit, InvNext, PTL DEF Spec

------------------------------------------------------------------------------
(* The theorems *)

\* Rows and requests are well typed; HALF_OPEN is never committed.
THEOREM TypeCorrect == Spec => []TypeOK
<1>1. IInv => TypeOK
  BY DEF IInv
<1>2. QED
  BY <1>1, InvHolds, PTL

LEMMA OffersAreOffered ==
  ASSUME IInv, NEW r \in Requests
  PROVE  /\ Offers(r) = Offered(request[r].ask, Usable(r))
         /\ Usable(r) # {} => Rankable(request[r].ask, Usable(r))
<1> DEFINE ask == request[r].ask
           usable == Usable(r)
<1>1. request[r] \in RequestRecord
  BY RequestIsRecord
<1>2. ask \in Asks /\ usable \in SUBSET Partners
  BY <1>1 DEF RequestRecord, Usable
<1>3. \A p \in usable : ~TooSmall(ask, p)
  BY <1>2 DEF IInv, AnswersAreQuotes, Usable
<1>4. Offers(r) = OffersAmong[ask][usable]
  BY DEF Offers
<1> HIDE DEF ask, usable
<1>5. OffersAmong[ask][usable] = Offered(ask, usable)
  BY <1>2 DEF OffersAmong
<1>6. ask \in Ask
  BY <1>2, AsksAssumption
<1>7. QED
  BY <1>2, <1>3, <1>4, <1>5, <1>6 DEF Rankable, ask, usable

\* Every offer's RootScore is in 0..100, whatever overlapping requests make of the
\* counters in the partners' rows.
THEOREM ScoresAreInRange == Spec => []ScoreInRange
<1>1. IInv => ScoreInRange
  <2> SUFFICES ASSUME IInv, NEW r \in Requests, NEW p \in Offers(r)
               PROVE  Score(r, p) \in 0..FullScore
    BY DEF ScoreInRange
  <2>1. p \in Offered(request[r].ask, Usable(r)) /\ p \in Usable(r)
    BY OffersAreOffered DEF Offered
  <2>2. Rankable(request[r].ask, Usable(r))
    BY <2>1, OffersAreOffered
  <2>3. request[r] \in RequestRecord /\ p \in Partners
    BY <2>1, <2>2, RequestIsRecord DEF Rankable
  <2>4. \A ok, total \in Nat :
          RootScore(request[r].ask, Usable(r), p, ok, total) \in 0..FullScore
    BY <2>1, <2>2, RootScoreInRange
  <2>5. request[r].seen[p].ok + 1 \in Nat /\ request[r].seen[p].total + 1 \in Nat
    <3>1. request[r].seen[p] \in Row
      BY <2>3 DEF RequestRecord
    <3>2. QED
      BY <3>1 DEF Row
  <2>6. QED
    BY <2>4, <2>5 DEF Score
<1>2. QED
  BY <1>1, InvHolds, PTL

\* No offer is ranked behind one with a lower score, and none is scored below
\* one it is as good as in every respect: the first offer of an answer is one
\* that no other offer beats.
THEOREM BetterOffersLead == Spec => []BetterOfferLeads
<1>1. IInv => BetterOfferLeads
  <2> SUFFICES ASSUME IInv, NEW r \in Requests
               PROVE  LET score == [p \in Offers(r) |-> Score(r, p)]
                          answer == Ranked(score)
                      IN \A i, j \in DOMAIN answer : i < j =>
                           /\ score[answer[i]] >= score[answer[j]]
                           /\ AsGood(r, answer[j], answer[i]) =>
                                score[answer[i]] = score[answer[j]]
    BY DEF BetterOfferLeads
  <2> DEFINE ask == request[r].ask
             usable == Usable(r)
             seen == request[r].seen
             score == [p \in Offers(r) |-> Score(r, p)]
             answer == Ranked(score)
  <2>1. ASSUME NEW p \in Offers(r)
        PROVE  /\ p \in Offered(ask, usable) /\ p \in Partners /\ Rankable(ask, usable)
               /\ seen[p].ok \in Nat /\ seen[p].total \in Nat
    <3>1. p \in Offered(ask, usable) /\ p \in usable
      BY OffersAreOffered DEF Offered
    <3>2. Rankable(ask, usable)
      BY <3>1, OffersAreOffered
    <3>3. p \in Partners
      BY <3>1, <3>2 DEF Rankable
    <3>4. seen[p] \in Row
      BY <3>3, RequestIsRecord DEF RequestRecord
    <3>5. QED
      BY <3>1, <3>2, <3>3, <3>4 DEF Row
  <2>2. ASSUME NEW p \in Offers(r)
        PROVE  Score(r, p) \in Nat
    <3>1. seen[p].ok + 1 \in Nat /\ seen[p].total + 1 \in Nat
      BY <2>1, SMT
    <3>2. RootScore(ask, usable, p, seen[p].ok + 1, seen[p].total + 1) \in 0..FullScore
      BY <2>1, <3>1, RootScoreInRange
    <3>3. QED
      BY <3>2, SMT DEF Score
  <2>3. Scores(score)
    <3>1. Offers(r) \in SUBSET Partners
      BY <2>1
    <3>2. QED
      BY <2>2, <3>1 DEF Scores
  <2>4. ASSUME NEW p \in Offers(r), NEW q \in Offers(r), AsGood(r, p, q)
        PROVE  Score(r, q) <= Score(r, p)
    <3>1. /\ seen[p].ok + 1 \in Nat /\ seen[p].total + 1 \in Nat \ {0}
          /\ seen[q].ok + 1 \in Nat /\ seen[q].total + 1 \in Nat \ {0}
      BY <2>1, SMT
    <3>2. /\ FeePermille[p] <= FeePermille[q] /\ Minutes[p] <= Minutes[q]
          /\ Latency[p] <= Latency[q]
          /\ (seen[q].ok + 1) * (seen[p].total + 1) <= (seen[p].ok + 1) * (seen[q].total + 1)
      BY <2>4 DEF AsGood
    <3>3. RootScore(ask, usable, q, seen[q].ok + 1, seen[q].total + 1)
            <= RootScore(ask, usable, p, seen[p].ok + 1, seen[p].total + 1)
      <4> DEFINE okp == seen[p].ok + 1
                 totalp == seen[p].total + 1
                 okq == seen[q].ok + 1
                 totalq == seen[q].total + 1
      <4>1. /\ okp \in Nat /\ totalp \in Nat \ {0} /\ okq \in Nat /\ totalq \in Nat \ {0}
            /\ okq * totalp <= okp * totalq
        BY <3>1, <3>2
      <4> HIDE DEF okp, totalp, okq, totalq
      <4>2. RootScore(ask, usable, q, okq, totalq) <= RootScore(ask, usable, p, okp, totalp)
        BY <2>1, <3>2, <4>1, RootScoreMonotone
      <4>3. QED
        BY <4>2 DEF okp, totalp, okq, totalq
    <3>4. QED
      BY <3>3 DEF Score
  <2>5. ASSUME NEW i \in DOMAIN answer, NEW j \in DOMAIN answer, i < j
        PROVE  /\ score[answer[i]] >= score[answer[j]]
               /\ AsGood(r, answer[j], answer[i]) => score[answer[i]] = score[answer[j]]
    <3>1. /\ Ahead(score, answer[i], answer[j])
          /\ answer \in Bijection(1..Cardinality(DOMAIN score), DOMAIN score)
      BY <2>3, <2>5, RankingIsASort
    <3>2. answer[i] \in Offers(r) /\ answer[j] \in Offers(r)
      BY <3>1, Fun_BijectionProperties
    <3> DEFINE first == answer[i]
               second == answer[j]
    <3>3. /\ score[first] = Score(r, first) /\ score[second] = Score(r, second)
          /\ score[first] \in Nat /\ score[second] \in Nat
      BY <2>2, <3>2
    <3>4. AsGood(r, second, first) => Score(r, first) <= Score(r, second)
      BY <2>4, <3>2
    <3>5. Ahead(score, first, second)
      BY <3>1
    <3> HIDE DEF first, second, score, answer
    <3>6. /\ score[first] >= score[second]
          /\ AsGood(r, second, first) => score[first] = score[second]
      BY <3>3, <3>4, <3>5, SMT DEF Ahead
    <3>7. QED
      BY <3>6 DEF first, second
  <2>6. QED
    BY <2>5
<1>2. QED
  BY <1>1, InvHolds, PTL

\* What the user pays is worth what the user gets and the fees of every answered
\* offer: to half a fiat unit for a SELL, to a unit of the asset for a BUY.
THEOREM FeesAlwaysAddUp == Spec => []FeesAddUp
<1>1. IInv => FeesAddUp
  <2>1. ASSUME IInv, NEW r \in Requests, NEW p \in Offers(r)
        PROVE  LET ask == request[r].ask
                   got == FinalAmountOut(ask, Usable(r), p)
                   fees == TotalFee(ask, Usable(r), p)
               IN IF ask.direction = "SELL"
                  THEN /\ 2 * (Scale * (got + fees) - ask.amount * Rate) <= Scale
                       /\ 2 * (ask.amount * Rate - Scale * (got + fees)) <= Scale
                  ELSE /\ Parts * Rate * got + Scale * fees - ask.amount * Per
                             <= Parts * Rate
                       /\ ask.amount * Per - (Parts * Rate * got + Scale * fees)
                             <= Parts * Rate
    <3>1. p \in Usable(r)
      BY <2>1, OffersAreOffered DEF Offered
    <3>2. Rankable(request[r].ask, Usable(r))
      BY <2>1, <3>1, OffersAreOffered
    <3>3. QED
      BY <3>1, <3>2, FeesOfAnOfferAddUp
  <2>2. QED
    BY <2>1, Zenon DEF FeesAddUp
<1>2. QED
  BY <1>1, InvHolds, PTL

\* The rows that requests in a cycle wait for have positions, and one of them has
\* the least.  Whoever waits for it holds a row with a lower position, if it probes
\* nobody, and another request of the cycle waits for that one.
LEMMA CycleNeedsProbe ==
  ASSUME IInv, NEW set \in SUBSET Requests, set # {}, Deadlocked(set)
  PROVE  \E r \in set : HalfOpen(r) # {}
<1> SUFFICES ASSUME \A r \in set : HalfOpen(r) = {} PROVE FALSE
  OBVIOUS
<1>1. ASSUME NEW r \in set, NEW p, NextRow(r, p)
      PROVE  p \in request[r].due /\ p \in Partners /\ Position[p] \in Nat
  <2>1. request[r] \in RequestRecord
    BY RequestIsRecord
  <2>2. p \in request[r].due /\ p \in Partners
    BY <1>1, <2>1 DEF NextRow, RequestRecord
  <2>3. QED
    BY <2>2, AdaptersAssumption
<1> DEFINE awaited == {Position[p] : p \in {q \in Partners : \E r \in set : NextRow(r, q)}}
<1>2. awaited \in SUBSET Nat
  BY AdaptersAssumption
<1>3. awaited # {}
  <2>1. PICK r \in set : TRUE
    OBVIOUS
  <2>2. PICK t \in set : WaitsFor(r, t)
    BY <2>1 DEF Deadlocked
  <2>3. PICK p \in request[t].held : NextRow(r, p)
    BY <2>2 DEF WaitsFor
  <2>4. QED
    BY <1>1, <2>3
<1>4. PICK least \in awaited : \A other \in awaited : least <= other
  BY <1>2, <1>3, LeastExists
<1>5. PICK p \in Partners, r \in set : least = Position[p] /\ NextRow(r, p)
  BY <1>4
<1>6. PICK u \in set : WaitsFor(u, r)
  BY <1>5 DEF Deadlocked
<1>7. PICK q \in request[r].held : NextRow(u, q)
  BY <1>6 DEF WaitsFor
<1>8. q \in Partners /\ Position[q] \in Nat /\ Position[p] \in Nat
  BY <1>1, <1>5, <1>7
<1>9. Position[q] < Position[p]
  <2>1. p \in request[r].due
    BY <1>1, <1>5
  <2>2. QED
    BY <1>7, <2>1 DEF IInv, InAdapterOrder
<1>10. Position[p] <= Position[q]
  BY <1>4, <1>5, <1>7, <1>8
<1>11. QED
  BY <1>8, <1>9, <1>10, SMT

\* Overlapping requests, however many, never wait for each other's rows in a cycle
\* unless one of them probes a partner.
THEOREM LockCyclesNeedProbes == Spec => []LockCycleNeedsProbe
<1>1. IInv => LockCycleNeedsProbe
  BY CycleNeedsProbe DEF LockCycleNeedsProbe
<1>2. QED
  BY <1>1, InvHolds, PTL

\* Only an admin's call switches a partner on or off: no request, however long
\* ago it read the row, writes `enabled` back.
THEOREM AdminSwitchesStick == Spec => AdminSwitchSticks
<1>1. IInv /\ [Next]_vars =>
        [\A p \in Partners : row'[p].enabled # row[p].enabled => SwitchPartner(p)]_vars
  <2> SUFFICES ASSUME IInv, Next, NEW p \in Partners,
                      row'[p].enabled # row[p].enabled
               PROVE  SwitchPartner(p)
    OBVIOUS
  <2>1. row \in [Partners -> Row]
    BY DEF IInv, TypeOK
  <2>2. ASSUME NEW r \in Requests, Record(r) PROVE FALSE
    BY <2>2, RowsStayRows DEF Record
  <2>3. ASSUME NEW r \in Requests,
               \/ Gather(r) \/ GetAnswers(r) \/ Flush(r)
               \/ Answer(r) \/ Done(r) \/ DeadlockVictim(r) \/ Abort(r)
        PROVE  FALSE
    BY <2>3 DEF Gather, GetAnswers, PartnersAnswered, Flush, FlushRow, Answer, Done,
                DeadlockVictim, Abort
  <2>4. ASSUME NEW q \in Partners, SwitchPartner(q) PROVE q = p
    BY <2>1, <2>4 DEF SwitchPartner, EnablePartner, DisablePartner, SetEnabled
  <2>5. ASSUME NEW q \in Partners, CooldownElapses(q) PROVE FALSE
    <3>1. row[q] \in Row
      BY <2>1
    <3>2. [row[q] EXCEPT !.cooldown = "elapsed"].enabled = row[q].enabled
      BY <3>1 DEF Row
    <3>3. row' = [row EXCEPT ![q] = [row[q] EXCEPT !.cooldown = "elapsed"]]
      BY <2>5 DEF CooldownElapses
    <3>4. QED
      BY <2>1, <3>2, <3>3
  <2>6. QED
    BY <2>2, <2>3, <2>4, <2>5 DEF Next
<1>2. QED
  BY <1>1, InvHolds, PTL DEF Spec, AdminSwitchSticks
==============================================================================
