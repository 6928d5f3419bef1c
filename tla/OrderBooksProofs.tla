-------------------------- MODULE OrderBooksProofs ---------------------------
(***************************************************************************)
(* Proofs about OrderBooks, for every set of orders and all amounts.       *)
(* Completions and refunds post in batches, so the ledger of an order has  *)
(* one of a few shapes; the shapes are inductive, and the invariants are   *)
(* sums over them.                                                         *)
(***************************************************************************)
EXTENDS OrderBooks, TLAPS

RecognitionKeys ==
  {"gross_service_fee", "referral_liability", "realized_net_profit",
   "partner_cost", "partner_cost_passthrough",
   "network_cost", "network_cost_passthrough"}

RefundKeys ==
  {"refund_liability", "refund_profit_reversal", "refund_referral_reversal",
   "refund_paid", "refund_paid_offset"}

\* What completions have posted: nothing, or one whole batch, which has a
\* referral liability if there is a share to owe.
RecognitionShape(l, fee, share) ==
  \/ RecognitionKeys \cap DOMAIN l = {}
  \/ /\ {"gross_service_fee", "realized_net_profit"} \subseteq DOMAIN l
     /\ l["gross_service_fee"] = fee
     /\ l["realized_net_profit"] = share - fee
     /\ ("referral_liability" \in DOMAIN l) <=> share > 0
     /\ share > 0 => l["referral_liability"] = -share
     /\ ("partner_cost" \in DOMAIN l) <=> ("partner_cost_passthrough" \in DOMAIN l)
     /\ "partner_cost" \in DOMAIN l =>
          l["partner_cost"] = -l["partner_cost_passthrough"]
     /\ ("network_cost" \in DOMAIN l) <=> ("network_cost_passthrough" \in DOMAIN l)
     /\ "network_cost" \in DOMAIN l =>
          l["network_cost"] = -l["network_cost_passthrough"]

\* What refunds have posted: nothing, or one whole batch that reversed the
\* share, or one that did not, to which the share may have been added later.
RefundShape(l, fee, share) ==
  \/ RefundKeys \cap DOMAIN l = {}
  \/ /\ RefundKeys \ {"refund_referral_reversal"} \subseteq DOMAIN l
     /\ l["refund_liability"] = -fee
     /\ l["refund_paid"] = fee
     /\ l["refund_paid_offset"] = -fee
     /\ \/ /\ "refund_referral_reversal" \notin DOMAIN l
           /\ l["refund_profit_reversal"] = fee
        \/ /\ {"refund_referral_reversal", "referral_liability"} \subseteq DOMAIN l
           /\ l["refund_referral_reversal"] = share
           /\ l["refund_profit_reversal"] \in {fee, fee - share}

\* A completion posts a whole batch on an order without one, and nothing on
\* an order that has one.
LEMMA CompletionKeepsShapes ==
  ASSUME NEW l, IsLedger(l), NEW fee \in Nat, NEW pf \in Nat, NEW nf \in Nat,
         NEW amount \in Nat, amount > 0 => fee > 0,
         NEW accrued,
         accrued = IF "referral_liability" \in DOMAIN l THEN 0 ELSE amount,
         RecognitionShape(l, fee, Smaller(amount, fee)),
         RefundShape(l, fee, Smaller(amount, fee)),
         NEW m, m = PostEntries(l, CompletedEntries(fee, pf, nf, accrued))
  PROVE  /\ IsLedger(m)
         /\ RecognitionShape(m, fee, Smaller(amount, fee))
         /\ RefundShape(m, fee, Smaller(amount, fee))
         /\ {"gross_service_fee", "realized_net_profit"} \subseteq DOMAIN m
         /\ ("referral_liability" \in DOMAIN m) <=> amount > 0
         /\ \A k \in RefundKeys : k \in DOMAIN m <=> k \in DOMAIN l
<1> DEFINE e == CompletedEntries(fee, pf, nf, accrued)
           share == Smaller(amount, fee)
<1>1. /\ DOMAIN e \subseteq RecognitionKeys
      /\ {"gross_service_fee", "realized_net_profit"} \subseteq DOMAIN e
      /\ e["gross_service_fee"] = fee
      /\ ("referral_liability" \in DOMAIN e) <=> accrued > 0
      /\ accrued > 0 => e["referral_liability"] = -share
      /\ e["realized_net_profit"] = (IF accrued > 0 THEN share ELSE 0) - fee
      /\ ("partner_cost" \in DOMAIN e) <=> ("partner_cost_passthrough" \in DOMAIN e)
      /\ "partner_cost" \in DOMAIN e =>
           e["partner_cost"] = -e["partner_cost_passthrough"]
      /\ ("network_cost" \in DOMAIN e) <=> ("network_cost_passthrough" \in DOMAIN e)
      /\ "network_cost" \in DOMAIN e =>
           e["network_cost"] = -e["network_cost_passthrough"]
      /\ \A k \in DOMAIN e : e[k] \in Int
  BY DEF CompletedEntries, Smaller, RecognitionKeys
<1>2. share \in Nat /\ (share > 0 <=> amount > 0)
  BY DEF Smaller
<1> HIDE DEF e, share
<1>3. /\ DOMAIN m = DOMAIN l \cup DOMAIN e
      /\ m = [k \in DOMAIN m |-> m[k]]
      /\ \A k \in DOMAIN l : m[k] = l[k]
      /\ \A k \in DOMAIN e : k \notin DOMAIN l => m[k] = e[k]
  BY DEF PostEntries, e
<1>4. IsLedger(m)
  <2>1. DOMAIN m \subseteq PostingKeys
    BY <1>1, <1>3 DEF IsLedger, RecognitionKeys, PostingKeys
  <2>2. ASSUME NEW k \in DOMAIN m PROVE m[k] \in Int
    BY <1>1, <1>3 DEF IsLedger
  <2>3. QED BY <1>3, <2>1, <2>2 DEF IsLedger
<1>5. \A k \in RefundKeys : (k \in DOMAIN m <=> k \in DOMAIN l)
                            /\ (k \in DOMAIN l => m[k] = l[k])
  BY <1>1, <1>3 DEF RecognitionKeys, RefundKeys
<1>6. CASE RecognitionKeys \cap DOMAIN l = {}
  <2>1. /\ "referral_liability" \notin DOMAIN l /\ accrued = amount
        /\ \A k \in RecognitionKeys : (k \in DOMAIN m <=> k \in DOMAIN e)
                                      /\ (k \in DOMAIN e => m[k] = e[k])
    BY <1>3, <1>6 DEF RecognitionKeys
  <2>2. RecognitionShape(m, fee, share)
    BY <1>1, <1>2, <2>1 DEF RecognitionShape, RecognitionKeys
  <2>3. QED BY <1>1, <1>2, <1>4, <1>5, <1>6, <2>1, <2>2 
        DEF RefundShape, RefundKeys, RecognitionKeys, share
<1>7. CASE RecognitionKeys \cap DOMAIN l # {}
  <2>1. \A k \in RecognitionKeys : (k \in DOMAIN l => m[k] = l[k])
    BY <1>3
  <2> QED BY <1>1, <1>2, <1>3, <1>4, <1>5, <1>7, <2>1 
        DEF RecognitionShape, RefundShape, RefundKeys, RecognitionKeys, share
<1>8. QED BY <1>6, <1>7

\* The refund on the books reversed the share that is on the books.
RefundMatches(l, fee, share) ==
  RefundKeys \cap DOMAIN l # {} =>
    /\ ("refund_referral_reversal" \in DOMAIN l)
         <=> ("referral_liability" \in DOMAIN l)
    /\ l["refund_profit_reversal"]
         = fee - (IF "referral_liability" \in DOMAIN l THEN share ELSE 0)

\* A refund posts a whole batch on an order without one, and at most the
\* missing reversal of the share on an order that has one; a refund that has
\* not read the share does not reverse it.
LEMMA RefundKeepsShapes ==
  ASSUME NEW l, IsLedger(l), NEW fee \in Nat, NEW share \in Nat,
         RecognitionShape(l, fee, share),
         RefundShape(l, fee, share),
         NEW read \in {l, EmptyLedger},
         NEW m, m = PostEntries(l, RefundEntries(fee, read))
  PROVE  /\ IsLedger(m)
         /\ RecognitionShape(m, fee, share)
         /\ RefundShape(m, fee, share)
         /\ RefundKeys \ {"refund_referral_reversal"} \subseteq DOMAIN m
         /\ \A k \in RecognitionKeys : k \in DOMAIN m <=> k \in DOMAIN l
         /\ RefundMatches(l, fee, share) /\ read = l
              => RefundMatches(m, fee, share)
<1> DEFINE e == RefundEntries(fee, read)
           owed == "referral_liability" \in DOMAIN read
<1>1. -Amount(read, "referral_liability") = (IF owed THEN share ELSE 0)
  BY DEF Amount, RecognitionShape, RecognitionKeys, EmptyLedger
<1>2. /\ owed => share > 0 /\ "referral_liability" \in DOMAIN l
      /\ read = l => (owed <=> "referral_liability" \in DOMAIN l)
  BY DEF RecognitionShape, RecognitionKeys, EmptyLedger
<1>3. /\ DOMAIN e \subseteq RefundKeys
      /\ RefundKeys \ {"refund_referral_reversal"} \subseteq DOMAIN e
      /\ ("refund_referral_reversal" \in DOMAIN e) <=> owed
      /\ e["refund_liability"] = -fee
      /\ e["refund_paid"] = fee
      /\ e["refund_paid_offset"] = -fee
      /\ e["refund_profit_reversal"] = fee - (IF owed THEN share ELSE 0)
      /\ owed => e["refund_referral_reversal"] = share
      /\ \A k \in DOMAIN e : e[k] \in Int
  BY <1>1, <1>2 DEF RefundEntries, RefundKeys
<1> HIDE DEF e, owed
<1>4. /\ DOMAIN m = DOMAIN l \cup DOMAIN e
      /\ m = [k \in DOMAIN m |-> m[k]]
      /\ \A k \in DOMAIN l : m[k] = l[k]
      /\ \A k \in DOMAIN e : k \notin DOMAIN l => m[k] = e[k]
  BY DEF PostEntries, e
<1>5. IsLedger(m)
  <2>1. DOMAIN m \subseteq PostingKeys
    BY <1>3, <1>4 DEF IsLedger, RefundKeys, PostingKeys
  <2>2. ASSUME NEW k \in DOMAIN m PROVE m[k] \in Int
    BY <1>3, <1>4 DEF IsLedger
  <2>3. QED BY <1>4, <2>1, <2>2 DEF IsLedger
<1>6. \A k \in RecognitionKeys : (k \in DOMAIN m <=> k \in DOMAIN l)
                                 /\ (k \in DOMAIN l => m[k] = l[k])
  BY <1>3, <1>4 DEF RecognitionKeys, RefundKeys
<1>7. RecognitionShape(m, fee, share)
  BY <1>6 DEF RecognitionShape, RecognitionKeys
<1>8. CASE RefundKeys \cap DOMAIN l = {}
  <2>1. \A k \in RefundKeys : (k \in DOMAIN m <=> k \in DOMAIN e)
                              /\ (k \in DOMAIN e => m[k] = e[k])
    BY <1>4, <1>8
  <2>2. /\ RefundShape(m, fee, share)
        /\ read = l => RefundMatches(m, fee, share)
    BY <1>2, <1>3, <1>6, <2>1
    DEF RefundShape, RefundMatches, RefundKeys, RecognitionKeys
  <2>3. QED BY <1>3, <1>5, <1>6, <1>7, <2>1, <2>2
<1>9. CASE RefundKeys \cap DOMAIN l # {}
  <2>1. /\ \A k \in RefundKeys : k \in DOMAIN l => k \in DOMAIN m /\ m[k] = l[k]
        /\ RefundKeys \ {"refund_referral_reversal"} \subseteq DOMAIN m
        /\ ("refund_referral_reversal" \in DOMAIN m)
             <=> (owed \/ "refund_referral_reversal" \in DOMAIN l)
    BY <1>3, <1>4 DEF RefundKeys
  <2>2. RefundShape(m, fee, share)
    BY <1>2, <1>3, <1>4, <1>6, <1>9, <2>1
    DEF RefundShape, RefundKeys, RecognitionKeys
  <2>3. RefundMatches(l, fee, share) /\ read = l => RefundMatches(m, fee, share)
    BY <1>2, <1>3, <1>4, <1>6, <1>9, <2>1
    DEF RefundShape, RefundMatches, RefundKeys, RecognitionKeys
  <2>4. QED BY <1>5, <1>6, <1>7, <2>1, <2>2, <2>3
<1>10. QED BY <1>8, <1>9

\* The sums of the shapes.
LEMMA ShapeSums ==
  ASSUME NEW l, IsLedger(l), NEW fee \in Nat, NEW share \in Nat,
         RecognitionShape(l, fee, share),
         RefundShape(l, fee, share)
  PROVE  /\ RecognitionSum(l) = 0
         /\ Residual(l) \in {0, -Amount(l, "referral_liability")}
         /\ RefundMatches(l, fee, share) => Residual(l) = 0
<1>1. \A k \in DOMAIN l : l[k] \in Int
  BY DEF IsLedger
<1>2. RecognitionSum(l) = 0
  BY <1>1 DEF RecognitionShape, RecognitionKeys, RecognitionSum, Amount
<1>3. /\ RefundSum(l) \in {0, -Amount(l, "referral_liability")}
      /\ RefundMatches(l, fee, share) => RefundSum(l) = 0
  <2>1. CASE RefundKeys \cap DOMAIN l = {}
    BY <2>1 DEF RefundKeys, RefundSum, Amount
  <2>2. CASE RefundKeys \cap DOMAIN l # {}
    <3>1. "referral_liability" \in DOMAIN l => l["referral_liability"] = -share
      BY DEF RecognitionShape, RecognitionKeys
    <3>2. QED BY <1>1, <2>2, <3>1
          DEF RefundShape, RefundMatches, RefundKeys, RefundSum, Amount
  <2>3. QED BY <2>1, <2>2
<1>4. Amount(l, "referral_liability") \in Int
  BY <1>1 DEF Amount
<1>5. QED BY <1>2, <1>3, <1>4 DEF Residual

------------------------------------------------------------------------------
Share(o) == Smaller(RewardAmount[o], ServiceFee[o])

\* The inductive invariant of one order.
OrderInv(o) ==
  /\ RecognitionShape(ledger[o], ServiceFee[o], Share(o))
  /\ RefundShape(ledger[o], ServiceFee[o], Share(o))
  /\ (reward[o] # "NONE") <=> ("referral_liability" \in DOMAIN ledger[o])
  /\ ~RewardMayRaise /\ status[o] = "COMPLETED" =>
       {"gross_service_fee", "realized_net_profit"} \subseteq DOMAIN ledger[o]
  /\ status[o] = "REFUNDED" =>
       /\ {"refund_liability", "refund_paid"} \subseteq DOMAIN ledger[o]
       /\ reward[o] # "CONFIRMED"

\* What one handler at a time adds: a refund closes the order.
SerialInv(o) ==
  /\ RefundMatches(ledger[o], ServiceFee[o], Share(o))
  /\ RefundKeys \cap DOMAIN ledger[o] # {} => status[o] = "REFUNDED"
  /\ status[o] = "REFUNDED" => reward[o] \in {"NONE", "CANCELLED"}

IInv ==
  /\ TypeOK
  /\ \A o \in Orders : OrderInv(o) /\ (OneAtATime => SerialInv(o))

LEMMA ShareFacts ==
  ASSUME NEW o \in Orders
  PROVE  /\ ServiceFee[o] \in Nat /\ PartnerFee[o] \in Nat
         /\ NetworkFee[o] \in Nat /\ RewardAmount[o] \in Nat
         /\ RewardAmount[o] > 0 => ServiceFee[o] > 0
         /\ Share(o) \in Nat
         /\ Share(o) > 0 <=> RewardAmount[o] > 0
<1>1. /\ ServiceFee[o] \in Nat /\ PartnerFee[o] \in Nat
      /\ NetworkFee[o] \in Nat /\ RewardAmount[o] \in Nat
      /\ RewardAmount[o] > 0 => ServiceFee[o] > 0
  BY AmountsAssumption
<1>2. QED BY <1>1 DEF Share, Smaller

LEMMA InitIInv == Init => IInv
<1> SUFFICES ASSUME Init PROVE IInv
  OBVIOUS
<1>1. IsLedger(EmptyLedger) /\ DOMAIN EmptyLedger = {}
  BY DEF IsLedger, EmptyLedger
<1>2. TypeOK
  BY <1>1 DEF Init, TypeOK, Status, OtherStatus, RewardStatus
<1>3. ASSUME NEW o \in Orders PROVE OrderInv(o) /\ SerialInv(o)
  BY <1>1 DEF Init, OrderInv, SerialInv, RecognitionShape, RefundShape,
              RefundMatches
<1>4. QED BY <1>2, <1>3 DEF IInv

\* An order that a step leaves alone keeps its part of the invariant.
LEMMA UntouchedOrder ==
  ASSUME NEW o \in Orders, OrderInv(o), OneAtATime => SerialInv(o),
         status'[o] = status[o], ledger'[o] = ledger[o], reward'[o] = reward[o]
  PROVE  OrderInv(o)' /\ (OneAtATime => SerialInv(o)')
BY DEF OrderInv, SerialInv

LEMMA MoveKeepsIInv ==
  ASSUME IInv, NEW moved \in SUBSET Orders, NEW to \in UnpostedStatus,
         Move(moved, to)
  PROVE  IInv'
<1>1. TypeOK'
  BY DEF IInv, TypeOK, Move, UnpostedStatus, Status
<1>2. ASSUME NEW o \in Orders
      PROVE  OrderInv(o)' /\ (OneAtATime => SerialInv(o)')
  <2>1. (to = "COMPLETED" => RewardMayRaise) /\ to # "REFUNDED"
    BY DEF UnpostedStatus, OtherStatus
  <2>2. /\ ledger'[o] = ledger[o] /\ reward'[o] = reward[o]
        /\ status'[o] = IF o \in moved THEN to ELSE status[o]
        /\ o \in moved /\ OneAtATime => status[o] # "REFUNDED"
    BY DEF Move, MayMove, Closed
  <2>3. OrderInv(o) /\ (OneAtATime => SerialInv(o))
    BY DEF IInv
  <2>4. OrderInv(o)'
    BY <2>1, <2>2, <2>3 DEF OrderInv
  <2>5. OneAtATime => SerialInv(o)'
    BY <2>1, <2>2, <2>3 DEF SerialInv
  <2>6. QED BY <2>4, <2>5
<1>3. QED BY <1>1, <1>2 DEF IInv

LEMMA CompleteKeepsIInv ==
  ASSUME IInv, NEW c \in Orders, Complete(c)
  PROVE  IInv'
<1> DEFINE accrued == IF reward[c] = "NONE" THEN RewardAmount[c] ELSE 0
           m == PostEntries(ledger[c],
                  CompletedEntries(ServiceFee[c], PartnerFee[c], NetworkFee[c],
                                   accrued))
<1>1. /\ DOMAIN ledger = Orders /\ DOMAIN ledger' = Orders
      /\ ledger'[c] = m /\ IsLedger(ledger[c])
      /\ status'[c] = "COMPLETED"
      /\ reward'[c] = IF accrued > 0 THEN "CONFIRMED" ELSE reward[c]
      /\ OneAtATime => status[c] # "REFUNDED"
      /\ \A o \in Orders \ {c} : /\ status'[o] = status[o]
                                  /\ ledger'[o] = ledger[o]
                                  /\ reward'[o] = reward[o]
  BY DEF IInv, TypeOK, Complete, MayMove, Closed
<1>2. OrderInv(c) /\ (OneAtATime => SerialInv(c))
  BY DEF IInv
<1>3. accrued = IF "referral_liability" \in DOMAIN ledger[c] THEN 0
                ELSE RewardAmount[c]
  BY <1>2 DEF OrderInv
<1> HIDE DEF accrued, m
<1>4. /\ IsLedger(m)
      /\ RecognitionShape(m, ServiceFee[c], Share(c))
      /\ RefundShape(m, ServiceFee[c], Share(c))
      /\ {"gross_service_fee", "realized_net_profit"} \subseteq DOMAIN m
      /\ ("referral_liability" \in DOMAIN m) <=> RewardAmount[c] > 0
      /\ \A k \in RefundKeys : k \in DOMAIN m <=> k \in DOMAIN ledger[c]
  <2>1. m = PostEntries(ledger[c], CompletedEntries(ServiceFee[c], PartnerFee[c],
                                                    NetworkFee[c], accrued))
    BY DEF m
  <2>2. /\ RecognitionShape(ledger[c], ServiceFee[c],
                             Smaller(RewardAmount[c], ServiceFee[c]))
        /\ RefundShape(ledger[c], ServiceFee[c],
                        Smaller(RewardAmount[c], ServiceFee[c]))
    BY <1>2 DEF OrderInv, Share
  <2>3. RewardAmount[c] > 0 => ServiceFee[c] > 0
    BY <1>1, ShareFacts
  <2>4. /\ ServiceFee[c] \in Nat /\ PartnerFee[c] \in Nat
        /\ NetworkFee[c] \in Nat /\ RewardAmount[c] \in Nat
    BY ShareFacts
  <2>5. IsLedger(ledger[c])
    BY <1>1
  <2> HIDE DEF m
  <2>6. QED BY SMTT(60), <1>3, <2>1, <2>2, <2>3, <2>4, <2>5, CompletionKeepsShapes
        DEF Share
<1>5. TypeOK'
  <2>1. status' \in [Orders -> Status] /\ reward' \in [Orders -> RewardStatus]
    BY DEF IInv, TypeOK, Complete, Status, RewardStatus
  <2>2. QED BY <1>1, <1>4, <2>1 DEF IInv, TypeOK
<1>6. OrderInv(c)'
  <2>1. (reward'[c] # "NONE") <=> ("referral_liability" \in DOMAIN m)
    BY <1>1, <1>2, <1>4, ShareFacts
    DEF OrderInv, accrued, RecognitionShape, RecognitionKeys
  <2>2. QED BY <1>1, <1>4, <2>1 DEF OrderInv, Share
<1>7. OneAtATime => SerialInv(c)'
  BY <1>1, <1>2, <1>4 DEF SerialInv, RefundMatches
<1>8. QED BY <1>1, <1>5, <1>6, <1>7, UntouchedOrder DEF IInv

LEMMA RefundKeepsIInv ==
  ASSUME IInv, NEW c \in Orders, Refund(c)
  PROVE  IInv'
<1> PICK read \in {ledger[c], EmptyLedger} :
           /\ OneAtATime => read = ledger[c]
           /\ ledger' = [ledger EXCEPT ![c] =
                PostEntries(@, RefundEntries(ServiceFee[c], read))]
  BY DEF Refund
<1> DEFINE m == PostEntries(ledger[c], RefundEntries(ServiceFee[c], read))
<1>1. /\ DOMAIN ledger = Orders /\ DOMAIN ledger' = Orders
      /\ ledger'[c] = m /\ IsLedger(ledger[c])
      /\ reward'[c] = IF reward[c] = "NONE" THEN "NONE" ELSE "CANCELLED"
      /\ status'[c] = "REFUNDED" \/ (~OneAtATime /\ status'[c] = status[c])
      /\ \A o \in Orders \ {c} : /\ status'[o] = status[o]
                                  /\ ledger'[o] = ledger[o]
                                  /\ reward'[o] = reward[o]
  BY AmountsAssumption DEF IInv, TypeOK, Refund
<1>2. OrderInv(c) /\ (OneAtATime => SerialInv(c))
  BY DEF IInv
<1> HIDE DEF m
<1>3. /\ IsLedger(m)
      /\ RecognitionShape(m, ServiceFee[c], Share(c))
      /\ RefundShape(m, ServiceFee[c], Share(c))
      /\ RefundKeys \ {"refund_referral_reversal"} \subseteq DOMAIN m
      /\ \A k \in RecognitionKeys : k \in DOMAIN m <=> k \in DOMAIN ledger[c]
      /\ RefundMatches(ledger[c], ServiceFee[c], Share(c)) /\ read = ledger[c]
           => RefundMatches(m, ServiceFee[c], Share(c))
  BY <1>1, <1>2, ShareFacts, RefundKeepsShapes DEF OrderInv, m
<1>4. TypeOK'
  <2>1. status' \in [Orders -> Status] /\ reward' \in [Orders -> RewardStatus]
    BY DEF IInv, TypeOK, Refund, Status, RewardStatus
  <2>2. QED BY <1>1, <1>3, <2>1 DEF IInv, TypeOK
<1>5. OrderInv(c)'
  BY <1>1, <1>2, <1>3 DEF OrderInv, Share, RecognitionKeys, RefundKeys
<1>6. OneAtATime => SerialInv(c)'
  BY <1>1, <1>2, <1>3 DEF SerialInv, Share
<1>7. QED BY <1>1, <1>4, <1>5, <1>6, UntouchedOrder DEF IInv

LEMMA FreezeKeepsIInv ==
  ASSUME IInv, NEW c \in Orders, Freeze(c)
  PROVE  IInv'
<1>1. TypeOK'
  BY DEF IInv, TypeOK, Freeze, Status, OtherStatus, RewardStatus
<1>2. /\ ledger'[c] = ledger[c] /\ reward[c] # "NONE" /\ reward'[c] = "FROZEN"
      /\ status'[c] = "DISPUTED" \/ status'[c] = status[c]
      /\ OneAtATime => status[c] # "REFUNDED"
      /\ \A o \in Orders \ {c} : /\ status'[o] = status[o]
                                  /\ ledger'[o] = ledger[o]
                                  /\ reward'[o] = reward[o]
  BY DEF IInv, TypeOK, Freeze, MayMove, Closed
<1>3. OrderInv(c) /\ (OneAtATime => SerialInv(c))
  BY DEF IInv
<1>4. OrderInv(c)' /\ (OneAtATime => SerialInv(c)')
  BY <1>2, <1>3 DEF OrderInv, SerialInv
<1>5. QED BY <1>1, <1>2, <1>4, UntouchedOrder DEF IInv

LEMMA NextIInv == IInv /\ [Next]_vars => IInv'
<1>1. ASSUME IInv, Next PROVE IInv'
  BY <1>1, MoveKeepsIInv, CompleteKeepsIInv, RefundKeepsIInv, FreezeKeepsIInv
  DEF Next
<1>2. ASSUME IInv, UNCHANGED vars PROVE IInv'
  <2>1. ASSUME NEW o \in Orders
        PROVE  OrderInv(o)' /\ (OneAtATime => SerialInv(o)')
    BY <1>2, UntouchedOrder DEF IInv, vars
  <2>2. QED BY <1>2, <2>1 DEF IInv, TypeOK, vars
<1>3. QED BY <1>1, <1>2

LEMMA Inductive == Spec => []IInv
BY InitIInv, NextIInv, PTL DEF Spec

------------------------------------------------------------------------------
\* The books are well typed.
THEOREM BooksTypeCorrect == Spec => []TypeOK
<1>1. IInv => TypeOK
  BY DEF IInv
<1>2. QED BY <1>1, Inductive, PTL

\* The books agree with the status of every order, even when handlers
\* overlap: recognised when COMPLETED if no reward fails to be computed,
\* reversed when REFUNDED, the reward row and its liability together, what
\* completions posted at zero, and a discrepancy of at most the referrer's
\* share.
THEOREM BooksAgree ==
  Spec => [](/\ ~RewardMayRaise => CompletedIsRecognized
             /\ RefundedIsReversed
             /\ RewardMatchesLiability
             /\ RecognitionBalanced
             /\ DiscrepancyIsReferralShare)
<1>1. ASSUME IInv, NEW o \in Orders
      PROVE  /\ IsLedger(ledger[o]) /\ OrderInv(o)
             /\ RecognitionSum(ledger[o]) = 0
             /\ Residual(ledger[o])
                  \in {0, -Amount(ledger[o], "referral_liability")}
  <2>1. IsLedger(ledger[o]) /\ OrderInv(o)
    BY <1>1 DEF IInv, TypeOK
  <2>2. QED BY <2>1, ShareFacts, ShapeSums DEF OrderInv
<1>2. IInv => /\ ~RewardMayRaise => CompletedIsRecognized
              /\ RefundedIsReversed
              /\ RecognitionBalanced
              /\ DiscrepancyIsReferralShare
  BY <1>1 DEF OrderInv, CompletedIsRecognized, RefundedIsReversed,
              RecognitionBalanced, DiscrepancyIsReferralShare
<1>3. IInv => RewardMatchesLiability
  BY <1>1, ShareFacts DEF OrderInv, RewardMatchesLiability, Share,
                          RecognitionShape, RecognitionKeys
<1>4. QED BY <1>2, <1>3, Inductive, PTL

\* When handlers do not overlap, reconciliation finds nothing and a refunded
\* order has no live reward.
THEOREM SerialBooksBalance ==
  Spec => [](ReconciliationIsZero /\ RefundCancelsReward)
<1>1. ASSUME IInv, OneAtATime, NEW o \in Orders
      PROVE  SerialInv(o) /\ Residual(ledger[o]) = 0
  <2>1. IsLedger(ledger[o]) /\ OrderInv(o) /\ SerialInv(o)
    BY <1>1 DEF IInv, TypeOK
  <2>2. QED BY <2>1, ShareFacts, ShapeSums DEF OrderInv, SerialInv
<1>2. IInv => ReconciliationIsZero /\ RefundCancelsReward
  BY <1>1 DEF SerialInv, ReconciliationIsZero, RefundCancelsReward
<1>3. QED BY <1>2, Inductive, PTL
==============================================================================
