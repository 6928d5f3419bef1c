-------------------------- MODULE MCOrderLifecycle ---------------------------
(***************************************************************************)
(* Instances of OrderLifecycle for TLC.  One order with a referrer: fee 5, *)
(* of which the referrer earns 2, partner fee 1, network fee 3 (distinct   *)
(* amounts, so that no wrong sum cancels by accident).                     *)
(***************************************************************************)
EXTENDS OrderLifecycle, TLC

CONSTANTS o1, o2, r1, r2, w1, w2

Fees(amount) == [o \in Orders |-> amount]
MCServiceFee == Fees(5)
MCPartnerFee == Fees(1)
MCNetworkFee == Fees(3)
MCRewardAmount == Fees(2)

RequestSymmetry == Permutations(Requests)
==============================================================================
