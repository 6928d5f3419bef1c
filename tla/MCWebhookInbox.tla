---------------------------- MODULE MCWebhookInbox ---------------------------
(***************************************************************************)
(* Instances of WebhookInbox for TLC.                                      *)
(***************************************************************************)
EXTENDS WebhookInbox

CONSTANTS o1

\* Payment progress, a word PARTNER may be refused, one nobody knows, and an
\* event without an order.
MCBodies ==
  {[word |-> w, order |-> o1] : w \in {"completed", "cancelled", "unknown"}}
    \cup {[word |-> "completed", order |-> NoOrder]}

\* A cancellation, the progress of another event, and a refund request.
MCOtherMoves ==
  {<<"AWAITING_PAYMENT", "CANCELLED">>, <<"AWAITING_PAYMENT", "PROCESSING">>,
   <<"COMPLETED", "REFUND_REQUESTED">>}
==============================================================================
