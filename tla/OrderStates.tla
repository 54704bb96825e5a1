---------------------------- MODULE OrderStates ----------------------------
(***************************************************************************)
(* The two status tables of the commerce service and the checks built on   *)
(* them.  Every handler that moves an order or its payment goes through    *)
(* these tables, or is meant to.                                           *)
(***************************************************************************)

ORDER_TRANSITIONS ==
  [ placed             |-> {"processing", "payment_pending", "cancelled", "failed",
                            "return_requested", "exchange_requested"},
    payment_pending    |-> {"placed", "processing", "failed", "cancelled",
                            "return_requested"},
    processing         |-> {"preparing", "ready_for_pickup", "dispatched", "shipped",
                            "cancelled", "failed", "return_requested",
                            "exchange_requested"},
    preparing          |-> {"ready_for_pickup", "dispatched", "cancelled",
                            "return_requested", "exchange_requested"},
    ready_for_pickup   |-> {"picked_up", "cancelled", "return_requested",
                            "exchange_requested"},
    dispatched         |-> {"out_for_delivery", "delivered", "cancelled",
                            "return_requested", "exchange_requested"},
    shipped            |-> {"out_for_delivery", "delivered", "cancelled",
                            "return_requested", "exchange_requested"},
    out_for_delivery   |-> {"delivered", "failed_delivery", "return_requested"},
    delivered          |-> {"return_requested", "exchange_requested", "completed"},
    picked_up          |-> {"return_requested", "exchange_requested", "completed"},
    return_requested   |-> {"partially_returned", "returned", "rejected"},
    partially_returned |-> {"returned", "refund_pending"},
    returned           |-> {"refund_pending", "refunded"},
    refund_pending     |-> {"refunded", "refund_failed"},
    refunded           |-> {"completed"},
    exchange_requested |-> {"processing", "cancelled"},
    cancelled          |-> {},
    completed          |-> {},
    failed             |-> {"cancelled", "payment_pending"},
    rejected           |-> {},
    refund_failed      |-> {"refund_pending"},
    failed_delivery    |-> {"out_for_delivery", "cancelled", "returned"} ]

OrderStatuses == DOMAIN ORDER_TRANSITIONS

\* The states in which goods move toward the customer.
FULFILLMENT_STATES ==
  {"preparing", "ready_for_pickup", "dispatched", "shipped", "out_for_delivery",
   "delivered", "picked_up"}

\* The handover of the goods, where cash on delivery is collected.
HandoverStates == {"picked_up", "delivered"}

PAYMENT_TRANSITIONS ==
  [ pending            |-> {"pending", "authorized", "paid", "failed", "cancelled"},
    pending_delivery   |-> {"pending_delivery", "paid", "cancelled"},
    authorized         |-> {"authorized", "paid", "failed", "cancelled"},
    paid               |-> {"paid", "refund_pending", "partially_refunded", "refunded"},
    refund_pending     |-> {"refund_pending", "partially_refunded", "refunded", "paid"},
    partially_refunded |-> {"partially_refunded", "refund_pending", "refunded"},
    failed             |-> {"failed", "pending"},
    cancelled          |-> {"cancelled"},
    refunded           |-> {"refunded"} ]

PaymentStatuses == DOMAIN PAYMENT_TRANSITIONS

\* Money of the customer is, or was, with the merchant.
SettledPayments == {"paid", "refund_pending", "partially_refunded", "refunded"}

\* May an order in status s move to t?  (_transition's table lookup)
CanMove(s, t) == t \in ORDER_TRANSITIONS[s]

\* May a payment in status p become q?
CanPay(p, q) == q \in PAYMENT_TRANSITIONS[p]

\* Mutant: an authorisation opens the gate.
GateOpenToAuthorized(t, p, method) ==
  t \in FULFILLMENT_STATES => \/ p \in {"paid", "authorized"}
                              \/ method = "cod"

\* PAY-01: goods move only for a settled payment, or for cash on delivery.
GateOpen(t, p, method) ==
  t \in FULFILLMENT_STATES => \/ p = "paid"
                              \/ method = "cod"
=============================================================================
