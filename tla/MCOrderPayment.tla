--------------------------- MODULE MCOrderPayment ---------------------------
(***************************************************************************)
(* Small instances of OrderPayment for TLC.                                *)
(***************************************************************************)
EXTENDS OrderPayment, TLC

\* Operator moves that lead an order through fulfilment, and that race with the
\* payment.
FulfilmentTargets == {"cancelled", "failed", "processing", "dispatched", "delivered"}

\* The moves above, and the exchange that starts a delivered order over.
ExchangeTargets == FulfilmentTargets \union {"exchange_requested"}

Symmetry == Permutations(Hooks) \union Permutations(Admins)
=============================================================================
