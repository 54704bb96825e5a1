-------------------------------- MODULE Sale --------------------------------
(***************************************************************************)
(* What checkout, payment callbacks, operators and the sweep together      *)
(* promise about the money and the unit of a card order.  The two are      *)
(* written by different handlers at different times, but each order goes   *)
(* through one of these states:                                            *)
(*                                                                         *)
(*   none     no order yet                                                 *)
(*   open     the unit is kept, the payment is not decided                 *)
(*   settled  the unit is kept, the money is or was there                  *)
(*   void     the payment failed and the unit is back on sale              *)
(*   lapsed   the unit is back on sale, the payment is not decided         *)
(*   owed     the unit is back on sale, money arrived and goes back        *)
(*                                                                         *)
(* A settled sale stays settled: its unit is not sold to anyone else.  A   *)
(* unit that is back on sale does not return to the order: money that      *)
(* arrives afterwards is owed to the customer and opens no sale.           *)
(***************************************************************************)
CONSTANT Orders

VARIABLE deal   \* the state of each order

DealInit == deal = [o \in Orders |-> "none"]

Become(S, from, to) ==
  /\ \A o \in S : deal[o] \in from
  /\ deal' = [o \in Orders |-> IF o \in S THEN to ELSE deal[o]]

Open(o) == Become({o}, {"none"}, "open")

Settle(o) == Become({o}, {"open"}, "settled")

\* The payment fails: the unit is given back with it, unless it has been before.
Void(o) == Become({o}, {"open", "lapsed"}, "void")

\* Orders whose checkout did not come to an end lose their units together.
Lapse(S) == Become(S, {"open"}, "lapsed")

Owe(o) == Become({o}, {"void"}, "owed")

DealNext ==
  \/ \E o \in Orders : Open(o) \/ Settle(o) \/ Void(o) \/ Owe(o)
  \/ \E S \in SUBSET Orders : Lapse(S)

SaleSpec == DealInit /\ [][DealNext]_deal
=============================================================================
