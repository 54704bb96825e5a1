---------------------------- MODULE MCInventory ----------------------------
(***************************************************************************)
(* Small instances of Inventory for TLC.  c1 and c2 name two SKUs in       *)
(* opposite orders, on two servers; c1 and c3 want the last units of a     *)
(* third one on the same server, and the last redemption of a code.  c3    *)
(* is sent under the key of c2: the second attempt of a customer who has   *)
(* changed the cart, on the other server, where the payment provider       *)
(* delivers its events too.                                                *)
(***************************************************************************)
EXTENDS Inventory, TLC

CONSTANTS k1, k2, k3, c1, c2, c3, b1, srv1, srv2, key

Line(k, n) == [sku |-> k, qty |-> n]

MCSupply == (k1 :> 2 @@ k2 :> 1 @@ k3 :> 2)
MCCart   == (c1 :> <<Line(k3, 1), Line(k1, 1), Line(k2, 1)>>
             @@ c2 :> <<Line(k2, 1), Line(k1, 1)>>
             @@ c3 :> <<Line(k3, 2)>>)
MCBasket == (c1 :> c1 @@ c2 :> c2 @@ c3 :> c2)
MCServer == (c1 :> srv1 @@ c2 :> srv2 @@ c3 :> srv1 @@ b1 :> srv2)
MCKey    == (c1 :> NoKey @@ c2 :> key @@ c3 :> key)

\* A code that may be redeemed once.
MCLimits == {[over |-> {c1, c3}, max |-> 1]}

\* One cart for two SKUs.
LoneCart == [c \in Checkouts |-> <<Line(k1, 1), Line(k2, 1)>>]
=============================================================================
