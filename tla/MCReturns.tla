----------------------------- MODULE MCReturns -----------------------------
(***************************************************************************)
(* A small instance of Returns for TLC: an order of two items of three     *)
(* cents each, with free shipping and a discount of one cent.  Returning   *)
(* both refunds a cent more than the order cost, which the check allows.   *)
(***************************************************************************)
EXTENDS Returns, TLC

MCSubtotal == [items \in SUBSET Items |-> 3 * Cardinality(items)]

Symmetry ==
  Permutations(Requests) \union Permutations(ReturnIds) \union Permutations(Items)
=============================================================================
