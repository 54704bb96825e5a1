\* Two servers: two carts for the same units, no sweep.
SPECIFICATION Spec
CONSTANTS
  k1 = k1
  k2 = k2
  k3 = k3
  c1 = c1
  c2 = c2
  c3 = c3
  b1 = b1
  key = key
  NoKey = NoKey
  srv1 = srv1
  srv2 = srv2
  Nobody = Nobody
  Skus = {k1, k2, k3}
  Checkouts = {c1, c2}
  Supply <- MCSupply
  Cart <- MCCart
  Basket <- MCBasket
  Server <- MCServer
  Key <- MCKey
  Limits = {}
  Sweepers = {}
  Callbacks = {}
INVARIANTS NoOversell
CHECK_DEADLOCK FALSE
