\* One checkout that crashes, and two overlapping runs of the sweep.
SPECIFICATION Spec
CONSTANTS
  k1 = k1
  k2 = k2
  k3 = k3
  c1 = c1
  c2 = c2
  c3 = c3
  b1 = b1
  key = key
  NoKey = NoKey
  srv1 = srv1
  srv2 = srv2
  s1 = s1
  s2 = s2
  Nobody = Nobody
  Skus = {k1, k2, k3}
  Checkouts = {c1}
  Supply <- MCSupply
  Cart <- LoneCart
  Basket <- MCBasket
  Server <- MCServer
  Key <- MCKey
  Limits = {}
  Sweepers = {s1, s2}
  Callbacks = {}
INVARIANTS NoOversell
CHECK_DEADLOCK FALSE
