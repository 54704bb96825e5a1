\* Two servers, one sweep and one callback at a time; checkouts may crash.
SPECIFICATION FairSpec
CONSTANTS
  k1 = k1
  k2 = k2
  k3 = k3
  c1 = c1
  c2 = c2
  c3 = c3
  b1 = b1
  key = key
  NoKey = NoKey
  srv1 = srv1
  srv2 = srv2
  s1 = s1
  Nobody = Nobody
  Skus = {k1, k2, k3}
  Checkouts = {c1, c2, c3}
  Supply <- MCSupply
  Cart <- MCCart
  Basket <- MCBasket
  Server <- MCServer
  Key <- MCKey
  Limits <- MCLimits
  Sweepers = {s1}
  Callbacks = {b1}
INVARIANTS TypeOK NoOversellOnOneServer OneOrderPerKey LimitsKeptOnOneServer
PROPERTIES ReleasedForGood EveryCheckoutEnds HeldIsReclaimed
CHECK_DEADLOCK FALSE
