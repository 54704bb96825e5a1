\* One worker: one order through fulfilment, two deliveries in progress, two operators,
\* one crash or failure, both payment methods, demo and live.
SPECIFICATION Spec
CONSTANTS
  o1 = o1
  h1 = h1
  h2 = h2
  a1 = a1
  a2 = a2
  Orders = {o1}
  Methods = {"card", "cod"}
  Modes = {TRUE, FALSE}
  AdminTargets <- ExchangeTargets
  Admins = {a1, a2}
  Hooks = {h1, h2}
  Recons = {}
  SingleWorker = TRUE
  FaultSites = {"checkout", "operator", "webhook"}
  MaxFaults = 1
SYMMETRY Symmetry
INVARIANTS TypeOK PaidHoldsUnit MovedGoodsAreCaptured HandedOverIsPaid AppliedOnce
PROPERTIES SettledForwardOnly ImplementsSale
CHECK_DEADLOCK FALSE
