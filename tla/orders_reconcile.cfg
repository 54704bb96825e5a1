\* One worker, live payments, reconciliation beside webhooks, checkouts may crash.
SPECIFICATION FairSpec
CONSTANTS
  o1 = o1
  h1 = h1
  r1 = r1
  a1 = a1
  Orders = {o1}
  Methods = {"card"}
  Modes = {TRUE}
  AdminTargets <- FulfilmentTargets
  Admins = {a1}
  Hooks = {h1}
  Recons = {r1}
  SingleWorker = TRUE
  FaultSites = {"checkout"}
  MaxFaults = 1
INVARIANTS MovedGoodsAreCaptured
PROPERTIES HeldIsTransient CaptureIsApplied
CHECK_DEADLOCK FALSE
