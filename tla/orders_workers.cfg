\* Two workers: two webhook deliveries of one order run at the same time.
SPECIFICATION Spec
CONSTANTS
  o1 = o1
  h1 = h1
  h2 = h2
  Orders = {o1}
  Methods = {"card"}
  Modes = {TRUE}
  AdminTargets = {}
  Admins = {}
  Hooks = {h1, h2}
  Recons = {}
  SingleWorker = FALSE
  FaultSites = {}
  MaxFaults = 0
PROPERTIES SettledForwardOnly
CHECK_DEADLOCK FALSE
