\* One worker: a reconciliation waits for the provider while an operator cancels.
SPECIFICATION Spec
CONSTANTS
  o1 = o1
  r1 = r1
  a1 = a1
  Orders = {o1}
  Methods = {"card"}
  Modes = {TRUE}
  AdminTargets = {"cancelled"}
  Admins = {a1}
  Hooks = {}
  Recons = {r1}
  SingleWorker = TRUE
  FaultSites = {}
  MaxFaults = 0
PROPERTIES CancelledNeverShips
CHECK_DEADLOCK FALSE
