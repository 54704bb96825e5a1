\* One worker: the handling of a webhook fails once after its key is recorded.
SPECIFICATION FairSpec
CONSTANTS
  o1 = o1
  h1 = h1
  Orders = {o1}
  Methods = {"card"}
  Modes = {TRUE}
  AdminTargets = {}
  Admins = {}
  Hooks = {h1}
  Recons = {}
  SingleWorker = TRUE
  FaultSites = {"webhook"}
  MaxFaults = 1
PROPERTIES CaptureIsApplied
CHECK_DEADLOCK FALSE
