\* A cold start and one crash, two deployments of one application.
CONSTANTS
  a = a
  b = b
  d1 = d1
  d2 = d2
  Free = Free
  Apps <- OneApp
  Deployments = {d1, d2}
  AppOf <- TwoOfOne
  RemoteApps = {}
  Cancellable = {}
  MaxCrashes = 1
SPECIFICATION FairColdSpec
CHECK_DEADLOCK FALSE
INVARIANTS RestartKeeps QueuedIsDelivered
PROPERTIES OutlivesRestart SlotSafety
