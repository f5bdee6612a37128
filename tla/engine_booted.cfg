\* One booted process, two deployments of one application, one of which may be
\* cancelled; no crash.
CONSTANTS
  a = a
  b = b
  d1 = d1
  d2 = d2
  Free = Free
  Apps <- OneApp
  Deployments = {d1, d2}
  AppOf <- TwoOfOne
  RemoteApps = {}
  Cancellable = {d1}
  MaxCrashes = 0
SPECIFICATION FairBootedSpec
CHECK_DEADLOCK FALSE
INVARIANTS TypeOK PipelinesMatchRows
PROPERTIES ToldIsFinal SlotSpec
