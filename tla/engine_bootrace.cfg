\* A cold start: a pipeline that starts before the sweep.
CONSTANTS
  a = a
  b = b
  d1 = d1
  d2 = d2
  Free = Free
  Apps <- OneApp
  Deployments = {d1, d2}
  AppOf <- TwoOfOne
  RemoteApps = {}
  Cancellable = {}
  MaxCrashes = 0
SPECIFICATION ColdSpec
CHECK_DEADLOCK FALSE
SYMMETRY Symmetry
INVARIANTS OnePipelinePerApp
