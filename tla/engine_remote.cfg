\* A local and a remote application whose deployments share the queue worker.
CONSTANTS
  a = a
  b = b
  d1 = d1
  d2 = d2
  Free = Free
  Apps <- TwoApps
  Deployments = {d1, d2}
  AppOf <- OneOfEach
  RemoteApps = {b}
  Cancellable = {d1}
  MaxCrashes = 0
SPECIFICATION FairBootedSpec
CHECK_DEADLOCK FALSE
PROPERTIES LocalSettles
