\* Two deployments, one of them inline, and two lifecycle requests.
CONSTANTS
  d1 = d1
  d2 = d2
  d3 = d3
  o1 = o1
  r1 = r1
  r2 = r2
  p1 = p1
  p2 = p2
  p3 = p3
  p4 = p4
  NoPort = NoPort
  Others = {}
  Deployments = {d1, d2}
  InlineDeployments = {d2}
  Names = {d1, d2}
  NameOf <- OwnName
  Ports = {p1, p2, p3}
  RemoteExec = FALSE
  CaddyFails = FALSE
  Requests = {r1, r2}
  DockerFails = FALSE
SPECIFICATION RolloutSpec
CHECK_DEADLOCK FALSE
SYMMETRY OpSymmetry
INVARIANTS LastLoadIsFresh
