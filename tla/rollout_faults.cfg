\* Three deployments to a worker server, whose removals may throw, while Caddy
\* comes and goes.
CONSTANTS
  d1 = d1
  d2 = d2
  d3 = d3
  o1 = o1
  r1 = r1
  r2 = r2
  p1 = p1
  p2 = p2
  p3 = p3
  p4 = p4
  NoPort = NoPort
  Others = {o1}
  Deployments = {d1, d2, d3}
  InlineDeployments = {}
  Names = {d1, d2, d3}
  NameOf <- OwnName
  Ports = {p1, p2, p3}
  RemoteExec = TRUE
  CaddyFails = TRUE
  Requests = {}
  DockerFails = TRUE
SPECIFICATION RolloutSpec
CHECK_DEADLOCK FALSE
SYMMETRY PortSymmetry
INVARIANTS RolloutTypeOK SwapReaps
