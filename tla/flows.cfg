\* One pull request pushed to twice; three lines; one turn; two commits, two faults;
\* two deployments, or one while the list is shown, after one that had ended.
CONSTANTS
  PRs = {"p1"}
  Deployments = {"d1", "d2"}
  NoDeployment = "nothing"
  Main = "main"
  PreviewLimit = 1
  DockerFails = TRUE
  Mains = 0
  MaxEvents = 2
  MaxAge = 2
  Subs = {}
  AppSubs = {}
  None = "none"
  BatchSize = 2
  LineCap = 2
  PageSize = 2
  MaxLines = 3
  Turns = {"t1"}
  NoTurn = "none"
  WriteTools = {"w1"}
  DestructiveTools = {"x1"}
  MaxTurns = 1
  PlanTurnCap = 2
  PlanSteps = 1
  MaxUses = 1
  TrigApps = {"a1"}
  Polled = {"a1"}
  MaxCommits = 2
  Unbuildable = {}
  MaxFaults = 2
  MaxDeploys = 3
  MaxListed = 2
  MaxPicks = 1
  ListLoads = 2
SPECIFICATION FlowsSpec
CHECK_DEADLOCK FALSE
INVARIANTS FlowsTypeOK
PROPERTIES PolledReachHead FlowsEnd
