\* Two bootstraps and a crash; one pull request beside two production
\* deployments; three lines read by two subscribe messages, and two for the application; three runs
\* of a backup; two drains; two schedules and a backup configuration; two hooks, one
\* channel and an event; two releases and two interrupted runs of the installer; two viewers.
CONSTANTS
  Restores = {"r1", "r2"}
  MaxWal = 2
  MaxRestoreFaults = 1
  Boots = {"b1", "b2"}
  Conns = {"k1", "k2", "k3", "k4"}
  NoConn = "none"
  MaxCrashes = 1
  PRs = {"p1"}
  Deployments = {"d1", "d2", "d3"}
  NoDeployment = "nothing"
  Main = "main"
  PreviewLimit = 1
  DockerFails = TRUE
  Mains = 2
  MaxEvents = 1
  MaxAge = 1
  Subs = {"s1", "s2"}
  AppSubs = {"a1", "a2"}
  None = "none"
  BatchSize = 2
  LineCap = 2
  PageSize = 2
  MaxLines = 3
  MaxRuns = 3
  KeepNewest = 2
  BackupCrashes = 1
  Drains = {"w1", "w2"}
  MaxSegments = 3
  DrainCrashes = 1
  Schedules = {"j1", "j2"}
  Configs = {"c1"}
  Busy = {"j1"}
  MaxRestarts = 1
  HookIds = {"h1", "h2"}
  ChannelIds = {"n1"}
  MaxNotices = 1
  PinnedLabels = {"v1"}
  MaxReleases = 2
  MaxSecrets = 2
  MaxCuts = 2
  LastVersion = 2
  CardCalls = {1, 2}
  CardSaves = 2
  MinutesPerHour = 2
  HoursPerDay = 2
  DaysPerWeek = 2
  MonthDays <- TwoYears
  MonthsPerYear = 2
  Year = 24
  Viewers = {"v1", "v2"}
  Scrollback = 2
  MaxChunks = 3
  MaxFrames = 1
  Horizon = 18
SPECIFICATION HostsSpec
CHECK_DEADLOCK FALSE
INVARIANTS HostsTypeOK MachinesAreSound ProductionServes LogIsWhole ChildIsOwned RetentionKeeps ArchiveRestores RowsIsolated
