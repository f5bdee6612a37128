\* One bootstrap; two runs of a backup and a crash; two releases, the second broken,
\* and a reboot; one application and one alert; two domains, of which a sweep takes one.
CONSTANTS
  Boots = {"b1"}
  Conns = {"k1", "k2", "k3"}
  NoConn = "none"
  MaxCrashes = 0
  MaxRuns = 2
  KeepNewest = 1
  BackupCrashes = 1
  MaxRelease = 2
  Broken = {2}
  MaxReboots = 1
  WatchedApps = {"a1"}
  AlertIds = {"x1"}
  Cooldown = 2
  MaxWatchFaults = 1
  Fqdns = {"d1", "d2"}
  Batch = 1
  MaxVerifyAsks = 1
  MaxMailDeaths = 1
SPECIFICATION UpkeepSpec
CHECK_DEADLOCK FALSE
INVARIANTS UpkeepTypeOK
PROPERTIES UpdatesAreSafe ComesBack  DownIsPaged AlertOncePerWindow VerificationIsSound
