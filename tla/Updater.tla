------------------------------- MODULE Updater -------------------------------
(***************************************************************************)
(* The update of the control plane: the check that compares the channel's  *)
(* manifest with the running version, the request file, and the updater, a *)
(* root script outside the process that migrates, swaps the symlink,       *)
(* restarts, waits for readiness and rolls back.  Releases are numbered as *)
(* they are built; each channel's manifest only advances.                  *)
(***************************************************************************)
EXTENDS Naturals

CONSTANTS
  MaxRelease,   \* bound: releases
  Broken,       \* releases that never become ready
  MaxReboots    \* bound: reboots of the host

ASSUME UpdaterAssumption ==
  MaxRelease \in Nat \ {0} /\ Broken \subseteq 2..MaxRelease /\ MaxReboots \in Nat

Releases == 1..MaxRelease
Channels == {"stable", "beta"}
Links    == {"link", "dir", "gone", "loop"}

VARIABLES
  manifest,   \* the latest release of each channel
  settings,   \* update_settings
  available,  \* update_state: the release that is offered, 0 for none
  plane,      \* the release that the control plane runs, 0 while it is down
  checkTask,  \* a check under way in it
  request,    \* the channel in update.request, if the file is there
  current,    \* the release in `current`, 0 if it leads nowhere
  link,       \* what `current` is: a link, a real directory, nothing, a link to itself
  intact,     \* releases that are completely extracted, each in its own directory
  schema,     \* the last release whose migrations have run
  loss,       \* history: an update took the real directory away, or was cut off between its
              \* swap and its end, and nothing has made up for it since
  updAt,      \* where the updater is
  updFrom,    \* FROM, 0 for unknown
  updLink,    \* what `current` was when PREV was read from it
  updTo,      \* VER and TO
  updStatus,  \* update.status
  reboots

planeVars   == <<plane, checkTask>>
filesVars   == <<current, link, intact, schema>>
hostVars    == <<filesVars, loss>>
updReads    == <<updFrom, updLink, updTo>>
updVars     == <<updAt, updReads, updStatus>>
updaterVars == <<manifest, settings, available, planeVars, request, hostVars, updVars, reboots>>

NoTask == [at |-> "idle", found |-> 0, auto |-> FALSE]

UpdaterTypeOK ==
  /\ manifest \in [Channels -> Releases]
  /\ settings \in [channel : Channels, auto : BOOLEAN]
  /\ available \in 0..MaxRelease /\ plane \in 0..MaxRelease
  /\ checkTask \in [at : {"idle", "fetched", "apply"}, found : 0..MaxRelease, auto : BOOLEAN]
  /\ request \in Channels \cup {"none"}
  /\ current \in 0..MaxRelease /\ intact \subseteq Releases /\ schema \in Releases
  /\ link \in Links /\ updLink \in Links /\ loss \in {"none", "directory", "cut"}
  /\ updAt \in {"idle", "manifest", "download", "extract", "migrate", "clear", "swap", "restart", "health",
                "hung", "rollback"}
  /\ updFrom \in 0..MaxRelease /\ updTo \in 0..MaxRelease
  /\ updStatus \in {"idle", "running", "done", "failed"}
  /\ reboots \in 0..MaxReboots

UpdaterInit ==
  /\ manifest = [c \in Channels |-> 1] /\ settings = [channel |-> "stable", auto |-> FALSE]
  /\ available = 0 /\ plane = 1 /\ checkTask = NoTask /\ request = "none"
  \* Early installations left a real directory.
  /\ \/ link = "link" /\ intact = {1}
     \/ link = "dir" /\ intact = {}
  /\ current = 1 /\ schema = 1 /\ loss = "none"
  /\ updAt = "idle" /\ updFrom = 0 /\ updLink = link /\ updTo = 0 /\ updStatus = "idle" /\ reboots = 0

(***************************************************************************)
(* The control plane.                                                      *)
(***************************************************************************)
PublishRelease(c) ==
  /\ manifest[c] < MaxRelease /\ manifest' = [manifest EXCEPT ![c] = @ + 1]
  /\ UNCHANGED <<settings, available, planeVars, request, hostVars, updVars, reboots>>

SetUpdateSettings(channel, auto) ==
  /\ plane # 0 /\ settings' = [channel |-> channel, auto |-> auto]
  /\ UNCHANGED <<manifest, available, planeVars, request, hostVars, updVars, reboots>>

IsNewer(latest) == latest # 0 /\ latest # plane

\* At boot, by cron or on demand: the settings are read, the manifest is fetched or is not.
FetchManifest ==
  /\ plane # 0 /\ checkTask.at = "idle"
  /\ \E found \in {manifest[settings.channel], 0} :
       checkTask' = [at |-> "fetched", found |-> found, auto |-> settings.auto]
  /\ UNCHANGED <<manifest, settings, available, plane, request, hostVars, updVars, reboots>>

\* update_state is overwritten with what was found, with nothing after a failure.
StoreUpdateState ==
  /\ plane # 0 /\ checkTask.at = "fetched"
  /\ available' = IF IsNewer(checkTask.found) THEN checkTask.found ELSE 0
  /\ checkTask' = IF checkTask.auto /\ IsNewer(checkTask.found)
                  THEN [checkTask EXCEPT !.at = "apply"] ELSE NoTask
  /\ UNCHANGED <<manifest, settings, plane, request, hostVars, updVars, reboots>>

\* applyUpdate reads the settings and fetches the manifest again; what it throws
\* is an answer to the operator, and ignored after a check.
ApplyUpdate ==
  \/ IsNewer(manifest[settings.channel]) /\ request' = settings.channel
  \/ UNCHANGED request

ApplyFound ==
  /\ plane # 0 /\ checkTask.at = "apply" /\ checkTask' = NoTask
  /\ ApplyUpdate
  /\ UNCHANGED <<manifest, settings, available, plane, hostVars, updVars, reboots>>

ApplyClicked ==
  /\ plane # 0 /\ ApplyUpdate
  /\ UNCHANGED <<manifest, settings, available, planeVars, hostVars, updVars, reboots>>

Stopped == plane' = 0 /\ checkTask' = NoTask

\* systemd restarts what dies, from wherever the symlink points.
PlaneDies ==
  /\ plane # 0 /\ Stopped
  /\ UNCHANGED <<manifest, settings, available, request, hostVars, updVars, reboots>>

PlaneBoots ==
  /\ plane = 0 /\ current \notin Broken \cup {0} /\ plane' = current
  /\ loss' = IF loss = "cut" /\ updAt = "idle" THEN "none" ELSE loss
  /\ UNCHANGED <<manifest, settings, available, checkTask, request, filesVars, updVars, reboots>>

(***************************************************************************)
(* The updater.  Its lock and systemd keep it to one instance, and a       *)
(* request that came meanwhile starts it again.                            *)
(***************************************************************************)
UpdTo(from, to) == updAt = from /\ updAt' = to

\* fail rolls back if PREV is a directory and `current` is not it.  Of a real directory, and of
\* nothing, PREV is the path of `current` itself, which is a link by now; of a link to itself
\* it is empty.
MustReturn ==
  \/ updLink = "link" /\ current # updFrom
  \/ updLink \in {"dir", "gone"} /\ link = "link"

\* `current` is linked to PREV, and that is its own path unless it was a link.
LinkToPrev ==
  /\ current' = IF updLink = "link" THEN updFrom ELSE 0
  /\ link' = IF updLink = "link" THEN "link" ELSE "loop"

\* Faulty: the failure is noted, the symlink stays.
UpdFailsForward ==
  /\ updAt \notin {"idle", "rollback"}
  /\ updAt' = "idle" /\ updStatus' = "failed"
  /\ UNCHANGED <<manifest, settings, available, planeVars, request, hostVars, updReads, reboots>>

UpdFails ==
  /\ updAt \notin {"idle", "hung", "rollback"}
  /\ \/ MustReturn /\ LinkToPrev /\ Stopped /\ updAt' = "rollback" /\ updStatus' = "running"
     \/ ~MustReturn /\ updAt' = "idle" /\ updStatus' = "failed" /\ UNCHANGED <<current, link, planeVars>>
  /\ UNCHANGED <<manifest, settings, available, request, intact, schema, loss, updReads, reboots>>

UpdRolledBack ==
  /\ UpdTo("rollback", "idle") /\ updStatus' = "failed"
  /\ UNCHANGED <<manifest, settings, available, planeVars, request, hostVars, updReads, reboots>>

\* The request is consumed before anything else.
UpdTrigger ==
  /\ request # "none" /\ request' = "none"
  /\ UpdTo("idle", "manifest") /\ updFrom' = current /\ updLink' = link
  /\ updTo' = manifest[request]
  /\ UNCHANGED <<manifest, settings, available, planeVars, hostVars, updStatus, reboots>>

\* The release in the manifest, which need not be the one that was requested.
UpdManifest ==
  /\ IF updTo = updFrom THEN UpdTo("manifest", "idle") /\ updStatus' = "done"
     ELSE UpdTo("manifest", "download") /\ updStatus' = "running"
  /\ UNCHANGED <<manifest, settings, available, planeVars, request, hostVars, updReads, reboots>>

UpdKeeps == UNCHANGED <<manifest, settings, available, planeVars, request, updReads, updStatus, reboots>>

\* Downloaded and verified; the directory is emptied ...
UpdDownload ==
  /\ UpdTo("download", "extract") /\ intact' = intact \ {updTo}
  /\ UpdKeeps /\ UNCHANGED <<current, link, schema, loss>>

\* ... and filled.
UpdExtract ==
  /\ UpdTo("extract", "migrate") /\ intact' = intact \cup {updTo}
  /\ UpdKeeps /\ UNCHANGED <<current, link, schema, loss>>

\* One transaction; nothing ever undoes it.
UpdMigrate ==
  /\ UpdTo("migrate", "clear") /\ schema' = IF updTo > schema THEN updTo ELSE schema
  /\ UpdKeeps /\ UNCHANGED <<current, link, intact, loss>>

\* A link over a real directory would be made inside it: the directory goes first.
UpdClear ==
  /\ UpdTo("clear", "swap")
  /\ IF link = "dir" THEN current' = 0 /\ link' = "gone" /\ loss' = "directory"
     ELSE UNCHANGED <<current, link, loss>>
  /\ UpdKeeps /\ UNCHANGED <<intact, schema>>

\* Faulty: nothing looks whether the link took.
UpdSwapUnverified ==
  /\ UpdTo("swap", "restart")
  /\ \/ current' = updTo /\ link' = "link"
     \/ UNCHANGED <<current, link>>
  /\ UpdKeeps /\ UNCHANGED <<intact, schema, loss>>

UpdSwap ==
  /\ UpdTo("swap", "restart") /\ current' = updTo /\ link' = "link"
  /\ UpdKeeps /\ UNCHANGED <<intact, schema, loss>>

UpdRestart ==
  /\ UpdTo("restart", "health") /\ Stopped
  /\ UNCHANGED <<manifest, settings, available, request, hostVars, updReads, updStatus, reboots>>

\* Sixty probes, a second apart; none needs to see a process that is up.
UpdHealth ==
  /\ plane # 0 /\ UpdTo("health", "idle") /\ updStatus' = "done" /\ loss' = "none"
  /\ UNCHANGED <<manifest, settings, available, planeVars, request, filesVars, updReads, reboots>>

\* A probe has no timeout: taken and not answered, it holds the updater until the process dies.
ProbeHangs ==
  /\ plane = 0 /\ UpdTo("health", "hung")
  /\ UpdKeeps /\ UNCHANGED hostVars

ProbeBreaks ==
  /\ UpdTo("hung", "health")
  /\ UpdKeeps /\ UNCHANGED hostVars

\* The host restarts under everything; what the updater had is gone with /run.
HostReboots ==
  /\ reboots < MaxReboots /\ reboots' = reboots + 1
  /\ Stopped /\ updAt' = "idle"
  /\ loss' = IF updAt \in {"restart", "health", "hung"} /\ loss = "none" THEN "cut" ELSE loss
  /\ UNCHANGED <<manifest, settings, available, request, filesVars, updReads, updStatus>>

UpdStep == UpdFails \/ UpdRolledBack \/ UpdManifest \/ UpdDownload \/ UpdExtract \/ UpdMigrate
           \/ UpdClear \/ UpdSwap \/ UpdRestart \/ UpdHealth

UpdaterNext ==
  \/ \E c \in Channels : PublishRelease(c) \/ \E auto \in BOOLEAN : SetUpdateSettings(c, auto)
  \/ FetchManifest \/ StoreUpdateState \/ ApplyFound \/ ApplyClicked
  \/ PlaneDies \/ PlaneBoots \/ UpdTrigger \/ UpdStep \/ ProbeHangs \/ ProbeBreaks \/ HostReboots

\* Each command of the script ends but a probe that hangs, the probes are counted, and systemd restarts.
UpdaterFairness == WF_updaterVars(UpdStep) /\ WF_updaterVars(PlaneBoots)

UpdaterSpec == UpdaterInit /\ [][UpdaterNext]_updaterVars /\ UpdaterFairness

(***************************************************************************)
(* Properties.                                                             *)
(***************************************************************************)

Complete(r) == r \in intact \/ (link = "dir" /\ r = current)

\* Wherever an update is cut off, `current` leads to a complete release whose migrations have
\* run, and so does the running process.  Only an update that found a real directory leaves
\* less: it removes the directory before it makes the link (update.sh:135-139, 162-182).
BootsInstalled ==
  /\ current = 0 => loss = "directory"
  /\ current # 0 => Complete(current) /\ current <= schema
  /\ plane # 0 => plane <= schema /\ (Complete(plane) \/ loss = "directory")

\* The updater says "done" only of the release that `current` leads to, and "failed" only with
\* `current` where it was, or a real directory lost (update.sh:34-43, 169-180).
StatusIsTrue ==
  [][updStatus' # updStatus =>
       /\ updStatus' = "done"   => current' = updTo'
       /\ updStatus' = "failed" => current' = updFrom' \/ loss' = "directory"]_updaterVars

\* An update that is cut off anywhere leaves what boots and says what is true, but for the
\* update of an early installation, whose directory it takes away.
UpdatesAreSafe == []BootsInstalled /\ StatusIsTrue

\* Whatever is released, the control plane comes back, if need be on the release it had, unless
\* the host reboots between the swap and the end of an update, an update took a real directory
\* away, or a probe hangs (update.sh:8-9, 35-43, 175, 186, 192).
ComesBack == plane = 0 ~> plane # 0 \/ loss # "none" \/ updAt = "hung"
=============================================================================
