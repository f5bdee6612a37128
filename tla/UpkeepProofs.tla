---------------------------- MODULE UpkeepProofs ----------------------------
(***************************************************************************)
(* Proofs about what the control plane does by itself: updates of itself,  *)
(* pages, the verification of mail domains; and the types of all of it.    *)
(***************************************************************************)
EXTENDS MCUpkeep, SharedProofs, TLAPS, FiniteSetTheorems

(***************************************************************************)
(* The updater: where the symlink and the process may be between two of    *)
(* its steps, and what it has secured so far.                              *)
(***************************************************************************)

\* `current` has not been touched yet, or only its directory is gone, or it is back, if it can.
UpdaterBefore ==
  /\ updAt \in {"manifest", "download", "extract", "migrate", "clear"} => current = updFrom /\ link = updLink
  /\ updAt = "swap" => (current = updFrom /\ link # "dir") \/ loss = "directory"
  /\ updAt = "rollback" => current = updFrom \/ loss = "directory"

\* A release is taken that is not the one it came from, is complete from its extraction on, and
\* is what `current` leads to after the swap.
UpdaterMoves  ==
  updAt \in {"download", "extract", "migrate", "clear", "swap", "restart", "health", "hung"} => updTo # updFrom
UpdaterReady  ==
  /\ updAt \in {"migrate", "clear", "swap"} => updTo \in intact
  /\ updAt \in {"clear", "swap"} => updTo <= schema
UpdaterAfter  ==
  /\ updAt \in {"restart", "health", "hung"} => current = updTo /\ link = "link"
  /\ updAt \in {"health", "hung"} => plane \in {0, current}
  /\ updAt \in {"swap", "restart", "health", "hung"} => updLink = "link" \/ loss = "directory"

\* What it came from and what it goes to are releases, and the former still boots, if it was
\* behind a link; there was nothing only after a directory was lost.
UpdaterReturns ==
  updAt # "idle" =>
    /\ updTo \in Releases /\ updFrom <= schema
    /\ updLink = "link" => updFrom \in intact
    /\ updFrom = 0 => updLink \in {"gone", "loop"}
    /\ updLink \in {"gone", "loop"} => loss = "directory"

\* `current` leads to a release that boots, unless a directory was lost.  The process runs that
\* one; only between the clearing and the restart, or after such a loss, may it run another.
PlaneFollows ==
  /\ current = 0 <=> link \in {"gone", "loop"}
  /\ current = 0 => loss = "directory"
  /\ link = "link" => current \in intact
  /\ current <= schema /\ plane <= schema
  /\ plane \in {0, current} \/ loss = "directory" \/ (updAt = "restart" /\ plane = updFrom)

UpdaterInv ==
  /\ UpdaterTypeOK /\ PlaneFollows /\ UpdaterReturns
  /\ UpdaterBefore /\ UpdaterMoves /\ UpdaterReady /\ UpdaterAfter

LEMMA UpdaterStarts == UpdaterInit => UpdaterInv
<1> SUFFICES ASSUME UpdaterInit PROVE UpdaterInv
  OBVIOUS
<1>1. 1 \in Releases /\ MaxRelease \in Nat /\ MaxReboots \in Nat
  BY UpdaterAssumption DEF Releases
<1>2. UpdaterTypeOK
  <2>1. manifest \in [Channels -> Releases] /\ settings \in [channel : Channels, auto : BOOLEAN]
    BY <1>1 DEF UpdaterInit, Channels
  <2>2. {0, 1} \subseteq 0..MaxRelease /\ 0 \in 0..MaxReboots
    BY <1>1 DEF Releases
  <2>3. checkTask \in [at : {"idle", "fetched", "apply"}, found : 0..MaxRelease, auto : BOOLEAN]
    BY <2>2 DEF UpdaterInit, NoTask
  <2> QED
    BY <1>1, <2>1, <2>2, <2>3 DEF UpdaterInit, UpdaterTypeOK, Links
<1> QED
  BY <1>1, <1>2 DEF UpdaterInit, UpdaterInv, PlaneFollows, UpdaterReturns, UpdaterBefore, UpdaterMoves, UpdaterReady,
              UpdaterAfter

\* Publishing, settings and checks change neither what is installed nor what runs.
LEMMA ChecksKeep ==
  ASSUME UpdaterInv, UpdaterTypeOK', UNCHANGED <<plane, hostVars, updVars>>
  PROVE  UpdaterInv'
BY DEF UpdaterInv, hostVars, filesVars, updVars, updReads, PlaneFollows, UpdaterReturns, UpdaterBefore, UpdaterMoves, UpdaterReady, UpdaterAfter

LEMMA ChecksStep ==
  ASSUME UpdaterInv,
         \/ \E c \in Channels : PublishRelease(c) \/ \E auto \in BOOLEAN : SetUpdateSettings(c, auto)
         \/ FetchManifest \/ StoreUpdateState \/ ApplyFound \/ ApplyClicked
  PROVE  UpdaterInv'
<1>0. UpdaterTypeOK /\ MaxRelease \in Nat
  BY UpdaterAssumption DEF UpdaterInv
<1>1. ASSUME NEW c \in Channels, PublishRelease(c) PROVE UpdaterTypeOK' /\ UNCHANGED <<plane, hostVars, updVars>>
  <2>1. manifest[c] + 1 \in Releases
    BY <1>0, <1>1 DEF PublishRelease, UpdaterTypeOK, Releases
  <2> QED
    BY <1>0, <1>1, <2>1 DEF PublishRelease, UpdaterTypeOK, planeVars, hostVars, filesVars, updVars, updReads
<1>2. ASSUME NEW c \in Channels, NEW auto \in BOOLEAN, SetUpdateSettings(c, auto)
      PROVE  UpdaterTypeOK' /\ UNCHANGED <<plane, hostVars, updVars>>
  BY <1>0, <1>2 DEF SetUpdateSettings, UpdaterTypeOK, planeVars, hostVars, filesVars, updVars, updReads
<1>3. ASSUME FetchManifest PROVE UpdaterTypeOK' /\ UNCHANGED <<plane, hostVars, updVars>>
  <2>1. PICK found \in {manifest[settings.channel], 0} :
          checkTask' = [at |-> "fetched", found |-> found, auto |-> settings.auto]
    BY <1>3 DEF FetchManifest
  <2>2. manifest[settings.channel] \in 0..MaxRelease /\ settings.auto \in BOOLEAN /\ 0 \in 0..MaxRelease
    BY <1>0 DEF UpdaterTypeOK, Releases
  <2>3. checkTask' \in [at : {"idle", "fetched", "apply"}, found : 0..MaxRelease, auto : BOOLEAN]
    BY <2>1, <2>2
  <2> QED
    BY <1>0, <1>3, <2>3 DEF FetchManifest, UpdaterTypeOK, planeVars, hostVars, filesVars, updVars, updReads
<1>4. NoTask \in [at : {"idle", "fetched", "apply"}, found : 0..MaxRelease, auto : BOOLEAN]
  BY <1>0 DEF NoTask
<1>5. ASSUME StoreUpdateState PROVE UpdaterTypeOK' /\ UNCHANGED <<plane, hostVars, updVars>>
  <2>1. checkTask' \in [at : {"idle", "fetched", "apply"}, found : 0..MaxRelease, auto : BOOLEAN]
    BY <1>0, <1>4, <1>5 DEF StoreUpdateState, UpdaterTypeOK
  <2>2. available' \in 0..MaxRelease
    BY <1>0, <1>5 DEF StoreUpdateState, UpdaterTypeOK
  <2> QED
    BY <1>0, <1>5, <2>1, <2>2 DEF StoreUpdateState, UpdaterTypeOK, planeVars, hostVars, filesVars, updVars, updReads
<1>6. ASSUME ApplyUpdate PROVE request' \in Channels \cup {"none"}
  BY <1>0, <1>6 DEF ApplyUpdate, UpdaterTypeOK
<1>7. ASSUME ApplyFound PROVE UpdaterTypeOK' /\ UNCHANGED <<plane, hostVars, updVars>>
  BY <1>0, <1>4, <1>6, <1>7 DEF ApplyFound, UpdaterTypeOK, planeVars, hostVars, filesVars, updVars, updReads
<1>8. ASSUME ApplyClicked PROVE UpdaterTypeOK' /\ UNCHANGED <<plane, hostVars, updVars>>
  BY <1>0, <1>6, <1>8 DEF ApplyClicked, UpdaterTypeOK, planeVars, hostVars, filesVars, updVars, updReads
<1> QED
  BY <1>1, <1>2, <1>3, <1>5, <1>7, <1>8, ChecksKeep

\* The process stops and starts, and the host with it.
LEMMA LivesStep ==
  ASSUME UpdaterInv, PlaneDies \/ PlaneBoots \/ HostReboots PROVE UpdaterInv'
<1>0. /\ 0 \in 0..MaxRelease /\ NoTask \in [at : {"idle", "fetched", "apply"}, found : 0..MaxRelease, auto : BOOLEAN]
      /\ \A r \in Releases : r \in 0..MaxRelease
      /\ UpdaterTypeOK /\ PlaneFollows
  BY UpdaterAssumption DEF NoTask, Releases, UpdaterInv
<1>1. \A r \in 0..MaxRelease : r \in Nat /\ 0 <= r
  BY UpdaterAssumption
<1> USE DEF hostVars, filesVars, updVars, updReads, planeVars
<1>2. CASE PlaneDies
  <2>1. UpdaterTypeOK'
    BY <1>0, <1>2 DEF PlaneDies, Stopped, UpdaterTypeOK
  <2>2. PlaneFollows'
    BY <1>0, <1>1, <1>2 DEF PlaneDies, Stopped, UpdaterTypeOK, PlaneFollows, Releases
  <2> QED
    BY <1>2, <2>1, <2>2 DEF PlaneDies, Stopped, UpdaterInv, UpdaterReturns, UpdaterBefore, UpdaterMoves, UpdaterReady, UpdaterAfter
<1>3. CASE PlaneBoots
  <2>1. UpdaterTypeOK'
    BY <1>0, <1>3 DEF PlaneBoots, UpdaterTypeOK
  <2>2. /\ loss' = loss \/ (updAt = "idle" /\ loss = "cut")
        /\ UNCHANGED <<current, link, intact, schema, updAt, updFrom, updLink, updTo>>
    BY <1>3 DEF PlaneBoots
  <2>3. PlaneFollows'
    BY <1>0, <1>3, <2>2 DEF PlaneBoots, PlaneFollows
  <2>4. UpdaterBefore' /\ UpdaterReturns'
    BY <2>2 DEF UpdaterInv, UpdaterReturns, UpdaterBefore
  <2>5. UpdaterMoves' /\ UpdaterReady' /\ UpdaterAfter'
    BY <1>3, <2>2 DEF PlaneBoots, UpdaterInv, UpdaterMoves, UpdaterReady, UpdaterAfter
  <2> QED
    BY <2>1, <2>3, <2>4, <2>5 DEF UpdaterInv
<1>4. CASE HostReboots
  <2>1. reboots' \in 0..MaxReboots
    BY <1>0, <1>4, UpdaterAssumption DEF HostReboots, UpdaterTypeOK
  <2>2. UpdaterTypeOK'
    BY <1>0, <1>4, <2>1 DEF HostReboots, Stopped, UpdaterTypeOK
  <2>3. PlaneFollows'
    BY <1>0, <1>1, <1>4 DEF HostReboots, Stopped, UpdaterTypeOK, PlaneFollows, Releases
  <2> QED
    BY <1>4, <2>2, <2>3 DEF HostReboots, UpdaterInv, UpdaterReturns, UpdaterBefore, UpdaterMoves, UpdaterReady, UpdaterAfter
<1> QED
  BY <1>2, <1>3, <1>4

\* The steps of the script.
LEMMA ScriptStep ==
  ASSUME UpdaterInv, UpdTrigger \/ UpdStep \/ ProbeHangs \/ ProbeBreaks PROVE UpdaterInv'
<1>0. /\ 0 \in 0..MaxRelease /\ NoTask \in [at : {"idle", "fetched", "apply"}, found : 0..MaxRelease, auto : BOOLEAN]
      /\ \A r \in Releases : r \in 0..MaxRelease /\ r \in Nat /\ r # 0
      /\ \A r \in 0..MaxRelease : r \in Nat
  BY UpdaterAssumption DEF NoTask, Releases
<1> USE DEF UpdaterInv, UpdaterTypeOK, PlaneFollows, UpdaterReturns, UpdaterBefore, UpdaterMoves, UpdaterReady,
            UpdaterAfter, Links, updVars, updReads, hostVars, filesVars, planeVars, UpdTo, UpdKeeps
<1>1. CASE UpdTrigger
  BY <1>0, <1>1 DEF UpdTrigger
<1>2. CASE UpdFails
  BY <1>0, <1>2 DEF UpdFails, MustReturn, LinkToPrev, Stopped
<1>3. CASE UpdRolledBack
  BY <1>0, <1>3 DEF UpdRolledBack
<1>4. CASE UpdManifest
  BY <1>0, <1>4 DEF UpdManifest
<1>5. CASE UpdDownload
  BY <1>0, <1>5 DEF UpdDownload
<1>6. CASE UpdExtract
  BY <1>0, <1>6 DEF UpdExtract
<1>7. CASE UpdMigrate
  BY <1>0, <1>7 DEF UpdMigrate
<1>8. CASE UpdClear
  BY <1>0, <1>8 DEF UpdClear
<1>9. CASE UpdSwap
  BY <1>0, <1>9 DEF UpdSwap
<1>10. CASE UpdRestart
  BY <1>0, <1>10 DEF UpdRestart, Stopped
<1>11. CASE UpdHealth
  BY <1>0, <1>11 DEF UpdHealth
<1>12. CASE ProbeHangs
  BY <1>0, <1>12 DEF ProbeHangs
<1>13. CASE ProbeBreaks
  BY <1>0, <1>13 DEF ProbeBreaks
<1> QED
  BY <1>1, <1>2, <1>3, <1>4, <1>5, <1>6, <1>7, <1>8, <1>9, <1>10, <1>11, <1>12, <1>13 DEF UpdStep

LEMMA UpdaterStep == UpdaterInv /\ [UpdaterNext]_updaterVars => UpdaterInv'
<1> SUFFICES ASSUME UpdaterInv, [UpdaterNext]_updaterVars PROVE UpdaterInv'
  OBVIOUS
<1>1. CASE UNCHANGED updaterVars
  BY <1>1 DEF updaterVars, planeVars, hostVars, filesVars, updVars, updReads, UpdaterInv, UpdaterTypeOK, PlaneFollows,
              UpdaterReturns, UpdaterBefore, UpdaterMoves, UpdaterReady, UpdaterAfter
<1> QED
  BY <1>1, ChecksStep, LivesStep, ScriptStep DEF UpdaterNext

LEMMA UpdaterBoots == UpdaterInv => UpdaterTypeOK /\ BootsInstalled
<1> SUFFICES ASSUME UpdaterInv PROVE UpdaterTypeOK /\ BootsInstalled
  OBVIOUS
<1>1. current # 0 => Complete(current) /\ current <= schema
  BY DEF UpdaterInv, UpdaterTypeOK, Links, PlaneFollows, Complete
<1>2. updAt = "restart" => updFrom \in intact \/ loss = "directory"
  BY DEF UpdaterInv, UpdaterReturns, UpdaterAfter
<1>3. plane # 0 => plane <= schema /\ (Complete(plane) \/ loss = "directory")
  BY <1>1, <1>2 DEF UpdaterInv, PlaneFollows, Complete
<1> QED
  BY <1>1, <1>3 DEF UpdaterInv, PlaneFollows, BootsInstalled

StatusKept ==
  updStatus' # updStatus =>
    /\ updStatus' = "done"   => current' = updTo'
    /\ updStatus' = "failed" => current' = updFrom' \/ loss' = "directory"

LEMMA StatusStep == UpdaterInv /\ [UpdaterNext]_updaterVars => [StatusKept]_updaterVars
<1> SUFFICES ASSUME UpdaterInv, UpdaterNext PROVE StatusKept
  OBVIOUS
<1> USE DEF StatusKept, updVars, updReads, hostVars, filesVars, planeVars, UpdTo, UpdKeeps
<1>1. CASE UpdFails
  BY <1>1 DEF UpdFails, MustReturn, LinkToPrev, UpdaterInv, UpdaterTypeOK, Links, PlaneFollows, UpdaterReturns,
              UpdaterBefore, UpdaterAfter
<1>2. CASE UpdStep /\ ~UpdFails
  BY <1>2 DEF UpdStep, UpdRolledBack, UpdManifest, UpdDownload, UpdExtract, UpdMigrate, UpdClear, UpdSwap, UpdRestart,
              UpdHealth, UpdaterInv, UpdaterBefore, UpdaterAfter
<1>3. CASE ~UpdStep
  BY <1>3 DEF UpdaterNext, PublishRelease, SetUpdateSettings, FetchManifest, StoreUpdateState, ApplyFound, ApplyClicked,
              PlaneDies, PlaneBoots, UpdTrigger, ProbeHangs, ProbeBreaks, HostReboots
<1> QED
  BY <1>1, <1>2, <1>3

(***************************************************************************)
(* The watchers: an alert that a tick will still fire, because it had no   *)
(* cooldown when the tick read it, has none yet: no other tick runs.       *)
(***************************************************************************)
ReadsHold ==
  \A i \in TickIds : \A x \in ticks[i].todo : ticks[i].read[x] = 0 => alerts[x] \in {0, NoAlert}

WatchersInv == WatchersTypeOK /\ ReadsHold

TickRow == [at : {"idle", "collect", "evaluate"}, todo : SUBSET AlertIds, read : [AlertIds -> 0..NoAlert]]

LEMMA WatchedBounds ==
  /\ Cooldown \in Nat /\ Cooldown > 0 /\ NoAlert \in Nat /\ NoAlert = Cooldown + 1 /\ MaxWatchFaults \in Nat
  /\ NoTick \in TickRow /\ NoTick.todo = {} /\ NoTick.at = "idle"
  /\ NoPass \in [at : {"idle", "sweep"}, running : SUBSET WatchedApps, todo : SUBSET WatchedApps]
<1>1. Cooldown \in Nat /\ Cooldown > 0 /\ NoAlert \in Nat /\ NoAlert = Cooldown + 1 /\ MaxWatchFaults \in Nat
  BY WatchersAssumption DEF NoAlert
<1>2. NoAlert \in 0..NoAlert
  BY <1>1
<1> QED
  BY <1>1, <1>2 DEF NoTick, NoPass, TickRow

LEMMA WatchersStart == WatchersInit => WatchersInv
<1> SUFFICES ASSUME WatchersInit PROVE WatchersInv
  OBVIOUS
<1>1. /\ 0 \in 0..Cooldown /\ NoAlert \in 0..NoAlert /\ 0 \in 0..MaxWatchFaults
  BY WatchedBounds
<1>2. WatchersTypeOK
  BY <1>1, WatchedBounds DEF WatchersInit, WatchersTypeOK, TickRow
<1> QED
  BY <1>2, WatchedBounds DEF WatchersInit, WatchersInv, ReadsHold

\* The application, its containers and the reconcile do not touch the alerts.
LEMMA ReconcileKeeps ==
  ASSUME WatchersInv,
         \/ \E a \in WatchedApps : ContainerStarts(a) \/ DeploySucceeds(a) \/ ContainerExits(a)
         \/ ReconcileStep
  PROVE  WatchersInv' /\ UNCHANGED alerts
<1> USE DEF WatchersInv, WatchersTypeOK, metricVars, reconVars
<1>0. UNCHANGED <<alerts, breach, ticks>> => ReadsHold'
  BY DEF ReadsHold
<1>1. ASSUME NEW a \in WatchedApps, ContainerStarts(a) \/ DeploySucceeds(a) \/ ContainerExits(a)
      PROVE  WatchersTypeOK' /\ UNCHANGED <<alerts, breach, ticks>>
  BY <1>1 DEF ContainerStarts, DeploySucceeds, ContainerExits
<1>2. ASSUME ReconcileLists PROVE WatchersTypeOK' /\ UNCHANGED <<alerts, breach, ticks>>
  <2>1. recon' \in [at : {"idle", "sweep"}, running : SUBSET WatchedApps, todo : SUBSET WatchedApps]
    BY <1>2 DEF ReconcileLists
  <2>2. watchFaults' \in 0..MaxWatchFaults
    BY <1>2, WatchedBounds DEF ReconcileLists, WatchFault
  <2> QED
    BY <1>2, <2>1, <2>2 DEF ReconcileLists
<1>3. ASSUME NEW a \in WatchedApps, ReconcileApp(a) PROVE WatchersTypeOK' /\ UNCHANGED <<alerts, breach, ticks>>
  <2>1. recon' \in [at : {"idle", "sweep"}, running : SUBSET WatchedApps, todo : SUBSET WatchedApps]
    BY <1>3, WatchedBounds DEF ReconcileApp, Swept
  <2>2. anchor' \in [WatchedApps -> 0..Cooldown] /\ pagedDown' \in [WatchedApps -> BOOLEAN]
    <3>1. Cooldown \in 0..Cooldown
      BY WatchedBounds
    <3> QED
      BY <1>3, <3>1 DEF ReconcileApp
  <2> QED
    BY <1>3, <2>1, <2>2 DEF ReconcileApp
<1> QED
  BY <1>0, <1>1, <1>2, <1>3 DEF ReconcileStep

LEMMA AlertsChange ==
  ASSUME WatchersInv, NEW x \in AlertIds, LoadChanges(x) \/ CreateMetricAlert(x) \/ DeleteMetricAlert(x)
  PROVE  /\ WatchersInv'
         /\ \A y \in AlertIds : alerts'[y] \in {alerts[y], 0, NoAlert}
<1> USE DEF WatchersInv, WatchersTypeOK, reconVars
<1>0. {0, NoAlert} \subseteq 0..NoAlert
  BY WatchedBounds
<1>1. CASE LoadChanges(x)
  BY <1>1 DEF LoadChanges, ReadsHold
<1>2. CASE CreateMetricAlert(x) \/ DeleteMetricAlert(x)
  <2>1. PICK n \in {0, NoAlert} : alerts' = [alerts EXCEPT ![x] = n] /\ UNCHANGED <<reconVars, breach, ticks, watchFaults>>
    BY <1>2 DEF CreateMetricAlert, DeleteMetricAlert
  <2>2. alerts' \in [AlertIds -> 0..NoAlert] /\ \A y \in AlertIds : alerts'[y] = IF y = x THEN n ELSE alerts[y]
    BY <1>0, <2>1
  <2>3. ReadsHold'
    BY <2>1, <2>2 DEF ReadsHold
  <2> QED
    BY <2>1, <2>2, <2>3
<1> QED
  BY <1>1, <1>2

\* A tick moves on to what holds of the rows it has read, alone.
TickBecomes(i, row) ==
  /\ ticks' = [ticks EXCEPT ![i] = row]
  /\ \A x \in row.todo : row.read[x] = 0 => alerts[x] \in {0, NoAlert}
  /\ \A j \in TickIds \ {i} : ticks[j] = NoTick
  /\ UNCHANGED <<containerUp, succeeded, anchor, pagedDown, recon, alerts, breach>>
  /\ watchFaults' \in 0..MaxWatchFaults

LEMMA TicksChange ==
  ASSUME WatchersInv, NEW i \in TickIds, Tick(i) \/ CollectOnce(i) \/ TickEnds(i)
  PROVE  WatchersInv' /\ UNCHANGED alerts
<1> USE DEF WatchersInv, WatchersTypeOK, reconVars, metricVars
<1>1. /\ ticks \in [TickIds -> TickRow] /\ ticks[i] \in TickRow /\ alerts \in [AlertIds -> 0..NoAlert]
      /\ \A j \in TickIds \ {i} : ticks[i] # NoTick => ticks[j] = NoTick
  BY DEF TickRow
<1>2. \E row \in TickRow : TickBecomes(i, row)
  <2> USE DEF TickBecomes
  <2>1. CASE Tick(i)
    <3>1. [NoTick EXCEPT !.at = "collect"] \in TickRow /\ [NoTick EXCEPT !.at = "collect"].todo = {}
      BY WatchedBounds DEF TickRow
    <3> QED
      BY <1>1, <2>1, <3>1 DEF Tick
  <2>2. CASE CollectOnce(i)
    <3> DEFINE t == [at |-> "evaluate", read |-> alerts, todo |-> {x \in AlertIds : alerts[x] # NoAlert}]
    <3>1. t \in TickRow /\ t.read = alerts /\ t.todo \subseteq AlertIds
      BY <1>1 DEF TickRow
    <3>2. ticks[i] # NoTick
      BY <2>2, WatchedBounds DEF CollectOnce
    <3>3. CASE ticks' = [ticks EXCEPT ![i] = t] /\ UNCHANGED watchFaults
      <4>1. \A x \in t.todo : t.read[x] = 0 => alerts[x] \in {0, NoAlert}
        BY <3>1
      <4> HIDE DEF t
      <4> QED
        BY <1>1, <2>2, <3>1, <3>2, <3>3, <4>1 DEF CollectOnce
    <3>4. CASE WatchFault /\ ticks' = [ticks EXCEPT ![i] = NoTick]
      <4>1. watchFaults' \in 0..MaxWatchFaults
        BY <3>4, WatchedBounds DEF WatchFault
      <4> QED
        BY <1>1, <2>2, <3>2, <3>4, <4>1, WatchedBounds DEF CollectOnce
    <3> QED
      BY <2>2, <3>3, <3>4 DEF CollectOnce
  <2>3. CASE TickEnds(i)
    <3>1. ticks[i] # NoTick
      BY <2>3, WatchedBounds DEF TickEnds
    <3> QED
      BY <1>1, <2>3, <3>1, WatchedBounds DEF TickEnds
  <2> QED
    BY <2>1, <2>2, <2>3
<1>3. PICK row \in TickRow : TickBecomes(i, row)
  BY <1>2
<1>4. ticks' \in [TickIds -> TickRow] /\ ticks'[i] = row /\ \A j \in TickIds \ {i} : ticks'[j] = NoTick
  BY <1>1, <1>3 DEF TickBecomes
<1>5. WatchersTypeOK'
  BY <1>3, <1>4 DEF TickRow, TickBecomes
<1>6. ReadsHold'
  BY <1>3, <1>4, WatchedBounds DEF ReadsHold, TickBecomes
<1> QED
  BY <1>3, <1>5, <1>6 DEF TickBecomes

LEMMA EvaluateStep ==
  ASSUME WatchersInv, NEW i \in TickIds, EvaluateOne(i)
  PROVE  /\ WatchersInv'
         /\ \A y \in AlertIds : alerts[y] \in 1..Cooldown => alerts'[y] = alerts[y]
<1> USE DEF WatchersInv, WatchersTypeOK, reconVars
<1>1. /\ ticks \in [TickIds -> TickRow] /\ ticks[i] \in TickRow /\ alerts \in [AlertIds -> 0..NoAlert]
      /\ \A j \in TickIds \ {i} : ticks[j] = NoTick
  BY WatchedBounds DEF TickRow, EvaluateOne
<1>2. PICK x \in ticks[i].todo :
        /\ ticks' = [ticks EXCEPT ![i].todo = @ \ {x}]
        /\ alerts' = [alerts EXCEPT ![x] = IF EvaluateAlert(i, x) /\ @ # NoAlert THEN Cooldown ELSE @]
  BY DEF EvaluateOne
<1>3. x \in AlertIds /\ [ticks[i] EXCEPT !.todo = @ \ {x}] \in TickRow
      /\ [ticks[i] EXCEPT !.todo = @ \ {x}].todo = ticks[i].todo \ {x}
      /\ [ticks[i] EXCEPT !.todo = @ \ {x}].read = ticks[i].read
  BY <1>1, <1>2 DEF TickRow
<1>4. /\ ticks' \in [TickIds -> TickRow] /\ \A j \in TickIds \ {i} : ticks'[j] = NoTick
      /\ ticks'[i].todo = ticks[i].todo \ {x} /\ ticks'[i].read = ticks[i].read
  BY <1>1, <1>2, <1>3
<1>5. Cooldown \in 0..NoAlert
  BY WatchedBounds
<1>6. /\ alerts' \in [AlertIds -> 0..NoAlert] /\ \A y \in AlertIds \ {x} : alerts'[y] = alerts[y]
      /\ alerts'[x] \in {alerts[x], Cooldown}
  BY <1>1, <1>2, <1>3, <1>5
<1>7. alerts[x] \in 1..Cooldown => alerts'[x] = alerts[x]
  <2> SUFFICES ASSUME alerts[x] \in 1..Cooldown, ticks[i].read[x] = 0 PROVE FALSE
    BY <1>1, <1>2, <1>3 DEF EvaluateAlert
  <2>1. alerts[x] \in {0, NoAlert}
    BY <1>2 DEF ReadsHold
  <2> QED
    BY <2>1, WatchedBounds
<1>8. WatchersTypeOK'
  BY <1>4, <1>6 DEF EvaluateOne, TickRow
<1>9. ReadsHold'
  BY <1>1, <1>4, <1>6, WatchedBounds DEF ReadsHold, TickRow
<1> QED
  BY <1>6, <1>7, <1>8, <1>9

LEMMA TimeStep ==
  ASSUME WatchersInv, TimePasses \/ WatchersRestart
  PROVE  /\ WatchersInv'
         /\ \A y \in AlertIds : alerts[y] \in 1..Cooldown => alerts'[y] < Cooldown \/ alerts'[y] = alerts[y]
<1> USE DEF WatchersInv, WatchersTypeOK
<1>1. CASE TimePasses
  <2>1. /\ \A n \in 0..Cooldown : WatchAges(n) \in 0..Cooldown
        /\ \A n \in 0..NoAlert : WatchAges(n) \in 0..NoAlert /\ (n \in {0, NoAlert} => WatchAges(n) = n)
        /\ \A n \in 1..Cooldown : WatchAges(n) < Cooldown
    BY WatchedBounds DEF WatchAges
  <2>2. anchor' \in [WatchedApps -> 0..Cooldown] /\ alerts' \in [AlertIds -> 0..NoAlert]
        /\ \A y \in AlertIds : alerts'[y] = WatchAges(alerts[y])
    BY <1>1, <2>1 DEF TimePasses
  <2>3. WatchersTypeOK'
    BY <1>1, <2>2 DEF TimePasses
  <2>4. ReadsHold'
    <3> SUFFICES ASSUME NEW i \in TickIds, NEW x \in ticks[i].todo, ticks[i].read[x] = 0
                 PROVE  alerts'[x] \in {0, NoAlert}
      BY <1>1 DEF TimePasses, ReadsHold
    <3>1. x \in AlertIds /\ alerts[x] \in {0, NoAlert} /\ alerts[x] \in 0..NoAlert
      BY DEF ReadsHold
    <3>2. alerts'[x] = alerts[x]
      BY <2>1, <2>2, <3>1
    <3> QED
      BY <3>1, <3>2
  <2> QED
    BY <2>1, <2>2, <2>3, <2>4
<1>2. CASE WatchersRestart
  <2>1. 0 \in 0..Cooldown /\ watchFaults' \in 0..MaxWatchFaults
    BY <1>2, WatchedBounds DEF WatchersRestart, WatchFault
  <2> QED
    BY <1>2, <2>1, WatchedBounds DEF WatchersRestart, ReadsHold, TickRow
<1> QED
  BY <1>1, <1>2

\* What a step never does: stamp again an alert whose window is still open.
OncePerWindow == \A x \in AlertIds : alerts[x] \in 1..Cooldown /\ alerts'[x] = Cooldown => alerts[x] = Cooldown

LEMMA WatchersStep == WatchersInv /\ [WatchersNext]_watchersVars => WatchersInv' /\ OncePerWindow
<1> SUFFICES ASSUME WatchersInv, [WatchersNext]_watchersVars PROVE WatchersInv' /\ OncePerWindow
  OBVIOUS
<1>1. CASE UNCHANGED watchersVars
  BY <1>1 DEF watchersVars, reconVars, metricVars, WatchersInv, WatchersTypeOK, ReadsHold, OncePerWindow
<1>2. CASE TimePasses \/ WatchersRestart
  BY <1>2, TimeStep, WatchedBounds DEF OncePerWindow
<1>3. ASSUME NEW x \in AlertIds, LoadChanges(x) \/ CreateMetricAlert(x) \/ DeleteMetricAlert(x)
      PROVE  WatchersInv' /\ OncePerWindow
  BY <1>3, AlertsChange, WatchedBounds DEF OncePerWindow
<1>4. ASSUME NEW i \in TickIds, Tick(i) \/ CollectOnce(i) \/ TickEnds(i) PROVE WatchersInv' /\ OncePerWindow
  BY <1>4, TicksChange DEF OncePerWindow
<1>5. ASSUME NEW i \in TickIds, EvaluateOne(i) PROVE WatchersInv' /\ OncePerWindow
  BY <1>5, EvaluateStep DEF OncePerWindow
<1>6. ASSUME ReconcileStep \/ \E a \in WatchedApps : ContainerStarts(a) \/ DeploySucceeds(a) \/ ContainerExits(a)
      PROVE  WatchersInv' /\ OncePerWindow
  BY <1>6, ReconcileKeeps DEF OncePerWindow
<1> QED
  BY <1>1, <1>2, <1>3, <1>4, <1>5, <1>6 DEF WatchersNext

(***************************************************************************)
(* Mail domains: the sweep looks at a domain of its batch, and what it has *)
(* seen of it decides.                                                     *)
(***************************************************************************)
SweepRow == [at : {"idle", "next", "look", "write", "roll"}, todo : SUBSET Fqdns,
             on : Fqdns \cup {"none"}, seen : RecordRows]

SweepTyped ==
  /\ sweep \in SweepRow /\ Cardinality(sweep.todo) <= Batch
  /\ sweep.at \in {"look", "write", "roll"} => sweep.on \in Fqdns

RowsTyped ==
  /\ adding \in [Fqdns -> {"no", "stalwart", "domain", "records", "verdict"}] /\ hosted \subseteq Fqdns
  /\ verdict \in [Fqdns -> DomainStatus] /\ records \in [Fqdns -> RecordRows]

MailInv == RowsTyped /\ SweepTyped

\* A step never says that a domain is verified but of one whose required records it saw.
OnSight ==
  \A d \in Fqdns : verdict[d] # "verified" /\ verdict'[d] = "verified" =>
    sweep.on = d /\ \A k \in Required : sweep.seen[k] = "verified"

LEMMA NoSweepTyped ==
  NoSweep \in SweepRow /\ NoSweep.todo = {} /\ NoSweep.at = "idle" /\ NoRecords \in RecordRows /\ Cardinality({}) <= Batch
<1>1. NoRecords \in RecordRows
  BY DEF NoRecords, RecordRows, DomainStatus
<1>2. Cardinality({}) <= Batch
  BY FS_EmptySet, MailDomainsAssumption
<1> QED
  BY <1>1, <1>2 DEF NoSweep, SweepRow

\* What may be taken from a batch leaves a batch.
LEMMA BatchShrinks ==
  ASSUME NEW s \in SUBSET Fqdns, Cardinality(s) <= Batch, NEW r \in SUBSET s PROVE Cardinality(r) <= Batch
<1>1. IsFiniteSet(s)
  BY FS_Subset, MailDomainsAssumption
<1>2. Cardinality(r) <= Cardinality(s) /\ Cardinality(r) \in Nat /\ Cardinality(s) \in Nat
  BY <1>1, FS_Subset, FS_CardinalityType
<1> QED
  BY <1>2, MailDomainsAssumption

LEMMA MailStarts == MailDomainsInit => MailInv
<1> SUFFICES ASSUME MailDomainsInit PROVE MailInv
  OBVIOUS
<1>1. RowsTyped
  BY NoSweepTyped DEF MailDomainsInit, RowsTyped, DomainStatus
<1> QED
  BY <1>1, NoSweepTyped DEF MailDomainsInit, MailInv, SweepTyped

\* Requests for a domain.
LEMMA DomainAsks ==
  ASSUME MailInv, NEW d \in Fqdns,
         AddDomain(d) \/ CreateInStalwart(d) \/ InsertDomain(d) \/ InsertRecords(d) \/ RequestVerification(d)
           \/ MarkVerifying(d)
  PROVE  MailInv' /\ OnSight
<1>0. RowsTyped
  BY DEF MailInv
<1>1. UNCHANGED sweep
  BY DEF AddDomain, CreateInStalwart, InsertDomain, InsertRecords, RequestVerification, MarkVerifying
<1>2. CASE AddDomain(d) \/ CreateInStalwart(d)
  BY <1>0, <1>1, <1>2 DEF AddDomain, CreateInStalwart, RowsTyped, MailInv, SweepTyped, OnSight
<1>3. CASE InsertDomain(d) \/ MarkVerifying(d)
  BY <1>0, <1>1, <1>3 DEF InsertDomain, MarkVerifying, RowsTyped, DomainStatus, MailInv, SweepTyped, OnSight
<1>4. CASE InsertRecords(d)
  <2>1. [k \in RecordKinds |-> "pending"] \in RecordRows
    BY DEF RecordRows, DomainStatus
  <2> QED
    BY <1>0, <1>1, <1>4, <2>1 DEF InsertRecords, RowsTyped, MailInv, SweepTyped, OnSight
<1>5. CASE RequestVerification(d)
  <2>1. [k \in RecordKinds |-> IF records[d][k] = "none" THEN "none" ELSE "verifying"] \in RecordRows
    BY DEF RecordRows, DomainStatus
  <2>2. records' = [records EXCEPT ![d] = [k \in RecordKinds |-> IF records[d][k] = "none" THEN "none" ELSE "verifying"]]
    BY <1>0, <1>5 DEF RequestVerification, RowsTyped
  <2> QED
    BY <1>0, <1>1, <1>5, <2>1, <2>2 DEF RequestVerification, RowsTyped, MailInv, SweepTyped, OnSight
<1> QED
  BY <1>2, <1>3, <1>4, <1>5

LEMMA SweepPicks == ASSUME MailInv, RunMailDnsVerify \/ NextDomain PROVE MailInv' /\ OnSight
<1>0. RowsTyped' /\ OnSight /\ sweep \in SweepRow /\ Cardinality(sweep.todo) <= Batch
  BY DEF MailInv, RowsTyped, SweepTyped, RunMailDnsVerify, NextDomain, OnSight
<1>1. CASE RunMailDnsVerify
  <2>1. PICK s \in SUBSET Awaiting :
          /\ Cardinality(s) = IF Cardinality(Awaiting) < Batch THEN Cardinality(Awaiting) ELSE Batch
          /\ sweep' = [NoSweep EXCEPT !.at = "next", !.todo = s]
    BY <1>1 DEF RunMailDnsVerify
  <2>2. s \in SUBSET Fqdns
    BY <2>1 DEF Awaiting
  <2>3. Cardinality(s) <= Batch
    <3>1. Cardinality(Awaiting) \in Nat
      BY FS_Subset, FS_CardinalityType, MailDomainsAssumption DEF Awaiting
    <3> QED
      BY <2>1, <3>1, MailDomainsAssumption
  <2>4. sweep' \in SweepRow /\ sweep'.todo = s /\ sweep'.at = "next"
    BY <2>1, <2>2, NoSweepTyped DEF SweepRow
  <2> QED
    BY <1>0, <2>3, <2>4 DEF MailInv, SweepTyped
<1>2. CASE NextDomain
  <2>1. CASE sweep.todo = {}
    BY <1>0, <1>2, <2>1, NoSweepTyped DEF NextDomain, MailInv, SweepTyped
  <2>2. CASE sweep.todo # {}
    <3>1. PICK d \in sweep.todo :
            sweep' = IF records[d] = NoRecords THEN [sweep EXCEPT !.todo = @ \ {d}]
                     ELSE [sweep EXCEPT !.todo = @ \ {d}, !.at = "look", !.on = d, !.seen = NoRecords]
      BY <1>2, <2>2 DEF NextDomain
    <3>2. /\ sweep' \in SweepRow /\ sweep'.todo = sweep.todo \ {d} /\ d \in Fqdns
          /\ sweep'.at = "next" \/ sweep'.on = d
      BY <1>0, <1>2, <3>1, NoSweepTyped DEF SweepRow, NextDomain
    <3>3. Cardinality(sweep'.todo) <= Batch
      BY <1>0, <3>2, BatchShrinks DEF SweepRow
    <3> QED
      BY <1>0, <3>2, <3>3 DEF MailInv, SweepTyped
  <2> QED
    BY <2>1, <2>2
<1> QED
  BY <1>1, <1>2

LEMMA SweepLooks == ASSUME MailInv, LookUp PROVE MailInv' /\ OnSight
<1>0. RowsTyped' /\ OnSight /\ sweep \in SweepRow /\ sweep.on \in Fqdns /\ Cardinality(sweep.todo) <= Batch
  BY DEF MailInv, RowsTyped, SweepTyped, LookUp, OnSight
<1>1. \E seen \in RecordRows, at \in {"write", "look"} : sweep' = [sweep EXCEPT !.seen = seen, !.at = at]
  <2> DEFINE k == CHOOSE j \in RecordKinds : sweep.seen[j] = "none"
  <2>1. ASSUME NEW found \in BOOLEAN PROVE [sweep.seen EXCEPT ![k] = VerifyRecord(k, found)] \in RecordRows
    <3>1. VerifyRecord(k, found) \in DomainStatus
      BY DEF VerifyRecord, DomainStatus
    <3> HIDE DEF k
    <3> QED
      BY <1>0, <3>1 DEF SweepRow, RecordRows
  <2> QED
    BY <2>1 DEF LookUp
<1>2. PICK seen \in RecordRows, at \in {"write", "look"} : sweep' = [sweep EXCEPT !.seen = seen, !.at = at]
  BY <1>1
<1>3. sweep' \in SweepRow /\ sweep'.on = sweep.on /\ sweep'.todo = sweep.todo
  BY <1>0, <1>2 DEF SweepRow
<1> QED
  BY <1>0, <1>3 DEF MailInv, SweepTyped

LEMMA SweepWrites == ASSUME MailInv, WriteRecords \/ WriteVerdict PROVE MailInv' /\ OnSight
<1>0. /\ RowsTyped /\ sweep \in SweepRow /\ sweep.seen \in RecordRows /\ Cardinality(sweep.todo) <= Batch
      /\ sweep.on \in Fqdns
  BY DEF MailInv, RowsTyped, SweepTyped, SweepRow, WriteRecords, WriteVerdict
<1>1. CASE WriteRecords
  <2>1. sweep' \in SweepRow /\ sweep'.on = sweep.on /\ sweep'.todo = sweep.todo
    BY <1>0, <1>1 DEF WriteRecords, SweepRow
  <2>2. RowsTyped' /\ OnSight
    BY <1>0, <1>1 DEF WriteRecords, RowsTyped, OnSight
  <2> QED
    BY <1>0, <2>1, <2>2 DEF MailInv, SweepTyped
<1>2. CASE WriteVerdict
  <2>1. sweep' \in SweepRow /\ sweep'.at = "next" /\ sweep'.todo = sweep.todo
    BY <1>0, <1>2, NoSweepTyped DEF WriteVerdict, SweepRow
  <2>2. /\ Rollup(sweep.seen) \in DomainStatus
        /\ Rollup(sweep.seen) = "verified" => \A k \in Required : sweep.seen[k] = "verified"
    BY DEF Rollup, DomainStatus
  <2>3. RowsTyped'
    BY <1>0, <1>2, <2>2 DEF WriteVerdict, RowsTyped
  <2>4. OnSight
    BY <1>0, <1>2, <2>2 DEF WriteVerdict, RowsTyped, OnSight
  <2> QED
    BY <1>0, <2>1, <2>3, <2>4 DEF MailInv, SweepTyped
<1> QED
  BY <1>1, <1>2

LEMMA MailDies == ASSUME MailInv, MailProcessDies PROVE MailInv' /\ OnSight
BY NoSweepTyped DEF MailProcessDies, MailInv, RowsTyped, SweepTyped, OnSight

LEMMA MailStep == MailInv /\ [MailDomainsNext]_mailDomainVars => MailInv' /\ OnSight
<1> SUFFICES ASSUME MailInv, [MailDomainsNext]_mailDomainVars PROVE MailInv' /\ OnSight
  OBVIOUS
<1>1. CASE UNCHANGED mailDomainVars
  BY <1>1 DEF mailDomainVars, MailInv, RowsTyped, SweepTyped, OnSight
<1> QED
  BY <1>1, DomainAsks, SweepPicks, SweepLooks, SweepWrites, MailDies DEF MailDomainsNext, MailSweepStep

LEMMA MailTyped == MailInv => MailDomainsTypeOK
BY DEF MailInv, RowsTyped, SweepTyped, SweepRow, MailDomainsTypeOK

(***************************************************************************)
(* In the run's module a behaviour is one of a single component, so what   *)
(* its steps keep holds throughout.                                        *)
(***************************************************************************)
upkeepVars == <<focus, serverVars, updaterVars, watchersVars, backupVars, mailDomainVars>>

LEMMA UpkeepParts ==
  /\ UpkeepInit => ServersInit /\ UpdaterInit /\ WatchersInit /\ BackupsInit /\ MailDomainsInit
  /\ [UpkeepNext]_upkeepVars => /\ [ServersNext]_serverVars
                                /\ [UpdaterNext]_updaterVars
                                /\ [WatchersNext]_watchersVars
                                /\ [BackupsNext]_backupVars
                                /\ [MailDomainsNext]_mailDomainVars
BY DEF UpkeepInit, UpkeepNext, upkeepVars

LEMMA UpkeepMoves == UpkeepSpec => UpkeepInit /\ [][UpkeepNext]_upkeepVars
BY PTL DEF UpkeepSpec, upkeepVars

\* The type invariant of a worker server, the updater, the watchers, the backups and the
\* mail domains, for every number of boots, connections, releases, alerts and domains.
THEOREM UpkeepTypeCorrect == UpkeepSpec => []UpkeepTypeOK
<1>1. ServersInv /\ UpdaterInv /\ WatchersInv /\ RetentionInv /\ MailInv => UpkeepTypeOK
  BY ServersInvSuffices, UpdaterBoots, SpareSuffices, MailTyped DEF UpkeepTypeOK, WatchersInv
<1>2. WatchersInv /\ [WatchersNext]_watchersVars => WatchersInv'
  BY WatchersStep
<1>3. MailInv /\ [MailDomainsNext]_mailDomainVars => MailInv'
  BY MailStep
<1> QED
  BY <1>1, <1>2, <1>3, UpkeepMoves, UpkeepParts, ServersInitInv, UpdaterStarts, WatchersStart, RetentionStarts, MailStarts,
     ServersStep, UpdaterStep, RetentionStep, PTL

\* Wherever an update is cut off, by a failure, a death of the process or a reboot of the
\* host, `current` and the process are of a release that is complete and whose migrations
\* have run, and the updater says "done" and "failed" only of what `current` leads to.  The
\* one exception is named: an update that took the real directory of an early installation.
THEOREM UpdatesStaySafe == UpkeepSpec => UpdatesAreSafe
<1>1. UpdaterInv => BootsInstalled
  BY UpdaterBoots
<1>2. [][StatusKept]_updaterVars => StatusIsTrue
  BY PTL DEF StatusIsTrue, StatusKept
<1> QED
  BY <1>1, <1>2, UpkeepMoves, UpkeepParts, UpdaterStarts, UpdaterStep, StatusStep, PTL DEF UpdatesAreSafe

\* However ticks, edits of the rows and restarts interleave, no alert is stamped, and so
\* dispatched, while its window is still open.
THEOREM PagesOncePerWindow == UpkeepSpec => AlertOncePerWindow
<1>1. WatchersInv /\ [WatchersNext]_watchersVars => WatchersInv' /\ [OncePerWindow]_watchersVars
  BY WatchersStep
<1>2. [][OncePerWindow]_watchersVars => AlertOncePerWindow
  BY PTL DEF AlertOncePerWindow, OncePerWindow
<1> QED
  BY <1>1, <1>2, UpkeepMoves, UpkeepParts, WatchersStart, PTL

\* Whatever the lookups of a sweep find and whatever is asked for meanwhile, the sweep says
\* "verified" only of a domain each of whose required records it found.
THEOREM VerifiesOnSight == UpkeepSpec => VerifiedOnSight
<1>1. MailInv /\ [MailDomainsNext]_mailDomainVars => MailInv' /\ [OnSight]_mailDomainVars
  BY MailStep
<1>2. [][OnSight]_mailDomainVars => VerifiedOnSight
  BY PTL DEF VerifiedOnSight, OnSight
<1> QED
  BY <1>1, <1>2, UpkeepMoves, UpkeepParts, MailStarts, PTL
=============================================================================
