------------------------------ MODULE Watchers ------------------------------
(***************************************************************************)
(* The two sweeps that page: the reconcile, which compares what docker runs*)
(* with what the deployments promise, and the metrics collector, which     *)
(* samples and then evaluates the threshold alerts.  One page per cooldown:*)
(* the reconcile keeps its anchors in memory, an alert has a column.       *)
(* Time is what is left of the cooldowns.                                  *)
(***************************************************************************)
EXTENDS Naturals

CONSTANTS
  WatchedApps,   \* applications on this control plane
  AlertIds,      \* metric_alerts that may exist
  Cooldown,      \* COOLDOWN_MS and windowSeconds, in ticks
  MaxWatchFaults \* bound: docker calls that fail, restarts

ASSUME WatchersAssumption == Cooldown \in Nat \ {0} /\ MaxWatchFaults \in Nat

VARIABLES
  containerUp,  \* the application has a running container
  succeeded,    \* it has a succeeded deployment that is no preview
  anchor,       \* ticks until it may be paged again, from lastNotified
  pagedDown,    \* it was paged since its container was last seen running
  recon,        \* the reconcile pass: where, the apps docker showed, the apps left
  alerts,       \* the alert rows: ticks until the alert may fire again, -1 for no row
  breach,       \* the average over the window is past the threshold
  ticks,        \* collector ticks under way: where, the rows that were read
  watchFaults

reconVars    == <<containerUp, succeeded, anchor, pagedDown, recon>>
metricVars   == <<alerts, breach, ticks>>
watchersVars == <<reconVars, metricVars, watchFaults>>

NoAlert  == Cooldown + 1
NoPass   == [at |-> "idle", running |-> {}, todo |-> {}]
NoTick   == [at |-> "idle", todo |-> {}, read |-> [x \in AlertIds |-> NoAlert]]
TickIds  == 1..2

WatchersTypeOK ==
  /\ containerUp \in [WatchedApps -> BOOLEAN] /\ succeeded \in [WatchedApps -> BOOLEAN]
  /\ anchor \in [WatchedApps -> 0..Cooldown] /\ pagedDown \in [WatchedApps -> BOOLEAN]
  /\ recon \in [at : {"idle", "sweep"}, running : SUBSET WatchedApps, todo : SUBSET WatchedApps]
  /\ alerts \in [AlertIds -> 0..NoAlert] /\ breach \in [AlertIds -> BOOLEAN]
  /\ ticks \in [TickIds -> [at : {"idle", "collect", "evaluate"}, todo : SUBSET AlertIds,
                            read : [AlertIds -> 0..NoAlert]]]
  /\ \A i, j \in TickIds : i = j \/ ticks[i] = NoTick \/ ticks[j] = NoTick
  /\ watchFaults \in 0..MaxWatchFaults

WatchersInit ==
  /\ containerUp = [a \in WatchedApps |-> FALSE] /\ succeeded = containerUp
  /\ anchor = [a \in WatchedApps |-> 0] /\ pagedDown = [a \in WatchedApps |-> FALSE]
  /\ recon = NoPass
  /\ alerts = [x \in AlertIds |-> NoAlert] /\ breach = [x \in AlertIds |-> FALSE]
  /\ ticks = [i \in TickIds |-> NoTick] /\ watchFaults = 0

WatchFault == watchFaults < MaxWatchFaults /\ watchFaults' = watchFaults + 1

(***************************************************************************)
(* What is watched.                                                        *)
(***************************************************************************)
\* A deployment brings the container up and then records its success.
ContainerStarts(a) ==
  /\ ~containerUp[a] /\ containerUp' = [containerUp EXCEPT ![a] = TRUE]
  /\ pagedDown' = [pagedDown EXCEPT ![a] = FALSE]
  /\ UNCHANGED <<succeeded, anchor, recon, metricVars, watchFaults>>

DeploySucceeds(a) ==
  /\ containerUp[a] /\ ~succeeded[a] /\ succeeded' = [succeeded EXCEPT ![a] = TRUE]
  /\ UNCHANGED <<containerUp, anchor, pagedDown, recon, metricVars, watchFaults>>

\* It crashes, or the operator stops it: the reconcile cannot tell.
ContainerExits(a) ==
  /\ containerUp[a] /\ containerUp' = [containerUp EXCEPT ![a] = FALSE]
  /\ UNCHANGED <<succeeded, anchor, pagedDown, recon, metricVars, watchFaults>>

LoadChanges(x) ==
  /\ breach' = [breach EXCEPT ![x] = ~@]
  /\ UNCHANGED <<reconVars, alerts, ticks, watchFaults>>

\* A millisecond past the window is past it; a row that does not exist does not age.
WatchAges(n) == IF n \in 1..Cooldown THEN n - 1 ELSE n

TimePasses ==
  /\ anchor' = [a \in WatchedApps |-> WatchAges(anchor[a])]
  /\ alerts' = [x \in AlertIds |-> WatchAges(alerts[x])]
  /\ <<anchor', alerts'>> # <<anchor, alerts>>
  /\ UNCHANGED <<containerUp, succeeded, pagedDown, recon, breach, ticks, watchFaults>>

(***************************************************************************)
(* Reconcile.                                                              *)
(***************************************************************************)

\* docker ps, then the rows; a pass that cannot ask docker is skipped whole.
ReconcileLists ==
  /\ recon = NoPass
  /\ \/ /\ recon' = [at |-> "sweep", running |-> {a \in WatchedApps : containerUp[a]}, todo |-> WatchedApps]
        /\ UNCHANGED watchFaults
     \/ WatchFault /\ UNCHANGED recon
  /\ UNCHANGED <<containerUp, succeeded, anchor, pagedDown, metricVars>>

ReconcileDecision(a) == succeeded[a] /\ a \notin recon.running /\ anchor[a] = 0

Swept(a) == recon' = IF recon.todo = {a} THEN NoPass ELSE [recon EXCEPT !.todo = @ \ {a}]

\* Faulty: the anchor is set for whatever has drifted, paged or not.
ReconcileAnchorsAll(a) ==
  /\ a \in recon.todo /\ Swept(a)
  /\ anchor' = [anchor EXCEPT ![a] = IF succeeded[a] /\ a \notin recon.running THEN Cooldown ELSE @]
  /\ pagedDown' = [pagedDown EXCEPT ![a] = IF ReconcileDecision(a) THEN ~containerUp[a] ELSE @]
  /\ UNCHANGED <<containerUp, succeeded, metricVars, watchFaults>>

\* The latest success is read now, the containers were listed then.
ReconcileApp(a) ==
  /\ a \in recon.todo /\ Swept(a)
  /\ IF ReconcileDecision(a)
     THEN /\ anchor' = [anchor EXCEPT ![a] = Cooldown]
          /\ pagedDown' = [pagedDown EXCEPT ![a] = ~containerUp[a]]
     ELSE UNCHANGED <<anchor, pagedDown>>
  /\ UNCHANGED <<containerUp, succeeded, metricVars, watchFaults>>

(***************************************************************************)
(* Metrics and alerts.                                                     *)
(***************************************************************************)
\* Its id is new: no tick still holds it.
CreateMetricAlert(x) ==
  /\ alerts[x] = NoAlert /\ \A i \in TickIds : x \notin ticks[i].todo
  /\ alerts' = [alerts EXCEPT ![x] = 0]
  /\ UNCHANGED <<reconVars, breach, ticks, watchFaults>>

DeleteMetricAlert(x) ==
  /\ alerts[x] # NoAlert /\ alerts' = [alerts EXCEPT ![x] = NoAlert]
  /\ UNCHANGED <<reconVars, breach, ticks, watchFaults>>

\* Faulty: a tick does not look whether the last one is still running.
TickStacks(i) ==
  /\ ticks[i] = NoTick /\ ticks' = [ticks EXCEPT ![i].at = "collect"]
  /\ UNCHANGED <<reconVars, alerts, breach, watchFaults>>

\* Every minute, unless the last tick still runs.
Tick(i) ==
  /\ \A j \in TickIds : ticks[j] = NoTick
  /\ ticks' = [ticks EXCEPT ![i].at = "collect"]
  /\ UNCHANGED <<reconVars, alerts, breach, watchFaults>>

\* Samples are written, or the tick fails; then the alerts are read.
CollectOnce(i) ==
  /\ ticks[i].at = "collect"
  /\ \/ /\ ticks' = [ticks EXCEPT ![i] = [at |-> "evaluate", read |-> alerts,
                                          todo |-> {x \in AlertIds : alerts[x] # NoAlert}]]
        /\ UNCHANGED watchFaults
     \/ WatchFault /\ ticks' = [ticks EXCEPT ![i] = NoTick]
  /\ UNCHANGED <<reconVars, alerts, breach>>

EvaluateAlert(i, x) == breach[x] /\ ticks[i].read[x] = 0

\* The stamp, if the row is still there, then the dispatch.
EvaluateOne(i) ==
  /\ ticks[i].at = "evaluate"
  /\ \E x \in ticks[i].todo :
       /\ ticks' = [ticks EXCEPT ![i].todo = @ \ {x}]
       /\ alerts' = [alerts EXCEPT ![x] = IF EvaluateAlert(i, x) /\ @ # NoAlert THEN Cooldown ELSE @]
  /\ UNCHANGED <<reconVars, breach, watchFaults>>

TickEnds(i) ==
  /\ ticks[i].at = "evaluate" /\ ticks[i].todo = {} /\ ticks' = [ticks EXCEPT ![i] = NoTick]
  /\ UNCHANGED <<reconVars, alerts, breach, watchFaults>>

\* The anchors of the reconcile go, the alerts' stamps stay.
WatchersRestart ==
  /\ WatchFault /\ recon' = NoPass /\ ticks' = [i \in TickIds |-> NoTick]
  /\ anchor' = [a \in WatchedApps |-> 0]
  /\ UNCHANGED <<containerUp, succeeded, pagedDown, alerts, breach>>

ReconcileStep == ReconcileLists \/ \E a \in WatchedApps : ReconcileApp(a)

WatchersNext ==
  \/ \E a \in WatchedApps : ContainerStarts(a) \/ DeploySucceeds(a) \/ ContainerExits(a)
  \/ \E x \in AlertIds : LoadChanges(x) \/ CreateMetricAlert(x) \/ DeleteMetricAlert(x)
  \/ \E i \in TickIds : Tick(i) \/ CollectOnce(i) \/ EvaluateOne(i) \/ TickEnds(i)
  \/ TimePasses \/ ReconcileStep \/ WatchersRestart

\* Time passes, the cron ticks, and docker answers or is given up on after 15 seconds.
WatchersFairness ==
  WF_watchersVars(TimePasses) /\ WF_watchersVars(ReconcileLists)
  /\ \A a \in WatchedApps : WF_watchersVars(ReconcileApp(a))

WatchersSpec == WatchersInit /\ [][WatchersNext]_watchersVars /\ WatchersFairness

(***************************************************************************)
(* Properties.                                                             *)
(***************************************************************************)

\* An application that is down and stays down after a deployment of it succeeded is
\* paged in the end, however often it was paged, or came up, before
\* (reconcile.service.ts:15-19, docker/reconcile.ts:13-18).
DownIsPaged ==
  \A a \in WatchedApps : succeeded[a] /\ ~containerUp[a] ~> containerUp[a] \/ pagedDown[a]

\* A sustained breach pages once per window, however ticks, restarts and edits
\* interleave (alerts.ts:4-6, collector.ts:195-206).
AlertOncePerWindow ==
  [][\A x \in AlertIds : alerts[x] \in 1..Cooldown /\ alerts'[x] = Cooldown => alerts[x] = Cooldown]_watchersVars
=============================================================================
