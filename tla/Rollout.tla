------------------------------ MODULE Rollout ------------------------------
(***************************************************************************)
(* The rollout of one application's deployments: the containers on the     *)
(* docker host and their published ports, the health gate, the port that   *)
(* the row of a succeeded deployment records, the converge of Caddy behind *)
(* its mutex, the removal of the old containers, and the stop, start and   *)
(* restart requests, which take no lock: they run beside the pipelines and *)
(* beside each other.                                                      *)
(*                                                                         *)
(* A caller is a pipeline or a lifecycle request; its pc names the await   *)
(* it is at.  Queue, cancel and crash are DeployEngine's subject.          *)
(***************************************************************************)
EXTENDS Naturals, FiniteSets, FiniteSetsExt

CONSTANTS
  Deployments,          \* deployments of the application
  InlineDeployments,    \* those the push webhook runs itself, outside the queue
  Names, NameOf,        \* container names, and the name a deployment uses
  Ports, NoPort,        \* host ports docker may publish
  Requests,             \* stop, start and restart requests
  Others,               \* whoever else converges the proxy: other applications,
                        \* domain changes, the boot
  RemoteExec,           \* the commands run over SSH, and may throw
  CaddyFails,           \* Caddy's admin API may be unreachable
  DockerFails           \* a docker command may exit non-zero, which nobody looks at

ASSUME RolloutAssumption ==
  /\ InlineDeployments \subseteq Deployments
  /\ NameOf \in [Deployments -> Names]
  /\ Requests \cap (Deployments \cup Others) = {}
  /\ Others \cap Deployments = {}
  /\ NoPort \notin Ports \cup Deployments \cup Names
  /\ RemoteExec \in BOOLEAN /\ CaddyFails \in BOOLEAN /\ DockerFails \in BOOLEAN

VARIABLES
  row,     \* status of each row; "active" is queued or running
  meta,    \* meta.hostPort of each row
  finishedAt, \* when each row ended, 0 before that
  ctr,     \* containers: absent, or one that answers requests or never does
  up,      \* the running ones
  port,    \* the host port each running one publishes
  route,   \* Caddy: the upstream port of the production domain
  pc,      \* where each caller is
  got,     \* the port each caller read with "docker port"
  snap,    \* the upstream in the configuration each caller is loading
  todo,    \* the containers each caller has listed and not dealt with
  keep,    \* the container each pipeline's removal keeps, if it knows one
  spared,  \* history: the old containers that docker did not list or remove for it
  dep      \* the row each lifecycle request will write a port to

rowVars    == <<row, meta, finishedAt>>
dockerVars == <<ctr, up, port>>
opVars     == <<todo, keep, spared, dep>>
rolloutVars == <<rowVars, dockerVars, route, pc, got, snap, opVars>>

Callers  == Deployments \cup Requests \cup Others
Removing == {"remove", "inspect", "rm"}
Phases   == {"idle", "up", "health", "write", "convWait", "convLoad", "done", "stop", "start",
             "restart", "refresh", "read", "select", "stamp"} \cup Removing

RolloutTypeOK ==
  /\ row \in [Deployments -> {"absent", "active", "succeeded", "failed"}]
  /\ meta \in [Deployments -> Ports \cup {NoPort}]
  /\ finishedAt \in [Deployments -> Nat]
  /\ ctr \in [Names -> {"absent", "good", "bad"}]
  /\ up \subseteq {n \in Names : ctr[n] # "absent"}
  /\ port \in [Names -> Ports \cup {NoPort}]
  /\ \A n \in Names : port[n] # NoPort <=> n \in up
  /\ \A m, n \in up : port[m] = port[n] => m = n
  /\ route \in Ports \cup {NoPort}
  /\ pc \in [Callers -> Phases]
  /\ got \in [Callers -> Ports \cup {NoPort}]
  /\ snap \in [Callers -> Ports \cup {NoPort}]
  /\ todo \in [Callers -> SUBSET Names]
  /\ keep \in [Deployments -> Names \cup {NoPort}]
  /\ spared \in [Deployments -> SUBSET Names]
  /\ dep \in [Requests -> Deployments \cup {NoPort}]

RolloutInit ==
  /\ row = [d \in Deployments |-> "absent"]
  /\ meta = [d \in Deployments |-> NoPort]
  /\ finishedAt = [d \in Deployments |-> 0]
  /\ ctr = [n \in Names |-> "absent"]
  /\ up = {}
  /\ port = [n \in Names |-> NoPort]
  /\ route = NoPort
  /\ pc = [c \in Callers |-> "idle"]
  /\ got = [c \in Callers |-> NoPort]
  /\ snap = [c \in Callers |-> NoPort]
  /\ todo = [c \in Callers |-> {}]
  /\ keep = [d \in Deployments |-> NoPort]
  /\ spared = [d \in Deployments |-> {}]
  /\ dep = [o \in Requests |-> NoPort]

Goto(c, phase) == pc' = [pc EXCEPT ![c] = phase]
At(c, phase)   == pc[c] = phase

\* An HTTP request to the host port gets an answer.
Answers(p) == \E n \in up : ctr[n] = "good" /\ port[n] = p

\* The containers in S run on ports docker has just picked.
PortsFor(S) ==
  {f \in [Names -> Ports \cup {NoPort}] :
     /\ \A n \in Names \ S : f[n] = port[n]
     /\ \A n \in S : f[n] \notin {NoPort, port[n]}
     /\ \A n \in S, m \in S \cup up : f[m] = f[n] => m = n}

Remove(S) == /\ ctr' = [n \in Names |-> IF n \in S THEN "absent" ELSE ctr[n]]
             /\ up' = up \ S
             /\ port' = [n \in Names |-> IF n \in S THEN NoPort ELSE port[n]]

\* The write that ends a row.
Ends(d, outcome) ==
  /\ row' = [row EXCEPT ![d] = outcome]
  /\ finishedAt' = [finishedAt EXCEPT
                      ![d] = Max({finishedAt[e] : e \in Deployments}) + 1]

Succeeded == {d \in Deployments : row[d] = "succeeded"}
LastOf(f) == CHOOSE d \in DOMAIN f : \A e \in DOMAIN f : f[e] <= f[d]
Latest    == LastOf([d \in Succeeded |-> finishedAt[d]])

(***************************************************************************)
(* The pipeline.                                                           *)
(***************************************************************************)

\* The row takes the application's slot.
Create(d) ==
  /\ row[d] = "absent"
  /\ \A e \in Deployments : row[e] # "active"
  /\ row' = [row EXCEPT ![d] = "active"]
  /\ UNCHANGED <<meta, finishedAt, dockerVars, route, pc, got, snap, opVars>>

\* The queue's worker awaits one pipeline at a time; an inline one waits for nobody.
Begin(d) ==
  /\ At(d, "idle")
  /\ row[d] = "active"
  /\ \/ d \in InlineDeployments
     \/ \A e \in Deployments \ InlineDeployments : pc[e] \in {"idle", "done"}
  /\ Goto(d, "up")
  /\ UNCHANGED <<rowVars, dockerVars, route, got, snap, opVars>>

\* Everything up to docker run can fail, and docker run can leave a container
\* that never started.
UpFails(d) ==
  /\ At(d, "up")
  /\ Ends(d, "failed")
  /\ Goto(d, "done")
  /\ \/ UNCHANGED dockerVars
     \/ /\ ctr' = [ctr EXCEPT ![NameOf[d]] = "bad"]
        /\ up' = up \ {NameOf[d]}
        /\ port' = [port EXCEPT ![NameOf[d]] = NoPort]
  /\ UNCHANGED <<meta, route, got, snap, opVars>>

\* Faulty: the container publishes a port of the application's own.
RunFixedPort(d) ==
  /\ At(d, "up")
  /\ ctr' = [ctr EXCEPT ![NameOf[d]] = "good"]
  /\ up' = up \cup {NameOf[d]}
  /\ port' = [port EXCEPT ![NameOf[d]] = CHOOSE p \in Ports : TRUE]
  /\ got' = [got EXCEPT ![d] = port'[NameOf[d]]]
  /\ Goto(d, "health")
  /\ UNCHANGED <<rowVars, route, snap, opVars>>

\* The new container starts beside the old one and its port is read.
Run(d) ==
  /\ At(d, "up")
  /\ \E kind \in {"good", "bad"} : ctr' = [ctr EXCEPT ![NameOf[d]] = kind]
  /\ up' = up \cup {NameOf[d]}
  /\ port' \in PortsFor({NameOf[d]})
  /\ got' = [got EXCEPT ![d] = port'[NameOf[d]]]
  /\ Goto(d, "health")
  /\ UNCHANGED <<rowVars, route, snap, opVars>>

\* Faulty: any container passes.
HealthSkipped(d) ==
  /\ At(d, "health")
  /\ Goto(d, "write")
  /\ UNCHANGED <<rowVars, dockerVars, route, got, snap, opVars>>

\* The health gate probes the port that was read.
HealthOk(d) ==
  /\ At(d, "health")
  /\ Answers(got[d])
  /\ Goto(d, "write")
  /\ UNCHANGED <<rowVars, dockerVars, route, got, snap, opVars>>

\* Which of the containers in S a docker command deals with.
Reached(S) == IF DockerFails THEN SUBSET S ELSE {S}

\* The gate gives up, or the post-deploy hook fails: the new container goes.
Discard(d) ==
  /\ pc[d] \in {"health", "write"}
  /\ \E S \in Reached({NameOf[d]}) : Remove(S)
  /\ Ends(d, "failed")
  /\ Goto(d, "done")
  /\ UNCHANGED <<meta, route, got, snap, opVars>>

\* Faulty: the old containers go before the route moves.
WriteThenRemove(d) ==
  /\ At(d, "write")
  /\ Ends(d, "succeeded")
  /\ meta' = [meta EXCEPT ![d] = got[d]]
  /\ Remove(Names \ {NameOf[d]})
  /\ Goto(d, "convWait")
  /\ UNCHANGED <<route, got, snap, opVars>>

WriteSucceeded(d) ==
  /\ At(d, "write")
  /\ Ends(d, "succeeded")
  /\ meta' = [meta EXCEPT ![d] = got[d]]
  /\ Goto(d, "convWait")
  /\ UNCHANGED <<dockerVars, route, got, snap, opVars>>

Existing == {n \in Names : ctr[n] # "absent"}

\* Faulty: stopped containers are not listed.
ListRunning(d) ==
  /\ At(d, "remove")
  /\ todo' = [todo EXCEPT ![d] = up]
  /\ UNCHANGED spared
  /\ Goto(d, "inspect")
  /\ UNCHANGED <<rowVars, dockerVars, route, got, snap, keep, dep>>

\* removeAppContainers lists every container with the application's label; a "docker ps"
\* that fails lists none.
ListOld(d) ==
  /\ At(d, "remove")
  /\ \/ todo' = [todo EXCEPT ![d] = Existing] /\ UNCHANGED spared
     \/ /\ DockerFails
        /\ spared' = [spared EXCEPT ![d] = Existing \ {NameOf[d]}]
        /\ UNCHANGED todo
  /\ Goto(d, "inspect")
  /\ UNCHANGED <<rowVars, dockerVars, route, got, snap, keep, dep>>

\* Faulty: no container is excepted.
InspectNothing(d) ==
  /\ At(d, "inspect")
  /\ keep' = [keep EXCEPT ![d] = NameOf[d]]
  /\ UNCHANGED todo
  /\ Goto(d, "rm")
  /\ UNCHANGED <<rowVars, dockerVars, route, got, snap, spared, dep>>

\* It asks for the id of the one to keep: without an answer there is none to keep.
InspectNew(d) ==
  /\ At(d, "inspect")
  /\ \/ /\ NameOf[d] \in Existing
        /\ keep' = [keep EXCEPT ![d] = NameOf[d]]
        /\ todo' = [todo EXCEPT ![d] = @ \ {NameOf[d]}]
     \/ /\ DockerFails \/ NameOf[d] \notin Existing
        /\ UNCHANGED <<keep, todo>>
  /\ Goto(d, "rm")
  /\ UNCHANGED <<rowVars, dockerVars, route, got, snap, spared, dep>>

\* The others are removed one after the other, whether "docker rm" succeeds or not.
RemoveOld(d) ==
  /\ At(d, "rm")
  /\ \E n \in todo[d] : /\ todo' = [todo EXCEPT ![d] = @ \ {n}]
                        /\ \/ Remove({n}) /\ UNCHANGED spared
                           \/ /\ DockerFails
                              /\ spared' = [spared EXCEPT ![d] = @ \cup {n}]
                              /\ UNCHANGED dockerVars
  /\ UNCHANGED <<rowVars, route, pc, got, snap, keep, dep>>

RemovalDone(d) ==
  /\ At(d, "rm")
  /\ todo[d] = {}
  /\ Goto(d, "done")
  /\ UNCHANGED <<rowVars, dockerVars, route, got, snap, opVars>>

\* Over SSH each of these commands may throw: the catch block fails the row.
RemoveThrows(d) ==
  /\ RemoteExec
  /\ pc[d] \in Removing
  /\ Ends(d, "failed")
  /\ Goto(d, "done")
  /\ UNCHANGED <<meta, dockerVars, route, got, snap, opVars>>

Removal(d) == ListOld(d) \/ InspectNew(d) \/ RemoveOld(d) \/ RemovalDone(d) \/ RemoveThrows(d)

(***************************************************************************)
(* convergeProxy.                                                          *)
(***************************************************************************)

\* The upstream of the production domain: the port of the latest succeeded row.
Upstream == IF Succeeded = {} THEN NoPort ELSE meta[Latest]

AfterConverge(c) == IF c \in Deployments THEN "remove" ELSE IF c \in Requests THEN "done" ELSE "idle"

Converging == {c \in Callers : At(c, "convWait") \/ At(c, "convLoad")}

ConvergeElsewhere(c) ==
  /\ c \in Others
  /\ At(c, "idle")
  /\ Goto(c, "convWait")
  /\ UNCHANGED <<rowVars, dockerVars, route, got, snap, opVars>>

\* Inside the mutex the desired state is read from the rows,
ConvergeRead(c) ==
  /\ At(c, "convWait")
  /\ \A other \in Callers : ~At(other, "convLoad")
  /\ snap' = [snap EXCEPT ![c] = Upstream]
  /\ Goto(c, "convLoad")
  /\ UNCHANGED <<rowVars, dockerVars, route, got, opVars>>

\* and loaded as one configuration.
ConvergeLoad(c) ==
  /\ At(c, "convLoad")
  /\ route' = snap[c]
  /\ snap' = [snap EXCEPT ![c] = NoPort]
  /\ Goto(c, AfterConverge(c))
  /\ UNCHANGED <<rowVars, dockerVars, got, opVars>>

\* The ping or the load fails: every caller swallows the error and goes on.
ConvergeFails(c) ==
  /\ CaddyFails
  /\ \/ At(c, "convLoad")
     \/ At(c, "convWait") /\ \A other \in Callers : ~At(other, "convLoad")
  /\ snap' = [snap EXCEPT ![c] = NoPort]
  /\ Goto(c, AfterConverge(c))
  /\ UNCHANGED <<rowVars, dockerVars, route, got, opVars>>

(***************************************************************************)
(* stop, start, restart, and refreshAppRoute after the last two.  Each     *)
(* lists containers first and acts on what it listed.                      *)
(***************************************************************************)
Forgets(o) == todo' = [todo EXCEPT ![o] = {}]

ListUp(o, phase) ==
  /\ todo' = [todo EXCEPT ![o] = up]
  /\ Goto(o, phase)
  /\ UNCHANGED <<rowVars, dockerVars, route, got, snap, keep, spared, dep>>

ListsForOp(o) ==
  /\ At(o, "idle")
  /\ \/ up # {} /\ (ListUp(o, "stop") \/ ListUp(o, "restart"))
     \/ up = {} /\ (ListUp(o, "done") \/ ListUp(o, "refresh"))
     \/ /\ Existing # {}
        /\ todo' = [todo EXCEPT ![o] = Existing]
        /\ Goto(o, "start")
        /\ UNCHANGED <<rowVars, dockerVars, route, got, snap, keep, spared, dep>>

StopApp(o) ==
  /\ At(o, "stop")
  /\ \E S \in Reached(todo[o]) : /\ up' = up \ S
                               /\ port' = [n \in Names |-> IF n \in S THEN NoPort ELSE port[n]]
  /\ Goto(o, "done")
  /\ Forgets(o)
  /\ UNCHANGED <<rowVars, ctr, route, got, snap, keep, spared, dep>>

\* What was removed since it was listed does not start.
StartApp(o) ==
  /\ At(o, "start")
  /\ \E S \in Reached(todo[o] \cap Existing) : up' = up \cup S /\ port' \in PortsFor(S \ up)
  /\ Goto(o, "refresh")
  /\ Forgets(o)
  /\ UNCHANGED <<rowVars, ctr, route, got, snap, keep, spared, dep>>

\* docker restart also starts what was stopped since it was listed.
RestartApp(o) ==
  /\ At(o, "restart")
  /\ \E S \in Reached(todo[o] \cap Existing) : up' = up \cup S /\ port' \in PortsFor(S)
  /\ Goto(o, "refresh")
  /\ Forgets(o)
  /\ UNCHANGED <<rowVars, ctr, route, got, snap, keep, spared, dep>>

ListsForPort(o) == At(o, "refresh") /\ ListUp(o, "read")

\* The first container that still publishes the application's port gives the new one.
ReadLivePort(o) ==
  /\ At(o, "read")
  /\ \/ \E n \in todo[o] \cap up : got' = [got EXCEPT ![o] = port[n]] /\ Goto(o, "select")
     \/ todo[o] \cap up = {} /\ Goto(o, "convWait") /\ UNCHANGED got
  /\ Forgets(o)
  /\ UNCHANGED <<rowVars, dockerVars, route, snap, keep, spared, dep>>

\* The latest succeeded row is looked up,
SelectRow(o) ==
  /\ At(o, "select")
  /\ \/ /\ Succeeded = {}
        /\ Goto(o, "convWait")
        /\ UNCHANGED dep
     \/ /\ Succeeded # {}
        /\ dep' = [dep EXCEPT ![o] = Latest]
        /\ Goto(o, "stamp")
  /\ UNCHANGED <<rowVars, dockerVars, route, got, snap, todo, keep, spared>>

\* Faulty: the proxy is not converged afterwards.
StampOnly(o) ==
  /\ At(o, "stamp")
  /\ meta' = [meta EXCEPT ![dep[o]] = got[o]]
  /\ Goto(o, "done")
  /\ UNCHANGED <<row, finishedAt, dockerVars, route, got, snap, opVars>>

\* and the port is written to it, whichever row is the latest by now.
StampLivePort(o) ==
  /\ At(o, "stamp")
  /\ meta' = [meta EXCEPT ![dep[o]] = got[o]]
  /\ Goto(o, "convWait")
  /\ UNCHANGED <<row, finishedAt, dockerVars, route, got, snap, opVars>>

Pipeline(d)  == \/ Create(d) \/ Begin(d) \/ UpFails(d) \/ Run(d) \/ HealthOk(d) \/ Discard(d)
                \/ WriteSucceeded(d) \/ Removal(d)
Converge(c)  == ConvergeElsewhere(c) \/ ConvergeRead(c) \/ ConvergeLoad(c) \/ ConvergeFails(c)
Lifecycle(o) == \/ ListsForOp(o) \/ StopApp(o) \/ StartApp(o) \/ RestartApp(o)
                \/ ListsForPort(o) \/ ReadLivePort(o) \/ SelectRow(o) \/ StampLivePort(o)

RolloutNext == \/ \E d \in Deployments : Pipeline(d)
               \/ \E c \in Callers : Converge(c)
               \/ \E o \in Requests : Lifecycle(o)

RolloutSpec == RolloutInit /\ [][RolloutNext]_rolloutVars

(***************************************************************************)
(* Properties.                                                             *)
(***************************************************************************)

\* Deployments whose removal was not told which container to keep (executor.ts:144-149):
\* it removes the one that has just been routed to as well.
Unkept == {d \in Deployments : At(d, "rm") \/ At(d, "done")}
            \cap {d \in Succeeded : keep[d] = NoPort}

\* The zero-downtime swap: once the domain is routed it is routed to a running
\* container that answers (executor.ts:126, 498), unless that one was not kept.
ZeroDowntime == route # NoPort => Answers(route) \/ \E d \in Unkept : route = meta[d]

\* The health gate: Caddy is never switched to a running container that does
\* not answer; a bad new one never replaces a working one (executor.ts:575).
GateHolds == route' # route => \A n \in up' : port'[n] = route' => ctr'[n] = "good"

\* "Route to the new container, THEN remove the old one(s)" (executor.ts:630).
RoutedBeforeRemoval == \A d \in Deployments : pc[d] \in Removing => route = meta[d]

\* The swap as a whole: no step leaves the domain without a container that answers,
\* switches to one that does not, or removes anything before the switch.
SeamlessSwap == [][ZeroDowntime' /\ RoutedBeforeRemoval' /\ GateHolds]_rolloutVars

\* When no converge is under way Caddy has what the rows say: a stale snapshot
\* is never the last one loaded (converge.ts:109-110), however stops, starts, restarts
\* and pipelines overlap.
LastLoadIsFresh == Converging = {} => route = Upstream

Quiet == \A d \in Deployments : pc[d] \in {"idle", "done"}

\* The swap leaves the container of the deployment that just succeeded and no
\* other, whatever earlier failures left behind (executor.ts:124-127), but for those
\* that docker did not list or did not remove.
SwapReaps ==
  Quiet => \A d \in Succeeded :
             (\A e \in Deployments : finishedAt[e] <= finishedAt[d]) =>
               Existing \subseteq {NameOf[d]} \cup spared[d]

\* With no pipeline under way the application that was deployed last, and that
\* nobody stopped, is up, unless its own removal was not told what to keep.
LatestIsUp ==
  Quiet /\ Succeeded # {} /\ Latest \notin Unkept
    => NameOf[Latest] \in up /\ ctr[NameOf[Latest]] = "good"

\* The rollout implements Serving: the deployment that serves is the succeeded one whose
\* container answers at the routed port.
Serves(d)   == d \in Succeeded /\ NameOf[d] \in up /\ ctr[NameOf[d]] = "good" /\ port[NameOf[d]] = route
ServingNow  == IF \E d \in Deployments : Serves(d) THEN CHOOSE d \in Deployments : Serves(d) ELSE NoPort
ReplacedNow == {d \in Succeeded : pc[d] \in Removing \cup {"done"}} \ {ServingNow}
Abstract == INSTANCE Serving WITH
  Nobody   <- NoPort,
  serving  <- ServingNow,
  replaced <- ReplacedNow,
  unkept   <- Unkept
ServingSpec == Abstract!ServingSpec
=============================================================================
