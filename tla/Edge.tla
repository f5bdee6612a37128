--------------------------------- MODULE Edge ---------------------------------
(***************************************************************************)
(* The edge that all applications share: the rows of domains, succeeded    *)
(* deployments and previews, and the whole configuration that a converge   *)
(* builds from them and loads into Caddy.  Changes do not wait for their   *)
(* converge, converges wait for each other, and the rows are read one by   *)
(* one.  Rollout has what happens within one application.                  *)
(***************************************************************************)
EXTENDS Naturals, Sequences, FiniteSets

CONSTANTS
  EdgeApps, NoApp,
  Hosts,
  CpHost,       \* the host of AUTH_URL; nothing keeps an application from asking for it
  PreviewHost,  \* the host of each application's preview
  MaxChanges,   \* bound: changes of the rows
  MaxEdgeFaults \* bound: converges that fail, and restarts

ASSUME EdgeAssumption ==
  /\ IsFiniteSet(EdgeApps) /\ EdgeApps # {}
  /\ NoApp \notin EdgeApps /\ CpHost \in Hosts /\ PreviewHost \in [EdgeApps -> Hosts]
  /\ {MaxChanges, MaxEdgeFaults} \subseteq Nat

VARIABLES
  domainOf,     \* rows of domains: the application of each host
  livePort,     \* the port of an application's latest succeeded deployment, if there is one
  previewPort,  \* the port of its running preview, if there is one
  appsThere,    \* rows of applications
  tearing,      \* applications whose preview is closed and not torn down
  waitingLoads, \* converges that wait for the mutex
  phase,        \* where the one inside is
  lookups,      \* rows it has still to look up
  draft,        \* the routes it has found
  loaded,       \* Caddy's routes
  missed,       \* a converge failed since the last that did not
  changes, edgeFaults

edgeRows == <<domainOf, livePort, previewPort, appsThere, tearing>>
edgeVars == <<edgeRows, waitingLoads, phase, lookups, draft, loaded, missed, changes, edgeFaults>>

\* Ports are told apart by the application and the change that opened them.
NoUpstream   == <<>>
ControlPlane == <<CpHost, 0>>
EdgePorts    == EdgeApps \X (0..MaxChanges)
Route(h, up) == [host |-> h, up |-> up]
CpRoute      == Route(CpHost, ControlPlane)

\* Rows of domains.
DomainRow == EdgeApps \cup {NoApp}

\* A route, and where the converge inside the mutex is.
RouteEntry == [host : Hosts, up : EdgePorts \cup {ControlPlane}]
MutexPhase == {"idle", "domains", "load"}

EdgeTypeOK ==
  /\ domainOf \in [Hosts -> DomainRow] /\ appsThere \subseteq EdgeApps /\ tearing \subseteq EdgeApps
  /\ livePort \in [EdgeApps -> EdgePorts \cup {NoUpstream}] /\ previewPort \in [EdgeApps -> EdgePorts \cup {NoUpstream}]
  /\ waitingLoads \in Nat /\ phase \in MutexPhase /\ missed \in BOOLEAN
  /\ lookups \subseteq Hosts \X EdgeApps
  /\ {draft, loaded} \subseteq Seq(RouteEntry)
  /\ changes \in 0..MaxChanges /\ edgeFaults \in 0..MaxEdgeFaults

\* The boot, before anything was deployed or with all applications running and a domain of
\* each host but the dashboard's.
EdgeInit ==
  /\ \/ domainOf = [h \in Hosts |-> NoApp] /\ livePort = [a \in EdgeApps |-> NoUpstream]
     \/ /\ domainOf = [h \in Hosts |-> IF h = CpHost THEN NoApp ELSE CHOOSE a \in EdgeApps : TRUE]
        /\ livePort = [a \in EdgeApps |-> <<a, 0>>]
  /\ previewPort = [a \in EdgeApps |-> NoUpstream] /\ appsThere = EdgeApps /\ tearing = {}
  /\ waitingLoads = 1 /\ phase = "idle" /\ lookups = {} /\ draft = <<>> /\ loaded = <<>> /\ missed = FALSE
  /\ changes = 0 /\ edgeFaults = 0

(***************************************************************************)
(* Changes of the rows, each with its converge.                            *)
(***************************************************************************)
Change == changes < MaxChanges /\ changes' = changes + 1

Reconverge ==
  waitingLoads' = waitingLoads + 1 /\ UNCHANGED <<phase, lookups, draft, loaded, missed, edgeFaults>>

\* A host has one row over all organizations: another insert is a conflict.
AddDomain(a, h) ==
  /\ Change /\ a \in appsThere /\ domainOf[h] = NoApp
  /\ domainOf' = [domainOf EXCEPT ![h] = a] /\ Reconverge
  /\ UNCHANGED <<livePort, previewPort, appsThere, tearing>>

RemoveDomain(h) ==
  /\ Change /\ domainOf[h] # NoApp
  /\ domainOf' = [domainOf EXCEPT ![h] = NoApp] /\ Reconverge
  /\ UNCHANGED <<livePort, previewPort, appsThere, tearing>>

\* A deployment succeeds, or a restart moves the port.
ServeOn(a) ==
  /\ Change /\ a \in appsThere
  /\ livePort' = [livePort EXCEPT ![a] = <<a, changes'>>] /\ Reconverge
  /\ UNCHANGED <<domainOf, previewPort, appsThere, tearing>>

RunPreview(a) ==
  /\ Change /\ a \in appsThere
  /\ previewPort' = [previewPort EXCEPT ![a] = <<a, changes'>>] /\ Reconverge
  /\ UNCHANGED <<domainOf, livePort, appsThere, tearing>>

\* The webhook closes the row; the teardown converges after it has removed the container.
ClosePreview(a) ==
  /\ Change /\ previewPort[a] # NoUpstream
  /\ previewPort' = [previewPort EXCEPT ![a] = NoUpstream] /\ tearing' = tearing \cup {a}
  /\ UNCHANGED <<domainOf, livePort, appsThere, waitingLoads, phase, lookups, draft, loaded, missed, edgeFaults>>

TearDown(a) ==
  /\ a \in tearing /\ tearing' = tearing \ {a} /\ Reconverge
  /\ UNCHANGED <<domainOf, livePort, previewPort, appsThere, changes>>

\* Its domains, deployments and previews go with it.
RemoveApp(a) ==
  /\ Change /\ a \in appsThere /\ appsThere' = appsThere \ {a}
  /\ domainOf' = [h \in Hosts |-> IF domainOf[h] = a THEN NoApp ELSE domainOf[h]]
  /\ livePort' = [livePort EXCEPT ![a] = NoUpstream] /\ previewPort' = [previewPort EXCEPT ![a] = NoUpstream]
  /\ Reconverge /\ UNCHANGED tearing

(***************************************************************************)
(* convergeProxy.                                                          *)
(***************************************************************************)

\* The head of the queue enters: Caddy answers, and the domains are read.
LoadDomainEntries ==
  /\ phase = "idle" /\ waitingLoads > 0 /\ waitingLoads' = waitingLoads - 1
  /\ phase' = "domains" /\ draft' = <<>>
  /\ lookups' = {r \in Hosts \X EdgeApps : domainOf[r[1]] = r[2]}
  /\ UNCHANGED <<edgeRows, loaded, missed, changes, edgeFaults>>

\* A row's deployment is read; one without a port gets no route.
LookUp(h, a, port) ==
  /\ <<h, a>> \in lookups /\ lookups' = lookups \ {<<h, a>>}
  /\ draft' = IF port = NoUpstream THEN draft ELSE Append(draft, Route(h, port))
  /\ UNCHANGED <<edgeRows, waitingLoads, phase, loaded, missed, changes, edgeFaults>>

LookUpDomain == \E h \in Hosts, a \in EdgeApps : LookUp(h, a, livePort[a])

\* The running previews, in any order; the port of a deployment of a preview never changes.
LoadPreviewEntries ==
  /\ phase = "domains" /\ lookups = {} /\ phase' = "load"
  /\ LET running == {a \in EdgeApps : previewPort[a] # NoUpstream} IN
     \E order \in [1..Cardinality(running) -> running] :
       /\ \A a \in running : \E i \in DOMAIN order : order[i] = a
       /\ draft' = draft \o [i \in DOMAIN order |-> Route(PreviewHost[order[i]], previewPort[order[i]])]
  /\ UNCHANGED <<edgeRows, waitingLoads, lookups, loaded, missed, changes, edgeFaults>>

\* The control plane's route, those of the domains, those of the previews, as one configuration.
DoConverge ==
  /\ phase = "load" /\ phase' = "idle"
  /\ loaded' = <<CpRoute>> \o draft /\ draft' = <<>> /\ missed' = FALSE
  /\ UNCHANGED <<edgeRows, waitingLoads, lookups, changes, edgeFaults>>

Fault == edgeFaults < MaxEdgeFaults /\ edgeFaults' = edgeFaults + 1

\* Caddy does not answer or refuses: the caller logs it, and nobody tries again.
ConvergeSkipped ==
  /\ Fault /\ missed' = TRUE
  /\ \/ phase = "idle" /\ waitingLoads > 0 /\ waitingLoads' = waitingLoads - 1 /\ UNCHANGED phase
     \/ phase = "load" /\ phase' = "idle" /\ UNCHANGED waitingLoads
  /\ draft' = <<>>
  /\ UNCHANGED <<edgeRows, lookups, loaded, changes>>

\* The control plane restarts: Caddy keeps what it has, and the boot converges.
EdgeRestart ==
  /\ Fault /\ waitingLoads' = 1 /\ phase' = "idle" /\ lookups' = {} /\ draft' = <<>> /\ tearing' = {}
  /\ UNCHANGED <<domainOf, livePort, previewPort, appsThere, loaded, missed, changes>>

EdgeNext ==
  \/ \E a \in EdgeApps, h \in Hosts : AddDomain(a, h)
  \/ \E h \in Hosts : RemoveDomain(h)
  \/ \E a \in EdgeApps : ServeOn(a) \/ RunPreview(a) \/ ClosePreview(a) \/ TearDown(a) \/ RemoveApp(a)
  \/ LoadDomainEntries \/ LookUpDomain \/ LoadPreviewEntries \/ DoConverge
  \/ ConvergeSkipped \/ EdgeRestart

(***************************************************************************)
(* Properties.                                                             *)
(***************************************************************************)

\* Routes are terminal: the first of a host is its route.
Served(h) ==
  IF \A i \in DOMAIN loaded : loaded[i].host # h THEN NoUpstream
  ELSE loaded[CHOOSE i \in DOMAIN loaded : loaded[i].host = h /\ \A j \in 1..i - 1 : loaded[j].host # h].up

\* What the rows say of a host: a domain goes before a preview of the same host, and of
\* previews with one host any may come first.
Deserved(h) ==
  LET a        == domainOf[h]
      previews == {previewPort[b] : b \in {c \in EdgeApps : PreviewHost[c] = h}} \ {NoUpstream} IN
  IF h = CpHost THEN {ControlPlane}
  ELSE IF a # NoApp /\ livePort[a] # NoUpstream THEN {livePort[a]}
  ELSE IF previews # {} THEN previews ELSE {NoUpstream}

\* Once no converge is under way or was skipped, every host is served by what its row
\* says, whoever changed which rows beside the reading of them: a removed domain and a
\* deleted application are served no more, and a preview never takes the place of a domain
\* that is served (converge.ts:18-20, 109-110).
EdgeServesTheRows ==
  waitingLoads = 0 /\ phase = "idle" /\ tearing = {} /\ ~missed => \A h \in Hosts : Served(h) \in Deserved(h)

\* Whatever domains and previews ask for the dashboard's host, the dashboard keeps it
\* (control-plane.ts:10-16).
DashboardKeepsItsHost == loaded # <<>> => Served(CpHost) = ControlPlane
===============================================================================
