------------------------------ MODULE Previews ------------------------------
(***************************************************************************)
(* Preview environments of one application: the pull-request webhook and   *)
(* its per-application limit, the preview rows, the preview deployments    *)
(* and the production deployments that share the slot, the queue and the   *)
(* container label with them, the teardown, and the hourly sweeper.        *)
(*                                                                         *)
(* A container's host port is named by the deployment that started it, so  *)
(* a route is a deployment.  A converge is one step here, and so is the     *)
(* removal of the old containers, with whatever docker refuses: Rollout has *)
(* the gaps inside them.                                                   *)
(***************************************************************************)
EXTENDS Naturals, FiniteSets

CONSTANTS
  PRs,           \* pull requests
  Deployments, NoDeployment,
  Main,          \* the kind of a production deployment
  PreviewLimit,  \* the application's previewLimit
  DockerFails,   \* "docker rm" and "docker inspect" may fail; nobody looks at their exit codes
  Mains,         \* bound: production deployments
  MaxEvents,     \* bound: pushes and openings of pull requests
  MaxAge         \* bound: 1 lets rows outlive the build budget, 2 the maximum age

ASSUME PreviewAssumption ==
  /\ NoDeployment \notin Deployments \cup PRs \cup {Main}
  /\ Main \notin PRs
  /\ PreviewLimit \in Nat \ {0}
  /\ DockerFails \in BOOLEAN
  /\ Mains \in Nat /\ MaxEvents \in Nat /\ MaxAge \in 0..2
  /\ IsFiniteSet(Deployments) /\ Cardinality(Deployments) >= Mains + MaxEvents

VARIABLES
  open,       \* the pull requests that are open at the provider
  events,     \* openings and pushes so far
  row,        \* status of each preview row
  link,       \* its deploymentId
  age,        \* since createdAt: 0 is fresh, 1 past the build budget, 2 past the age
  hook,       \* where the request that deploys a pull request's head is
  tear,       \* where the teardown of a preview is, for the webhook and the sweeper
  kind,       \* what a deployment deploys, once it is created
  offQueue,   \* those whose pipeline does not wait for the queue's worker
  pc,         \* where its pipeline is
  ctr,        \* the deployment whose container has the pull request's name
  prod,       \* the deployments with a running production container
  lastMain,   \* the production deployment that succeeded last
  route, prodRoute, \* Caddy: the deployment each domain is routed to
  crossed,    \* those of production whose pipeline runs, or ran, beside another one's
  harm        \* what production has done to itself, see Properties

caddyVars   == <<route, prodRoute, harm>>
deployVars  == <<kind, offQueue, pc, ctr, prod, lastMain, crossed>>
previewVars == <<open, events, row, link, age, hook, tear, deployVars, caddyVars>>

Actors == {"hook", "sweeper"}
Ports  == Deployments \cup {NoDeployment}
Active == {"queued", "up", "health"}

\* Rows of preview_environments.
PreviewRow == {"absent", "building", "running", "closed"}

PreviewTypeOK ==
  /\ open \subseteq PRs /\ events \in 0..MaxEvents
  /\ row \in [PRs -> PreviewRow]
  /\ link \in [PRs -> Ports]
  /\ age \in [PRs -> 0..MaxAge]
  /\ hook \in [PRs -> {"none", "count", "upsert", "create"}]
  /\ tear \in [PRs -> [Actors -> {"none", "mark", "remove", "unlink", "converge", "close"}]]
  /\ kind \in [Deployments -> PRs \cup {Main, NoDeployment}]
  /\ pc \in [Deployments -> Active \cup {"idle", "converge", "stamp", "sweep", "done"}]
  /\ ctr \in [PRs -> Ports]
  /\ prod \subseteq Deployments
  /\ lastMain \in Ports /\ route \in [PRs -> Ports] /\ prodRoute \in Ports
  /\ offQueue \subseteq Deployments /\ crossed \subseteq Deployments /\ harm \subseteq {"converge", "sweep"}

PreviewInit ==
  /\ open = {} /\ events = 0
  /\ row = [p \in PRs |-> "absent"]
  /\ link = [p \in PRs |-> NoDeployment]
  /\ age = [p \in PRs |-> 0]
  /\ hook = [p \in PRs |-> "none"]
  /\ tear = [p \in PRs |-> [a \in Actors |-> "none"]]
  /\ kind = [d \in Deployments |-> NoDeployment]
  /\ pc = [d \in Deployments |-> "idle"]
  /\ ctr = [p \in PRs |-> NoDeployment]
  /\ prod = {} /\ lastMain = NoDeployment /\ offQueue = {} /\ crossed = {} /\ harm = {}
  /\ route = [p \in PRs |-> NoDeployment] /\ prodRoute = NoDeployment

(***************************************************************************)
(* The pull-request webhook.                                               *)
(***************************************************************************)

\* opened, reopened, synchronize: the provider delivers the event.
Push(p) ==
  /\ events < MaxEvents
  /\ hook[p] = "none"
  /\ open' = open \cup {p}
  /\ events' = events + 1
  /\ hook' = [hook EXCEPT ![p] = "count"]
  /\ UNCHANGED <<row, link, age, tear, deployVars, caddyVars>>

Counted == Cardinality({p \in PRs : row[p] \notin {"absent", "closed"}})

\* The count of the rows that are not closed decides.
CountPreviews(p) ==
  /\ hook[p] = "count"
  /\ hook' = [hook EXCEPT ![p] = IF Counted >= PreviewLimit THEN "none" ELSE "upsert"]
  /\ UNCHANGED <<open, events, row, link, age, tear, deployVars, caddyVars>>

\* Faulty: the row waits for an orchestrator in a status of its own.
UpsertPending(p) ==
  /\ hook[p] = "upsert"
  /\ row' = [row EXCEPT ![p] = "pending"]
  /\ hook' = [hook EXCEPT ![p] = "create"]
  /\ UNCHANGED <<open, events, link, age, tear, deployVars, caddyVars>>

\* Only the insert sets createdAt; the update keeps it and the deploymentId.
UpsertRow(p) ==
  /\ hook[p] = "upsert"
  /\ row' = [row EXCEPT ![p] = "building"]
  /\ hook' = [hook EXCEPT ![p] = "create"]
  /\ UNCHANGED <<open, events, link, age, tear, deployVars, caddyVars>>

\* A new deployment: which of the unused ones makes no difference.
Fresh == CHOOSE d \in Deployments : kind[d] = NoDeployment

SlotTaken == \E d \in Deployments : pc[d] \in Active

\* createDeployment; then the queue takes it, or it runs inline: a push to production
\* always does, and a preview does without a queue, or with one that refuses it.
NewDeployment(k) ==
  /\ kind' = [kind EXCEPT ![Fresh] = k] /\ pc' = [pc EXCEPT ![Fresh] = "queued"]
  /\ offQueue' \in {offQueue, offQueue \cup {Fresh}}

\* A conflict is acknowledged and forgotten.
CreatePreview(p) ==
  /\ hook[p] = "create"
  /\ hook' = [hook EXCEPT ![p] = "none"]
  /\ IF SlotTaken THEN UNCHANGED <<kind, offQueue, pc>> ELSE NewDeployment(p)
  /\ UNCHANGED <<open, events, row, link, age, tear, ctr, prod, lastMain, crossed, caddyVars>>

\* closed: whatever the gates say.
CloseEvent(p) ==
  /\ p \in open
  /\ tear[p]["hook"] = "none"
  /\ open' = open \ {p}
  /\ tear' = [tear EXCEPT ![p]["hook"] = "mark"]
  /\ UNCHANGED <<events, row, link, age, hook, deployVars, caddyVars>>

(***************************************************************************)
(* teardownPreview, by the webhook, which closes the row first, or by the  *)
(* sweeper, which closes it at the end.                                    *)
(***************************************************************************)
Step(p, a, from, to) == tear[p][a] = from /\ tear' = [tear EXCEPT ![p][a] = to]

MarkClosed(p) ==
  /\ Step(p, "hook", "mark", "remove")
  /\ row' = [row EXCEPT ![p] = IF @ = "absent" THEN @ ELSE "closed"]
  /\ UNCHANGED <<open, events, link, age, hook, deployVars, caddyVars>>

RemoveContainer(p, a) ==
  /\ Step(p, a, "remove", "unlink")
  /\ \/ ctr' = [ctr EXCEPT ![p] = NoDeployment]
     \/ DockerFails /\ UNCHANGED ctr
  /\ UNCHANGED <<open, events, row, link, age, hook, kind, offQueue, pc, prod, lastMain, crossed, caddyVars>>

Unlink(p, a) ==
  /\ Step(p, a, "unlink", "converge")
  /\ link' = [link EXCEPT ![p] = NoDeployment]
  /\ UNCHANGED <<open, events, row, age, hook, deployVars, caddyVars>>

\* A running row with a linked deployment is routed to the deployment's port; the
\* production domain to the production deployment that succeeded last.
Routes == [p \in PRs |-> IF row[p] = "running" THEN link[p] ELSE NoDeployment]
LoadsCaddy  == route' = Routes' /\ prodRoute' = lastMain'

\* Caddy may not be reached, whoever converges; nobody fails by it.
Converges == \/ LoadsCaddy /\ harm' = harm \ {"converge"}
             \/ UNCHANGED caddyVars

TearConverge(p, a) ==
  /\ Step(p, a, "converge", IF a = "hook" THEN "none" ELSE "close")
  /\ UNCHANGED <<open, events, row, link, age, hook, deployVars>>
  /\ Converges

SweptClose(p) ==
  /\ Step(p, "sweeper", "close", "none")
  /\ row' = [row EXCEPT ![p] = "closed"]
  /\ UNCHANGED <<open, events, link, age, hook, deployVars, caddyVars>>

PipelinesOf(p) == {d \in Deployments : kind[d] = p /\ pc[d] \notin {"idle", "done"}}

\* A row ages.  A build, its wait on the queue included, ends within the budget,
\* so a row does not leave the budget while its first one is under way.
Ages(p) ==
  /\ row[p] # "absent" /\ age[p] < MaxAge
  /\ PipelinesOf(p) = {} /\ hook[p] = "none"
  /\ age' = [age EXCEPT ![p] = @ + 1]
  /\ UNCHANGED <<open, events, row, link, hook, tear, deployVars, caddyVars>>

\* The sweeper's select.
SelectStale(p) ==
  /\ \/ row[p] = "building" /\ age[p] >= 1
     \/ row[p] = "running" /\ age[p] = 2
  /\ Step(p, "sweeper", "none", "remove")
  /\ UNCHANGED <<open, events, row, link, age, hook, deployVars, caddyVars>>

(***************************************************************************)
(* The deployments.  The queue's worker awaits one pipeline at a time;     *)
(* inline ones run beside it.                                              *)
(***************************************************************************)
Goto(d, phase) ==
  /\ pc' = [pc EXCEPT ![d] = phase]
  /\ offQueue' = IF phase = "done" THEN offQueue \ {d} ELSE offQueue
requestVars == <<open, events, age, hook, tear>>

CreateMain ==
  /\ Cardinality({d \in Deployments : kind[d] = Main}) < Mains
  /\ ~SlotTaken /\ NewDeployment(Main)
  /\ UNCHANGED <<requestVars, row, link, ctr, prod, lastMain, crossed, caddyVars>>

\* The pipelines past the queue and not over.
AtWork(d) == pc[d] \notin {"idle", "queued", "done"}
MainsBeside(d) == {e \in Deployments \ {d} : kind[e] = Main /\ AtWork(e)}

Begin(d) ==
  /\ pc[d] = "queued"
  /\ d \notin offQueue => \A e \in Deployments \ offQueue : ~AtWork(e)
  /\ Goto(d, "up")
  /\ crossed' = IF kind[d] = Main /\ MainsBeside(d) # {} THEN crossed \cup MainsBeside(d) \cup {d} ELSE crossed
  /\ UNCHANGED <<requestVars, row, link, kind, ctr, prod, lastMain, caddyVars>>

\* The container starts under the deployment's name; a preview's replaces the
\* one of the same pull request.
Up(d) ==
  /\ pc[d] = "up"
  /\ IF kind[d] = Main THEN prod' = prod \cup {d} /\ UNCHANGED ctr
                       ELSE ctr' = [ctr EXCEPT ![kind[d]] = d] /\ UNCHANGED prod
  /\ Goto(d, "health")
  /\ UNCHANGED <<requestVars, row, link, kind, lastMain, crossed, caddyVars>>

\* A failure before the container starts.
BuildFails(d) ==
  /\ pc[d] = "up"
  /\ Goto(d, "done")
  /\ UNCHANGED <<requestVars, row, link, kind, ctr, prod, lastMain, crossed, caddyVars>>

\* The new container is removed by its name; the preview row stays as it is.
HealthFails(d) ==
  /\ pc[d] = "health"
  /\ \/ IF kind[d] = Main THEN prod' = prod \ {d} /\ UNCHANGED ctr
                           ELSE ctr' = [ctr EXCEPT ![kind[d]] = NoDeployment] /\ UNCHANGED prod
     \/ DockerFails /\ UNCHANGED <<ctr, prod>>
  /\ Goto(d, "done")
  /\ UNCHANGED <<requestVars, row, link, kind, lastMain, crossed, caddyVars>>

\* Faulty: any deployment that succeeds becomes the upstream of the production domain.
SucceedsAny(d) ==
  /\ pc[d] = "health" /\ Goto(d, "converge") /\ lastMain' = d
  /\ UNCHANGED <<requestVars, row, link, kind, ctr, prod, crossed, caddyVars>>

\* The health gate passes, the success is written and the slot is free.  What a converge
\* reads for the production domain leaves the previews out.
Succeeds(d) ==
  /\ pc[d] = "health" /\ Goto(d, "converge")
  /\ lastMain' = IF kind[d] = Main THEN d ELSE lastMain
  /\ UNCHANGED <<requestVars, row, link, kind, ctr, prod, crossed, caddyVars>>

ConvergeSwap(d) ==
  /\ pc[d] = "converge"
  /\ Goto(d, IF kind[d] = Main THEN "sweep" ELSE "stamp")
  /\ UNCHANGED <<requestVars, row, link, kind, ctr, prod, lastMain, crossed>>
  /\ \/ kind[d] # Main /\ Converges
     \/ kind[d] = Main /\ LoadsCaddy /\ harm' = IF d \in crossed THEN harm \ {"converge"} ELSE {}
     \/ kind[d] = Main /\ UNCHANGED <<route, prodRoute>> /\ harm' = harm \cup {"converge"}

\* A preview's row is stamped, whatever its status, and the proxy converges; a
\* pull request without a row gets none.
StampPreview(d) ==
  /\ pc[d] = "stamp"
  /\ row' = [row EXCEPT ![kind[d]] = "running"]
  /\ link' = [link EXCEPT ![kind[d]] = d]
  /\ Goto(d, "done")
  /\ UNCHANGED <<requestVars, kind, ctr, prod, lastMain, crossed>>
  /\ Converges

\* removeAppContainers goes by the label, which the previews' containers carry, and spares
\* the one whose id docker inspect prints; what it lists and cannot remove stays.
SweepContainers(d) ==
  /\ pc[d] = "sweep"
  /\ \E spared \in {{d}, {}}, left \in SUBSET prod, kept \in SUBSET PRs :
       /\ ~DockerFails => spared = {d} /\ left \cup kept = {}
       /\ prod' = (prod \cap spared) \cup left
       /\ ctr' = [p \in PRs |-> IF p \in kept THEN ctr[p] ELSE NoDeployment]
       /\ harm' = IF spared = {} \/ d \in crossed THEN harm \cup {"sweep"} ELSE harm
  /\ Goto(d, "done")
  /\ crossed' = crossed \ {d}
  /\ UNCHANGED <<requestVars, row, link, kind, lastMain, route, prodRoute>>

Webhook(p)  == \/ CountPreviews(p) \/ UpsertRow(p) \/ CreatePreview(p) \/ MarkClosed(p)
Teardown(p) == \/ \E a \in Actors : RemoveContainer(p, a) \/ Unlink(p, a) \/ TearConverge(p, a)
               \/ SweptClose(p)
Pipeline(d) == \/ Begin(d) \/ Up(d) \/ BuildFails(d) \/ HealthFails(d) \/ Succeeds(d)
               \/ ConvergeSwap(d) \/ StampPreview(d) \/ SweepContainers(d)

PreviewNext ==
  \/ \E p \in PRs : \/ Push(p) \/ CloseEvent(p) \/ Webhook(p) \/ Teardown(p)
                    \/ Ages(p) \/ SelectStale(p)
  \/ CreateMain
  \/ \E d \in Deployments : Pipeline(d)

\* Requests and pipelines go on, time passes, and the sweeper comes every hour.
PreviewFairness ==
  /\ \A p \in PRs : /\ WF_previewVars(Webhook(p))
                    /\ WF_previewVars(Teardown(p))
                    /\ WF_previewVars(Ages(p))
                    /\ WF_previewVars(SelectStale(p))
  /\ \A d \in Deployments : WF_previewVars(Pipeline(d))

PreviewSpec == PreviewInit /\ [][PreviewNext]_previewVars /\ PreviewFairness

(***************************************************************************)
(* Properties.                                                             *)
(***************************************************************************)
\* Previews never disturb production, whatever of theirs fails: its domain stays routed to a
\* production container that runs (executor.ts:639-641, converge.ts:89-90), unless
\* production has harmed itself.  It has from a converge of a production deployment that
\* failed and was swallowed (executor.ts:632-637) until the next that loads; and from a
\* removal that could not inspect its own container (144-149), or ran in a pipeline beside
\* another production one, until a deployment that runs alone is routed.
ProductionServes == prodRoute # NoDeployment /\ harm = {} => prodRoute \in prod

\* No preview stays in "building" for ever: it runs or it is closed.
BuildingEnds == \A p \in PRs : row[p] = "building" ~> row[p] # "building"
=============================================================================
