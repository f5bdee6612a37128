------------------------------ MODULE Triggers ------------------------------
(***************************************************************************)
(* What starts a deployment by itself: the webhook of one application, the *)
(* webhook of the GitHub App that fans out over the applications bound to  *)
(* the repository, and the poll that compares the branch with the last     *)
(* commit deployed.  A deployment clones whatever the branch holds then.   *)
(* Commits are numbered as they are pushed.                                *)
(***************************************************************************)
EXTENDS Naturals

CONSTANTS
  TrigApps,     \* applications bound to the repository
  Polled,       \* those with gitPollEnabled
  MaxCommits,   \* bound: commits
  Unbuildable,  \* commits that do not build
  MaxFaults     \* bound: failures of the network, crashes, cancels, rollbacks, deleted branches

ASSUME TriggersAssumption ==
  /\ Polled \subseteq TrigApps /\ MaxCommits \in Nat \ {0}
  /\ Unbuildable \subseteq 1..MaxCommits /\ MaxFaults \in Nat

Commits == 1..MaxCommits
DefaultHead == MaxCommits + 1  \* what HEAD names when the branch is not there
Short(c) == DefaultHead + c    \* the seven characters of a commit in an image's tag

VARIABLES
  tip,         \* the last commit pushed
  branchUp,    \* the branch exists at the remote
  pasted,      \* the provider signs with the application's current secret
  deliveries,  \* pushes on their way, to an application's hook or to the App's,
               \* those left out whose signature would be refused
  fanTodo,     \* applications that handleAppInbound has still to consider
  active,      \* the active deployment of each application
  deployed,    \* commit_after of the last deployment that succeeded
  built,       \* the commits a rollback may name
  sweepTodo,   \* applications the poll has still to visit
  sweepAt,     \* where it is with the one it visits
  faults

branchVars   == <<tip, branchUp>>
hookVars     == <<pasted, deliveries, fanTodo>>
deployedVars == <<active, deployed, built>>
sweepVars    == <<sweepTodo, sweepAt>>
triggersVars == <<branchVars, hookVars, deployedVars, sweepVars, faults>>

NoDeploy == [at |-> "none", via |-> "none", commit |-> 0]
NoVisit  == [app |-> "none", at |-> "idle", found |-> 0]

TriggersTypeOK ==
  /\ tip \in Commits /\ branchUp \in BOOLEAN
  /\ pasted \in [TrigApps -> BOOLEAN] /\ deliveries \subseteq TrigApps \cup {"fleet"}
  /\ fanTodo \subseteq TrigApps
  /\ active \in [TrigApps -> [at : {"none", "queued", "orphan", "running", "fetched"},
                              via : {"none", "inline", "unsent", "boss"}, commit : 0..Short(MaxCommits)]]
  /\ deployed \in [TrigApps -> 0..Short(MaxCommits)] /\ built \in [TrigApps -> SUBSET Commits]
  /\ sweepTodo \subseteq Polled
  /\ sweepAt \in [app : Polled \cup {"none"}, at : {"idle", "listed", "drift", "send"},
                  found : 0..DefaultHead]
  /\ faults \in 0..MaxFaults

TriggersInit ==
  /\ tip = 1 /\ branchUp = TRUE
  /\ pasted = [a \in TrigApps |-> FALSE] /\ deliveries = {} /\ fanTodo = {}
  /\ active = [a \in TrigApps |-> NoDeploy]
  /\ deployed = [a \in TrigApps |-> 0] /\ built = [a \in TrigApps |-> {}]
  /\ sweepTodo = {} /\ sweepAt = NoVisit /\ faults = 0

Fault == faults < MaxFaults /\ faults' = faults + 1

(***************************************************************************)
(* The repository and the provider.                                        *)
(***************************************************************************)
PushCommit ==
  /\ tip < MaxCommits /\ tip' = tip + 1 /\ branchUp' = TRUE
  /\ deliveries' = deliveries \cup {a \in TrigApps : pasted[a]} \cup {"fleet"}
  /\ UNCHANGED <<pasted, fanTodo, deployedVars, sweepVars, faults>>

DeleteBranch ==
  /\ Fault /\ branchUp /\ branchUp' = FALSE
  /\ UNCHANGED <<tip, hookVars, deployedVars, sweepVars>>

\* A delivery is lost, or was the last of its redeliveries.
DropDelivery(d) ==
  /\ deliveries' = deliveries \ {d}
  /\ UNCHANGED <<branchVars, pasted, fanTodo, deployedVars, sweepVars, faults>>

PasteSecret(a) ==
  /\ pasted' = [pasted EXCEPT ![a] = TRUE]
  /\ UNCHANGED <<branchVars, deliveries, fanTodo, deployedVars, sweepVars, faults>>

\* Rotates in place: what is signed with the old secret will be refused.
EnsureWebhook(a) ==
  /\ pasted' = [pasted EXCEPT ![a] = FALSE] /\ deliveries' = deliveries \ {a}
  /\ UNCHANGED <<branchVars, fanTodo, deployedVars, sweepVars, faults>>

(***************************************************************************)
(* Deployments: one active per application, or a conflict.                 *)
(***************************************************************************)
Opens(a, via) ==
  /\ active[a].at = "none"
  /\ active' = [active EXCEPT ![a] = [at |-> "queued", via |-> via, commit |-> 0]]

\* A push during an active deployment is answered and forgotten.
OpensOrConflict(a, via) == Opens(a, via) \/ (active[a].at # "none" /\ UNCHANGED active)

DeployStarts(a) ==
  /\ active[a].at = "queued" /\ active[a].via # "unsent"
  /\ active' = [active EXCEPT ![a].at = "running"]
  /\ UNCHANGED <<branchVars, hookVars, deployed, built, sweepVars, faults>>

DeployFetches(a) ==
  /\ active[a].at = "running"
  /\ active' = [active EXCEPT ![a] = IF branchUp THEN [@ EXCEPT !.at = "fetched", !.commit = tip]
                                     ELSE NoDeploy]
  /\ UNCHANGED <<branchVars, hookVars, deployed, built, sweepVars, faults>>

DeployEnds(a) ==
  /\ active[a].at = "fetched" /\ active' = [active EXCEPT ![a] = NoDeploy]
  /\ IF active[a].commit \in Unbuildable THEN UNCHANGED <<deployed, built>>
     ELSE /\ deployed' = [deployed EXCEPT ![a] = active[a].commit]
          /\ built' = [built EXCEPT ![a] = @ \cup ({active[a].commit} \cap Commits)]
  /\ UNCHANGED <<branchVars, hookVars, sweepVars, faults>>

\* It fails for a reason of its own, or the operator cancels it, an orphan too.
DeployFails(a) ==
  /\ Fault /\ active[a].at # "none" /\ active' = [active EXCEPT ![a] = NoDeploy]
  /\ UNCHANGED <<branchVars, hookVars, deployed, built, sweepVars>>

\* Runs an image again; commit_after will be what follows the colon of its tag.
RollBack(a) ==
  /\ Fault /\ active[a].at = "none"
  /\ \E c \in built[a] : active' = [active EXCEPT ![a] = [at |-> "fetched", via |-> "boss", commit |-> Short(c)]]
  /\ UNCHANGED <<branchVars, hookVars, deployed, built, sweepVars>>

(***************************************************************************)
(* Webhooks.                                                               *)
(***************************************************************************)

\* Nothing remembers the delivery: it may come again.
HandleInbound(a) ==
  /\ a \in deliveries /\ OpensOrConflict(a, "inline")
  /\ UNCHANGED <<branchVars, hookVars, deployed, built, sweepVars, faults>>

HandleAppInbound ==
  /\ "fleet" \in deliveries /\ fanTodo = {} /\ fanTodo' = TrigApps
  /\ UNCHANGED <<branchVars, pasted, deliveries, deployedVars, sweepVars, faults>>

\* One application after the other; an error ends the request for those left.
FanOut(a) ==
  /\ a \in fanTodo
  /\ \/ OpensOrConflict(a, "inline") /\ fanTodo' = fanTodo \ {a} /\ UNCHANGED faults
     \/ Fault /\ fanTodo' = {} /\ UNCHANGED active
  /\ UNCHANGED <<branchVars, pasted, deliveries, deployed, built, sweepVars>>

(***************************************************************************)
(* The poll.                                                               *)
(***************************************************************************)
PollTick ==
  /\ sweepTodo = {} /\ sweepAt = NoVisit /\ sweepTodo' = Polled
  /\ UNCHANGED <<branchVars, hookVars, deployedVars, sweepAt, faults>>

\* git ls-remote; parseLsRemoteHead falls back to HEAD.
PollLists ==
  /\ sweepAt = NoVisit
  /\ \E a \in sweepTodo :
       /\ sweepTodo' = sweepTodo \ {a}
       /\ \/ /\ sweepAt' = [app |-> a, at |-> "listed", found |-> IF branchUp THEN tip ELSE DefaultHead]
             /\ UNCHANGED faults
          \/ Fault /\ UNCHANGED sweepAt
  /\ UNCHANGED <<branchVars, hookVars, deployedVars>>

PollDecides(last) ==
  /\ sweepAt.at = "listed"
  /\ sweepAt' = IF sweepAt.found = last THEN NoVisit ELSE [sweepAt EXCEPT !.at = "drift"]
  /\ UNCHANGED <<branchVars, hookVars, deployedVars, sweepTodo, faults>>

\* Faulty: any commit that was deployed once is an old one.
PollComparesWithHistory ==
  sweepAt.at = "listed"
  /\ PollDecides(IF sweepAt.found \in built[sweepAt.app] THEN sweepAt.found ELSE deployed[sweepAt.app])

PollCompares == sweepAt.at = "listed" /\ PollDecides(deployed[sweepAt.app])

PollCreates ==
  /\ sweepAt.at = "drift"
  /\ \/ Opens(sweepAt.app, "unsent") /\ sweepAt' = [sweepAt EXCEPT !.at = "send"]
     \/ active[sweepAt.app].at # "none" /\ sweepAt' = NoVisit /\ UNCHANGED active
  /\ UNCHANGED <<branchVars, hookVars, deployed, built, sweepTodo, faults>>

\* dispatchDeploy: a job, or run inline when it cannot be sent.
PollSends ==
  /\ sweepAt.at = "send" /\ sweepAt' = NoVisit
  /\ \E via \in {"boss", "inline"} :
       active' = [active EXCEPT ![sweepAt.app].via = IF active[sweepAt.app].at = "queued" THEN via ELSE @]
  /\ UNCHANGED <<branchVars, hookVars, deployed, built, sweepTodo, faults>>

\* The boot sweep fails what ran; a queued row without a job is left as it is.
TriggersRestart ==
  /\ Fault /\ fanTodo' = {} /\ sweepTodo' = {} /\ sweepAt' = NoVisit
  /\ active' = [a \in TrigApps |->
       IF active[a].at \in {"running", "fetched"} THEN NoDeploy
       ELSE IF active[a].at = "queued" /\ active[a].via # "boss" THEN [active[a] EXCEPT !.at = "orphan"]
       ELSE active[a]]
  /\ UNCHANGED <<branchVars, pasted, deliveries, deployed, built>>

DeployStep(a) == DeployStarts(a) \/ DeployFetches(a) \/ DeployEnds(a)
PollStep == PollTick \/ PollLists \/ PollCompares \/ PollCreates \/ PollSends

TriggersNext ==
  \/ PushCommit \/ DeleteBranch \/ PollStep \/ TriggersRestart
  \/ HandleAppInbound \/ \E d \in deliveries : DropDelivery(d)
  \/ \E a \in TrigApps : \/ PasteSecret(a) \/ EnsureWebhook(a) \/ HandleInbound(a) \/ FanOut(a)
                         \/ DeployStep(a) \/ DeployFails(a) \/ RollBack(a)

\* The cron ticks, a listing ends or times out, and the engine runs what it has.
TriggersFairness ==
  WF_triggersVars(PollStep) /\ \A a \in TrigApps : WF_triggersVars(DeployStep(a))

TriggersSpec == TriggersInit /\ [][TriggersNext]_triggersVars /\ TriggersFairness

(***************************************************************************)
(* Properties.                                                             *)
(***************************************************************************)

\* A polled application gets to the commit the branch stays at, whatever webhooks
\* were lost or dropped during a deployment, whatever failed on the way and was
\* rolled back; unless the commit does not build, the branch is gone, or a crash
\* left a queued row that nothing runs (git-poll.service.ts:15-18, 84).
HeadDeployed ==
  \A a \in Polled : \A c \in Commits \ Unbuildable :
    tip = c ~> deployed[a] = c \/ tip # c \/ ~branchUp \/ active[a].at = "orphan"
=============================================================================
