------------------------------- MODULE MCFlows -------------------------------
(***************************************************************************)
(* What must come about in the flows that a user watches, over smaller     *)
(* instances: triggers of deployments, previews, log lines, turns of the   *)
(* assistant, the pages that show deployments.  As in MCHosts a behaviour  *)
(* is one of a single component.                                           *)
(***************************************************************************)
EXTENDS Previews, LogStream, Chat, Triggers, DeployPages

VARIABLE flow

FlowsInit ==
  /\ flow \in {"previews", "logs", "chat", "triggers", "pages"}
  /\ PreviewInit /\ LogInit /\ ChatInit /\ TriggersInit /\ DeployPagesInit

FlowsNext ==
  /\ UNCHANGED flow
  /\ \/ flow = "previews" /\ UNCHANGED <<logVars, chatVars, triggersVars, deployPagesVars>> /\ PreviewNext
     \/ flow = "logs"     /\ UNCHANGED <<previewVars, chatVars, triggersVars, deployPagesVars>> /\ LogNext
     \/ flow = "chat"     /\ UNCHANGED <<previewVars, logVars, triggersVars, deployPagesVars>> /\ ChatNext
     \/ flow = "triggers" /\ UNCHANGED <<previewVars, logVars, chatVars, deployPagesVars>> /\ TriggersNext
     \/ flow = "pages"    /\ UNCHANGED <<previewVars, logVars, chatVars, triggersVars>> /\ DeployPagesNext

\* The poll runs from the first state on, and so only where the behaviour is the
\* triggers'; nothing else that must go on is enabled before its component has begun.
FlowsSpec ==
  /\ FlowsInit /\ [][FlowsNext]_<<flow, previewVars, logVars, chatVars, triggersVars, deployPagesVars>>
  /\ PreviewFairness /\ LogFairness /\ ChatFairness /\ DeployPagesFairness
  /\ WF_triggersVars(flow = "triggers" /\ PollStep) /\ \A a \in TrigApps : WF_triggersVars(DeployStep(a))

\* Every variable of every component has its type.
FlowsTypeOK == TriggersTypeOK /\ PreviewTypeOK /\ LogTypeOK /\ ChatTypeOK /\ DeployPagesTypeOK

\* A polled application gets to the commit the branch stays at (Triggers: HeadDeployed);
\* there is a commit from the first state on, so only a behaviour of the triggers counts.
PolledReachHead == flow = "triggers" => HeadDeployed

\* What a user watches ends: a preview that builds, a line on its way to the table, a
\* turn of the assistant; and the pages come to show how a deployment ended.
FlowsEnd == BuildingEnds /\ LinesReachTable /\ TurnEnds /\ DashboardSettles /\ DetailSettles
=============================================================================
