------------------------------- MODULE MCUpkeep -------------------------------
(***************************************************************************)
(* What the control plane must get done by itself, over smaller instances: *)
(* bootstraps end, updates come back, the watchers page, runs of backups   *)
(* end, mail domains are verified.  As in MCHosts a behaviour is one of a  *)
(* single component.                                                       *)
(***************************************************************************)
EXTENDS Servers, Updater, Watchers, Backups, MailDomains

VARIABLE focus

UpkeepInit ==
  /\ focus \in {"servers", "updater", "watchers", "backups", "mail"}
  /\ ServersInit /\ UpdaterInit /\ WatchersInit /\ BackupsInit /\ MailDomainsInit
  /\ focus # "backups" => runKind = "logical"
  /\ focus # "updater" => link = "link"

UpkeepNext ==
  /\ UNCHANGED focus
  /\ \/ focus = "servers"  /\ UNCHANGED <<updaterVars, watchersVars, backupVars, mailDomainVars>> /\ ServersNext
     \/ focus = "updater"  /\ UNCHANGED <<serverVars, watchersVars, backupVars, mailDomainVars>> /\ UpdaterNext
     \/ focus = "watchers" /\ UNCHANGED <<serverVars, updaterVars, backupVars, mailDomainVars>> /\ WatchersNext
     \/ focus = "backups"  /\ UNCHANGED <<serverVars, updaterVars, watchersVars, mailDomainVars>> /\ BackupsNext
     \/ focus = "mail"     /\ UNCHANGED <<serverVars, updaterVars, watchersVars, backupVars>> /\ MailDomainsNext

\* The watchers run from the first state on, and so only where the behaviour is theirs;
\* nothing else that must go on is enabled before its component has begun.
UpkeepSpec ==
  /\ UpkeepInit /\ [][UpkeepNext]_<<focus, serverVars, updaterVars, watchersVars, backupVars, mailDomainVars>>
  /\ ServersFairness /\ UpdaterFairness /\ BackupsFairness /\ MailDomainsFairness
  /\ WF_watchersVars(focus = "watchers" /\ TimePasses) /\ WF_watchersVars(focus = "watchers" /\ ReconcileLists)
  /\ \A a \in WatchedApps : WF_watchersVars(ReconcileApp(a))

\* Every variable of every component has its type.
UpkeepTypeOK == ServersTypeOK /\ UpdaterTypeOK /\ WatchersTypeOK /\ BackupsTypeOK /\ MailDomainsTypeOK

=============================================================================
