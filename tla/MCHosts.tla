------------------------------- MODULE MCHosts -------------------------------
(***************************************************************************)
(* One run over the components that work on containers, hosts and archives *)
(* of one application: a worker server, previews, log viewers, backups, a  *)
(* WAL archive and restores from it, the cron rows and their expressions,  *)
(* the fan-out of events, the installer, the updates card and consoles.    *)
(* They share no state in the program, so a behaviour is one of a single   *)
(* component, which focus picks: the states are the sum of theirs, not the *)
(* product.  The topics of a log socket are two of them, the deployment's  *)
(* and the application's: they share only the socket.                      *)
(***************************************************************************)
EXTENDS Servers, Previews, LogStream, Backups, PhysicalBackups, CronJobs, Notify, Installer,
        UpdatesCard, Console

VARIABLE focus

\* Years of two months, every other one leap.
TwoYears == <<3, 2, 3, 3>>

HostsInit ==
  /\ focus \in {"servers", "previews", "logs", "tail", "backups", "wal", "restore", "cron", "notify", "installer", "card",
               "expr", "console"}
  /\ ServersInit /\ PreviewInit /\ LogInit /\ BackupsInit /\ WalInit /\ PitrInit /\ CronInit /\ NotifyInit
  /\ InstallerInit /\ UpdatesCardInit /\ ConsoleInit
  /\ focus # "card" => topic = "update"
  /\ focus # "backups" => runKind = "logical"
  /\ focus # "restore" => asRoot
  /\ focus # "cron" => entry = {}
  /\ focus # "console" => native
  /\ \/ focus = "expr" /\ CronExprInit
     \/ focus # "expr" /\ expr = <<>> /\ after = 0 /\ cursor = 1 /\ nextRun = [at |-> "malformed", t |-> 0]

HostsNext ==
  /\ UNCHANGED focus
  /\ \/ /\ focus = "servers" /\ UNCHANGED <<previewVars, logVars, backupVars, walVars, pitrVars, cronVars, notifyVars, installerVars, updatesCardVars, cronExprVars, consoleVars>>
        /\ ServersNext
     \/ /\ focus = "previews" /\ UNCHANGED <<serverVars, logVars, backupVars, walVars, pitrVars, cronVars, notifyVars, installerVars, updatesCardVars, cronExprVars, consoleVars>>
        /\ PreviewNext
     \/ /\ focus = "logs" /\ UNCHANGED <<serverVars, previewVars, backupVars, walVars, pitrVars, cronVars, notifyVars, installerVars, updatesCardVars, cronExprVars, consoleVars, appVars>>
        /\ LogNext
     \/ /\ focus = "tail" /\ UNCHANGED <<serverVars, previewVars, backupVars, walVars, pitrVars, cronVars, notifyVars, installerVars, updatesCardVars, cronExprVars, consoleVars, writerVars>>
        /\ LogNext
     \/ /\ focus = "backups" /\ UNCHANGED <<serverVars, previewVars, logVars, walVars, pitrVars, cronVars, notifyVars, installerVars, updatesCardVars, cronExprVars, consoleVars>>
        /\ BackupsNext
     \/ /\ focus = "wal" /\ UNCHANGED <<serverVars, previewVars, logVars, backupVars, pitrVars, cronVars, notifyVars, installerVars, updatesCardVars, cronExprVars, consoleVars>>
        /\ WalNext
     \/ /\ focus = "restore" /\ UNCHANGED <<serverVars, previewVars, logVars, backupVars, walVars, cronVars, notifyVars, installerVars, updatesCardVars, cronExprVars, consoleVars>>
        /\ PitrNext
     \/ /\ focus = "cron" /\ UNCHANGED <<serverVars, previewVars, logVars, backupVars, walVars, pitrVars, notifyVars, installerVars, updatesCardVars, cronExprVars, consoleVars>>
        /\ CronNext
     \/ /\ focus = "notify" /\ UNCHANGED <<serverVars, previewVars, logVars, backupVars, walVars, pitrVars, cronVars, installerVars, updatesCardVars, cronExprVars, consoleVars>>
        /\ NotifyNext
     \/ /\ focus = "installer" /\ UNCHANGED <<serverVars, previewVars, logVars, backupVars, walVars, pitrVars, cronVars, notifyVars, updatesCardVars, cronExprVars, consoleVars>>
        /\ InstallerNext
     \/ /\ focus = "card" /\ UNCHANGED <<serverVars, previewVars, logVars, backupVars, walVars, pitrVars, cronVars, notifyVars, installerVars, cronExprVars, consoleVars>>
        /\ UpdatesCardNext
     \/ /\ focus = "expr" /\ UNCHANGED <<serverVars, previewVars, logVars, backupVars, walVars, pitrVars, cronVars, notifyVars, installerVars, updatesCardVars, consoleVars>>
        /\ CronExprNext
     \/ /\ focus = "console" /\ UNCHANGED <<serverVars, previewVars, logVars, backupVars, walVars, pitrVars, cronVars, notifyVars, installerVars, updatesCardVars, cronExprVars>>
        /\ ConsoleNext

hostsVars == <<focus, serverVars, previewVars, logVars, backupVars, walVars, pitrVars, cronVars, notifyVars, installerVars,
               updatesCardVars, cronExprVars, consoleVars>>

HostsSpec == HostsInit /\ [][HostsNext]_hostsVars

\* Every variable of the component that moves has its type; those of the others never change.
HostsTypeOK ==
  /\ focus = "servers" => ServersTypeOK
  /\ focus = "previews" => PreviewTypeOK
  /\ focus \in {"logs", "tail"} => LogTypeOK
  /\ focus = "backups" => BackupsTypeOK
  /\ focus = "wal" => WalTypeOK
  /\ focus = "restore" => PitrTypeOK
  /\ focus = "cron" => CronTypeOK
  /\ focus = "notify" => NotifyTypeOK
  /\ focus = "installer" => InstallerTypeOK
  /\ focus = "card" => UpdatesCardTypeOK
  /\ focus = "expr" => CronExprTypeOK
  /\ focus = "console" => ConsoleTypeOK

\* A machine is usable when it is said to be: a worker server that is ready was prepared
\* by one bootstrap, a run of the installer that reports success has installed, the card
\* that applies an update announces what became of that one, and a shell in a container is
\* shared by those who watch it and lives no longer than they do.
MachinesAreSound == ServerIsSound /\ InstallRepairs /\ UpdatesCardIsTrue /\ ConsoleIsSound

\* What is archived can be restored: no segment is lost on its way, the archive has no gap
\* up to the LSN that a drain which succeeded records, and a restore that succeeds is of
\* the base and target it was asked for.
ArchiveRestores == NoWalGap /\ LsnIsArchived /\ RecoveredAsAsked

\* One row does not keep the others from what is theirs: at boot one schedule that fails
\* the other schedules, in a fan-out one target the other targets; and the next run that is
\* shown of an expression is the first within the year that is searched.
RowsIsolated == BootIsolatesRows /\ NobodyIsLeftOut /\ NextRunIsFirst
=============================================================================
