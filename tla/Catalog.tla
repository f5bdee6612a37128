------------------------------- MODULE Catalog ------------------------------
(***************************************************************************)
(* One-click services of an organization: an install answers at once and   *)
(* goes on in the background, an uninstall takes the compose project down, *)
(* a mail instance is bound to a service.  An install is known by its row. *)
(***************************************************************************)
EXTENDS Naturals

CONSTANTS
  Services,        \* bound: installs
  NeedsDomain,     \* services whose template has a token that cannot be minted
  MailInstances,   \* bound: mail instances
  NoService,
  MaxCatalogFaults \* bound: commands and calls that fail, deaths of the process

ASSUME CatalogAssumption ==
  NeedsDomain \subseteq Services /\ NoService \notin Services /\ MaxCatalogFaults \in Nat

VARIABLES
  svcRow,       \* catalog_services
  installing,   \* the background install: where
  uninstalling, \* the uninstall: where
  stack,        \* the compose project is up
  mailOf,       \* mail_instances: the service each one is bound to
  catalogFaults

catalogVars == <<svcRow, installing, uninstalling, stack, mailOf, catalogFaults>>

SvcGone == "gone"

\* Rows of catalog_services and of mail_instances.
ServiceRow      == {"none", "installing", "running", "failed", SvcGone}
MailInstanceRow == Services \cup {NoService}

CatalogTypeOK ==
  /\ svcRow \in [Services -> ServiceRow]
  /\ installing \in [Services -> {"none", "files", "up", "mark-running", "mark-failed", "over"}]
  /\ uninstalling \in [Services -> {"none", "down", "delete", "over"}]
  /\ stack \in [Services -> BOOLEAN] /\ mailOf \in [MailInstances -> MailInstanceRow]
  /\ catalogFaults \in 0..MaxCatalogFaults

CatalogInit ==
  /\ svcRow = [s \in Services |-> "none"] /\ stack = [s \in Services |-> FALSE]
  /\ installing = svcRow /\ uninstalling = svcRow /\ mailOf = [m \in MailInstances |-> NoService]
  /\ catalogFaults = 0

CatalogFault == catalogFaults < MaxCatalogFaults /\ catalogFaults' = catalogFaults + 1
InstallTo(s, at)   == installing' = [installing EXCEPT ![s] = at]
UninstallTo(s, at) == uninstalling' = [uninstalling EXCEPT ![s] = at]
Installed(s)       == svcRow[s] \notin {"none", SvcGone}

\* A template with a token that needs a domain is refused.
Unsupported(s) == s \in NeedsDomain

InstallCatalogService(s) ==
  /\ svcRow[s] = "none" /\ ~Unsupported(s)
  /\ svcRow' = [svcRow EXCEPT ![s] = "installing"] /\ InstallTo(s, "files")
  /\ UNCHANGED <<uninstalling, stack, mailOf, catalogFaults>>

\* compose file and .env.
WriteProject(s) ==
  /\ installing[s] = "files"
  /\ \/ InstallTo(s, "up") /\ UNCHANGED catalogFaults
     \/ InstallTo(s, "mark-failed") /\ CatalogFault
  /\ UNCHANGED <<svcRow, uninstalling, stack, mailOf>>

\* What a compose up that fails has started stays; a project that was taken down in the
\* meantime comes up again.
ComposeUp(s) ==
  /\ installing[s] = "up"
  /\ \/ InstallTo(s, "mark-running") /\ stack' = [stack EXCEPT ![s] = TRUE] /\ UNCHANGED catalogFaults
     \/ InstallTo(s, "mark-failed") /\ stack' \in {stack, [stack EXCEPT ![s] = TRUE]} /\ CatalogFault
  /\ UNCHANGED <<svcRow, uninstalling, mailOf>>

\* A row that is gone is not updated; a write that fails is tried once more, as failed.
MarkInstalled(s) ==
  LET to == IF installing[s] = "mark-running" THEN "running" ELSE "failed" IN
  /\ installing[s] \in {"mark-running", "mark-failed"}
  /\ \/ /\ svcRow' = [svcRow EXCEPT ![s] = IF @ = SvcGone THEN SvcGone ELSE to]
        /\ InstallTo(s, "over") /\ UNCHANGED catalogFaults
     \/ /\ CatalogFault /\ UNCHANGED svcRow
        /\ InstallTo(s, IF to = "running" THEN "mark-failed" ELSE "over")
  /\ UNCHANGED <<uninstalling, stack, mailOf>>

UninstallCatalogService(s) ==
  /\ Installed(s) /\ uninstalling[s] # "down" /\ UninstallTo(s, "down")
  /\ UNCHANGED <<svcRow, installing, stack, mailOf, catalogFaults>>

\* compose down -v, whose result is not looked at.
ComposeDown(s) ==
  /\ uninstalling[s] = "down" /\ UninstallTo(s, "delete")
  /\ \/ stack' = [stack EXCEPT ![s] = FALSE] /\ UNCHANGED catalogFaults
     \/ CatalogFault /\ UNCHANGED stack
  /\ UNCHANGED <<svcRow, installing, mailOf>>

\* With the row go the mail instances that are bound to it.
DeleteService(s) ==
  /\ uninstalling[s] = "delete" /\ UninstallTo(s, "over")
  /\ svcRow' = [svcRow EXCEPT ![s] = SvcGone]
  /\ mailOf' = [m \in MailInstances |-> IF mailOf[m] = s THEN NoService ELSE mailOf[m]]
  /\ UNCHANGED <<installing, stack, catalogFaults>>

\* Any service of the organization will do, whatever its status.
ProvisionInstance(m, s) ==
  /\ mailOf[m] = NoService /\ Installed(s) /\ mailOf' = [mailOf EXCEPT ![m] = s]
  /\ UNCHANGED <<svcRow, installing, uninstalling, stack, catalogFaults>>

\* A command that the process has started may still end.
CatalogProcessDies ==
  /\ CatalogFault
  /\ \E ended \in SUBSET Services :
       stack' = [s \in Services |->
                   IF s \in ended /\ installing[s] = "up" THEN TRUE
                   ELSE IF s \in ended /\ uninstalling[s] = "down" THEN FALSE ELSE stack[s]]
  /\ installing' = [s \in Services |-> IF installing[s] = "none" THEN "none" ELSE "over"]
  /\ uninstalling' = [s \in Services |-> IF uninstalling[s] = "none" THEN "none" ELSE "over"]
  /\ UNCHANGED <<svcRow, mailOf>>

CatalogNext ==
  \/ \E s \in Services :
       \/ InstallCatalogService(s) \/ WriteProject(s) \/ ComposeUp(s) \/ MarkInstalled(s)
       \/ UninstallCatalogService(s) \/ ComposeDown(s) \/ DeleteService(s)
       \/ \E m \in MailInstances : ProvisionInstance(m, s)
  \/ CatalogProcessDies

CatalogSpec == CatalogInit /\ [][CatalogNext]_catalogVars

(***************************************************************************)
(* Properties.                                                             *)
(***************************************************************************)

\* "The row carries status/error" (catalog-services.service.ts:20-21): a service that is
\* said to run is up, unless someone has begun to uninstall it; a mail instance has the
\* row of its service.
RunningIsUp ==
  /\ \A s \in Services : svcRow[s] = "running" /\ uninstalling[s] = "none" => stack[s]
  /\ \A m \in MailInstances : mailOf[m] = NoService \/ Installed(mailOf[m])
=============================================================================
