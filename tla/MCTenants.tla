------------------------------ MODULE MCTenants ------------------------------
(***************************************************************************)
(* One run over the components that hold what an organization owns: its    *)
(* members, invites and keys, the chat assistant and what it is shown, the *)
(* databases, replicas and database studio, the mailboxes, the mail page,  *)
(* an application's configuration and domains, the VCS connections and the *)
(* services of the catalog.  As in MCHosts a behaviour is one of a single  *)
(* component.                                                              *)
(***************************************************************************)
EXTENDS Access, Chat, Databases, Studio, Mailboxes, MailPage, AppConfig,
        VcsConnections, Catalog, ChatWindow, Edge, SettingsPage, AppPage

\* The previews of two applications of one name have one host, and it is a domain's too.
OneHost == [a \in EdgeApps |-> "h1"]

\* A connection with two tables, and one to switch to.
TwoTables == {<<"p1", "x">>, <<"p1", "y">>}

VARIABLE focus

TenantsInit ==
  /\ focus \in {"access", "chat", "databases", "studio", "replicas", "mailboxes", "config",
              "install", "tokens", "catalog", "page", "mail", "window", "edge",
              "settings", "apppage"}
  /\ AccessInit /\ ChatInit /\ DatabasesInit /\ StudioInit /\ ReplicasInit /\ MailboxesInit
  /\ AppConfigInit /\ VcsInstallInit /\ VcsTokensInit /\ CatalogInit /\ StudioPageInit /\ MailPageInit
  /\ ChatWindowInit /\ EdgeInit /\ SettingsInit /\ AppPageInit
  /\ focus # "edge" => livePort = [a \in EdgeApps |-> NoUpstream]
  /\ focus # "mail" => inUse = "dns"
  /\ focus # "settings" => cardKind = "members"

domainVars == <<installVars, vcsTokenVars, catalogVars, studioPageVars, mailPageVars, chatWindowVars, edgeVars>>
uiVars     == <<settingsVars, appPageVars>>
restVars   == <<domainVars, uiVars>>
otherVars ==
  <<accessVars, chatVars, databasesVars, studioVars, replicasVars, mailboxVars, appConfigVars>>

TenantsNext ==
  /\ UNCHANGED focus
  /\ \/ /\ focus = "access" /\ UNCHANGED <<chatVars, databasesVars, studioVars, replicasVars, mailboxVars, appConfigVars, restVars>>
        /\ AccessNext
     \/ /\ focus = "chat" /\ UNCHANGED <<accessVars, databasesVars, studioVars, replicasVars, mailboxVars, appConfigVars, restVars>>
        /\ ChatNext
     \/ /\ focus = "databases" /\ UNCHANGED <<accessVars, chatVars, studioVars, replicasVars, mailboxVars, appConfigVars, restVars>>
        /\ DatabasesNext
     \/ /\ focus = "studio" /\ UNCHANGED <<accessVars, chatVars, databasesVars, replicasVars, mailboxVars, appConfigVars, restVars>>
        /\ StudioNext
     \/ /\ focus = "replicas" /\ UNCHANGED <<accessVars, chatVars, databasesVars, studioVars, mailboxVars, appConfigVars, restVars>>
        /\ ReplicasNext
     \/ /\ focus = "mailboxes" /\ UNCHANGED <<accessVars, chatVars, databasesVars, studioVars, replicasVars, appConfigVars, restVars>>
        /\ MailboxesNext
     \/ /\ focus = "config" /\ UNCHANGED <<accessVars, chatVars, databasesVars, studioVars, replicasVars, mailboxVars, restVars>>
        /\ AppConfigNext
     \/ /\ focus = "install" /\ UNCHANGED <<otherVars, vcsTokenVars, catalogVars, studioPageVars, mailPageVars, chatWindowVars, edgeVars, uiVars>>
        /\ VcsInstallNext
     \/ /\ focus = "tokens" /\ UNCHANGED <<otherVars, installVars, catalogVars, studioPageVars, mailPageVars, chatWindowVars, edgeVars, uiVars>>
        /\ VcsTokensNext
     \/ /\ focus = "catalog" /\ UNCHANGED <<otherVars, installVars, vcsTokenVars, studioPageVars, mailPageVars, chatWindowVars, edgeVars, uiVars>>
        /\ CatalogNext
     \/ /\ focus = "page" /\ UNCHANGED <<otherVars, installVars, vcsTokenVars, catalogVars, mailPageVars, chatWindowVars, edgeVars, uiVars>>
        /\ StudioPageNext
     \/ /\ focus = "mail" /\ UNCHANGED <<otherVars, installVars, vcsTokenVars, catalogVars, studioPageVars, chatWindowVars, edgeVars, uiVars>>
        /\ MailPageNext
     \/ /\ focus = "window" /\ UNCHANGED <<otherVars, installVars, vcsTokenVars, catalogVars, studioPageVars, mailPageVars, edgeVars, uiVars>>
        /\ ChatWindowNext
     \/ /\ focus = "edge" /\ UNCHANGED <<otherVars, installVars, vcsTokenVars, catalogVars, studioPageVars, mailPageVars, chatWindowVars, uiVars>>
        /\ EdgeNext
     \/ /\ focus = "settings" /\ UNCHANGED <<otherVars, domainVars, appPageVars>>
        /\ SettingsNext
     \/ /\ focus = "apppage" /\ UNCHANGED <<otherVars, domainVars, settingsVars>>
        /\ AppPageNext

tenantsVars == <<focus, otherVars, restVars>>

TenantsSpec == TenantsInit /\ [][TenantsNext]_tenantsVars

\* What of a state moves: the variables of the other components are those of the initial
\* state, which the focus determines.
Moving ==
  CASE focus = "access" -> <<focus, accessVars>> [] focus = "chat" -> <<focus, chatVars>>
    [] focus = "databases" -> <<focus, databasesVars>> [] focus = "studio" -> <<focus, studioVars>>
    [] focus = "replicas" -> <<focus, replicasVars>> [] focus = "mailboxes" -> <<focus, mailboxVars>>
    [] focus = "config" -> <<focus, appConfigVars>> [] focus = "install" -> <<focus, installVars>>
    [] focus = "tokens" -> <<focus, vcsTokenVars>> [] focus = "catalog" -> <<focus, catalogVars>>
    [] focus = "page" -> <<focus, studioPageVars>> [] focus = "mail" -> <<focus, mailPageVars>>
    [] focus = "window" -> <<focus, chatWindowVars>> [] focus = "edge" -> <<focus, edgeVars>>
    [] focus = "settings" -> <<focus, settingsVars>> [] focus = "apppage" -> <<focus, appPageVars>>

\* Every variable of the component that moves has its type; those of the others never change.
TenantsTypeOK ==
  /\ focus = "access" => AccessTypeOK
  /\ focus = "chat" => ChatTypeOK
  /\ focus = "databases" => DatabasesTypeOK
  /\ focus = "studio" => StudioTypeOK
  /\ focus = "replicas" => ReplicasTypeOK
  /\ focus = "mailboxes" => MailboxesTypeOK
  /\ focus = "config" => AppConfigTypeOK
  /\ focus = "install" => VcsInstallTypeOK
  /\ focus = "tokens" => VcsTokensTypeOK
  /\ focus = "catalog" => CatalogTypeOK
  /\ focus = "page" => StudioPageTypeOK
  /\ focus = "mail" => MailPageTypeOK
  /\ focus = "window" => ChatWindowTypeOK
  /\ focus = "edge" => EdgeTypeOK
  /\ focus = "settings" => SettingsTypeOK
  /\ focus = "apppage" => AppPageTypeOK

\* What a row says exists, and what the user was handed works, in the system that the
\* row is about: databases and roles, replicas that stream, mailboxes, services
\* of the catalog, domains at the edge.  The mail page, the settings and the page of an
\* application end up with the rows the server has, show a password or a token that was
\* handed over, and change nothing that the user did not.
RowsAreReal ==
  /\ RowBacked /\ StreamingIsReal /\ ShownPasswordWorks /\ RunningIsUp /\ MailPageIsTrue
  /\ EdgeServesTheRows /\ DashboardKeepsItsHost
  /\ SettingsAreTrue /\ AppPageIsTrue

\* Several writes that belong together are seen together: a batch of edits in the
\* studio, which reaches the rows it was typed on and once, the variables of a PUT; and
\* of the rows of a conversation the model is shown a whole end that it accepts.
WritesAreWhole == EditsAtomic /\ EnvWhole /\ ShowsTheSelection /\ EditsReachTheirRows /\ PromptIsLongestEnd

\* An installation has one organization and its callback counts once; the secrets that
\* the provider replaces or holds are the ones in the rows.
VcsIsSound == InstallIsBoundOnce /\ VcsSecretsKept
=============================================================================
