--------------------------- MODULE VcsConnections ----------------------------
(***************************************************************************)
(* The VCS connections of organizations: how a GitHub App's installation is *)
(* bound to one of them, and what a connection holds once it is there.  The *)
(* two share no variable.                                                  *)
(***************************************************************************)
EXTENDS Naturals, FiniteSets

(***************************************************************************)
(* The binding.  A signed state goes out with the browser and comes back in a *)
(* callback, as often as the URL is visited; nonces in memory make it good *)
(* for one.  The row is found, updated or inserted in statements of their  *)
(* own, under two unique indexes.  One App, one installation.  The creation *)
(* of an App by its manifest goes out and comes back in the same way.      *)
(***************************************************************************)

CONSTANTS
  VcsOrgs,      \* organizations
  Flows,        \* install flows that may begin
  Callbacks,    \* bound: callbacks at a time
  StateTtl,     \* install-state.ts: DEFAULT_MAX_AGE_MS, in ticks
  NonceTtl,     \* nonce-store.ts: DEFAULT_TTL_MS, in ticks
  MaxInstallDeaths

\* nonce-store.ts:15: "outlives the install-state expiry".
ASSUME VcsInstallAssumption ==
  /\ StateTtl \in Nat \ {0} /\ NonceTtl \in Nat /\ StateTtl < NonceTtl
  /\ MaxInstallDeaths \in Nat

VARIABLES
  flowOf,    \* the organization that a flow was begun for, "none" before
  manifests, \* the flows that create an App; the others install one
  created,   \* flows whose App has its row in vcs_app_registrations
  flowAge,   \* ticks since its state was signed
  nonces,    \* installNonces: ticks until the nonce of a flow is forgotten, 0 for unseen
  callbacks, \* requests of the callback URL under way
  bound,     \* organizations with a row for the installation
  passes,    \* requests of a flow that got past the nonce
  installDeaths

manifestVars == <<manifests, created>>
installVars  == <<flowOf, manifestVars, flowAge, nonces, callbacks, bound, passes, installDeaths>>

NoCallback == [flow |-> "none", at |-> "none"]

\* What a signed state says, how long its nonce is remembered, and the two tables.
InstallState  == VcsOrgs \cup {"none"}
NonceLife     == 0..NonceTtl
Connections   == SUBSET VcsOrgs
Registered    == SUBSET Flows

VcsInstallTypeOK ==
  /\ manifests \subseteq Flows /\ created \in Registered /\ created \subseteq manifests
  /\ flowOf \in [Flows -> InstallState] /\ flowAge \in [Flows -> 0..StateTtl + 1]
  /\ nonces \in [Flows -> NonceLife] /\ bound \in Connections
  /\ callbacks \in [Callbacks -> [flow : Flows \cup {"none"},
                                  at : {"none", "lookup", "check", "update", "insert", "raced",
                                        "exchange", "register"}]]
  /\ passes \in [Flows -> Nat] /\ installDeaths \in 0..MaxInstallDeaths

VcsInstallInit ==
  /\ manifests = {} /\ created = {}
  /\ flowOf = [f \in Flows |-> "none"] /\ flowAge = [f \in Flows |-> 0] /\ nonces = [f \in Flows |-> 0]
  /\ callbacks = [c \in Callbacks |-> NoCallback] /\ bound = {}
  /\ passes = [f \in Flows |-> 0] /\ installDeaths = 0

CallbackAt(c, at) == callbacks[c].at = at
CallbackTo(c, at) == callbacks' = [callbacks EXCEPT ![c].at = at]
Redirected(c)     == callbacks' = [callbacks EXCEPT ![c] = NoCallback]
BoundFor(c)       == flowOf[callbacks[c].flow]

BeginInstall(f) ==
  /\ flowOf[f] = "none" /\ \E o \in VcsOrgs : flowOf' = [flowOf EXCEPT ![f] = o]
  /\ UNCHANGED <<manifestVars, flowAge, nonces, callbacks, bound, passes, installDeaths>>

BeginManifest(f) ==
  /\ flowOf[f] = "none" /\ \E o \in VcsOrgs : flowOf' = [flowOf EXCEPT ![f] = o]
  /\ manifests' = manifests \cup {f}
  /\ UNCHANGED <<created, flowAge, nonces, callbacks, bound, passes, installDeaths>>

InstallTimePasses ==
  /\ flowAge' = [f \in Flows |-> IF flowOf[f] = "none" \/ flowAge[f] > StateTtl THEN flowAge[f] ELSE flowAge[f] + 1]
  /\ nonces' = [f \in Flows |-> IF nonces[f] = 0 THEN 0 ELSE nonces[f] - 1]
  /\ <<flowAge', nonces'>> # <<flowAge, nonces>>
  /\ UNCHANGED <<flowOf, manifestVars, callbacks, bound, passes, installDeaths>>

VerifyInstallState(f) == flowOf[f] # "none" /\ flowAge[f] <= StateTtl
Back(f) == IF f \in manifests THEN "exchange" ELSE "lookup"

\* Both callback routes.  The nonce is spent with the request, whether or not there is
\* an installation yet (setup_action=request) or a code, and whatever fails afterwards.
\* The store's 10,000 nonces are not reached.
InstallCallback(c, f) ==
  /\ callbacks[c] = NoCallback /\ VerifyInstallState(f) /\ nonces[f] = 0
  /\ nonces' = [nonces EXCEPT ![f] = NonceTtl] /\ passes' = [passes EXCEPT ![f] = @ + 1]
  /\ \/ callbacks' = [callbacks EXCEPT ![c] = [flow |-> f, at |-> Back(f)]]
     \/ UNCHANGED callbacks
  /\ UNCHANGED <<flowOf, manifestVars, flowAge, bound, installDeaths>>

\* The registration's key, and the account at GitHub, or install_failed.
LookupAccount(c) ==
  /\ CallbackAt(c, "lookup") /\ (CallbackTo(c, "check") \/ Redirected(c))
  /\ UNCHANGED <<flowOf, manifestVars, flowAge, nonces, bound, passes, installDeaths>>

\* upsertGithubAppConnection: what another organization has is refused ...
CheckBound(c) ==
  /\ CallbackAt(c, "check")
  /\ IF bound \ {BoundFor(c)} # {} THEN Redirected(c) ELSE CallbackTo(c, "update")
  /\ UNCHANGED <<flowOf, manifestVars, flowAge, nonces, bound, passes, installDeaths>>

\* ... what one has oneself is updated ...
UpdateBound(c) ==
  /\ CallbackAt(c, "update")
  /\ IF BoundFor(c) \in bound THEN Redirected(c) ELSE CallbackTo(c, "insert")
  /\ UNCHANGED <<flowOf, manifestVars, flowAge, nonces, bound, passes, installDeaths>>

\* ... and what nobody has is inserted, unless one of the indexes refuses.
InsertBound(c) ==
  /\ CallbackAt(c, "insert")
  /\ IF bound # {} THEN CallbackTo(c, "raced") /\ UNCHANGED bound
     ELSE Redirected(c) /\ bound' = {BoundFor(c)}
  /\ UNCHANGED <<flowOf, manifestVars, flowAge, nonces, passes, installDeaths>>

\* A second update tells one's own row from another organization's.
UpdateRaced(c) ==
  /\ CallbackAt(c, "raced") /\ Redirected(c)
  /\ UNCHANGED <<flowOf, manifestVars, flowAge, nonces, bound, passes, installDeaths>>

\* The code is changed for the App's secrets, or manifest_failed ...
ExchangeManifestCode(c) ==
  /\ CallbackAt(c, "exchange") /\ (CallbackTo(c, "register") \/ Redirected(c))
  /\ UNCHANGED <<flowOf, manifestVars, flowAge, nonces, bound, passes, installDeaths>>

\* ... and they are stored, once for an App.
CreateAppRegistration(c) ==
  /\ CallbackAt(c, "register") /\ Redirected(c) /\ created' = created \cup {callbacks[c].flow}
  /\ UNCHANGED <<flowOf, manifests, flowAge, nonces, bound, passes, installDeaths>>

DeleteConnection(o) ==
  /\ o \in bound /\ bound' = bound \ {o}
  /\ UNCHANGED <<flowOf, manifestVars, flowAge, nonces, callbacks, passes, installDeaths>>

\* The nonces go with the process, the states are still good.
InstallProcessDies ==
  /\ installDeaths < MaxInstallDeaths /\ installDeaths' = installDeaths + 1
  /\ nonces' = [f \in Flows |-> 0] /\ callbacks' = [c \in Callbacks |-> NoCallback]
  /\ UNCHANGED <<flowOf, manifestVars, flowAge, bound, passes>>

VcsInstallNext ==
  \/ InstallTimePasses \/ InstallProcessDies
  \/ \E f \in Flows : BeginInstall(f) \/ BeginManifest(f)
  \/ \E o \in VcsOrgs : DeleteConnection(o)
  \/ \E c \in Callbacks : \/ \E f \in Flows : InstallCallback(c, f)
                          \/ LookupAccount(c) \/ CheckBound(c) \/ UpdateBound(c)
                          \/ InsertBound(c) \/ UpdateRaced(c)
                          \/ ExchangeManifestCode(c) \/ CreateAppRegistration(c)

VcsInstallSpec == VcsInstallInit /\ [][VcsInstallNext]_installVars

(***************************************************************************)
(* Properties.                                                             *)
(***************************************************************************)

\* "First bind wins" (connections.service.ts:119): two callbacks for two organizations
\* that both found the installation unbound do not both bind it.
OneOrgPerInstallation == Cardinality(bound) <= 1

\* A signed state is "SINGLE-USE" (vcs-github.ts:15): however often, and however much at
\* once, its URL is visited, one visit gets past the nonce, and one more for each death
\* of the process.
StateSingleUse == \A f \in Flows : passes[f] <= 1 + installDeaths

\* An installation is bound for one organization, and not by a replay.
InstallIsBoundOnce == OneOrgPerInstallation /\ StateSingleUse

(***************************************************************************)
(* What connections hold: an OAuth credential whose refresh token the      *)
(* provider replaces each time it is used, and the push webhook of an      *)
(* application, whose secret is rotated here and registered there.         *)
(* Credentials and secrets are numbered as they are made.                  *)
(***************************************************************************)

CONSTANTS
  Clones,        \* bound: clones and repository listings at a time
  MaxRotations,  \* bound: refreshes
  Registrations, \* requests to register the webhook
  MaxVcsFaults   \* bound: calls that fail, writes that fail, deaths of the process

NoHook == "none"
ASSUME VcsTokensAssumption ==
  MaxRotations \in Nat \ {0} /\ MaxVcsFaults \in Nat /\ NoHook \notin Registrations

VARIABLES
  issued,     \* at the provider: the credential whose refresh token is good
  credential, \* vcs_connections.token_secret_ref, 0 without a row
  expiring,   \* credentials whose access token is within the margin of its end
  clones,     \* uses of the connection under way: where, the credential in hand
  hookRows,   \* inbound_webhooks of the application: registration that inserted -> secret
  remote,     \* push hooks at the provider: registration that made it -> secret
  toPaste,    \* secrets that an answer told its user to paste at the provider
  regs,       \* registrations under way: where, the row, and what each came to
  vcsFaults

tokenVars    == <<issued, credential, expiring, clones>>
registerVars     == <<hookRows, remote, toPaste, regs>>
vcsTokenVars == <<tokenVars, registerVars, vcsFaults>>

Credentials == 1..MaxRotations + 1
NoUse == [at |-> "none", cred |-> 0]
NoReg == [at |-> "none", row |-> NoHook]

\* Rows of webhooks, and of vcs_connections: the sealed credential.
WebhookRow    == Registrations \cup {NoHook}
ConnectionRow == Credentials \cup {0}

VcsTokensTypeOK ==
  /\ issued \in Credentials /\ credential \in ConnectionRow /\ expiring \subseteq Credentials
  /\ clones \in [Clones -> [at : {"none", "read", "persist", "use"}, cred : Credentials \cup {0}]]
  /\ hookRows \in [Registrations -> WebhookRow]
  /\ remote \in [Registrations -> WebhookRow] /\ toPaste \subseteq Registrations
  /\ regs \in [Registrations -> [at : {"none", "write", "remote", "record", "done", "failed"},
                                 row : Registrations \cup {NoHook}]]
  /\ vcsFaults \in 0..MaxVcsFaults

VcsTokensInit ==
  /\ issued = 1 /\ credential = 1 /\ expiring = {} /\ clones = [u \in Clones |-> NoUse]
  /\ hookRows = [g \in Registrations |-> NoHook] /\ remote = hookRows /\ toPaste = {}
  /\ regs = [g \in Registrations |-> NoReg] /\ vcsFaults = 0

VcsFault == vcsFaults < MaxVcsFaults /\ vcsFaults' = vcsFaults + 1

(***************************************************************************)
(* The OAuth credential.                                                   *)
(***************************************************************************)
AccessTokenAges ==
  /\ issued \notin expiring /\ expiring' = expiring \cup {issued}
  /\ UNCHANGED <<issued, credential, clones, registerVars, vcsFaults>>

UseTo(u, at, cred) == clones' = [clones EXCEPT ![u] = [at |-> at, cred |-> cred]]
UseEnds(u) == clones' = [clones EXCEPT ![u] = NoUse]

\* getConnection, and the credential in the row as it was then.
GetConnection(u) ==
  /\ clones[u] = NoUse /\ credential # 0 /\ UseTo(u, "read", credential)
  /\ UNCHANGED <<issued, credential, expiring, registerVars, vcsFaults>>

\* Faulty: whatever was read is written back.
EnsureFreshTokenAlways(u) ==
  /\ clones[u].at = "read" /\ UNCHANGED <<credential, expiring, registerVars>>
  /\ IF clones[u].cred \notin expiring THEN UseTo(u, "persist", clones[u].cred) /\ UNCHANGED <<issued, vcsFaults>>
     ELSE \/ /\ clones[u].cred = issued /\ issued <= MaxRotations
             /\ issued' = issued + 1 /\ UseTo(u, "persist", issued') /\ UNCHANGED vcsFaults
          \/ clones[u].cred # issued /\ UseEnds(u) /\ UNCHANGED <<issued, vcsFaults>>

\* A token that has time left is used as it is.  The provider takes a refresh token once:
\* who comes second is refused, and the request fails.  The answer of the provider may
\* be lost on its way.
EnsureFreshToken(u) ==
  /\ clones[u].at = "read" /\ UNCHANGED <<credential, expiring, registerVars>>
  /\ \/ /\ clones[u].cred \notin expiring /\ UseTo(u, "use", clones[u].cred) /\ UNCHANGED <<issued, vcsFaults>>
     \/ /\ clones[u].cred \in expiring /\ clones[u].cred = issued /\ issued <= MaxRotations
        /\ issued' = issued + 1
        /\ \/ UseTo(u, "persist", issued') /\ UNCHANGED vcsFaults
           \/ UseEnds(u) /\ VcsFault
     \/ /\ clones[u].cred \in expiring /\ clones[u].cred # issued
        /\ UseEnds(u) /\ UNCHANGED <<issued, vcsFaults>>

\* A write-back that fails is ignored; a row that is gone is not written.
PersistOauthCredential(u) ==
  /\ clones[u].at = "persist" /\ UseTo(u, "use", clones[u].cred)
  /\ \/ credential' = (IF credential = 0 THEN 0 ELSE clones[u].cred) /\ UNCHANGED vcsFaults
     \/ VcsFault /\ UNCHANGED credential
  /\ UNCHANGED <<issued, expiring, registerVars>>

UseAccessToken(u) ==
  /\ clones[u].at = "use" /\ UseEnds(u)
  /\ UNCHANGED <<issued, credential, expiring, registerVars, vcsFaults>>

DeleteOauthConnection ==
  /\ credential # 0 /\ credential' = 0
  /\ UNCHANGED <<issued, expiring, clones, registerVars, vcsFaults>>

(***************************************************************************)
(* The webhook.                                                            *)
(***************************************************************************)
RegTo(g, at, row) == regs' = [regs EXCEPT ![g] = [at |-> at, row |-> row]]

\* ensureWebhook looks for a row of the application ...
FindWebhook(g) ==
  /\ regs[g] = NoReg
  /\ \/ \E r \in Registrations : hookRows[r] # NoHook /\ RegTo(g, "write", r)
     \/ (\A r \in Registrations : hookRows[r] = NoHook) /\ RegTo(g, "write", g)
  /\ UNCHANGED <<hookRows, remote, toPaste, tokenVars, vcsFaults>>

\* ... and rotates its secret in place, or inserts one: no index keeps it the only row.
WriteWebhook(g) ==
  /\ regs[g].at = "write" /\ RegTo(g, "remote", regs[g].row)
  /\ hookRows' = [hookRows EXCEPT ![regs[g].row] = g]
  /\ UNCHANGED <<remote, toPaste, tokenVars, vcsFaults>>

\* The hook is made at the provider with the secret of this request, which has none
\* removed; when it fails the secret stays rotated.
RegisterRemote(g) ==
  /\ regs[g].at = "remote"
  /\ \/ RegTo(g, "record", regs[g].row) /\ remote' = [remote EXCEPT ![g] = g] /\ UNCHANGED vcsFaults
     \/ RegTo(g, "failed", regs[g].row) /\ VcsFault /\ UNCHANGED remote
  /\ UNCHANGED <<hookRows, toPaste, tokenVars>>

\* On a manual connection no provider is called: the answer shows the secret.  So does the
\* route that only makes or rotates the webhook.
AnswerManual(g) ==
  /\ regs[g].at = "remote" /\ RegTo(g, "done", regs[g].row) /\ toPaste' = toPaste \cup {g}
  /\ UNCHANGED <<hookRows, remote, tokenVars, vcsFaults>>

\* The user does, or never does.
PasteSecret(g) ==
  /\ g \in toPaste /\ toPaste' = toPaste \ {g} /\ remote' = [remote EXCEPT ![g] = g]
  /\ UNCHANGED <<hookRows, regs, tokenVars, vcsFaults>>

\* setRemoteHookId: nothing ever reads it.
RecordRemote(g) ==
  /\ regs[g].at = "record" /\ RegTo(g, "done", regs[g].row)
  /\ UNCHANGED <<hookRows, remote, toPaste, tokenVars, vcsFaults>>

VcsProcessDies ==
  /\ VcsFault /\ clones' = [u \in Clones |-> NoUse]
  /\ regs' = [g \in Registrations |-> IF regs[g].at \in {"none", "done"} THEN regs[g] ELSE [regs[g] EXCEPT !.at = "failed"]]
  /\ UNCHANGED <<issued, credential, expiring, hookRows, remote, toPaste>>

VcsTokensNext ==
  \/ AccessTokenAges \/ DeleteOauthConnection \/ VcsProcessDies
  \/ \E u \in Clones : GetConnection(u) \/ EnsureFreshToken(u) \/ PersistOauthCredential(u) \/ UseAccessToken(u)
  \/ \E g \in Registrations : FindWebhook(g) \/ WriteWebhook(g) \/ RegisterRemote(g) \/ RecordRemote(g)
                               \/ AnswerManual(g) \/ PasteSecret(g)

VcsTokensSpec == VcsTokensInit /\ [][VcsTokensNext]_vcsTokenVars

(***************************************************************************)
(* Properties.                                                             *)
(***************************************************************************)

\* "Rotating IdPs have already invalidated the old refresh token" (oauth.ts:63-65):
\* whatever uses of a connection overlap, the credential that the provider still takes
\* is the one in the row, or in the hand of a use that is about to write it there, as
\* long as no answer, no write and no process is lost.
CredentialKept ==
  vcsFaults = 0 /\ credential # 0 =>
    issued = credential \/ \E u \in Clones : clones[u].at = "persist" /\ clones[u].cred = issued

\* Once no registration is under way, and none failed, each row's secret is that of a
\* hook at the provider, or one that a user was shown and has still to paste there,
\* whichever registrations overlapped (connections.ts:200-244): none is lost.
HookSecretKnown ==
  (\A g \in Registrations : regs[g].at \in {"none", "done"}) =>
    \A r \in Registrations : hookRows[r] # NoHook =>
      hookRows[r] \in toPaste \/ \E g \in Registrations : remote[g] = hookRows[r]

\* Both secrets of a connection are where they are needed.
VcsSecretsKept == CredentialKept /\ HookSecretKnown
=============================================================================
