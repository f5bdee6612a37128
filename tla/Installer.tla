------------------------------ MODULE Installer -----------------------------
(***************************************************************************)
(* The installer of the control plane, run again after whatever cut it     *)
(* off: each step probes the machine before it acts.  A release directory  *)
(* has a label; "latest" is one whose release moves.  Secrets are numbered *)
(* as they are generated.                                                  *)
(***************************************************************************)
EXTENDS Naturals

CONSTANTS
  PinnedLabels,       \* labels that name one release
  MaxReleases,  \* bound: releases
  MaxSecrets,   \* bound: generations of secrets.env
  MaxCuts       \* bound: steps that fail, kills and reboots

Latest     == "latest"
EnvSecrets == "secrets.env"
ASSUME InstallerAssumption ==
  PinnedLabels \cap {Latest, EnvSecrets} = {} /\ MaxReleases \in Nat \ {0} /\ MaxSecrets \in Nat \ {0} /\ MaxCuts \in Nat

Labels   == PinnedLabels \cup {Latest}
Contents == 0..MaxReleases
Gens     == 0..MaxSecrets

VARIABLES
  latest,   \* the release behind the label "latest"
  secrets,  \* secrets.env: its generation, 0 without one, the URL in it, whether it is whole
  dbRole,   \* the generation whose password the database role has, 0 without the role
  database, \* the database exists
  dirs,     \* the release directories: release, whether whole, whether dist/index.js is there
  envHost,  \* the host in the env file, "none" without one
  current,  \* what the link current points at
  migrated, \* the last release whose migrations have run
  seeds,    \* parts of the first admin that are there: user, organization, membership, server
  unit,     \* the unit is enabled
  process,  \* the control plane: release and generation it was started with, 0 while down
  sealed,   \* generations of the master key that rows are sealed with
  inst,     \* the run of the installer: where, and its arguments
  torn,     \* what a kill cut off the writing of: the secrets, releases of pinned labels
  cuts

machineVars   == <<secrets, dbRole, database, dirs, envHost, current, migrated, seeds, unit>>
installerVars == <<latest, machineVars, process, sealed, inst, torn, cuts>>

NoDir     == [rel |-> 0, whole |-> FALSE, index |-> FALSE]
NoLink    == "none"
NoProcess == [rel |-> 0, gen |-> 0]
Idle      == [at |-> "idle", label |-> Latest, email |-> FALSE]
InstSteps == {"packages", "secrets", "dbRole", "database", "bundle", "env", "units", "migrate", "seed", "start", "verify"}
Hosts     == {"given", "found", "localhost"}

InstallerTypeOK ==
  /\ latest \in 1..MaxReleases
  /\ secrets \in [gen : Gens, url : BOOLEAN, whole : BOOLEAN] /\ dbRole \in Gens /\ database \in BOOLEAN
  /\ dirs \in [Labels -> [rel : Contents, whole : BOOLEAN, index : BOOLEAN]]
  /\ envHost \in Hosts \cup {"none", "partial"} /\ current \in Labels \cup {NoLink} /\ migrated \in Contents
  /\ seeds \in 0..4 /\ unit \in BOOLEAN
  /\ process \in [rel : Contents, gen : Gens] /\ sealed \subseteq Gens
  /\ inst \in [at : InstSteps \cup {"idle", "done"}, label : Labels, email : BOOLEAN]
  /\ torn \subseteq PinnedLabels \cup {EnvSecrets} /\ cuts \in 0..MaxCuts

InstallerInit ==
  /\ latest = 1 /\ secrets = [gen |-> 0, url |-> FALSE, whole |-> FALSE] /\ dbRole = 0 /\ database = FALSE
  /\ dirs = [l \in Labels |-> NoDir] /\ envHost = "none" /\ current = NoLink /\ migrated = 0
  /\ seeds = 0 /\ unit = FALSE /\ process = NoProcess /\ sealed = {} /\ inst = Idle
  /\ torn = {} /\ cuts = 0

InstAt(at) == inst.at = at
InstTo(at) == inst' = [inst EXCEPT !.at = at]
ReleaseOf(l) == IF l = Latest THEN latest ELSE 1

ReleaseOut ==
  /\ latest < MaxReleases /\ latest' = latest + 1
  /\ UNCHANGED <<machineVars, process, sealed, inst, torn, cuts>>

\* --version pins the label, --email asks for an admin.
InstallBegins ==
  /\ inst.at \in {"idle", "done"}
  /\ \E l \in Labels, e \in BOOLEAN : inst' = [at |-> "packages", label |-> l, email |-> e]
  /\ UNCHANGED <<latest, machineVars, process, sealed, torn, cuts>>

\* Packages, user, directories: their own installers probe.
StepPackages ==
  /\ InstAt("packages") /\ InstTo("secrets")
  /\ UNCHANGED <<latest, machineVars, process, sealed, torn, cuts>>

\* A file that is there is left untouched, whatever is in it.
GenSecretsIfMissing ==
  IF secrets.gen # 0 THEN UNCHANGED secrets
  ELSE secrets.gen < MaxSecrets /\ secrets' = [gen |-> secrets.gen + 1, url |-> TRUE, whole |-> TRUE]

StepSecrets ==
  /\ InstAt("secrets") /\ GenSecretsIfMissing /\ InstTo("dbRole")
  /\ UNCHANGED <<latest, dbRole, database, dirs, envHost, current, migrated, seeds, unit, process, sealed, torn, cuts>>

\* Docker and PostgreSQL are there, or are installed; then the role, with the password
\* of the file, and the database.
StepRole ==
  /\ InstAt("dbRole") /\ InstTo("database")
  /\ dbRole' = IF dbRole = 0 THEN secrets.gen ELSE dbRole
  /\ UNCHANGED <<latest, secrets, database, dirs, envHost, current, migrated, seeds, unit, process, sealed, torn, cuts>>

StepDatabase ==
  /\ InstAt("database") /\ InstTo("bundle") /\ database' = TRUE
  /\ UNCHANGED <<latest, secrets, dbRole, dirs, envHost, current, migrated, seeds, unit, process, sealed, torn, cuts>>

\* Only of a pinned label is a directory with an index taken for extracted.
StepBundle ==
  /\ InstAt("bundle") /\ InstTo("env")
  /\ dirs' = IF inst.label # Latest /\ dirs[inst.label].index THEN dirs
             ELSE [dirs EXCEPT ![inst.label] = [rel |-> ReleaseOf(inst.label), whole |-> TRUE, index |-> TRUE]]
  /\ UNCHANGED <<latest, secrets, dbRole, database, envHost, current, migrated, seeds, unit, process, sealed, torn, cuts>>

\* An env file that is there is the operator's; a new one has the host of --domain, of
\* an address that was found, or localhost.
StepEnv ==
  /\ InstAt("env") /\ InstTo("units")
  /\ IF envHost = "none" THEN envHost' \in Hosts ELSE UNCHANGED envHost
  /\ UNCHANGED <<latest, secrets, dbRole, database, dirs, current, migrated, seeds, unit, process, sealed, torn, cuts>>

\* The units, and the link, before the migrations; then the firewall.
StepUnits ==
  /\ InstAt("units") /\ InstTo("migrate") /\ current' = inst.label
  /\ UNCHANGED <<latest, secrets, dbRole, database, dirs, envHost, migrated, seeds, unit, process, sealed, torn, cuts>>

\* What lets a process of the linked release reach its database.
DbOpens == secrets.url /\ dbRole = secrets.gen /\ database

\* An older release leaves newer migrations alone.
StepMigrate ==
  /\ InstAt("migrate") /\ DbOpens /\ dirs[current].index
  /\ migrated' = (IF dirs[current].rel > migrated THEN dirs[current].rel ELSE migrated)
  /\ InstTo(IF inst.email THEN "seed" ELSE "start")
  /\ UNCHANGED <<latest, secrets, dbRole, database, dirs, envHost, current, seeds, unit, process, sealed, torn, cuts>>

\* seedAdmin: each part looks whether it is there.
StepSeed ==
  /\ InstAt("seed")
  /\ IF seeds < 4 THEN seeds' = seeds + 1 /\ UNCHANGED inst ELSE InstTo("start") /\ UNCHANGED seeds
  /\ UNCHANGED <<latest, secrets, dbRole, database, dirs, envHost, current, migrated, unit, process, sealed, torn, cuts>>

Started == IF DbOpens /\ dirs[current].index THEN [rel |-> dirs[current].rel, gen |-> secrets.gen] ELSE NoProcess

\* enable and restart: what already runs is started anew.
StepStart ==
  /\ InstAt("start") /\ InstTo("verify") /\ unit' = TRUE /\ process' = Started
  /\ UNCHANGED <<latest, secrets, dbRole, database, dirs, envHost, current, migrated, seeds, sealed, torn, cuts>>

\* /readyz answers within thirty seconds.
VerifyReady ==
  /\ InstAt("verify") /\ process.rel # 0 /\ InstTo("done")
  /\ UNCHANGED <<latest, machineVars, process, sealed, torn, cuts>>

\* The control plane seals a variable, a token, a password.
PlaneSeals ==
  /\ process.rel # 0 /\ secrets.whole /\ sealed' = sealed \cup {process.gen}
  /\ UNCHANGED <<latest, machineVars, process, inst, torn, cuts>>

Cut == cuts < MaxCuts /\ cuts' = cuts + 1

\* set -e, a kill, or a probe that never answers: what the step had done by then stays.
InstallCut ==
  /\ Cut /\ inst.at \in InstSteps /\ inst' = Idle
  /\ \/ UNCHANGED <<secrets, dirs, envHost, torn>>
     \/ /\ InstAt("secrets") /\ secrets.gen = 0
        /\ \E u \in BOOLEAN : secrets' = [gen |-> 1, url |-> u, whole |-> FALSE]
        /\ torn' = torn \cup {EnvSecrets} /\ UNCHANGED <<dirs, envHost>>
     \/ /\ InstAt("bundle") /\ ~(inst.label # Latest /\ dirs[inst.label].index)
        /\ \E i \in BOOLEAN :
             dirs' = [dirs EXCEPT ![inst.label] = [rel |-> ReleaseOf(inst.label), whole |-> FALSE, index |-> i \/ @.index]]
        /\ torn' = torn \cup ({inst.label} \ {Latest}) /\ UNCHANGED <<secrets, envHost>>
     \/ /\ InstAt("env") /\ envHost = "none" /\ envHost' = "partial"
        /\ UNCHANGED <<secrets, dirs, torn>>
  /\ UNCHANGED <<latest, dbRole, database, current, migrated, seeds, unit, process, sealed>>

\* Also ends the installer.
MachineReboots ==
  /\ Cut /\ inst' = Idle
  /\ process' = IF unit /\ current # NoLink THEN Started ELSE NoProcess
  /\ UNCHANGED <<latest, machineVars, sealed, torn>>

InstallerNext ==
  \/ ReleaseOut \/ InstallBegins \/ StepPackages \/ StepSecrets \/ StepRole \/ StepDatabase \/ StepBundle
  \/ StepEnv \/ StepUnits \/ StepMigrate \/ StepSeed \/ StepStart \/ VerifyReady
  \/ PlaneSeals \/ InstallCut \/ MachineReboots

InstallerSpec == InstallerInit /\ [][InstallerNext]_installerVars

(***************************************************************************)
(* Properties.                                                             *)
(***************************************************************************)

\* "Re-running repairs in place and never rotates a live secret" (install.sh:9): what is
\* sealed can be opened with the key in the file, and the role has its password ...
SecretsLive == sealed \cup {dbRole} \subseteq {0, secrets.gen}

\* ... and however often runs were cut off, one that reports success has migrated the
\* linked release, opens its database and has the admin it was asked for.  The release and
\* the secrets are complete unless the writing of that very one was cut off: a file or a
\* pinned release that is there is left as it is (secrets.sh:10-13, steps.sh:86),
\* so the words of install.sh:9 do not hold of it.
DoneIsInstalled ==
  inst.at = "done" =>
    /\ DbOpens /\ migrated >= dirs[current].rel
    /\ inst.email => seeds = 4
    /\ dirs[current].whole \/ current \in torn
    /\ secrets.whole \/ EnvSecrets \in torn

InstallRepairs == SecretsLive /\ DoneIsInstalled
=============================================================================
