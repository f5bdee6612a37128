---------------------------- MODULE HostsProofs -----------------------------
(***************************************************************************)
(* Proofs about the components that work on containers, hosts and          *)
(* archives, for every set of deployments, pull requests, subscriptions,   *)
(* drains and segments; and about the machine of the control plane: what   *)
(* the installer leaves behind, what the updates card announces, and who   *)
(* shares a console; and about rows that others must not disturb: what is  *)
(* told to webhooks, scheduled jobs, and when they run next.               *)
(***************************************************************************)
EXTENDS MCHosts, MCFlows, SharedProofs, TLAPS, FiniteSetTheorems, WellFoundedInduction

(***************************************************************************)
(* The installer.  Secrets are made once; what a complete run leaves       *)
(* behind is true of each step from the one that makes it true, since no   *)
(* other run goes on beside it.                                            *)
(***************************************************************************)

\* Steps after which the directory of the label, the link, and the database are there.
Bundled  == {"env", "units", "migrate", "seed", "start", "verify", "done"}
Linked   == {"migrate", "seed", "start", "verify", "done"}
Migrated == {"seed", "start", "verify", "done"}
Seeded   == {"start", "verify", "done"}

\* The URL is in a file that has a generation; a file, or a pinned release, that is not whole
\* was torn.
FilesWhole ==
  /\ secrets.url => secrets.gen # 0
  /\ secrets.gen # 0 => secrets.whole \/ EnvSecrets \in torn
  /\ \A l \in PinnedLabels : dirs[l].index => dirs[l].whole \/ l \in torn

StepsLast ==
  /\ inst.at \in Bundled => dirs[inst.label].whole \/ inst.label \in torn
  /\ inst.at \in Linked => current = inst.label
  /\ inst.at \in Migrated => DbOpens /\ migrated >= dirs[inst.label].rel
  /\ inst.at \in Seeded /\ inst.email => seeds = 4

MachineInv ==
  /\ InstallerTypeOK /\ SecretsLive /\ process.gen \in {0, secrets.gen}
  /\ FilesWhole /\ StepsLast

LEMMA MachineStarts == InstallerInit => MachineInv
<1> SUFFICES ASSUME InstallerInit PROVE MachineInv
  OBVIOUS
<1>0. 0 \in Contents /\ 0 \in Gens /\ latest \in 1..MaxReleases /\ cuts \in 0..MaxCuts
  BY InstallerAssumption DEF InstallerInit, Contents, Gens
<1>1. InstallerTypeOK
  <2>1. dirs \in [Labels -> [rel : Contents, whole : BOOLEAN, index : BOOLEAN]]
    BY <1>0 DEF InstallerInit, NoDir
  <2>2. inst \in [at : InstSteps \cup {"idle", "done"}, label : Labels, email : BOOLEAN]
    BY DEF InstallerInit, Idle, Labels
  <2>3. /\ secrets \in [gen : Gens, url : BOOLEAN, whole : BOOLEAN]
        /\ process \in [rel : Contents, gen : Gens] /\ current \in Labels \cup {NoLink}
    BY <1>0 DEF InstallerInit, NoProcess
  <2>4. envHost \in Hosts \cup {"none", "partial"} /\ seeds \in 0..4 /\ dbRole \in Gens /\ sealed \subseteq Gens
    BY <1>0 DEF InstallerInit
  <2>5. migrated \in Contents /\ {database, unit} \subseteq BOOLEAN /\ torn = {}
    BY <1>0 DEF InstallerInit
  <2> QED
    BY <1>0, <2>1, <2>2, <2>3, <2>4, <2>5 DEF InstallerTypeOK
<1>2. SecretsLive /\ process.gen \in {0, secrets.gen} /\ FilesWhole
  BY DEF InstallerInit, SecretsLive, NoProcess, FilesWhole, NoDir, Labels
<1>3. StepsLast
  BY DEF InstallerInit, StepsLast, Idle, Bundled, Linked, Migrated, Seeded
<1> QED
  BY <1>1, <1>2, <1>3 DEF MachineInv

\* The installer goes from one step to another, and nothing else changes.
LEMMA InstMoves ==
  ASSUME InstallerTypeOK, NEW at \in InstSteps \cup {"done"}, InstTo(at)
  PROVE  /\ inst' \in [at : InstSteps \cup {"idle", "done"}, label : Labels, email : BOOLEAN]
         /\ inst'.at = at /\ inst'.label = inst.label /\ inst'.email = inst.email
         /\ inst.label \in Labels
BY DEF InstallerTypeOK, InstTo

LEMMA SecretsStep == ASSUME MachineInv, StepSecrets PROVE MachineInv'
<1> USE DEF MachineInv
<1>1. /\ inst' \in [at : InstSteps \cup {"idle", "done"}, label : Labels, email : BOOLEAN]
      /\ inst'.at = "dbRole"
  BY InstMoves DEF StepSecrets, InstSteps
<1>2. secrets' \in [gen : Gens, url : BOOLEAN, whole : BOOLEAN] /\ (secrets' = secrets \/ (secrets.gen = 0 /\ secrets'.gen = 1 /\ secrets'.whole))
  <2>1. 1 \in Gens
    BY InstallerAssumption DEF Gens
  <2>2. CASE secrets.gen # 0
    BY <2>2 DEF StepSecrets, GenSecretsIfMissing, InstallerTypeOK
  <2>3. CASE secrets.gen = 0
    <3>1. secrets' = [gen |-> 1, url |-> TRUE, whole |-> TRUE]
      BY <2>3 DEF StepSecrets, GenSecretsIfMissing
    <3> QED
      BY <2>1, <2>3, <3>1
  <2> QED
    BY <2>2, <2>3
<1>3. InstallerTypeOK'
  BY <1>1, <1>2 DEF StepSecrets, InstallerTypeOK
<1>4. SecretsLive' /\ (process.gen \in {0, secrets.gen})' /\ FilesWhole'
  BY <1>2 DEF StepSecrets, SecretsLive, FilesWhole
<1>5. StepsLast'
  BY <1>1 DEF StepsLast, Bundled, Linked, Migrated, Seeded
<1> QED
  BY <1>3, <1>4, <1>5

LEMMA RoleStep == ASSUME MachineInv, StepRole \/ StepDatabase PROVE MachineInv'
<1> USE DEF MachineInv
<1>1. /\ inst' \in [at : InstSteps \cup {"idle", "done"}, label : Labels, email : BOOLEAN]
      /\ inst'.at \in {"database", "bundle"}
  BY InstMoves DEF StepRole, StepDatabase, InstSteps
<1>2. InstallerTypeOK'
  BY <1>1 DEF StepRole, StepDatabase, InstallerTypeOK, Gens
<1>3. SecretsLive' /\ (process.gen \in {0, secrets.gen})' /\ FilesWhole'
  BY DEF StepRole, StepDatabase, SecretsLive, FilesWhole, InstallerTypeOK
<1>4. StepsLast'
  BY <1>1 DEF StepsLast, Bundled, Linked, Migrated, Seeded
<1> QED
  BY <1>2, <1>3, <1>4

LEMMA DirReplaced ==
  ASSUME InstallerTypeOK, NEW d, NEW l \in Labels, d \in [rel : Contents, whole : BOOLEAN, index : BOOLEAN],
         dirs' = [dirs EXCEPT ![l] = d]
  PROVE  /\ dirs' \in [Labels -> [rel : Contents, whole : BOOLEAN, index : BOOLEAN]]
         /\ dirs'[l] = d /\ \A k \in Labels \ {l} : dirs'[k] = dirs[k]
BY DEF InstallerTypeOK

LEMMA ReleaseTyped == ASSUME InstallerTypeOK, NEW l \in Labels PROVE ReleaseOf(l) \in Contents
BY InstallerAssumption DEF InstallerTypeOK, ReleaseOf, Contents

LEMMA BundleStep == ASSUME MachineInv, StepBundle PROVE MachineInv'
<1> USE DEF MachineInv
<1>1. /\ inst' \in [at : InstSteps \cup {"idle", "done"}, label : Labels, email : BOOLEAN]
      /\ inst'.at = "env" /\ inst'.label = inst.label /\ inst.label \in Labels
  BY InstMoves DEF StepBundle, InstSteps
<1>2. /\ dirs' \in [Labels -> [rel : Contents, whole : BOOLEAN, index : BOOLEAN]]
      /\ \A l \in PinnedLabels : dirs'[l].index => dirs'[l].whole \/ l \in torn
      /\ dirs'[inst.label].whole \/ inst.label \in torn
  <2>1. CASE inst.label # Latest /\ dirs[inst.label].index
    <3>1. dirs' = dirs /\ inst.label \in PinnedLabels
      BY <2>1, <1>1 DEF StepBundle, Labels
    <3> QED
      BY <2>1, <3>1 DEF FilesWhole, InstallerTypeOK
  <2>2. CASE ~(inst.label # Latest /\ dirs[inst.label].index)
    <3> DEFINE d == [rel |-> ReleaseOf(inst.label), whole |-> TRUE, index |-> TRUE]
    <3>1. d \in [rel : Contents, whole : BOOLEAN, index : BOOLEAN]
      BY <1>1, ReleaseTyped
    <3>2. dirs' = [dirs EXCEPT ![inst.label] = d]
      BY <2>2 DEF StepBundle
    <3>3. d.whole
      OBVIOUS
    <3> HIDE DEF d
    <3>4. /\ dirs' \in [Labels -> [rel : Contents, whole : BOOLEAN, index : BOOLEAN]]
          /\ dirs'[inst.label] = d /\ \A k \in Labels \ {inst.label} : dirs'[k] = dirs[k]
      BY <1>1, <3>1, <3>2, DirReplaced
    <3> QED
      BY <3>3, <3>4 DEF FilesWhole, Labels
  <2> QED
    BY <2>1, <2>2
<1>3. InstallerTypeOK'
  BY <1>1, <1>2 DEF StepBundle, InstallerTypeOK
<1>4. SecretsLive' /\ (process.gen \in {0, secrets.gen})' /\ FilesWhole'
  BY <1>2 DEF StepBundle, SecretsLive, FilesWhole
<1>5. StepsLast'
  BY <1>1, <1>2 DEF StepBundle, StepsLast, Bundled, Linked, Migrated, Seeded
<1> QED
  BY <1>3, <1>4, <1>5

LEMMA EnvStep == ASSUME MachineInv, StepEnv \/ StepUnits PROVE MachineInv'
<1> USE DEF MachineInv
<1>1. /\ inst' \in [at : InstSteps \cup {"idle", "done"}, label : Labels, email : BOOLEAN]
      /\ inst'.label = inst.label /\ inst.label \in Labels
      /\ \/ inst.at = "env" /\ inst'.at = "units" /\ UNCHANGED current
         \/ inst.at = "units" /\ inst'.at = "migrate" /\ current' = inst.label
  BY InstMoves DEF StepEnv, StepUnits, InstSteps, InstAt
<1>2. InstallerTypeOK'
  BY <1>1 DEF StepEnv, StepUnits, InstallerTypeOK
<1>3. SecretsLive' /\ (process.gen \in {0, secrets.gen})' /\ FilesWhole'
  BY DEF StepEnv, StepUnits, SecretsLive, FilesWhole
<1>4. StepsLast'
  BY <1>1 DEF StepEnv, StepUnits, StepsLast, Bundled, Linked, Migrated, Seeded
<1> QED
  BY <1>2, <1>3, <1>4

LEMMA MigrateStep == ASSUME MachineInv, StepMigrate PROVE MachineInv'
<1> USE DEF MachineInv
<1>1. /\ inst' \in [at : InstSteps \cup {"idle", "done"}, label : Labels, email : BOOLEAN]
      /\ inst'.label = inst.label /\ inst.label \in Labels /\ inst'.email = inst.email
      /\ inst'.at = (IF inst.email THEN "seed" ELSE "start")
  BY InstMoves DEF StepMigrate, InstSteps
<1>2. current = inst.label /\ DbOpens /\ (dirs[inst.label].whole \/ inst.label \in torn)
  BY DEF StepMigrate, StepsLast, Linked, Bundled, InstAt
<1>3. dirs[inst.label].rel \in Nat /\ migrated \in Nat /\ dirs[inst.label].rel \in Contents
  BY <1>1, InstallerAssumption DEF InstallerTypeOK, Contents
<1>4. migrated' \in Contents /\ migrated' >= dirs[inst.label].rel
  BY <1>2, <1>3 DEF StepMigrate, InstallerTypeOK
<1>5. InstallerTypeOK'
  BY <1>1, <1>4 DEF StepMigrate, InstallerTypeOK
<1>6. SecretsLive' /\ (process.gen \in {0, secrets.gen})' /\ FilesWhole'
  BY DEF StepMigrate, SecretsLive, FilesWhole
<1>7. StepsLast'
  BY <1>1, <1>2, <1>4 DEF StepMigrate, StepsLast, DbOpens, Bundled, Linked, Migrated, Seeded
<1> QED
  BY <1>5, <1>6, <1>7

LEMMA SeedStep == ASSUME MachineInv, StepSeed PROVE MachineInv'
<1> USE DEF MachineInv
<1>1. CASE seeds < 4
  BY <1>1 DEF StepSeed, InstallerTypeOK, SecretsLive, FilesWhole, StepsLast, DbOpens, InstAt,
              Bundled, Linked, Migrated, Seeded
<1>2. CASE ~(seeds < 4)
  <2>1. /\ inst' \in [at : InstSteps \cup {"idle", "done"}, label : Labels, email : BOOLEAN]
        /\ inst'.label = inst.label /\ inst'.email = inst.email
        /\ inst.at = "seed" /\ inst'.at = "start"
    BY <1>2, InstMoves DEF StepSeed, InstSteps, InstAt
  <2>2. seeds = 4
    BY <1>2 DEF InstallerTypeOK
  <2>3. InstallerTypeOK'
    BY <2>1, <1>2 DEF StepSeed, InstallerTypeOK
  <2>4. SecretsLive' /\ (process.gen \in {0, secrets.gen})' /\ FilesWhole'
    BY DEF StepSeed, SecretsLive, FilesWhole
  <2>5. StepsLast'
    BY <1>2, <2>1, <2>2 DEF StepSeed, StepsLast, DbOpens, Bundled, Linked, Migrated, Seeded
  <2> QED
    BY <2>3, <2>4, <2>5
<1> QED
  BY <1>1, <1>2

LEMMA StartedTyped ==
  ASSUME InstallerTypeOK, current \in Labels
  PROVE  Started \in [rel : Contents, gen : Gens] /\ Started.gen \in {0, secrets.gen}
BY InstallerAssumption DEF InstallerTypeOK, Started, NoProcess, Contents, Gens

LEMMA StartStep == ASSUME MachineInv, StepStart PROVE MachineInv'
<1> USE DEF MachineInv
<1>1. /\ inst' \in [at : InstSteps \cup {"idle", "done"}, label : Labels, email : BOOLEAN]
      /\ inst'.label = inst.label /\ inst'.email = inst.email /\ inst.label \in Labels
      /\ inst.at = "start" /\ inst'.at = "verify"
  BY InstMoves DEF StepStart, InstSteps, InstAt
<1>2. current \in Labels
  BY <1>1 DEF StepsLast, Linked
<1>3. process' \in [rel : Contents, gen : Gens] /\ process'.gen \in {0, secrets.gen}
  BY <1>2, StartedTyped DEF StepStart
<1>4. InstallerTypeOK'
  BY <1>1, <1>3 DEF StepStart, InstallerTypeOK
<1>5. SecretsLive' /\ (process.gen \in {0, secrets.gen})' /\ FilesWhole'
  BY <1>3 DEF StepStart, SecretsLive, FilesWhole
<1>6. StepsLast'
  BY <1>1 DEF StepStart, StepsLast, DbOpens, Bundled, Linked, Migrated, Seeded
<1> QED
  BY <1>4, <1>5, <1>6

LEMMA VerifyStep == ASSUME MachineInv, VerifyReady PROVE MachineInv'
<1> USE DEF MachineInv
<1>1. /\ inst' \in [at : InstSteps \cup {"idle", "done"}, label : Labels, email : BOOLEAN]
      /\ inst'.label = inst.label /\ inst'.email = inst.email
      /\ inst.at = "verify" /\ inst'.at = "done"
  BY InstMoves DEF VerifyReady, InstAt
<1>2. InstallerTypeOK'
  BY <1>1 DEF VerifyReady, machineVars, InstallerTypeOK
<1>3. SecretsLive' /\ (process.gen \in {0, secrets.gen})' /\ FilesWhole'
  BY DEF VerifyReady, machineVars, SecretsLive, FilesWhole
<1>4. StepsLast'
  BY <1>1 DEF VerifyReady, machineVars, StepsLast, DbOpens, Bundled, Linked, Migrated, Seeded
<1> QED
  BY <1>2, <1>3, <1>4

\* A run begins, the first step, a new release, a seal.
LEMMA QuietStep == ASSUME MachineInv, InstallBegins \/ StepPackages \/ ReleaseOut \/ PlaneSeals PROVE MachineInv'
<1> USE DEF MachineInv
<1>1. CASE InstallBegins
  <2>1. inst' \in [at : InstSteps \cup {"idle", "done"}, label : Labels, email : BOOLEAN] /\ inst'.at = "packages"
    BY <1>1 DEF InstallBegins, InstSteps
  <2> QED
    BY <1>1, <2>1 DEF InstallBegins, machineVars, InstallerTypeOK, SecretsLive, FilesWhole, StepsLast,
                      Bundled, Linked, Migrated, Seeded
<1>2. CASE StepPackages
  <2>1. inst' \in [at : InstSteps \cup {"idle", "done"}, label : Labels, email : BOOLEAN] /\ inst'.at = "secrets"
    BY <1>2, InstMoves DEF StepPackages, InstSteps
  <2> QED
    BY <1>2, <2>1 DEF StepPackages, machineVars, InstallerTypeOK, SecretsLive, FilesWhole, StepsLast,
                      Bundled, Linked, Migrated, Seeded
<1>3. CASE ReleaseOut
  BY <1>3, InstallerAssumption DEF ReleaseOut, machineVars, InstallerTypeOK, SecretsLive, FilesWhole, StepsLast, DbOpens
<1>4. CASE PlaneSeals
  <2>1. process.gen \in Gens
    BY DEF InstallerTypeOK
  <2> QED
    BY <1>4, <2>1 DEF PlaneSeals, machineVars, InstallerTypeOK, SecretsLive, FilesWhole, StepsLast, DbOpens
<1> QED
  BY <1>1, <1>2, <1>3, <1>4

LEMMA CutStep == ASSUME MachineInv, InstallCut PROVE MachineInv'
<1> USE DEF MachineInv
<1>1. cuts' \in 0..MaxCuts
  BY InstallerAssumption DEF InstallCut, Cut, InstallerTypeOK
<1>2. inst' = Idle /\ inst' \in [at : InstSteps \cup {"idle", "done"}, label : Labels, email : BOOLEAN] /\ StepsLast'
  BY DEF InstallCut, Idle, Labels, StepsLast, Bundled, Linked, Migrated, Seeded
<1>3. CASE UNCHANGED <<secrets, dirs, envHost, torn>>
  BY <1>1, <1>2, <1>3 DEF InstallCut, InstallerTypeOK, SecretsLive, FilesWhole
<1>4. CASE /\ secrets.gen = 0 /\ \E u \in BOOLEAN : secrets' = [gen |-> 1, url |-> u, whole |-> FALSE]
           /\ torn' = torn \cup {EnvSecrets} /\ UNCHANGED <<dirs, envHost>>
  <2>1. secrets' \in [gen : Gens, url : BOOLEAN, whole : BOOLEAN] /\ secrets'.gen = 1
    BY <1>4, InstallerAssumption DEF Gens
  <2>2. InstallerTypeOK'
    BY <1>1, <1>2, <1>4, <2>1 DEF InstallCut, InstallerTypeOK
  <2> QED
    BY <1>2, <1>4, <2>1, <2>2 DEF InstallCut, SecretsLive, FilesWhole
<1>5. CASE /\ \E i \in BOOLEAN :
                dirs' = [dirs EXCEPT ![inst.label] = [rel |-> ReleaseOf(inst.label), whole |-> FALSE, index |-> i \/ @.index]]
           /\ ~(inst.label # Latest /\ dirs[inst.label].index)
           /\ torn' = torn \cup ({inst.label} \ {Latest}) /\ UNCHANGED <<secrets, envHost>>
  <2>1. inst.label \in Labels
    BY DEF InstallerTypeOK
  <2>2. PICK i \in BOOLEAN :
          dirs' = [dirs EXCEPT ![inst.label] = [rel |-> ReleaseOf(inst.label), whole |-> FALSE, index |-> i \/ dirs[inst.label].index]]
    BY <1>5, <2>1 DEF InstallerTypeOK
  <2> DEFINE d == [rel |-> ReleaseOf(inst.label), whole |-> FALSE, index |-> i \/ dirs[inst.label].index]
  <2>3. d \in [rel : Contents, whole : BOOLEAN, index : BOOLEAN]
    BY <2>1, ReleaseTyped DEF InstallerTypeOK
  <2> HIDE DEF d
  <2>4. /\ dirs' \in [Labels -> [rel : Contents, whole : BOOLEAN, index : BOOLEAN]]
        /\ dirs'[inst.label] = d /\ \A k \in Labels \ {inst.label} : dirs'[k] = dirs[k]
    BY <2>1, <2>2, <2>3, DirReplaced DEF d
  <2>5. torn' \subseteq PinnedLabels \cup {EnvSecrets}
    BY <1>5, <2>1 DEF InstallerTypeOK, Labels
  <2>6. InstallerTypeOK'
    BY <1>1, <1>2, <1>5, <2>4, <2>5 DEF InstallCut, InstallerTypeOK
  <2>7. FilesWhole'
    <3>1. ASSUME NEW l \in PinnedLabels, dirs'[l].index, l \notin torn' PROVE dirs'[l].whole
      <4>1. l \notin torn /\ inst.label # l /\ l \in Labels
        BY <1>5, <3>1, InstallerAssumption DEF Labels
      <4>2. dirs'[l] = dirs[l]
        BY <2>4, <4>1
      <4> QED
        BY <3>1, <4>1, <4>2 DEF FilesWhole
    <3>2. torn \subseteq torn'
      BY <1>5
    <3> QED
      BY <1>5, <3>1, <3>2 DEF FilesWhole
  <2> QED
    BY <1>2, <1>5, <2>6, <2>7 DEF InstallCut, SecretsLive
<1>6. CASE envHost' = "partial" /\ UNCHANGED <<secrets, dirs, torn>>
  BY <1>1, <1>2, <1>6 DEF InstallCut, InstallerTypeOK, SecretsLive, FilesWhole
<1> QED
  BY <1>3, <1>4, <1>5, <1>6 DEF InstallCut

LEMMA RebootStep == ASSUME MachineInv, MachineReboots PROVE MachineInv'
<1> USE DEF MachineInv
<1>1. cuts' \in 0..MaxCuts
  BY InstallerAssumption DEF MachineReboots, Cut, InstallerTypeOK
<1>2. inst' = Idle /\ inst' \in [at : InstSteps \cup {"idle", "done"}, label : Labels, email : BOOLEAN] /\ StepsLast'
  BY DEF MachineReboots, Idle, Labels, StepsLast, Bundled, Linked, Migrated, Seeded
<1>3. process' \in [rel : Contents, gen : Gens] /\ process'.gen \in {0, secrets.gen}
  <2>1. NoProcess \in [rel : Contents, gen : Gens] /\ NoProcess.gen = 0
    BY InstallerAssumption DEF NoProcess, Contents, Gens
  <2>2. CASE unit /\ current # NoLink
    <3>1. current \in Labels
      BY <2>2 DEF InstallerTypeOK
    <3> QED
      BY <2>2, <3>1, StartedTyped DEF MachineReboots
  <2> QED
    BY <2>1, <2>2 DEF MachineReboots
<1>4. InstallerTypeOK'
  BY <1>1, <1>2, <1>3 DEF MachineReboots, machineVars, InstallerTypeOK
<1> QED
  BY <1>2, <1>3, <1>4 DEF MachineReboots, machineVars, SecretsLive, FilesWhole

LEMMA MachineStep == MachineInv /\ [InstallerNext]_installerVars => MachineInv'
<1> SUFFICES ASSUME MachineInv, [InstallerNext]_installerVars PROVE MachineInv'
  OBVIOUS
<1>1. CASE UNCHANGED installerVars
  BY <1>1 DEF installerVars, machineVars, MachineInv, InstallerTypeOK, SecretsLive, FilesWhole, StepsLast, DbOpens
<1> QED
  BY <1>1, SecretsStep, RoleStep, BundleStep, EnvStep, MigrateStep, SeedStep, StartStep, VerifyStep, QuietStep,
     CutStep, RebootStep
  DEF InstallerNext

LEMMA MachineIsInstalled == MachineInv => InstallerTypeOK /\ InstallRepairs
<1> SUFFICES ASSUME MachineInv PROVE InstallerTypeOK /\ InstallRepairs
  OBVIOUS
<1>1. DoneIsInstalled
  BY DEF MachineInv, FilesWhole, StepsLast, DoneIsInstalled, DbOpens, InstallerTypeOK, Bundled, Linked, Migrated, Seeded
<1> QED
  BY <1>1 DEF MachineInv, InstallRepairs

(***************************************************************************)
(* The updates card.  What a request may find when its answer comes back   *)
(* depends on what else was under way: one update is applied at a time, the *)
(* card is loaded by one request after the other, and a change of the      *)
(* settings is sure only if nothing that reads them overlaps it.           *)
(***************************************************************************)
CallRow == [kind : {"none", "load", "settings", "check", "apply", "poll", "save"},
            at : {"sent", "read", "answered"}, live : BOOLEAN, ok : BOOLEAN, early : BOOLEAN, offer : 0..LastVersion,
            state : StatusStates, saw : UpdSettings, of : {"channel", "auto"}, to : BOOLEAN]
ViewRow == [offer : 0..LastVersion, read : BOOLEAN, failed : BOOLEAN, checking : BOOLEAN, applying : BOOLEAN,
            settings : UpdSettings, known : BOOLEAN, told : {"none", "done", "failed"}, early : BOOLEAN]

CardRows ==
  /\ cardCalls \in [CardCalls -> CallRow] /\ cardView \in ViewRow
  /\ statusFile \in [state : StatusStates, to : 0..LastVersion] /\ spoken \subseteq StatusStates
  /\ latestRelease \in CardVersions /\ runs \in 0..LastVersion /\ offer \in 0..LastVersion
  /\ updSettings \in UpdSettings /\ wanted \in BOOLEAN /\ updating \in BOOLEAN /\ unsure \in BOOLEAN
  /\ saves \in 0..CardSaves

HasReply(c) == cardCalls[c].at = "answered" /\ cardCalls[c].ok
Reads(c)    == cardCalls[c].kind \in {"load", "settings"}
Saves(c)    == cardCalls[c].kind = "save"

Announced ==
  /\ cardView.told # "none" /\ ~cardView.early => cardView.told \in spoken
  /\ spoken # {} => statusFile.state \in spoken
  /\ cardView.applying /\ cardView.told = "none" =>
       \A c \in CardCalls : cardCalls[c].kind = "poll" /\ HasReply(c) /\ cardCalls[c].live /\ ~cardCalls[c].early =>
         cardCalls[c].state \in spoken
  /\ \A c \in CardCalls : cardCalls[c].kind = "apply" =>
       ~cardView.applying /\ cardView.told = "none" /\ \A d \in CardCalls : cardCalls[d].kind = "apply" => d = c

Loading ==
  /\ \A c \in CardCalls : cardCalls[c].at # "answered" => ~cardCalls[c].ok
  /\ \A c \in CardCalls : Reads(c) => \A d \in CardCalls : Reads(d) => d = c
  /\ \A c \in CardCalls : cardCalls[c].kind = "load" => cardView.failed \/ ~cardView.known
  /\ \A c \in CardCalls : cardCalls[c].kind = "settings" => cardView.read \/ cardView.failed
  /\ \A c \in CardCalls : Saves(c) => cardView.known
  /\ cardView.known => cardView.read \/ cardView.failed

SureOfSettings ==
  ~unsure =>
    /\ \A c \in CardCalls : Saves(c) =>
         cardView.read /\ ~cardView.failed /\ \A d \in CardCalls : Reads(d) \/ Saves(d) => d = c
    /\ \A c \in CardCalls : cardCalls[c].kind \in {"settings", "save"} /\ HasReply(c) => cardCalls[c].saw = updSettings
    /\ cardView.known /\ (\A c \in CardCalls : ~(Saves(c) /\ HasReply(c))) => cardView.settings = updSettings

CardInv == CardRows /\ Announced /\ Loading /\ SureOfSettings

LEMMA CardStarts == UpdatesCardInit => CardInv
<1> SUFFICES ASSUME UpdatesCardInit PROVE CardInv
  OBVIOUS
<1>1. NoCardCall \in CallRow /\ NoCardCall.kind = "none" /\ ~NoCardCall.ok
  BY UpdatesCardAssumption DEF NoCardCall, CallRow, StatusStates, UpdSettings
<1>2. /\ FreshCard \in ViewRow /\ FreshCard.told = "none" /\ ~FreshCard.applying /\ ~FreshCard.known
  BY UpdatesCardAssumption DEF FreshCard, ViewRow, UpdSettings
<1>3. \A c \in CardCalls : cardCalls[c] = NoCardCall
  BY DEF UpdatesCardInit
<1>4. CardRows
  <2>1. /\ latestRelease \in CardVersions /\ runs \in 0..LastVersion /\ offer \in 0..LastVersion /\ saves \in 0..CardSaves
        /\ statusFile \in [state : StatusStates, to : 0..LastVersion] /\ updSettings \in UpdSettings
    BY UpdatesCardAssumption DEF UpdatesCardInit, CardVersions, StatusStates, UpdSettings
  <2> QED
    BY <1>1, <1>2, <2>1 DEF UpdatesCardInit, CardRows
<1>5. Announced /\ Loading /\ SureOfSettings
  BY <1>1, <1>2, <1>3 DEF UpdatesCardInit, Announced, Loading, SureOfSettings, HasReply, Reads, Saves
<1> QED
  BY <1>4, <1>5 DEF CardInv

LEMMA CallReplaced ==
  ASSUME CardRows, NEW c \in CardCalls, NEW callRow \in CallRow, cardCalls' = [cardCalls EXCEPT ![c] = callRow]
  PROVE  /\ cardCalls' \in [CardCalls -> CallRow] /\ cardCalls'[c] = callRow
         /\ \A d \in CardCalls : d # c => cardCalls'[d] = cardCalls[d]
BY DEF CardRows

LEMMA NoCallTyped == NoCardCall \in CallRow /\ NoCardCall.kind = "none" /\ NoCardCall.at = "sent" /\ ~NoCardCall.ok
BY UpdatesCardAssumption DEF NoCardCall, CallRow, StatusStates, UpdSettings

LEMMA Placed ==
  ASSUME CardRows, NEW c \in CardCalls, NEW callKind \in {"load", "settings", "check", "apply", "poll"}, Place(c, callKind)
  PROVE  /\ cardCalls' \in [CardCalls -> CallRow]
         /\ cardCalls'[c].kind = callKind /\ cardCalls'[c].at = "sent" /\ ~cardCalls'[c].ok
         /\ \A d \in CardCalls : d # c => cardCalls'[d] = cardCalls[d]
<1> DEFINE callRow == [NoCardCall EXCEPT !.kind = callKind, !.live = TRUE]
<1>1. callRow \in CallRow /\ callRow.kind = callKind /\ callRow.at = "sent" /\ ~callRow.ok
  BY NoCallTyped DEF CallRow
<1>2. cardCalls' = [cardCalls EXCEPT ![c] = callRow]
  BY DEF Place
<1> HIDE DEF callRow
<1> QED
  BY <1>1, <1>2, CallReplaced

LEMMA Freed ==
  ASSUME CardRows, NEW c \in CardCalls, FreeCall(c)
  PROVE  /\ cardCalls' \in [CardCalls -> CallRow] /\ cardCalls'[c].kind = "none" /\ ~cardCalls'[c].ok
         /\ \A d \in CardCalls : d # c => cardCalls'[d] = cardCalls[d]
BY NoCallTyped, CallReplaced DEF FreeCall

(***************************************************************************)
(* Requests go out.                                                        *)
(***************************************************************************)
LEMMA LoadStep == ASSUME CardInv, NEW c \in CardCalls, LoadCard(c) PROVE CardInv'
<1>0. CardRows /\ FreeSlot(c) /\ UNCHANGED <<planeSide, cardView, cardGhosts>>
  BY DEF CardInv, LoadCard
<1>1. /\ cardCalls' \in [CardCalls -> CallRow]
      /\ cardCalls'[c].kind = "load" /\ cardCalls'[c].at = "sent" /\ ~cardCalls'[c].ok
      /\ \A d \in CardCalls : d # c => cardCalls'[d] = cardCalls[d]
  BY <1>0, Placed DEF LoadCard
<1>2. (~cardView.read \/ cardView.failed) /\ \A d \in CardCalls : ~Reads(d)
  BY DEF LoadCard, Calling, Reads
<1>3. CardRows'
  BY <1>0, <1>1 DEF CardRows, planeSide, cardGhosts
<1>4. Announced'
  BY <1>0, <1>1 DEF CardInv, Announced, HasReply, planeSide, cardGhosts
<1>5. Loading'
  BY <1>0, <1>1, <1>2 DEF CardInv, Loading, Reads, Saves
<1>6. SureOfSettings'
  BY <1>0, <1>1, <1>2 DEF CardInv, SureOfSettings, Reads, Saves, HasReply, planeSide, cardGhosts
<1> QED
  BY <1>3, <1>4, <1>5, <1>6 DEF CardInv

LEMMA CheckStep == ASSUME CardInv, NEW c \in CardCalls, CheckClicked(c) PROVE CardInv'
<1>0. CardRows /\ UNCHANGED <<planeSide, cardGhosts>>
  BY DEF CardInv, CheckClicked
<1>1. /\ cardCalls' \in [CardCalls -> CallRow]
      /\ cardCalls'[c].kind = "check" /\ cardCalls'[c].at = "sent" /\ ~cardCalls'[c].ok
      /\ \A d \in CardCalls : d # c => cardCalls'[d] = cardCalls[d]
  BY <1>0, Placed DEF CheckClicked
<1>2. /\ cardView' \in ViewRow /\ cardView'.read = cardView.read /\ cardView'.failed = cardView.failed
      /\ cardView'.known = cardView.known /\ cardView'.settings = cardView.settings
      /\ cardView'.told = cardView.told /\ cardView'.applying = cardView.applying /\ cardView'.early = cardView.early
  BY <1>0 DEF CheckClicked, CardRows, ViewRow
<1>f. cardCalls[c].kind = "none"
  BY NoCallTyped DEF CheckClicked, FreeSlot
<1>3. CardRows'
  BY <1>0, <1>1, <1>2 DEF CardRows, planeSide, cardGhosts
<1>4. Announced'
  BY <1>0, <1>1, <1>2 DEF CardInv, Announced, HasReply, planeSide, cardGhosts
<1>5. Loading'
  BY <1>0, <1>1, <1>2 DEF CardInv, Loading, Reads, Saves
<1>6. SureOfSettings'
  BY <1>0, <1>1, <1>2, <1>f DEF CardInv, SureOfSettings, Reads, Saves, HasReply, planeSide, cardGhosts
<1> QED
  BY <1>3, <1>4, <1>5, <1>6 DEF CardInv

LEMMA ApplyStep == ASSUME CardInv, NEW c \in CardCalls, ApplyPressed(c) PROVE CardInv'
<1>0. CardRows /\ UNCHANGED <<planeSide, cardGhosts>>
  BY DEF CardInv, ApplyPressed
<1>1. /\ cardCalls' \in [CardCalls -> CallRow]
      /\ cardCalls'[c].kind = "apply" /\ cardCalls'[c].at = "sent" /\ ~cardCalls'[c].ok
      /\ \A d \in CardCalls : d # c => cardCalls'[d] = cardCalls[d]
  BY <1>0, Placed DEF ApplyPressed
<1>v. /\ cardView' \in ViewRow /\ cardView'.read = cardView.read /\ cardView'.failed = cardView.failed
      /\ cardView'.known = cardView.known /\ cardView'.settings = cardView.settings
      /\ cardView'.told = "none" /\ cardView'.applying = cardView.applying
  BY <1>0 DEF ApplyPressed, CardRows, ViewRow
<1>2. ~cardView.applying /\ \A d \in CardCalls : cardCalls[d].kind # "apply"
  BY DEF ApplyPressed, OfferShown, Calling
<1>f. cardCalls[c].kind = "none"
  BY NoCallTyped DEF ApplyPressed, FreeSlot
<1>3. CardRows'
  BY <1>0, <1>1, <1>v DEF CardRows, planeSide, cardGhosts
<1>4. Announced'
  BY <1>0, <1>1, <1>2, <1>v DEF CardInv, Announced, HasReply, planeSide, cardGhosts
<1>5. Loading'
  BY <1>0, <1>1, <1>v DEF CardInv, Loading, Reads, Saves
<1>6. SureOfSettings'
  BY <1>0, <1>1, <1>f, <1>v DEF CardInv, SureOfSettings, Reads, Saves, HasReply, planeSide, cardGhosts
<1> QED
  BY <1>3, <1>4, <1>5, <1>6 DEF CardInv

LEMMA CardPolls == ASSUME CardInv, NEW c \in CardCalls, ProgressTick(c) PROVE CardInv'
<1>0. CardRows /\ UNCHANGED <<planeSide, cardView, cardGhosts>>
  BY DEF CardInv, ProgressTick
<1>1. /\ cardCalls' \in [CardCalls -> CallRow]
      /\ cardCalls'[c].kind = "poll" /\ cardCalls'[c].at = "sent" /\ ~cardCalls'[c].ok
      /\ \A d \in CardCalls : d # c => cardCalls'[d] = cardCalls[d]
  BY <1>0, Placed DEF ProgressTick
<1>f. cardCalls[c].kind = "none"
  BY NoCallTyped DEF ProgressTick, FreeSlot
<1>3. CardRows'
  BY <1>0, <1>1 DEF CardRows, planeSide, cardGhosts
<1>4. Announced'
  BY <1>0, <1>1 DEF CardInv, Announced, HasReply, planeSide, cardGhosts
<1>5. Loading'
  BY <1>0, <1>1 DEF CardInv, Loading, Reads, Saves
<1>6. SureOfSettings'
  BY <1>0, <1>1, <1>f DEF CardInv, SureOfSettings, Reads, Saves, HasReply, planeSide, cardGhosts
<1> QED
  BY <1>3, <1>4, <1>5, <1>6 DEF CardInv

LEMMA SaveStep == ASSUME CardInv, NEW c \in CardCalls, SaveSettings(c) PROVE CardInv'
<1>0. /\ CardRows /\ UNCHANGED <<planeSide, cardView, spoken>>
      /\ cardView.read /\ ~cardView.failed /\ cardView.known
      /\ saves' = saves + 1 /\ saves < CardSaves /\ unsure' = (unsure \/ Calling("save") \cup Calling("settings") # {})
  BY DEF CardInv, SaveSettings
<1>1. /\ cardCalls' \in [CardCalls -> CallRow]
      /\ cardCalls'[c].kind = "save" /\ cardCalls'[c].at = "sent" /\ ~cardCalls'[c].ok
      /\ \A d \in CardCalls : d # c => cardCalls'[d] = cardCalls[d]
  <2>1. PICK p \in Patches :
          cardCalls' = [cardCalls EXCEPT ![c] = [NoCardCall EXCEPT !.kind = "save", !.live = TRUE, !.of = p.of, !.to = p.to]]
    BY DEF SaveSettings
  <2> DEFINE callRow == [NoCardCall EXCEPT !.kind = "save", !.live = TRUE, !.of = p.of, !.to = p.to]
  <2>2. p.of \in {"channel", "auto"} /\ p.to \in BOOLEAN
    BY DEF Patches
  <2>3. callRow \in CallRow /\ callRow.kind = "save" /\ callRow.at = "sent" /\ ~callRow.ok
    BY <2>2, NoCallTyped DEF CallRow
  <2> HIDE DEF callRow
  <2> QED
    BY <1>0, <2>1, <2>3, CallReplaced DEF callRow
<1>2. ~unsure' => ~unsure /\ \A d \in CardCalls : ~Saves(d) /\ ~Reads(d)
  <2> SUFFICES ASSUME ~unsure', NEW d \in CardCalls PROVE ~unsure /\ ~Saves(d) /\ ~Reads(d)
    BY <1>0
  <2>1. ~unsure /\ d \notin Calling("save") /\ d \notin Calling("settings")
    BY <1>0
  <2>2. cardCalls[d].kind # "load"
    BY <1>0 DEF CardInv, Loading
  <2> QED
    BY <2>1, <2>2 DEF Calling, Saves, Reads
<1>3. saves' \in 0..CardSaves /\ unsure' \in BOOLEAN
  BY <1>0, UpdatesCardAssumption DEF CardRows
<1>4. CardRows'
  BY <1>0, <1>1, <1>3 DEF CardRows, planeSide
<1>5. Announced'
  BY <1>0, <1>1 DEF CardInv, Announced, HasReply, planeSide
<1>6. Loading'
  BY <1>0, <1>1 DEF CardInv, Loading, Reads, Saves
<1>7. SureOfSettings'
  BY <1>0, <1>1, <1>2 DEF CardInv, SureOfSettings, Reads, Saves, HasReply, planeSide
<1> QED
  BY <1>4, <1>5, <1>6, <1>7 DEF CardInv

(***************************************************************************)
(* The service answers.                                                    *)
(***************************************************************************)
LEMMA CallAnswered ==
  ASSUME CardRows, NEW c \in CardCalls, NEW theCall \in CallRow, AnswerCall(c, theCall)
  PROVE  /\ cardCalls' \in [CardCalls -> CallRow] /\ cardCalls'[c].at = "answered" /\ cardCalls'[c].kind = theCall.kind
         /\ cardCalls'[c].ok = theCall.ok /\ cardCalls'[c].state = theCall.state /\ cardCalls'[c].saw = theCall.saw
         /\ cardCalls'[c].live = theCall.live /\ cardCalls'[c].early = theCall.early
         /\ \A d \in CardCalls : d # c => cardCalls'[d] = cardCalls[d]
<1> DEFINE callRow == [theCall EXCEPT !.at = "answered"]
<1>1. /\ callRow \in CallRow /\ callRow.at = "answered" /\ callRow.kind = theCall.kind /\ callRow.ok = theCall.ok /\ callRow.state = theCall.state
      /\ callRow.saw = theCall.saw /\ callRow.live = theCall.live /\ callRow.early = theCall.early
  BY DEF CallRow
<1>2. cardCalls' = [cardCalls EXCEPT ![c] = callRow]
  BY DEF AnswerCall
<1> HIDE DEF callRow
<1> QED
  BY <1>1, <1>2, CallReplaced

LEMMA NothingStep == ASSUME CardInv, NEW c \in CardCalls, ServeNothing(c) PROVE CardInv'
<1>0. CardRows /\ UNCHANGED <<planeSide, cardView, cardGhosts>> /\ cardCalls[c] \in CallRow /\ ~cardCalls[c].ok
  BY DEF CardInv, CardRows, Loading, ServeNothing
<1>1. /\ cardCalls' \in [CardCalls -> CallRow]
      /\ cardCalls'[c].kind = cardCalls[c].kind /\ cardCalls'[c].at = "answered" /\ ~cardCalls'[c].ok
      /\ \A d \in CardCalls : d # c => cardCalls'[d] = cardCalls[d]
  BY <1>0, CallAnswered DEF ServeNothing
<1>3. CardRows'
  BY <1>0, <1>1 DEF CardRows, planeSide, cardGhosts
<1>4. Announced'
  BY <1>0, <1>1 DEF CardInv, Announced, HasReply, planeSide, cardGhosts
<1>5. Loading'
  BY <1>0, <1>1 DEF CardInv, Loading, Reads, Saves
<1>6. SureOfSettings'
  BY <1>0, <1>1 DEF CardInv, SureOfSettings, Reads, Saves, HasReply, planeSide, cardGhosts
<1> QED
  BY <1>3, <1>4, <1>5, <1>6 DEF CardInv

LEMMA StateStep == ASSUME CardInv, NEW c \in CardCalls, ServeState(c) PROVE CardInv'
<1>0. CardRows /\ UNCHANGED <<planeSide, cardView, cardGhosts>> /\ cardCalls[c] \in CallRow /\ offer \in 0..LastVersion
  BY DEF CardInv, CardRows, ServeState
<1>1. /\ cardCalls' \in [CardCalls -> CallRow]
      /\ cardCalls[c].kind = "load" /\ cardCalls[c].at = "sent" /\ cardCalls'[c].kind = "load" /\ cardCalls'[c].at = "answered"
      /\ \A d \in CardCalls : d # c => cardCalls'[d] = cardCalls[d]
  <2> DEFINE theCall == [cardCalls[c] EXCEPT !.ok = TRUE, !.offer = offer]
  <2>1. theCall \in CallRow /\ theCall.kind = cardCalls[c].kind
    BY <1>0 DEF CallRow
  <2>2. AnswerCall(c, theCall)
    BY DEF ServeState
  <2> HIDE DEF theCall
  <2> QED
    BY <1>0, <2>1, <2>2, CallAnswered DEF ServeState, Sent
<1>3. CardRows'
  BY <1>0, <1>1 DEF CardRows, planeSide, cardGhosts
<1>4. Announced'
  BY <1>0, <1>1 DEF CardInv, Announced, HasReply, planeSide, cardGhosts
<1>5. Loading'
  BY <1>0, <1>1 DEF CardInv, Loading, Reads, Saves
<1>6. SureOfSettings'
  BY <1>0, <1>1 DEF CardInv, SureOfSettings, Reads, Saves, HasReply, planeSide, cardGhosts
<1> QED
  BY <1>3, <1>4, <1>5, <1>6 DEF CardInv

LEMMA SettingsStep == ASSUME CardInv, NEW c \in CardCalls, ServeSettings(c) PROVE CardInv'
<1>0. CardRows /\ UNCHANGED <<planeSide, cardView, cardGhosts>> /\ cardCalls[c] \in CallRow /\ updSettings \in UpdSettings
  BY DEF CardInv, CardRows, ServeSettings
<1>1. /\ cardCalls' \in [CardCalls -> CallRow]
      /\ cardCalls[c].kind = "settings" /\ cardCalls[c].at = "sent" /\ cardCalls'[c].kind = "settings" /\ cardCalls'[c].at = "answered"
      /\ \A d \in CardCalls : d # c => cardCalls'[d] = cardCalls[d]
      /\ cardCalls'[c].saw = updSettings
  <2> DEFINE theCall == [cardCalls[c] EXCEPT !.ok = TRUE, !.saw = updSettings]
  <2>1. theCall \in CallRow /\ theCall.kind = cardCalls[c].kind /\ theCall.saw = updSettings
    BY <1>0 DEF CallRow
  <2>2. AnswerCall(c, theCall)
    BY DEF ServeSettings
  <2> HIDE DEF theCall
  <2> QED
    BY <1>0, <2>1, <2>2, CallAnswered DEF ServeSettings, Sent
<1>3. CardRows'
  BY <1>0, <1>1 DEF CardRows, planeSide, cardGhosts
<1>4. Announced'
  BY <1>0, <1>1 DEF CardInv, Announced, HasReply, planeSide, cardGhosts
<1>5. Loading'
  BY <1>0, <1>1 DEF CardInv, Loading, Reads, Saves
<1>6. SureOfSettings'
  BY <1>0, <1>1 DEF CardInv, SureOfSettings, Reads, Saves, HasReply, planeSide, cardGhosts
<1> QED
  BY <1>3, <1>4, <1>5, <1>6 DEF CardInv

LEMMA NewReleaseTyped == CardRows => NewRelease \in 0..LastVersion
BY UpdatesCardAssumption DEF CardRows, NewRelease, CardVersions

LEMMA ServeCheckStep == ASSUME CardInv, NEW c \in CardCalls, ServeCheck(c) PROVE CardInv'
<1>0. /\ CardRows /\ UNCHANGED <<latestRelease, runs, updSettings, statusFile, wanted, updating, cardView, cardGhosts>>
      /\ cardCalls[c] \in CallRow /\ offer' \in 0..LastVersion /\ NewRelease \in 0..LastVersion
  BY NewReleaseTyped DEF CardInv, CardRows, ServeCheck
<1>1. /\ cardCalls' \in [CardCalls -> CallRow]
      /\ cardCalls[c].kind = "check" /\ cardCalls[c].at = "sent" /\ cardCalls'[c].kind = "check" /\ cardCalls'[c].at = "answered"
      /\ \A d \in CardCalls : d # c => cardCalls'[d] = cardCalls[d]
  <2> DEFINE theCall == [cardCalls[c] EXCEPT !.ok = TRUE, !.offer = NewRelease]
  <2>1. theCall \in CallRow /\ theCall.kind = cardCalls[c].kind
    BY <1>0 DEF CallRow
  <2>2. AnswerCall(c, theCall)
    BY DEF ServeCheck
  <2> HIDE DEF theCall
  <2> QED
    BY <1>0, <2>1, <2>2, CallAnswered DEF ServeCheck, Sent
<1>3. CardRows'
  BY <1>0, <1>1 DEF CardRows, cardGhosts
<1>4. Announced'
  BY <1>0, <1>1 DEF CardInv, Announced, HasReply, cardGhosts
<1>5. Loading'
  BY <1>0, <1>1 DEF CardInv, Loading, Reads, Saves
<1>6. SureOfSettings'
  BY <1>0, <1>1 DEF CardInv, SureOfSettings, Reads, Saves, HasReply, cardGhosts
<1> QED
  BY <1>3, <1>4, <1>5, <1>6 DEF CardInv

LEMMA ServeApplyStep == ASSUME CardInv, NEW c \in CardCalls, ServeApply(c) PROVE CardInv'
<1>0. /\ CardRows /\ UNCHANGED <<latestRelease, runs, offer, updSettings, statusFile, updating, cardView, saves, unsure>>
      /\ cardCalls[c] \in CallRow /\ wanted' \in BOOLEAN /\ spoken' \in {{}, spoken}
  BY DEF CardInv, CardRows, ServeApply
<1>a. PICK told \in BOOLEAN : AnswerCall(c, [cardCalls[c] EXCEPT !.ok = (told /\ NewRelease # 0)])
  BY DEF ServeApply
<1>1. /\ cardCalls' \in [CardCalls -> CallRow]
      /\ cardCalls[c].kind = "apply" /\ cardCalls[c].at = "sent" /\ cardCalls'[c].kind = "apply" /\ cardCalls'[c].at = "answered"
      /\ \A d \in CardCalls : d # c => cardCalls'[d] = cardCalls[d]
  <2> DEFINE ok == told /\ NewRelease # 0
             theCall == [cardCalls[c] EXCEPT !.ok = ok]
  <2>0. ok \in BOOLEAN
    OBVIOUS
  <2>2. AnswerCall(c, theCall)
    BY <1>a
  <2> HIDE DEF ok
  <2>1. theCall \in CallRow /\ theCall.kind = cardCalls[c].kind
    BY <1>0, <2>0 DEF CallRow
  <2> HIDE DEF theCall
  <2> QED
    BY <1>0, <2>1, <2>2, CallAnswered DEF ServeApply, Sent
<1>2. cardView.told = "none" /\ ~cardView.applying
  BY <1>1 DEF CardInv, Announced
<1>3. CardRows'
  BY <1>0, <1>1 DEF CardRows
<1>4. Announced'
  BY <1>0, <1>1, <1>2 DEF CardInv, Announced, HasReply
<1>5. Loading'
  BY <1>0, <1>1 DEF CardInv, Loading, Reads, Saves
<1>6. SureOfSettings'
  BY <1>0, <1>1 DEF CardInv, SureOfSettings, Reads, Saves, HasReply
<1> QED
  BY <1>3, <1>4, <1>5, <1>6 DEF CardInv

LEMMA ProgressStep == ASSUME CardInv, NEW c \in CardCalls, ServeProgress(c) PROVE CardInv'
<1>0. CardRows /\ UNCHANGED <<planeSide, cardView, cardGhosts>> /\ cardCalls[c] \in CallRow /\ statusFile.state \in StatusStates
  BY DEF CardInv, CardRows, ServeProgress
<1>1. /\ cardCalls' \in [CardCalls -> CallRow]
      /\ cardCalls[c].kind = "poll" /\ cardCalls[c].at = "sent" /\ cardCalls'[c].kind = "poll" /\ cardCalls'[c].at = "answered"
      /\ \A d \in CardCalls : d # c => cardCalls'[d] = cardCalls[d]
      /\ cardCalls'[c].state = statusFile.state /\ (~cardCalls'[c].early => spoken # {})
  <2> DEFINE isEarly == (spoken = {})
             theCall == [cardCalls[c] EXCEPT !.ok = TRUE, !.state = statusFile.state, !.early = isEarly]
  <2>e. isEarly \in BOOLEAN /\ (~isEarly => spoken # {})
    OBVIOUS
  <2>2. AnswerCall(c, theCall)
    BY DEF ServeProgress
  <2> HIDE DEF isEarly
  <2>1. /\ theCall \in CallRow /\ theCall.kind = cardCalls[c].kind /\ theCall.state = statusFile.state
        /\ theCall.early = isEarly
    BY <1>0, <2>e DEF CallRow
  <2> HIDE DEF theCall
  <2> QED
    BY <1>0, <2>e, <2>1, <2>2, CallAnswered DEF ServeProgress, Sent
<1>3. CardRows'
  BY <1>0, <1>1 DEF CardRows, planeSide, cardGhosts
<1>4. Announced'
  BY <1>0, <1>1 DEF CardInv, Announced, HasReply, planeSide, cardGhosts
<1>5. Loading'
  BY <1>0, <1>1 DEF CardInv, Loading, Reads, Saves
<1>6. SureOfSettings'
  BY <1>0, <1>1 DEF CardInv, SureOfSettings, Reads, Saves, HasReply, planeSide, cardGhosts
<1> QED
  BY <1>3, <1>4, <1>5, <1>6 DEF CardInv

LEMMA ReadStep == ASSUME CardInv, NEW c \in CardCalls, ReadSettings(c) PROVE CardInv'
<1>0. /\ CardRows /\ UNCHANGED <<planeSide, cardView, cardGhosts>> /\ cardCalls[c] \in CallRow /\ updSettings \in UpdSettings
      /\ cardCalls[c].kind = "save" /\ cardCalls[c].at = "sent" /\ ~cardCalls[c].ok
  BY DEF CardInv, CardRows, ReadSettings, Sent, Loading
<1>1. /\ cardCalls' \in [CardCalls -> CallRow]
      /\ cardCalls'[c].kind = "save" /\ cardCalls'[c].at = "read" /\ ~cardCalls'[c].ok
      /\ \A d \in CardCalls : d # c => cardCalls'[d] = cardCalls[d]
  <2> DEFINE callRow == [cardCalls[c] EXCEPT !.at = "read", !.saw = updSettings]
  <2>1. callRow \in CallRow /\ callRow.kind = "save" /\ callRow.at = "read" /\ ~callRow.ok
    BY <1>0 DEF CallRow
  <2>2. cardCalls' = [cardCalls EXCEPT ![c].at = "read", ![c].saw = updSettings]
    BY DEF ReadSettings
  <2>3. cardCalls' = [cardCalls EXCEPT ![c] = callRow]
    BY <1>0, <2>2 DEF CardRows, CallRow
  <2> HIDE DEF callRow
  <2> QED
    BY <1>0, <2>1, <2>3, CallReplaced
<1>3. CardRows'
  BY <1>0, <1>1 DEF CardRows, planeSide, cardGhosts
<1>4. Announced'
  BY <1>0, <1>1 DEF CardInv, Announced, HasReply, planeSide, cardGhosts
<1>5. Loading'
  BY <1>0, <1>1 DEF CardInv, Loading, Reads, Saves
<1>6. SureOfSettings'
  BY <1>0, <1>1 DEF CardInv, SureOfSettings, Reads, Saves, HasReply, planeSide, cardGhosts
<1> QED
  BY <1>3, <1>4, <1>5, <1>6 DEF CardInv

LEMMA FieldWritten ==
  ASSUME NEW seenSet \in UpdSettings, NEW of \in {"channel", "auto"}, NEW to \in BOOLEAN
  PROVE  [seenSet EXCEPT ![of] = to] \in UpdSettings
<1>1. CASE of = "channel"
  BY <1>1 DEF UpdSettings
<1>2. CASE of = "auto"
  BY <1>2 DEF UpdSettings
<1> QED
  BY <1>1, <1>2

LEMMA WriteStep == ASSUME CardInv, NEW c \in CardCalls, WriteSettings(c) PROVE CardInv'
<1> DEFINE next == [cardCalls[c].saw EXCEPT ![cardCalls[c].of] = cardCalls[c].to]
<1>0. /\ CardRows /\ UNCHANGED <<latestRelease, runs, offer, statusFile, wanted, updating, cardView, saves, spoken>>
      /\ cardCalls[c] \in CallRow /\ next \in UpdSettings /\ cardCalls[c].kind = "save" /\ updSettings' = next
  <2>1. cardCalls[c] \in CallRow
    BY DEF CardInv, CardRows
  <2>2. cardCalls[c].saw \in UpdSettings /\ cardCalls[c].of \in {"channel", "auto"} /\ cardCalls[c].to \in BOOLEAN
    BY <2>1 DEF CallRow
  <2> QED
    BY <2>1, <2>2, FieldWritten DEF CardInv, WriteSettings
<1>a. PICK told \in BOOLEAN : /\ AnswerCall(c, [cardCalls[c] EXCEPT !.ok = told, !.saw = next])
                              /\ unsure' = (unsure \/ ~told)
  BY DEF WriteSettings
<1> HIDE DEF next
<1>1. /\ cardCalls' \in [CardCalls -> CallRow] /\ cardCalls'[c].kind = "save" /\ cardCalls'[c].at = "answered"
      /\ cardCalls'[c].ok = told /\ cardCalls'[c].saw = next
      /\ \A d \in CardCalls : d # c => cardCalls'[d] = cardCalls[d]
  <2> DEFINE theCall == [cardCalls[c] EXCEPT !.ok = told, !.saw = next]
  <2>1. theCall \in CallRow /\ theCall.kind = "save" /\ theCall.ok = told /\ theCall.saw = next
    BY <1>0 DEF CallRow
  <2>2. AnswerCall(c, theCall)
    BY <1>a
  <2> HIDE DEF theCall
  <2> QED
    BY <1>0, <2>1, <2>2, CallAnswered
<1>2. (~unsure' => ~unsure /\ told) /\ unsure' \in BOOLEAN
  BY <1>0, <1>a DEF CardRows
<1>3. CardRows'
  BY <1>0, <1>1, <1>2 DEF CardRows
<1>4. Announced'
  BY <1>0, <1>1 DEF CardInv, Announced, HasReply
<1>5. Loading'
  BY <1>0, <1>1 DEF CardInv, Loading, Reads, Saves
<1>6. SureOfSettings'
  <2> SUFFICES ASSUME ~unsure' PROVE SureOfSettings'
    BY DEF SureOfSettings
  <2>1. \A d \in CardCalls : d # c => ~Saves(d) /\ ~Reads(d)
    BY <1>0, <1>2 DEF CardInv, SureOfSettings, Saves
  <2>2. Saves(c)' /\ HasReply(c)' /\ cardView.read /\ ~cardView.failed
    BY <1>0, <1>1, <1>2 DEF CardInv, SureOfSettings, Saves, HasReply
  <2> QED
    BY <1>0, <1>1, <2>1, <2>2 DEF SureOfSettings, Saves, Reads
<1> QED
  BY <1>3, <1>4, <1>5, <1>6 DEF CardInv

(***************************************************************************)
(* Releases and the updater.                                               *)
(***************************************************************************)
LEMMA PlaneStep ==
  ASSUME CardInv, CheckByItself \/ PublishLatest \/ UpdaterStarts \/ UpdaterStops PROVE CardInv'
<1>0. CardRows /\ UNCHANGED <<updSettings, statusFile, cardView, cardCalls, cardGhosts>>
  BY DEF CardInv, CheckByItself, PublishLatest, UpdaterStarts, UpdaterStops
<1>1. /\ latestRelease' \in CardVersions /\ runs' \in 0..LastVersion /\ offer' \in 0..LastVersion
      /\ wanted' \in BOOLEAN /\ updating' \in BOOLEAN
  <2>1. /\ latestRelease \in CardVersions /\ runs \in 0..LastVersion /\ offer \in 0..LastVersion
        /\ wanted \in BOOLEAN /\ updating \in BOOLEAN /\ NewRelease \in 0..LastVersion /\ 0 \in 0..LastVersion
    BY <1>0, NewReleaseTyped, UpdatesCardAssumption DEF CardRows
  <2>2. CASE CheckByItself
    BY <2>1, <2>2 DEF CheckByItself
  <2>3. CASE PublishLatest
    BY <2>1, <2>3, UpdatesCardAssumption DEF PublishLatest, CardVersions
  <2>4. CASE UpdaterStarts
    BY <2>1, <2>4 DEF UpdaterStarts
  <2>5. CASE UpdaterStops
    BY <2>1, <2>5 DEF UpdaterStops
  <2> QED
    BY <2>2, <2>3, <2>4, <2>5
<1>3. CardRows'
  BY <1>0, <1>1 DEF CardRows, cardGhosts
<1>4. Announced'
  BY <1>0, <1>1 DEF CardInv, Announced, HasReply, cardGhosts
<1>5. Loading'
  BY <1>0, <1>1 DEF CardInv, Loading, Reads, Saves
<1>6. SureOfSettings'
  BY <1>0, <1>1 DEF CardInv, SureOfSettings, Reads, Saves, HasReply, cardGhosts
<1> QED
  BY <1>3, <1>4, <1>5, <1>6 DEF CardInv

\* Whatever the updater says is said while the card listens.
LEMMA SpokenStep ==
  ASSUME CardInv, NEW state \in StatusStates, SetStatus(state), runs' \in 0..LastVersion, updating' \in BOOLEAN,
         UNCHANGED <<latestRelease, offer, updSettings, wanted, cardView, cardCalls, saves, unsure>>
  PROVE  CardInv'
<1>0. CardRows /\ latestRelease \in 0..LastVersion
  BY UpdatesCardAssumption DEF CardInv, CardRows, CardVersions
<1>1. /\ statusFile' \in [state : StatusStates, to : 0..LastVersion] /\ statusFile'.state = state
      /\ spoken' = spoken \cup {state}
  BY <1>0 DEF SetStatus
<1>3. CardRows'
  BY <1>0, <1>1 DEF CardRows, SetStatus
<1>4. Announced'
  BY <1>0, <1>1 DEF CardInv, Announced, HasReply, SetStatus
<1>5. Loading'
  BY <1>0, <1>1 DEF CardInv, Loading, Reads, Saves
<1>6. SureOfSettings'
  BY <1>0, <1>1 DEF CardInv, SureOfSettings, Reads, Saves, HasReply, SetStatus
<1> QED
  BY <1>3, <1>4, <1>5, <1>6 DEF CardInv

LEMMA UpdaterStep == ASSUME CardInv, UpdaterWrites \/ UpdaterEnds PROVE CardInv'
<1>0. CardRows /\ {"done", "failed", "running"} \subseteq StatusStates
  BY DEF CardInv, StatusStates
<1>1. CASE UpdaterWrites
  BY <1>0, <1>1, SpokenStep DEF UpdaterWrites, CardRows
<1>2. CASE UpdaterEnds
  <2>1. runs' \in 0..LastVersion /\ updating' \in BOOLEAN /\ \E state \in StatusStates : SetStatus(state)
    <3>1. CASE runs = 0 /\ runs' = statusFile.to /\ SetStatus("done")
      BY <1>0, <1>2, <3>1 DEF UpdaterEnds, CardRows
    <3>2. CASE runs = 0 /\ \E v \in CardVersions : v # statusFile.to /\ runs' = v /\ SetStatus("failed")
      <4>1. PICK v \in CardVersions : runs' = v
        BY <3>2
      <4>2. v \in 0..LastVersion
        BY UpdatesCardAssumption DEF CardVersions
      <4> QED
        BY <1>0, <1>2, <3>2, <4>1, <4>2 DEF UpdaterEnds
    <3>3. CASE runs # 0 /\ UNCHANGED runs /\ SetStatus(IF runs = statusFile.to THEN "done" ELSE "failed")
      BY <1>0, <1>2, <3>3 DEF UpdaterEnds, CardRows
    <3> QED
      BY <1>2, <3>1, <3>2, <3>3 DEF UpdaterEnds
  <2>2. UNCHANGED <<latestRelease, offer, updSettings, wanted, cardView, cardCalls, saves, unsure>>
    BY <1>2 DEF UpdaterEnds
  <2> QED
    BY <2>1, <2>2, SpokenStep
<1> QED
  BY <1>1, <1>2

(***************************************************************************)
(* The card hears.                                                         *)
(***************************************************************************)
LEMMA StateLoadedStep == ASSUME CardInv, NEW c \in CardCalls, StateLoaded(c) PROVE CardInv'
<1>0. /\ CardRows /\ UNCHANGED <<planeSide, cardGhosts>>
      /\ cardCalls[c] \in CallRow /\ cardCalls[c].kind = "load" /\ Place(c, "settings")
  BY DEF CardInv, CardRows, StateLoaded, CameBack
<1>1. /\ cardCalls' \in [CardCalls -> CallRow]
      /\ cardCalls'[c].kind = "settings" /\ cardCalls'[c].at = "sent" /\ ~cardCalls'[c].ok
      /\ \A d \in CardCalls : d # c => cardCalls'[d] = cardCalls[d]
  BY <1>0, Placed
<1>2. /\ cardView' \in ViewRow /\ (cardView'.read \/ cardView'.failed)
      /\ cardView'.known = cardView.known /\ cardView'.settings = cardView.settings
      /\ cardView'.told = cardView.told /\ cardView'.applying = cardView.applying /\ cardView'.early = cardView.early
  <2>1. cardCalls[c].offer \in 0..LastVersion /\ cardView \in ViewRow
    BY <1>0 DEF CallRow, CardRows
  <2> QED
    BY <2>1 DEF StateLoaded, ViewRow
<1>7. \A d \in CardCalls : (Reads(d) => d = c) /\ (~unsure => ~Saves(d))
  BY <1>0 DEF CardInv, Loading, SureOfSettings, Reads, Saves
<1>3. CardRows'
  BY <1>0, <1>1, <1>2, <1>7 DEF CardRows, planeSide, cardGhosts
<1>4. Announced'
  BY <1>0, <1>1, <1>2, <1>7 DEF CardInv, Announced, HasReply, planeSide, cardGhosts
<1>5. Loading'
  BY <1>0, <1>1, <1>2, <1>7 DEF CardInv, Loading, Reads, Saves
<1>6. SureOfSettings'
  BY <1>0, <1>1, <1>2, <1>7 DEF CardInv, SureOfSettings, Reads, Saves, HasReply, planeSide, cardGhosts
<1> QED
  BY <1>3, <1>4, <1>5, <1>6 DEF CardInv

LEMMA SettingsLoadedStep == ASSUME CardInv, NEW c \in CardCalls, SettingsLoaded(c) PROVE CardInv'
<1>0. /\ CardRows /\ UNCHANGED <<planeSide, cardGhosts>> /\ cardCalls[c] \in CallRow
      /\ cardCalls[c].kind \in {"settings", "save"} /\ cardCalls[c].at = "answered" /\ FreeCall(c)
  BY DEF CardInv, CardRows, SettingsLoaded, CameBack
<1>1. /\ cardCalls' \in [CardCalls -> CallRow] /\ cardCalls'[c].kind = "none" /\ ~cardCalls'[c].ok
      /\ \A d \in CardCalls : d # c => cardCalls'[d] = cardCalls[d]
  BY <1>0, Freed
<1>2. /\ cardView' \in ViewRow /\ cardView'.read = cardView.read /\ cardView'.failed = cardView.failed
      /\ cardView'.told = cardView.told /\ cardView'.applying = cardView.applying /\ cardView'.early = cardView.early
      /\ IF cardCalls[c].ok THEN cardView'.known /\ cardView'.settings = cardCalls[c].saw ELSE cardView' = cardView
  <2>1. cardCalls[c].saw \in UpdSettings /\ cardView \in ViewRow
    BY <1>0 DEF CallRow, CardRows
  <2> QED
    BY <2>1 DEF SettingsLoaded, ViewRow
<1>3. CardRows'
  BY <1>0, <1>1, <1>2 DEF CardRows, planeSide, cardGhosts
<1>4. Announced'
  BY <1>0, <1>1, <1>2 DEF CardInv, Announced, HasReply, planeSide, cardGhosts
<1>5. Loading'
  <2>1. \A d \in CardCalls : cardCalls[d].kind = "load" => cardView.failed \/ ~cardView'.known
    BY <1>0, <1>2 DEF CardInv, Loading, Reads, Saves
  <2>2. cardView.read \/ cardView.failed
    BY <1>0 DEF CardInv, Loading, Saves
  <2> QED
    BY <1>0, <1>1, <1>2, <2>1, <2>2 DEF CardInv, Loading, Reads, Saves
<1>6. SureOfSettings'
  <2> SUFFICES ASSUME ~unsure PROVE SureOfSettings'
    BY <1>0 DEF SureOfSettings, cardGhosts
  <2>1. cardCalls[c].ok => cardCalls[c].saw = updSettings
    BY <1>0 DEF CardInv, SureOfSettings, HasReply
  <2>2. ASSUME cardView'.known, \A d \in CardCalls : ~(Saves(d) /\ HasReply(d))' PROVE cardView'.settings = updSettings
    <3>1. CASE cardCalls[c].ok
      BY <1>2, <2>1, <3>1
    <3>2. CASE ~cardCalls[c].ok
      <4>1. \A d \in CardCalls : ~(Saves(d) /\ HasReply(d))
        BY <1>1, <2>2, <3>2 DEF Saves, HasReply
      <4> QED
        BY <1>2, <2>2, <3>2, <4>1 DEF CardInv, SureOfSettings
    <3> QED
      BY <3>1, <3>2
  <2>3. \A d \in CardCalls : Saves(d)' =>
          cardView'.read /\ ~cardView'.failed /\ \A e \in CardCalls : Reads(e)' \/ Saves(e)' => e = d
    BY <1>0, <1>1, <1>2 DEF CardInv, SureOfSettings, Saves, Reads
  <2>4. \A d \in CardCalls : cardCalls'[d].kind \in {"settings", "save"} /\ HasReply(d)' => cardCalls'[d].saw = updSettings
    BY <1>1 DEF CardInv, SureOfSettings, HasReply
  <2> QED
    BY <1>0, <2>2, <2>3, <2>4 DEF SureOfSettings, planeSide
<1> QED
  BY <1>3, <1>4, <1>5, <1>6 DEF CardInv

LEMMA CheckedStep == ASSUME CardInv, NEW c \in CardCalls, Checked(c) PROVE CardInv'
<1>0. /\ CardRows /\ UNCHANGED <<planeSide, cardGhosts>> /\ cardCalls[c] \in CallRow
      /\ cardCalls[c].kind = "check" /\ FreeCall(c)
  BY DEF CardInv, CardRows, Checked, CameBack
<1>1. /\ cardCalls' \in [CardCalls -> CallRow] /\ cardCalls'[c].kind = "none" /\ ~cardCalls'[c].ok
      /\ \A d \in CardCalls : d # c => cardCalls'[d] = cardCalls[d]
  BY <1>0, Freed
<1>2. /\ cardView' \in ViewRow /\ cardView'.failed = cardView.failed /\ (cardView.read => cardView'.read)
      /\ cardView'.known = cardView.known /\ cardView'.settings = cardView.settings
      /\ cardView'.told = cardView.told /\ cardView'.applying = cardView.applying /\ cardView'.early = cardView.early
  <2>1. cardCalls[c].offer \in 0..LastVersion /\ cardCalls[c].ok \in BOOLEAN /\ cardView \in ViewRow
    BY <1>0 DEF CallRow, CardRows
  <2>2. /\ cardView.read \in BOOLEAN /\ cardView.offer \in 0..LastVersion
        /\ (cardView.read \/ cardCalls[c].ok) \in BOOLEAN
    BY <2>1 DEF ViewRow
  <2>3. PICK o \in 0..LastVersion, b \in BOOLEAN :
          /\ cardView' = [cardView EXCEPT !.checking = FALSE, !.offer = o, !.read = b]
          /\ cardView.read => b
    <3>1. cardView' = [cardView EXCEPT !.checking = FALSE,
                                      !.offer = IF cardCalls[c].ok THEN cardCalls[c].offer ELSE cardView.offer,
                                      !.read = cardView.read \/ cardCalls[c].ok]
      BY <2>1 DEF Checked, ViewRow
    <3> QED
      BY <2>1, <2>2, <3>1
  <2> QED
    BY <2>1, <2>3 DEF ViewRow
<1>3. CardRows'
  BY <1>0, <1>1, <1>2 DEF CardRows, planeSide, cardGhosts
<1>4. Announced'
  BY <1>0, <1>1, <1>2 DEF CardInv, Announced, HasReply, planeSide, cardGhosts
<1>5. Loading'
  BY <1>0, <1>1, <1>2 DEF CardInv, Loading, Reads, Saves
<1>6. SureOfSettings'
  BY <1>0, <1>1, <1>2 DEF CardInv, SureOfSettings, Reads, Saves, HasReply, planeSide, cardGhosts
<1> QED
  BY <1>3, <1>4, <1>5, <1>6 DEF CardInv

LEMMA AcceptedStep == ASSUME CardInv, NEW c \in CardCalls, ApplyAccepted(c) PROVE CardInv'
<1>0. /\ CardRows /\ UNCHANGED <<planeSide, cardGhosts>> /\ cardView \in ViewRow
      /\ cardCalls[c].kind = "apply" /\ ~cardView.applying /\ cardView.told = "none"
      /\ \A d \in CardCalls : cardCalls[d].kind = "apply" => d = c
  BY DEF CardInv, CardRows, Announced, ApplyAccepted, CameBack
<1>1. /\ cardCalls' \in [CardCalls -> CallRow] /\ cardCalls'[c].kind = "none" /\ ~cardCalls'[c].ok
      /\ \A d \in CardCalls : d # c =>
           /\ cardCalls'[d].kind = cardCalls[d].kind /\ cardCalls'[d].at = cardCalls[d].at /\ cardCalls'[d].ok = cardCalls[d].ok
           /\ cardCalls'[d].saw = cardCalls[d].saw /\ cardCalls'[d].state = cardCalls[d].state
           /\ cardCalls[c].ok /\ cardCalls[d].kind = "poll" => ~cardCalls'[d].live
           /\ ~cardCalls[c].ok => cardCalls'[d].live = cardCalls[d].live
  <2>1. \A d \in CardCalls : cardCalls[d] \in CallRow
    BY <1>0 DEF CardRows
  <2>2. cardCalls' = [d \in CardCalls |->
          IF d = c THEN NoCardCall
          ELSE IF cardCalls[d].kind = "poll" /\ cardCalls[c].ok /\ ~cardView.applying THEN [cardCalls[d] EXCEPT !.live = FALSE]
          ELSE cardCalls[d]]
    BY DEF ApplyAccepted
  <2>3. \A d \in CardCalls :
          /\ [cardCalls[d] EXCEPT !.live = FALSE] \in CallRow /\ ~[cardCalls[d] EXCEPT !.live = FALSE].live
          /\ [cardCalls[d] EXCEPT !.live = FALSE].kind = cardCalls[d].kind /\ [cardCalls[d] EXCEPT !.live = FALSE].at = cardCalls[d].at
          /\ [cardCalls[d] EXCEPT !.live = FALSE].ok = cardCalls[d].ok /\ [cardCalls[d] EXCEPT !.live = FALSE].saw = cardCalls[d].saw
          /\ [cardCalls[d] EXCEPT !.live = FALSE].state = cardCalls[d].state
    BY <2>1 DEF CallRow
  <2> QED
    BY <1>0, <2>1, <2>2, <2>3, NoCallTyped
<1>2. /\ cardView' \in ViewRow /\ cardView'.read = cardView.read /\ cardView'.failed = cardView.failed
      /\ cardView'.known = cardView.known /\ cardView'.settings = cardView.settings
      /\ cardView'.told = "none" /\ (cardCalls[c].ok \/ cardView' = cardView)
  BY <1>0 DEF ApplyAccepted, ViewRow
<1>3. CardRows'
  BY <1>0, <1>1, <1>2 DEF CardRows, planeSide, cardGhosts
<1>4. Announced'
  BY <1>0, <1>1, <1>2 DEF CardInv, Announced, HasReply, planeSide, cardGhosts
<1>5. Loading'
  BY <1>0, <1>1, <1>2 DEF CardInv, Loading, Reads, Saves
<1>6. SureOfSettings'
  <2>1. \A d \in CardCalls :
          /\ Saves(d)' <=> Saves(d)
          /\ Reads(d)' <=> Reads(d)
          /\ (Saves(d) /\ HasReply(d))' <=> Saves(d) /\ HasReply(d)
          /\ cardCalls'[d].kind \in {"settings", "save"} /\ HasReply(d)' =>
               cardCalls[d].kind \in {"settings", "save"} /\ HasReply(d) /\ cardCalls'[d].saw = cardCalls[d].saw
    <3> SUFFICES ASSUME NEW d \in CardCalls
                 PROVE  /\ Saves(d)' <=> Saves(d)
                        /\ Reads(d)' <=> Reads(d)
                        /\ (Saves(d) /\ HasReply(d))' <=> Saves(d) /\ HasReply(d)
                        /\ cardCalls'[d].kind \in {"settings", "save"} /\ HasReply(d)' =>
                             cardCalls[d].kind \in {"settings", "save"} /\ HasReply(d) /\ cardCalls'[d].saw = cardCalls[d].saw
      OBVIOUS
    <3>1. CASE d = c
      BY <1>0, <1>1, <3>1 DEF Saves, Reads, HasReply
    <3>2. CASE d # c
      BY <1>1, <3>2 DEF Saves, Reads, HasReply
    <3> QED
      BY <3>1, <3>2
  <2>2. UNCHANGED <<updSettings, unsure>>
    BY <1>0 DEF planeSide, cardGhosts
  <2> QED
    BY <1>2, <2>1, <2>2 DEF CardInv, SureOfSettings
<1> QED
  BY <1>3, <1>4, <1>5, <1>6 DEF CardInv

LEMMA ProgressedStep == ASSUME CardInv, NEW c \in CardCalls, Progressed(c) PROVE CardInv'
<1> DEFINE a == cardCalls[c]
           heard == a.ok /\ a.live /\ cardView.applying /\ cardView.told = "none"
<1>0. /\ CardRows /\ UNCHANGED <<planeSide, cardGhosts>> /\ cardView \in ViewRow
      /\ a.kind = "poll" /\ a.at = "answered" /\ FreeCall(c)
  BY DEF CardInv, CardRows, Progressed, CameBack
<1>1. /\ cardCalls' \in [CardCalls -> CallRow] /\ cardCalls'[c].kind = "none" /\ ~cardCalls'[c].ok
      /\ \A d \in CardCalls : d # c => cardCalls'[d] = cardCalls[d]
  BY <1>0, Freed
<1>2. /\ cardView' \in ViewRow /\ cardView'.read = cardView.read /\ cardView'.failed = cardView.failed
      /\ cardView'.known = cardView.known /\ cardView'.settings = cardView.settings
      /\ (cardView'.applying => cardView.applying)
      /\ \/ cardView' = cardView
         \/ heard /\ cardView'.told = a.state /\ cardView'.early = a.early
  <2>1. a.early \in BOOLEAN /\ a.state \in StatusStates
    BY <1>0 DEF CardRows, CallRow
  <2> QED
    BY <1>0, <2>1 DEF Progressed, ViewRow
<1>7. heard /\ ~a.early => a.state \in spoken
  BY <1>0 DEF CardInv, Announced, HasReply
<1> HIDE DEF heard
<1>8. heard => cardView.told = "none" /\ cardView.applying
  BY DEF heard
<1>9. heard /\ cardView'.told = a.state => cardView' = cardView \/ cardView'.told # "none"
  BY <1>0 DEF Progressed, heard, ViewRow
<1>3. CardRows'
  BY <1>0, <1>1, <1>2 DEF CardRows, planeSide, cardGhosts
<1>4. Announced'
  BY <1>0, <1>1, <1>2, <1>7, <1>8, <1>9 DEF CardInv, Announced, HasReply, planeSide, cardGhosts
<1>5. Loading'
  BY <1>0, <1>1, <1>2 DEF CardInv, Loading, Reads, Saves
<1>6. SureOfSettings'
  BY <1>0, <1>1, <1>2 DEF CardInv, SureOfSettings, Reads, Saves, HasReply, planeSide, cardGhosts
<1> QED
  BY <1>3, <1>4, <1>5, <1>6 DEF CardInv

LEMMA ReloadStep == ASSUME CardInv, PageReloads PROVE CardInv'
<1>0. /\ CardRows /\ UNCHANGED <<planeSide, saves, spoken>> /\ unsure' \in BOOLEAN
      /\ cardView' = FreshCard /\ cardCalls' = [c \in CardCalls |-> NoCardCall]
  BY DEF CardInv, CardRows, PageReloads
<1>1. cardCalls' \in [CardCalls -> CallRow] /\ \A c \in CardCalls : cardCalls'[c].kind = "none" /\ ~cardCalls'[c].ok
  BY <1>0, NoCallTyped
<1>2. cardView' \in ViewRow /\ cardView'.told = "none" /\ ~cardView'.applying /\ ~cardView'.known
  BY <1>0, UpdatesCardAssumption DEF FreshCard, ViewRow, UpdSettings
<1>3. CardRows'
  BY <1>0, <1>1, <1>2 DEF CardRows, planeSide
<1>4. Announced' /\ Loading' /\ SureOfSettings'
  BY <1>0, <1>1, <1>2 DEF CardInv, Announced, planeSide, Loading, SureOfSettings, Reads, Saves, HasReply
<1> QED
  BY <1>3, <1>4 DEF CardInv

LEMMA CardStep == CardInv /\ [UpdatesCardNext]_updatesCardVars => CardInv'
<1> SUFFICES ASSUME CardInv, [UpdatesCardNext]_updatesCardVars PROVE CardInv'
  OBVIOUS
<1>1. CASE UNCHANGED updatesCardVars
  BY <1>1 DEF updatesCardVars, CardInv, CardRows, Announced, Loading, SureOfSettings, Reads, Saves, HasReply
<1>2. CASE UpdatesCardNext
  BY <1>2, LoadStep, CheckStep, ApplyStep, CardPolls, SaveStep, NothingStep, StateStep, SettingsStep, ServeCheckStep,
     ServeApplyStep, ProgressStep, ReadStep, WriteStep, PlaneStep, UpdaterStep, StateLoadedStep, SettingsLoadedStep,
     CheckedStep, AcceptedStep, ProgressedStep, ReloadStep
  DEF UpdatesCardNext
<1> QED
  BY <1>1, <1>2

LEMMA CardSuffices == CardInv => UpdatesCardTypeOK /\ UpdatesCardIsTrue
<1> SUFFICES ASSUME CardInv PROVE UpdatesCardTypeOK /\ UpdatesCardIsTrue
  OBVIOUS
<1>1. AnnouncesItsUpdate
  BY DEF CardInv, Announced, AnnouncesItsUpdate
<1>2. SettingsShown
  BY DEF CardInv, SureOfSettings, SettingsShown, Saves
<1>3. UpdatesCardTypeOK
  BY DEF CardInv, CardRows, UpdatesCardTypeOK, CallRow, ViewRow
<1> QED
  BY <1>1, <1>2, <1>3 DEF UpdatesCardIsTrue

(***************************************************************************)
(* The console.  Who is a client of a terminal is known from both sides:   *)
(* the terminal names its clients, and each of them names it.              *)
(***************************************************************************)
Chunks  == 1 .. MaxChunks
ExecRow == [process : {"running", "unborn", "errored", "gone"}, spawned : BOOLEAN, killed : BOOLEAN,
            clients : SUBSET Viewers, made : 0 .. MaxChunks, buffer : Seq(Chunks)]

ConsoleRows ==
  /\ execs \in Seq(ExecRow) /\ terminal \in {NoTerminal} \cup Terminals
  /\ joined \in [Viewers -> {NoTerminal} \cup Terminals] /\ tail \in [Viewers -> Seq(Chunks)]
  /\ ws \in [Viewers -> {"new", "open", "leaving", "closing", "closed"}]
  /\ shows \in [Viewers -> {"connecting", "open", "closed", "error"}]
  /\ checking \in [Viewers -> BOOLEAN] /\ sent \in [Viewers -> Seq(Frames)]
  /\ framesSent \in 0 .. MaxFrames /\ native \in BOOLEAN

\* The last of n chunks; all that a late joiner is given.
Window(q, n) == \A i \in 1 .. Len(q) : q[i] = n - (Len(q) - i)
AtLeast(n)   == IF n < Scrollback THEN n ELSE Scrollback

RowSound(r) ==
  /\ r.spawned => r.process \in {"running", "gone"}
  /\ r.process = "running" /\ ~r.killed => r.clients # {}
  /\ r.clients # {} => r.process \in {"running", "unborn"}
  /\ Window(r.buffer, r.made) /\ Len(r.buffer) = AtLeast(r.made)

ClientSound(s, t) ==
  /\ joined[s] = t /\ Answerable(s)
  /\ Window(tail[s], execs[t].made) /\ Len(tail[s]) >= AtLeast(execs[t].made)

ViewerSound(s) ==
  /\ joined[s] # NoTerminal /\ Answerable(s) => s \in execs[joined[s]].clients
  /\ ws[s] = "new" => joined[s] = NoTerminal
  /\ joined[s] = NoTerminal => tail[s] = <<>>
  /\ shows[s] = "open" => joined[s] # NoTerminal

\* The registry's terminal is one that can still end; where each could be started, it is
\* the only one that runs.
RegistrySound ==
  /\ terminal # NoTerminal => execs[terminal].process \in {"running", "unborn"}
  /\ SharedPerTarget

ConsoleInv ==
  /\ ConsoleRows /\ RegistrySound
  /\ \A t \in Terminals : RowSound(execs[t]) /\ \A s \in execs[t].clients : ClientSound(s, t)
  /\ \A s \in Viewers : ViewerSound(s)

LEMMA ConsoleStarts == ConsoleInit => ConsoleInv
<1> SUFFICES ASSUME ConsoleInit PROVE ConsoleInv
  OBVIOUS
<1>1. execs = <<>> /\ Len(execs) = 0 /\ Terminals = {} /\ execs \in Seq(ExecRow)
  BY DEF ConsoleInit, Terminals
<1>2. ConsoleRows
  <2>1. <<>> \in Seq(Chunks) /\ <<>> \in Seq(Frames)
    OBVIOUS
  <2>2. framesSent \in 0 .. MaxFrames
    BY ConsoleAssumption DEF ConsoleInit
  <2> QED
    BY <1>1, <2>1, <2>2 DEF ConsoleInit, ConsoleRows
<1>3. RegistrySound /\ \A s \in Viewers : ViewerSound(s)
  BY <1>1 DEF ConsoleInit, RegistrySound, SharedPerTarget, ViewerSound, Answerable
<1> QED
  BY <1>1, <1>2, <1>3 DEF ConsoleInv

(***************************************************************************)
(* Queues and rows.                                                        *)
(***************************************************************************)
LEMMA WindowGrows ==
  ASSUME NEW q \in Seq(Chunks), NEW n \in Nat, Window(q, n), n < MaxChunks
  PROVE  /\ Append(q, n + 1) \in Seq(Chunks) /\ Window(Append(q, n + 1), n + 1)
         /\ Len(Append(q, n + 1)) = Len(q) + 1
<1>1. n + 1 \in Chunks
  BY ConsoleAssumption DEF Chunks
<1>2. /\ Append(q, n + 1) \in Seq(Chunks) /\ Len(Append(q, n + 1)) = Len(q) + 1 /\ Len(q) \in Nat
      /\ \A i \in 1 .. Len(q) : Append(q, n + 1)[i] = q[i]
      /\ Append(q, n + 1)[Len(q) + 1] = n + 1
  BY <1>1
<1>3. ASSUME NEW i \in 1 .. Len(q) + 1
      PROVE  Append(q, n + 1)[i] = (n + 1) - ((Len(q) + 1) - i)
  <2>1. CASE i \in 1 .. Len(q)
    BY <1>2, <2>1 DEF Window
  <2>2. CASE i = Len(q) + 1
    BY <1>2, <2>2
  <2> QED
    BY <1>2, <2>1, <2>2
<1> QED
  BY <1>2, <1>3 DEF Window

LEMMA WindowMoves ==
  ASSUME NEW q \in Seq(Chunks), NEW n \in Nat, Window(q, n), Len(q) > 0
  PROVE  Tail(q) \in Seq(Chunks) /\ Window(Tail(q), n) /\ Len(Tail(q)) = Len(q) - 1
<1>1. /\ Tail(q) \in Seq(Chunks) /\ Len(Tail(q)) = Len(q) - 1 /\ Len(q) \in Nat
      /\ \A i \in 1 .. Len(q) - 1 : Tail(q)[i] = q[i + 1]
  OBVIOUS
<1> QED
  BY <1>1 DEF Window

LEMMA PushedKeeps ==
  ASSUME NEW q \in Seq(Chunks), NEW n \in Nat, Window(q, n), Len(q) = AtLeast(n), n < MaxChunks
  PROVE  Pushed(q, n + 1) \in Seq(Chunks) /\ Window(Pushed(q, n + 1), n + 1)
         /\ Len(Pushed(q, n + 1)) = AtLeast(n + 1)
<1> DEFINE a == Append(q, n + 1)
<1>1. a \in Seq(Chunks) /\ Window(a, n + 1) /\ Len(a) = Len(q) + 1 /\ n + 1 \in Nat
  BY WindowGrows
<1>2. Pushed(q, n + 1) = IF Len(a) > Scrollback THEN Tail(a) ELSE a
  BY DEF Pushed
<1> HIDE DEF a
<1>3. CASE Len(a) > Scrollback
  <2>1. Tail(a) \in Seq(Chunks) /\ Window(Tail(a), n + 1) /\ Len(Tail(a)) = Len(a) - 1
    BY <1>1, <1>3, ConsoleAssumption, WindowMoves
  <2> QED
    <3>1. Len(q) \in Nat /\ Len(q) = Scrollback /\ ~(n + 1 < Scrollback)
      BY <1>1, <1>3, ConsoleAssumption DEF AtLeast
    <3>2. Pushed(q, n + 1) = Tail(a)
      BY <1>2, <1>3
    <3>3. AtLeast(n + 1) = Scrollback
      BY <3>1 DEF AtLeast
    <3>4. Len(Tail(a)) = Scrollback
      BY <1>1, <2>1, <3>1
    <3>5. Pushed(q, n + 1) \in Seq(Chunks) /\ Window(Pushed(q, n + 1), n + 1)
      BY <2>1, <3>2, Zenon
    <3>6. Len(Pushed(q, n + 1)) = AtLeast(n + 1)
      BY <3>2, <3>3, <3>4, Zenon
    <3> QED
      BY <3>5, <3>6
<1>4. CASE ~(Len(a) > Scrollback)
  BY <1>1, <1>2, <1>4, ConsoleAssumption DEF AtLeast
<1> QED
  BY <1>3, <1>4

LEMMA ExecReplaced ==
  ASSUME NEW rows \in Seq(ExecRow), NEW t \in 1 .. Len(rows), NEW r \in ExecRow, NEW new, new = [rows EXCEPT ![t] = r]
  PROVE  /\ new \in Seq(ExecRow) /\ Len(new) = Len(rows) /\ new[t] = r
         /\ \A u \in 1 .. Len(rows) : u # t => new[u] = rows[u]
OBVIOUS

LEMMA RowAt ==
  ASSUME ConsoleRows, NEW t \in Terminals
  PROVE  /\ execs[t] \in ExecRow /\ execs[t].clients \subseteq Viewers /\ execs[t].buffer \in Seq(Chunks)
         /\ execs[t].made \in 0 .. MaxChunks /\ t \in Nat /\ t # NoTerminal
<1>1. execs[t] \in ExecRow /\ t \in Nat /\ t # NoTerminal
  BY DEF ConsoleRows, Terminals, NoTerminal
<1> QED
  BY <1>1 DEF ExecRow

(***************************************************************************)
(* The steps.                                                              *)
(***************************************************************************)

\* Terminals and their clients stay; sockets, pages and frames move.
LEMMA PagesMove ==
  ASSUME ConsoleInv, UNCHANGED <<execs, joined, terminal, tail>>, ConsoleRows',
         \A s \in Viewers : /\ ws'[s] = "new" => ws[s] = "new"
                            /\ joined[s] # NoTerminal => (Answerable(s)' <=> Answerable(s))
                            /\ shows'[s] = "open" => shows[s] = "open"
  PROVE  ConsoleInv'
<1>1. RegistrySound' /\ Terminals' = Terminals
  BY DEF ConsoleInv, RegistrySound, SharedPerTarget, Terminals
<1>2. \A t \in Terminals : \A s \in execs[t].clients : ClientSound(s, t)'
  <2> SUFFICES ASSUME NEW t \in Terminals, NEW s \in execs[t].clients PROVE ClientSound(s, t)'
    OBVIOUS
  <2>1. ClientSound(s, t) /\ t # NoTerminal /\ s \in Viewers
    BY RowAt DEF ConsoleInv
  <2> QED
    BY <2>1 DEF ClientSound
<1>3. \A s \in Viewers : ViewerSound(s)'
  BY DEF ConsoleInv, ViewerSound
<1> QED
  BY <1>1, <1>2, <1>3 DEF ConsoleInv

LEMMA ShownTyped ==
  ASSUME ConsoleRows, NEW S, NEW what \in {"closed", "error"}
  PROVE  /\ Shown(S, what) \in [Viewers -> {"connecting", "open", "closed", "error"}]
         /\ \A s \in Viewers : Shown(S, what)[s] = "open" => shows[s] = "open"
BY DEF ConsoleRows, Shown

LEMMA ConnectStep == ASSUME ConsoleInv, NEW s \in Viewers, NEW allowed \in BOOLEAN, Connect(s, allowed) PROVE ConsoleInv'
<1>0. ConsoleRows /\ (\A v \in Viewers : ViewerSound(v)) /\ ws[s] = "new"
  BY DEF ConsoleInv, Connect
<1>1. /\ ws' \in [Viewers -> {"new", "open", "leaving", "closing", "closed"}]
      /\ \A v \in Viewers : v # s => ws'[v] = ws[v]
      /\ joined[s] = NoTerminal
      /\ ws'[s] # "new"
  BY <1>0 DEF Connect, ConsoleRows, ViewerSound
<1>2. /\ shows' \in [Viewers -> {"connecting", "open", "closed", "error"}]
      /\ \A v \in Viewers : shows'[v] = "open" => shows[v] = "open"
  BY <1>0 DEF Connect, ConsoleRows
<1>3. sent' \in [Viewers -> Seq(Frames)]
  <2>1. <<"open", "resize">> \in Seq(Frames) /\ <<>> \in Seq(Frames)
    BY DEF Frames
  <2> QED
    BY <1>0, <2>1 DEF Connect, ConsoleRows
<1>4. ConsoleRows'
  BY <1>0, <1>1, <1>2, <1>3 DEF Connect, ConsoleRows, Terminals
<1>5. \A v \in Viewers : /\ ws'[v] = "new" => ws[v] = "new"
                         /\ joined[v] # NoTerminal => (Answerable(v)' <=> Answerable(v))
  BY <1>1 DEF Answerable, Connect
<1> QED
  BY <1>2, <1>4, <1>5, PagesMove DEF Connect

LEMMA FrameStep ==
  ASSUME ConsoleInv, NEW s \in Viewers,
         (\E f \in Frames : SendFrame(s, f)) \/ Unmount(s) \/ NextFrame(s) \/ Forbidden(s)
  PROVE  ConsoleInv'
<1>0. ConsoleRows
  BY DEF ConsoleInv
<1>1. CASE \E f \in Frames : SendFrame(s, f)
  <2>1. PICK f \in Frames : SendFrame(s, f)
    BY <1>1
  <2>2. framesSent' \in 0 .. MaxFrames
    BY <1>0, <2>1, ConsoleAssumption DEF SendFrame, ConsoleRows
  <2>3. Append(sent[s], f) \in Seq(Frames)
    BY <1>0 DEF ConsoleRows
  <2>4. sent' \in [Viewers -> Seq(Frames)]
    BY <1>0, <2>1, <2>3 DEF SendFrame, ConsoleRows
  <2>5. ConsoleRows'
    BY <1>0, <2>1, <2>2, <2>4 DEF SendFrame, ConsoleRows, Terminals
  <2> QED
    BY <2>1, <2>5, PagesMove DEF SendFrame, Answerable
<1>2. CASE Unmount(s)
  <2>1. /\ ws' \in [Viewers -> {"new", "open", "leaving", "closing", "closed"}]
        /\ \A v \in Viewers : (ws'[v] = "new" => ws[v] = "new") /\ (Answerable(v)' <=> Answerable(v))
    BY <1>0, <1>2 DEF Unmount, ConsoleRows, Answerable
  <2>2. ConsoleRows'
    BY <1>0, <1>2, <2>1 DEF Unmount, ConsoleRows, Terminals
  <2> QED
    BY <1>2, <2>1, <2>2, PagesMove DEF Unmount
<1>3. CASE NextFrame(s)
  <2>1. /\ shows' \in [Viewers -> {"connecting", "open", "closed", "error"}]
        /\ \A v \in Viewers : shows'[v] = "open" => shows[v] = "open"
    BY <1>0, <1>3, ShownTyped DEF NextFrame, ConsoleRows
  <2>2. Tail(sent[s]) \in Seq(Frames)
    BY <1>0, <1>3 DEF NextFrame, ConsoleRows
  <2>3. sent' \in [Viewers -> Seq(Frames)]
    BY <1>0, <1>3, <2>2 DEF NextFrame, ConsoleRows
  <2>4. checking' \in [Viewers -> BOOLEAN]
    <3>1. \E b \in BOOLEAN : checking' = [checking EXCEPT ![s] = checking[s] \/ b]
      BY <1>0, <1>3, Zenon DEF NextFrame, ConsoleRows
    <3> QED
      BY <1>0, <3>1 DEF ConsoleRows
  <2>5. ConsoleRows'
    BY <1>0, <1>3, <2>1, <2>3, <2>4 DEF NextFrame, ConsoleRows, Terminals
  <2> QED
    BY <1>3, <2>1, <2>5, PagesMove DEF NextFrame, Answerable
<1>4. CASE Forbidden(s)
  <2>1. /\ shows' \in [Viewers -> {"connecting", "open", "closed", "error"}]
        /\ \A v \in Viewers : shows'[v] = "open" => shows[v] = "open"
    BY <1>0, <1>4, ShownTyped DEF Forbidden
  <2>2. ConsoleRows'
    BY <1>0, <1>4, <2>1 DEF Forbidden, ConsoleRows, Terminals
  <2> QED
    BY <1>4, <2>1, <2>2, PagesMove DEF Forbidden, Answerable
<1> QED
  BY <1>1, <1>2, <1>3, <1>4

\* The terminal that is joined: the registry's, or a new one at the end.
LEMMA TerminalFound ==
  ASSUME ConsoleInv, NEW spawned \in BOOLEAN,
         NEW rows, rows = WithTerminal(spawned), NEW t, t = TerminalOf
  PROVE  /\ rows \in Seq(ExecRow) /\ t \in 1 .. Len(rows) /\ 1 .. Len(rows) = Terminals \cup {t}
         /\ t \in Nat /\ t # NoTerminal
         /\ \A u \in Terminals : rows[u] = execs[u]
         /\ t \in Terminals => terminal = t
         /\ t \notin Terminals => terminal = NoTerminal /\ rows[t] = NewExec(spawned)
<1>0. /\ execs \in Seq(ExecRow) /\ Len(execs) \in Nat /\ Terminals = 1 .. Len(execs)
      /\ terminal \in {NoTerminal} \cup Terminals
  BY DEF ConsoleInv, ConsoleRows, Terminals
<1>1. CASE terminal # NoTerminal
  BY <1>0, <1>1 DEF WithTerminal, TerminalOf, NoTerminal
<1>2. CASE terminal = NoTerminal
  <2>1. NewExec(spawned) \in ExecRow
    <3>1. <<>> \in Seq(Chunks) /\ 0 \in 0 .. MaxChunks /\ {} \in SUBSET Viewers
      BY ConsoleAssumption
    <3> QED
      BY <3>1 DEF NewExec, ExecRow
  <2>2. rows = Append(execs, NewExec(spawned)) /\ t = Len(execs) + 1
    BY <1>2 DEF WithTerminal, TerminalOf
  <2>3. /\ rows \in Seq(ExecRow) /\ Len(rows) = Len(execs) + 1 /\ rows[t] = NewExec(spawned)
        /\ \A u \in 1 .. Len(execs) : rows[u] = execs[u]
    BY <1>0, <2>1, <2>2
  <2> QED
    BY <1>0, <1>2, <2>2, <2>3 DEF NoTerminal
<1> QED
  BY <1>1, <1>2

LEMMA JoinStep ==
  ASSUME ConsoleInv, NEW s \in Viewers, NEW spawned \in BOOLEAN, JoinTerminal(s, spawned) PROVE ConsoleInv'
<1>0. ConsoleRows /\ checking' = [checking EXCEPT ![s] = FALSE] /\ checking' \in [Viewers -> BOOLEAN]
  BY DEF ConsoleInv, ConsoleRows, JoinTerminal
<1>1. CASE ~MayJoin(s)
  <2>1. UNCHANGED <<terminal, joined, execs, tail, shows, native, ws, sent, framesSent>>
    BY <1>1 DEF JoinTerminal
  <2>2. ConsoleRows'
    BY <1>0, <2>1 DEF ConsoleRows, Terminals
  <2> QED
    BY <2>1, <2>2, PagesMove DEF Answerable
<1>2. CASE MayJoin(s)
  <2>0. PICK t : t = TerminalOf
    OBVIOUS
  <2> DEFINE rows == WithTerminal(spawned)
             r == [rows[t] EXCEPT !.clients = rows[t].clients \cup {s}]
  <2>1. /\ rows \in Seq(ExecRow) /\ t \in 1 .. Len(rows) /\ 1 .. Len(rows) = Terminals \cup {t}
        /\ t \in Nat /\ t # NoTerminal
        /\ \A u \in Terminals : rows[u] = execs[u]
        /\ t \in Terminals => terminal = t
        /\ t \notin Terminals => terminal = NoTerminal /\ rows[t] = NewExec(spawned)
    BY <2>0, TerminalFound
  <2>2. /\ terminal' = t /\ joined' = [joined EXCEPT ![s] = t]
        /\ execs' = [rows EXCEPT ![t].clients = rows[t].clients \cup {s}]
        /\ tail' = [tail EXCEPT ![s] = tail[s] \o rows[t].buffer]
        /\ shows' = Shown({s}, "open")
        /\ UNCHANGED <<native, ws, sent, framesSent>>
    BY <1>0, <1>2, <2>0, <2>1 DEF JoinTerminal, ConsoleRows
  <2>3. joined[s] = NoTerminal /\ Answerable(s) /\ tail[s] = <<>>
    BY <1>2 DEF MayJoin, ConsoleInv, ViewerSound
  <2> HIDE DEF rows
  <2>4. /\ rows[t] \in ExecRow /\ rows[t].clients \subseteq Viewers /\ rows[t].buffer \in Seq(Chunks)
        /\ rows[t].made \in 0 .. MaxChunks /\ (RowSound(rows[t]) \/ t \notin Terminals)
    <3>1. rows[t] \in ExecRow
      BY <2>1
    <3> QED
      BY <2>1, <3>1 DEF ExecRow, ConsoleInv
  <2>5. /\ r \in ExecRow /\ r.clients = rows[t].clients \cup {s} /\ r.process = rows[t].process
        /\ r.made = rows[t].made /\ r.buffer = rows[t].buffer /\ r.killed = rows[t].killed /\ r.spawned = rows[t].spawned
    BY <2>4 DEF ExecRow
  <2>6. execs' = [rows EXCEPT ![t] = r]
    BY <2>1, <2>2
  <2> HIDE DEF r
  <2>7. /\ execs' \in Seq(ExecRow) /\ Len(execs') = Len(rows) /\ execs'[t] = r /\ Terminals' = Terminals \cup {t}
        /\ \A u \in Terminals : u # t => execs'[u] = execs[u]
    BY <2>1, <2>5, <2>6, ExecReplaced DEF Terminals
  <2>8. /\ tail' \in [Viewers -> Seq(Chunks)] /\ tail'[s] = r.buffer
        /\ \A v \in Viewers : v # s => tail'[v] = tail[v]
    <3>1. tail[s] \o rows[t].buffer = rows[t].buffer
      BY <2>3, <2>4
    <3> QED
      BY <1>0, <2>2, <2>4, <2>5, <3>1 DEF ConsoleRows
  <2>9. /\ joined' \in [Viewers -> {NoTerminal} \cup Terminals'] /\ joined'[s] = t
        /\ \A v \in Viewers : v # s => joined'[v] = joined[v]
    BY <1>0, <2>2, <2>7 DEF ConsoleRows
  <2>10. /\ shows' \in [Viewers -> {"connecting", "open", "closed", "error"}]
         /\ \A v \in Viewers : v # s => shows'[v] = shows[v]
    BY <1>0, <2>2 DEF Shown, ConsoleRows
  <2>11. ConsoleRows'
    BY <1>0, <2>2, <2>7, <2>8, <2>9, <2>10 DEF ConsoleRows
  <2>12. RowSound(r) /\ r.process \in {"running", "unborn"}
    <3>1. CASE t \in Terminals
      <4>1. RowSound(execs[t]) /\ execs[t] = rows[t] /\ execs[t].process \in {"running", "unborn"}
        BY <2>1, <3>1 DEF ConsoleInv, RegistrySound
      <4> QED
        BY <2>5, <4>1 DEF RowSound
    <3>2. CASE t \notin Terminals
      <4>1. /\ r.spawned = spawned /\ r.process = (IF spawned THEN "running" ELSE "unborn")
            /\ r.made = 0 /\ r.buffer = <<>> /\ s \in r.clients
        BY <2>1, <2>5, <3>2 DEF NewExec
      <4>2. Window(r.buffer, r.made) /\ Len(r.buffer) = AtLeast(r.made)
        BY <4>1, ConsoleAssumption DEF Window, AtLeast
      <4> QED
        BY <4>1, <4>2 DEF RowSound
    <3> QED
      BY <3>1, <3>2
  <2>13. RegistrySound'
    <3>1. terminal' = t /\ execs'[t].process \in {"running", "unborn"}
      BY <2>2, <2>7, <2>12
    <3>2. SharedPerTarget'
      <4> SUFFICES ASSUME \A u \in Terminals' : execs'[u].spawned, NEW u \in Terminals', execs'[u].process = "running", u # t
                   PROVE  FALSE
        BY <3>1 DEF SharedPerTarget
      <4>1. u \in Terminals /\ execs[u].process = "running" /\ u # NoTerminal
        BY <1>0, <2>7, RowAt
      <4>2. \A w \in Terminals : execs[w].spawned
        BY <2>1, <2>5, <2>7
      <4>3. terminal = u
        BY <4>1, <4>2 DEF ConsoleInv, RegistrySound, SharedPerTarget
      <4> QED
        BY <2>1, <4>1, <4>3
    <3> QED
      BY <3>1, <3>2 DEF RegistrySound
  <2>14. ASSUME NEW u \in Terminals' PROVE RowSound(execs'[u]) /\ \A v \in execs'[u].clients : ClientSound(v, u)'
    <3>1. CASE u = t
      <4>1. ASSUME NEW v \in r.clients PROVE ClientSound(v, t)'
        <5>1. CASE v = s
          <6>1. Window(tail'[s], r.made) /\ Len(tail'[s]) = AtLeast(r.made) /\ r.made \in 0 .. MaxChunks
            BY <2>4, <2>5, <2>8, <2>12 DEF RowSound
          <6>2. Len(tail'[s]) >= AtLeast(r.made)
            BY <6>1, ConsoleAssumption DEF AtLeast
          <6> QED
            BY <2>2, <2>3, <2>7, <2>9, <5>1, <6>1, <6>2 DEF ClientSound, Answerable
        <5>2. CASE v # s
          <6>1. v \in rows[t].clients /\ v \in Viewers
            BY <2>4, <2>5, <5>2
          <6>2. t \in Terminals
            BY <2>1, <6>1 DEF NewExec
          <6>3. ClientSound(v, t) /\ execs[t].made = r.made
            BY <2>1, <2>5, <6>1, <6>2 DEF ConsoleInv
          <6> QED
            BY <2>2, <2>7, <2>8, <2>9, <5>2, <6>1, <6>3 DEF ClientSound, Answerable
        <5> QED
          BY <5>1, <5>2
      <4> QED
        BY <2>7, <2>12, <3>1, <4>1
    <3>2. CASE u # t
      <4>1. u \in Terminals /\ execs'[u] = execs[u] /\ RowSound(execs[u]) /\ u # NoTerminal
        BY <1>0, <2>7, <3>2, RowAt DEF ConsoleInv
      <4>2. ASSUME NEW v \in execs[u].clients PROVE ClientSound(v, u)'
        <5>1. ClientSound(v, u) /\ v \in Viewers
          BY <1>0, <4>1, RowAt DEF ConsoleInv
        <5>2. v # s
          BY <2>3, <4>1, <5>1 DEF ClientSound
        <5> QED
          BY <2>2, <2>8, <2>9, <4>1, <5>1, <5>2 DEF ClientSound, Answerable
      <4> QED
        BY <4>1, <4>2
    <3> QED
      BY <3>1, <3>2
  <2>15. ASSUME NEW v \in Viewers PROVE ViewerSound(v)'
    <3>1. CASE v = s
      <4>1. s \in execs'[t].clients /\ ws[s] # "new"
        BY <2>3, <2>5, <2>7 DEF Answerable
      <4> QED
        BY <2>1, <2>2, <2>9, <3>1, <4>1 DEF ViewerSound
    <3>2. CASE v # s
      <4>1. ViewerSound(v)
        BY DEF ConsoleInv
      <4>2. joined[v] # NoTerminal => joined[v] \in Terminals /\ execs[joined[v]].clients \subseteq execs'[joined[v]].clients
        BY <1>0, <2>1, <2>5, <2>7 DEF ConsoleRows
      <4> QED
        BY <2>2, <2>8, <2>9, <2>10, <3>2, <4>1, <4>2 DEF ViewerSound, Answerable
    <3> QED
      BY <3>1, <3>2
  <2> QED
    BY <2>11, <2>13, <2>14, <2>15 DEF ConsoleInv
<1> QED
  BY <1>1, <1>2

LEMMA EmitStep == ASSUME ConsoleInv, NEW t \in Terminals, Emit(t) PROVE ConsoleInv'
<1> DEFINE chunk == execs[t].made + 1
           b == Pushed(execs[t].buffer, chunk)
           r == [execs[t] EXCEPT !.made = chunk, !.buffer = b]
<1>0. /\ ConsoleRows /\ RowSound(execs[t]) /\ execs[t] \in ExecRow /\ execs[t].clients \subseteq Viewers
      /\ execs[t].buffer \in Seq(Chunks) /\ execs[t].made \in 0 .. MaxChunks /\ t \in Nat /\ t # NoTerminal
      /\ execs[t].made \in Nat /\ execs[t].made < MaxChunks
  BY RowAt, ConsoleAssumption DEF ConsoleInv, Emit
<1>1. b \in Seq(Chunks) /\ Window(b, chunk) /\ Len(b) = AtLeast(chunk) /\ chunk \in 0 .. MaxChunks /\ chunk \in Nat
  <2>1. chunk \in 0 .. MaxChunks /\ chunk \in Nat
    BY <1>0, ConsoleAssumption
  <2> QED
    BY <1>0, <2>1, PushedKeeps DEF RowSound
<1>2. execs' = [execs EXCEPT ![t].made = chunk, ![t].buffer = Pushed(@, chunk)]
  BY DEF Emit
<1>3. /\ tail' = [s \in Viewers |-> IF s \in execs[t].clients /\ Answerable(s) THEN Append(tail[s], chunk) ELSE tail[s]]
      /\ UNCHANGED <<native, ws, sent, framesSent, checking, joined, shows, terminal>>
  BY DEF Emit
<1>4. execs' = [execs EXCEPT ![t] = r]
  BY <1>0, <1>2 DEF ConsoleRows, ExecRow, Terminals
<1> HIDE DEF chunk, b
<1>5. /\ r \in ExecRow /\ r.process = execs[t].process /\ r.clients = execs[t].clients /\ r.made = chunk /\ r.buffer = b
      /\ r.spawned = execs[t].spawned /\ r.killed = execs[t].killed
  BY <1>0, <1>1 DEF ExecRow
<1> HIDE DEF r
<1>6. /\ execs' \in Seq(ExecRow) /\ Terminals' = Terminals /\ execs'[t] = r
      /\ \A u \in Terminals : u # t => execs'[u] = execs[u]
  BY <1>0, <1>4, <1>5, ExecReplaced DEF ConsoleRows, Terminals
<1>7. RowSound(r)
  BY <1>0, <1>1, <1>5 DEF RowSound
<1>8. ASSUME NEW s \in execs[t].clients
      PROVE  /\ tail'[s] = Append(tail[s], chunk) /\ tail'[s] \in Seq(Chunks)
             /\ Window(tail'[s], chunk) /\ Len(tail'[s]) >= AtLeast(chunk) /\ ClientSound(s, t)
  <2>1. ClientSound(s, t) /\ s \in Viewers /\ tail[s] \in Seq(Chunks) /\ Len(tail[s]) \in Nat
    BY <1>0 DEF ConsoleInv, ConsoleRows
  <2>2. tail'[s] = Append(tail[s], chunk)
    BY <1>3, <2>1 DEF ClientSound
  <2>3. /\ Append(tail[s], chunk) \in Seq(Chunks) /\ Window(Append(tail[s], chunk), chunk)
        /\ Len(Append(tail[s], chunk)) = Len(tail[s]) + 1
    BY <1>0, <2>1, WindowGrows DEF ClientSound, chunk
  <2>4. Len(tail[s]) + 1 >= AtLeast(chunk)
    BY <1>0, <2>1, ConsoleAssumption DEF ClientSound, AtLeast, chunk
  <2> QED
    BY <2>1, <2>2, <2>3, <2>4
<1>9. tail' \in [Viewers -> Seq(Chunks)] /\ \A s \in Viewers \ execs[t].clients : tail'[s] = tail[s]
  <2>1. \A s \in Viewers \ execs[t].clients : tail'[s] = tail[s] /\ tail'[s] \in Seq(Chunks)
    BY <1>0, <1>3 DEF ConsoleRows
  <2>2. tail' = [s \in Viewers |-> tail'[s]]
    BY <1>3
  <2> QED
    BY <1>8, <2>1, <2>2
<1>10. ConsoleRows'
  BY <1>0, <1>3, <1>6, <1>9 DEF ConsoleRows
<1>11. RegistrySound'
  BY <1>3, <1>5, <1>6 DEF ConsoleInv, ConsoleRows, RegistrySound, SharedPerTarget
<1>12. ASSUME NEW u \in Terminals PROVE RowSound(execs'[u]) /\ \A v \in execs'[u].clients : ClientSound(v, u)'
  <2>1. CASE u = t
    BY <1>3, <1>5, <1>6, <1>7, <1>8, <2>1 DEF ClientSound, Answerable
  <2>2. CASE u # t
    <3>1. RowSound(execs[u]) /\ execs'[u] = execs[u] /\ execs[u].clients \subseteq Viewers
      BY <1>0, <1>6, <2>2, RowAt DEF ConsoleInv
    <3>2. ASSUME NEW v \in execs[u].clients PROVE ClientSound(v, u)'
      <4>1. ClientSound(v, u) /\ v \in Viewers
        BY <3>1 DEF ConsoleInv
      <4>2. v \notin execs[t].clients
        BY <1>8, <2>2, <4>1 DEF ClientSound
      <4> QED
        BY <1>3, <1>9, <3>1, <4>1, <4>2 DEF ClientSound, Answerable
    <3> QED
      BY <3>1, <3>2
  <2> QED
    BY <2>1, <2>2
<1>13. ASSUME NEW v \in Viewers PROVE ViewerSound(v)'
  <2>1. ViewerSound(v) /\ (joined[v] # NoTerminal => joined[v] \in Terminals)
    BY <1>0 DEF ConsoleInv, ConsoleRows
  <2>2. joined[v] # NoTerminal => execs'[joined[v]].clients = execs[joined[v]].clients
    BY <1>5, <1>6, <2>1
  <2>3. joined[v] = NoTerminal => v \notin execs[t].clients
    BY <1>0, <1>8 DEF ClientSound
  <2> QED
    BY <1>3, <1>9, <2>1, <2>2, <2>3 DEF ViewerSound, Answerable
<1> QED
  BY <1>6, <1>10, <1>11, <1>12, <1>13 DEF ConsoleInv

\* The handler of an end, of a process that ran or that could not be started.
LEMMA ExitStep ==
  ASSUME ConsoleInv, NEW t \in Terminals, NEW how \in {"gone", "errored"}, OnExit(t, how),
         \/ execs[t].process = "running" /\ how = "gone"
         \/ ~execs[t].spawned
  PROVE  ConsoleInv'
<1> DEFINE r == [execs[t] EXCEPT !.process = how, !.clients = {}]
<1>0. /\ ConsoleRows /\ RowSound(execs[t]) /\ execs[t] \in ExecRow /\ execs[t].clients \subseteq Viewers /\ t # NoTerminal
  BY RowAt DEF ConsoleInv
<1>1. /\ shows' = Shown(execs[t].clients, "closed") /\ terminal' = NoTerminal
      /\ ws' = [s \in Viewers |-> IF s \in execs[t].clients /\ Answerable(s) THEN "closing" ELSE ws[s]]
      /\ UNCHANGED <<native, sent, framesSent, checking, joined, tail>>
  BY DEF OnExit
<1>2. execs' = [execs EXCEPT ![t] = r]
  BY <1>0 DEF OnExit, ConsoleRows, ExecRow, Terminals
<1>3. /\ r \in ExecRow /\ r.process = how /\ r.clients = {} /\ r.made = execs[t].made
      /\ r.buffer = execs[t].buffer /\ r.spawned = execs[t].spawned
  BY <1>0 DEF ExecRow
<1> HIDE DEF r
<1>4. /\ execs' \in Seq(ExecRow) /\ Terminals' = Terminals /\ execs'[t] = r
      /\ \A u \in Terminals : u # t => execs'[u] = execs[u]
  BY <1>0, <1>2, <1>3, ExecReplaced DEF ConsoleRows, Terminals
<1>5. RowSound(r)
  BY <1>0, <1>3 DEF RowSound
<1>6. /\ ws' \in [Viewers -> {"new", "open", "leaving", "closing", "closed"}]
      /\ \A v \in Viewers : v \notin execs[t].clients => ws'[v] = ws[v]
      /\ \A v \in execs[t].clients : ws'[v] = "closing"
  BY <1>0, <1>1 DEF ConsoleRows, ConsoleInv, ClientSound
<1>7. ConsoleRows'
  BY <1>0, <1>1, <1>4, <1>6, ShownTyped DEF ConsoleRows
<1>8. RegistrySound'
  <2> SUFFICES ASSUME \A u \in Terminals : execs'[u].spawned, NEW u \in Terminals, execs'[u].process = "running" PROVE FALSE
    BY <1>1, <1>4 DEF RegistrySound, SharedPerTarget
  <2>1. \A w \in Terminals : execs[w].spawned
    BY <1>3, <1>4
  <2>2. u # t /\ execs[u].process = "running"
    BY <1>3, <1>4
  <2>3. execs[t].process = "running"
    BY <2>1
  <2> QED
    BY <2>1, <2>2, <2>3 DEF ConsoleInv, RegistrySound, SharedPerTarget
<1>9. ASSUME NEW u \in Terminals PROVE RowSound(execs'[u]) /\ \A v \in execs'[u].clients : ClientSound(v, u)'
  <2>1. CASE u = t
    BY <1>3, <1>4, <1>5, <2>1
  <2>2. CASE u # t
    <3>1. RowSound(execs[u]) /\ execs'[u] = execs[u] /\ execs[u].clients \subseteq Viewers
      BY <1>0, <1>4, <2>2, RowAt DEF ConsoleInv
    <3>2. ASSUME NEW v \in execs[u].clients PROVE ClientSound(v, u)'
      <4>1. ClientSound(v, u) /\ v \in Viewers
        BY <3>1 DEF ConsoleInv
      <4>2. v \notin execs[t].clients
        BY <2>2, <4>1 DEF ClientSound, ConsoleInv
      <4> QED
        BY <1>1, <1>6, <3>1, <4>1, <4>2 DEF ClientSound, Answerable
    <3> QED
      BY <3>1, <3>2
  <2> QED
    BY <2>1, <2>2
<1>10. ASSUME NEW v \in Viewers PROVE ViewerSound(v)'
  <2>1. /\ ViewerSound(v) /\ (joined[v] # NoTerminal => joined[v] \in Terminals)
        /\ (shows'[v] = "open" => shows[v] = "open")
    BY <1>0, <1>1, ShownTyped DEF ConsoleInv, ConsoleRows
  <2>2. CASE v \in execs[t].clients
    <3>1. ~Answerable(v)' /\ ws'[v] # "new"
      BY <1>6, <2>2 DEF Answerable
    <3> QED
      BY <1>1, <2>1, <3>1 DEF ViewerSound
  <2>3. CASE v \notin execs[t].clients
    <3>1. Answerable(v)' <=> Answerable(v)
      BY <1>6, <2>3 DEF Answerable
    <3>2. joined[v] # NoTerminal /\ Answerable(v) => v \in execs'[joined[v]].clients
      BY <1>4, <2>1, <2>3 DEF ViewerSound
    <3> QED
      BY <1>1, <1>6, <2>1, <2>3, <3>1, <3>2 DEF ViewerSound
  <2> QED
    BY <2>2, <2>3
<1> QED
  BY <1>4, <1>7, <1>8, <1>9, <1>10 DEF ConsoleInv

LEMMA EndStep == ASSUME ConsoleInv, NEW t \in Terminals, ProcessEnds(t) \/ SpawnErrors(t) \/ SpawnCloses(t) PROVE ConsoleInv'
<1>1. RowSound(execs[t])
  BY DEF ConsoleInv
<1>2. CASE ProcessEnds(t)
  BY <1>2, ExitStep DEF ProcessEnds
<1>3. CASE SpawnErrors(t)
  BY <1>1, <1>3, ExitStep DEF SpawnErrors, RowSound
<1>4. CASE SpawnCloses(t)
  BY <1>1, <1>4, ExitStep DEF SpawnCloses, RowSound
<1> QED
  BY <1>2, <1>3, <1>4

LEMMA CloseStep == ASSUME ConsoleInv, NEW s \in Viewers, ClosesInOrder(s) \/ Breaks(s) PROVE ConsoleInv'
<1>0. ConsoleRows /\ SocketClosed(s) /\ ViewerSound(s)
  BY DEF ConsoleInv, ClosesInOrder, Breaks
<1>1. /\ ws' \in [Viewers -> {"new", "open", "leaving", "closing", "closed"}] /\ ws'[s] = "closed"
      /\ tail' \in [Viewers -> Seq(Chunks)] /\ tail'[s] = <<>>
      /\ sent' \in [Viewers -> Seq(Frames)]
      /\ shows' \in [Viewers -> {"connecting", "open", "closed", "error"}] /\ shows'[s] # "open"
      /\ \A v \in Viewers : v # s => ws'[v] = ws[v] /\ tail'[v] = tail[v] /\ shows'[v] = shows[v]
  <2>1. <<>> \in Seq(Chunks) /\ <<>> \in Seq(Frames)
    OBVIOUS
  <2> QED
    BY <1>0, <2>1 DEF SocketClosed, ConsoleRows
<1>2. UNCHANGED <<native, framesSent, checking, joined, terminal>>
  BY <1>0 DEF SocketClosed
<1>3. /\ execs' \in Seq(ExecRow) /\ Terminals' = Terminals
      /\ \A u \in Terminals : /\ RowSound(execs'[u])
                             /\ execs'[u].clients = execs[u].clients \ {s} /\ execs'[u].made = execs[u].made
                             /\ execs'[u].process = execs[u].process /\ execs'[u].spawned = execs[u].spawned
  <2>1. CASE joined[s] = NoTerminal
    <3>1. execs' = execs
      BY <1>0, <2>1 DEF SocketClosed
    <3>2. \A u \in Terminals : s \notin execs[u].clients
      BY <1>0, <2>1, RowAt DEF ConsoleInv, ClientSound
    <3> QED
      BY <1>0, <3>1, <3>2 DEF ConsoleInv, ConsoleRows, Terminals
  <2>2. CASE joined[s] # NoTerminal
    <3>0. PICK t \in Terminals : t = joined[s]
      BY <1>0, <2>2 DEF ConsoleRows
    <3> DEFINE killed == execs[t].killed \/ Kills(t, s)
               r == [execs[t] EXCEPT !.clients = execs[t].clients \ {s}, !.killed = killed]
    <3>1. /\ RowSound(execs[t]) /\ execs[t] \in ExecRow /\ execs[t].clients \subseteq Viewers /\ execs[t].killed \in BOOLEAN
      BY <1>0, RowAt DEF ConsoleInv, ExecRow
    <3>2. killed \in BOOLEAN
      BY <3>1
    <3>3. execs' = [execs EXCEPT ![t].clients = @ \ {s}, ![t].killed = @ \/ Kills(t, s)]
      BY <1>0, <2>2, <3>0 DEF SocketClosed
    <3>4. execs' = [execs EXCEPT ![t] = r]
      BY <1>0, <3>1, <3>3 DEF ConsoleRows, ExecRow, Terminals
    <3>5. killed => execs[t].killed \/ execs[t].clients \ {s} = {}
      BY DEF Kills
    <3>6. execs[t].killed \/ execs[t].clients \ {s} = {} => killed
      BY DEF Kills
    <3> HIDE DEF killed
    <3>7. /\ r \in ExecRow /\ r.process = execs[t].process /\ r.clients = execs[t].clients \ {s}
          /\ r.made = execs[t].made /\ r.buffer = execs[t].buffer /\ r.spawned = execs[t].spawned
      BY <3>1, <3>2 DEF ExecRow
    <3>8. r.killed = killed
      BY <3>1, <3>2 DEF ExecRow
    <3> HIDE DEF r
    <3>9. /\ execs' \in Seq(ExecRow) /\ Terminals' = Terminals /\ execs'[t] = r
          /\ \A u \in Terminals : u # t => execs'[u] = execs[u]
      BY <1>0, <3>4, <3>7, ExecReplaced DEF ConsoleRows, Terminals
    <3>10. RowSound(r)
      <4>1. r.process = "running" /\ ~r.killed => r.clients # {}
        BY <3>6, <3>7, <3>8
      <4> QED
        BY <3>1, <3>7, <4>1 DEF RowSound
    <3>11. \A u \in Terminals : u # t => s \notin execs[u].clients /\ RowSound(execs[u])
      BY <3>0 DEF ConsoleInv, ClientSound
    <3> QED
      BY <3>7, <3>9, <3>10, <3>11
  <2> QED
    BY <2>1, <2>2
<1>4. ConsoleRows'
  BY <1>0, <1>1, <1>2, <1>3 DEF ConsoleRows
<1>5. RegistrySound'
  BY <1>0, <1>2, <1>3 DEF ConsoleInv, ConsoleRows, RegistrySound, SharedPerTarget
<1>6. ASSUME NEW u \in Terminals, NEW v \in execs'[u].clients PROVE ClientSound(v, u)'
  <2>1. v \in execs[u].clients /\ v # s /\ v \in Viewers /\ ClientSound(v, u)
    BY <1>0, <1>3, RowAt DEF ConsoleInv
  <2> QED
    BY <1>1, <1>2, <1>3, <2>1 DEF ClientSound, Answerable
<1>7. ASSUME NEW v \in Viewers PROVE ViewerSound(v)'
  <2>1. ViewerSound(v) /\ (joined[v] # NoTerminal => joined[v] \in Terminals)
    BY <1>0 DEF ConsoleInv, ConsoleRows
  <2>2. CASE v = s
    BY <1>1, <1>2, <2>1, <2>2 DEF ViewerSound, Answerable
  <2>3. CASE v # s
    BY <1>1, <1>2, <1>3, <2>1, <2>3 DEF ViewerSound, Answerable
  <2> QED
    BY <2>2, <2>3
<1> QED
  BY <1>3, <1>4, <1>5, <1>6, <1>7 DEF ConsoleInv

LEMMA ThrowStep == ASSUME ConsoleInv, NEW s \in Viewers, CheckThrows(s) PROVE ConsoleInv'
<1>0. ConsoleRows /\ terminal' = NoTerminal /\ UNCHANGED <<native, framesSent, joined, tail>>
  BY DEF ConsoleInv, CheckThrows
<1>1. /\ ws' \in [Viewers -> {"new", "open", "leaving", "closing", "closed"}]
      /\ \A v \in Viewers : ~Answerable(v)' /\ (ws'[v] = "new" => ws[v] = "new")
  BY <1>0 DEF CheckThrows, Answerable
<1>2. /\ shows' \in [Viewers -> {"connecting", "open", "closed", "error"}]
      /\ \A v \in Viewers : shows'[v] = "open" => shows[v] = "open"
  BY <1>0 DEF CheckThrows, ConsoleRows
<1>3. sent' \in [Viewers -> Seq(Frames)] /\ checking' \in [Viewers -> BOOLEAN]
  <2>1. <<>> \in Seq(Frames)
    OBVIOUS
  <2> QED
    BY <2>1 DEF CheckThrows
<1>4. ASSUME NEW u \in Terminals
      PROVE  /\ [execs[u] EXCEPT !.process = "gone", !.clients = {}] \in ExecRow
             /\ RowSound([execs[u] EXCEPT !.process = "gone", !.clients = {}])
             /\ [execs[u] EXCEPT !.process = "gone", !.clients = {}].process = "gone"
             /\ [execs[u] EXCEPT !.process = "gone", !.clients = {}].clients = {}
  <2>1. execs[u] \in ExecRow /\ RowSound(execs[u])
    BY <1>0, RowAt DEF ConsoleInv
  <2> QED
    BY <2>1 DEF ExecRow, RowSound
<1>5. execs' = [u \in Terminals |-> [execs[u] EXCEPT !.process = "gone", !.clients = {}]]
  BY DEF CheckThrows
<1>6. /\ execs' \in Seq(ExecRow) /\ Terminals' = Terminals
      /\ \A u \in Terminals : RowSound(execs'[u]) /\ execs'[u].process = "gone" /\ execs'[u].clients = {}
  <2>1. Len(execs) \in Nat
    BY <1>0 DEF ConsoleRows
  <2>2. execs' \in [1 .. Len(execs) -> ExecRow]
    BY <1>4, <1>5 DEF Terminals
  <2>3. execs' \in Seq(ExecRow) /\ Len(execs') = Len(execs)
    BY <2>1, <2>2
  <2> QED
    BY <1>4, <1>5, <2>3 DEF Terminals
<1>7. ConsoleRows'
  BY <1>0, <1>1, <1>2, <1>3, <1>6 DEF ConsoleRows
<1>8. RegistrySound'
  BY <1>0, <1>6 DEF RegistrySound, SharedPerTarget
<1>9. \A v \in Viewers : ViewerSound(v)'
  BY <1>0, <1>1, <1>2 DEF ConsoleInv, ViewerSound
<1> QED
  BY <1>6, <1>7, <1>8, <1>9 DEF ConsoleInv

LEMMA ConsoleStep == ConsoleInv /\ [ConsoleNext]_consoleVars => ConsoleInv'
<1> SUFFICES ASSUME ConsoleInv, [ConsoleNext]_consoleVars PROVE ConsoleInv'
  OBVIOUS
<1>1. CASE UNCHANGED consoleVars
  <2>1. ConsoleRows'
    BY <1>1 DEF consoleVars, ConsoleInv, ConsoleRows, Terminals
  <2> QED
    BY <1>1, <2>1, PagesMove DEF consoleVars, Answerable
<1>2. CASE ConsoleNext
  BY <1>2, ConnectStep, FrameStep, JoinStep, EmitStep, EndStep, CloseStep, ThrowStep DEF ConsoleNext
<1> QED
  BY <1>1, <1>2

LEMMA ConsoleSuffices == ConsoleInv => ConsoleTypeOK /\ ConsoleIsSound
<1> SUFFICES ASSUME ConsoleInv PROVE ConsoleTypeOK /\ ConsoleIsSound
  OBVIOUS
<1>0. ConsoleRows
  BY DEF ConsoleInv
<1>1. ExecIsWatched
  <2> SUFFICES ASSUME NEW t \in Terminals, Living(t) PROVE \E s \in execs[t].clients : ws[s] # "closed"
    BY DEF ExecIsWatched
  <2>1. PICK s : s \in execs[t].clients
    BY DEF ConsoleInv, RowSound, Living
  <2> QED
    BY <2>1 DEF ConsoleInv, ClientSound, Answerable
<1>2. SharedPerTarget
  BY DEF ConsoleInv, RegistrySound
<1>3. TailIsWhole
  <2> SUFFICES ASSUME NEW t \in Terminals, NEW s \in execs[t].clients
               PROVE  /\ \A i \in DOMAIN tail[s] : tail[s][i] = execs[t].made - (Len(tail[s]) - i)
                      /\ Len(tail[s]) >= (IF execs[t].made < Scrollback THEN execs[t].made ELSE Scrollback)
    BY DEF TailIsWhole
  <2>1. ClientSound(s, t) /\ tail[s] \in Seq(Chunks)
    BY <1>0, RowAt DEF ConsoleInv, ConsoleRows
  <2> QED
    BY <2>1 DEF ClientSound, Window, AtLeast
<1>4. OpenIsJoined
  <2> SUFFICES ASSUME NEW s \in Viewers, shows[s] = "open", ws[s] = "open"
               PROVE  s \in execs[joined[s]].clients /\ execs[joined[s]].process \in {"running", "unborn"}
    BY DEF OpenIsJoined
  <2>1. joined[s] \in Terminals /\ s \in execs[joined[s]].clients
    BY <1>0 DEF ConsoleInv, ConsoleRows, ViewerSound, Answerable
  <2> QED
    BY <2>1 DEF ConsoleInv, RowSound
<1>5. ConsoleTypeOK
  <2>1. ASSUME NEW s \in Viewers
        PROVE  /\ \A i \in DOMAIN sent[s] : sent[s][i] \in Frames
               /\ \A i \in DOMAIN tail[s] : tail[s][i] \in 1 .. MaxChunks
    <3>1. sent[s] \in Seq(Frames) /\ tail[s] \in Seq(Chunks)
      BY <1>0 DEF ConsoleRows
    <3>2. ASSUME NEW S, NEW q \in Seq(S), NEW i \in DOMAIN q PROVE q[i] \in S
      OBVIOUS
    <3> QED
      BY <3>1, <3>2 DEF Chunks
  <2>2. ASSUME NEW t \in Terminals
        PROVE  /\ execs[t].process \in {"running", "unborn", "errored", "gone"}
               /\ execs[t].spawned \in BOOLEAN /\ execs[t].killed \in BOOLEAN
               /\ execs[t].clients \subseteq Viewers
               /\ execs[t].made \in 0 .. MaxChunks /\ Len(execs[t].buffer) <= Scrollback
    <3>1. execs[t] \in ExecRow /\ RowSound(execs[t]) /\ execs[t].made \in Nat
      BY <1>0, RowAt, ConsoleAssumption DEF ConsoleInv
    <3>2. Len(execs[t].buffer) <= Scrollback
      BY <3>1, ConsoleAssumption DEF RowSound, AtLeast
    <3> QED
      BY <3>1, <3>2 DEF ExecRow
  <2> QED
    BY <1>0, <2>1, <2>2 DEF ConsoleRows, ConsoleTypeOK
<1> QED
  BY <1>1, <1>2, <1>3, <1>4, <1>5 DEF ConsoleIsSound

(***************************************************************************)
(* Previews: there is always an unused deployment for one that is created. *)
(***************************************************************************)

Created(kinds) == {d \in Deployments : kind[d] \in kinds}
Asking         == {p \in PRs : hook[p] # "none"}

\* The bounds leave enough deployments: a push is one of a preview at most, and one that
\* still asks has made none yet.
Counts ==
  /\ IsFiniteSet(Asking)
  /\ Cardinality(Created(PRs)) + Cardinality(Asking) <= events
  /\ Cardinality(Created({Main})) <= Mains

\* A deployment has a kind from its creation on.
KindsGiven == \A d \in Deployments : pc[d] = "idle" <=> kind[d] = NoDeployment

PreviewTyped == PreviewTypeOK /\ Counts /\ KindsGiven

LEMMA FreshExists ==
  ASSUME PreviewTyped, Cardinality(Created(PRs)) + Cardinality(Created({Main})) < Cardinality(Deployments)
  PROVE  Fresh \in Deployments /\ kind[Fresh] = NoDeployment
<1>1. IsFiniteSet(Deployments)
  BY PreviewAssumption
<1>2. /\ IsFiniteSet(Created(PRs)) /\ IsFiniteSet(Created({Main}))
      /\ Cardinality(Created(PRs)) \in Nat /\ Cardinality(Created({Main})) \in Nat
  BY <1>1, FS_Subset, FS_CardinalityType DEF Created
<1> DEFINE both == Created(PRs) \cup Created({Main})
<1>3. /\ IsFiniteSet(both) /\ Cardinality(both) \in Nat
      /\ Cardinality(both) <= Cardinality(Created(PRs)) + Cardinality(Created({Main}))
  <2>1. IsFiniteSet(Created(PRs) \cap Created({Main})) /\ Cardinality(Created(PRs) \cap Created({Main})) \in Nat
    BY <1>2, FS_Intersection, FS_CardinalityType
  <2>2. /\ IsFiniteSet(both)
        /\ Cardinality(both) = Cardinality(Created(PRs)) + Cardinality(Created({Main}))
                               - Cardinality(Created(PRs) \cap Created({Main}))
    BY <1>2, FS_Union
  <2>3. Cardinality(both) \in Nat
    BY <2>2, FS_CardinalityType
  <2> QED
    BY <1>2, <2>1, <2>2, <2>3
<1>4. both # Deployments
  <2>1. Cardinality(both) < Cardinality(Deployments)
    BY <1>1, <1>2, <1>3, FS_CardinalityType
  <2>2. Cardinality(both) \in Nat
    BY <1>3
  <2> HIDE DEF both
  <2> QED
    BY <2>1, <2>2
<1>5. \E d \in Deployments : kind[d] = NoDeployment
  BY <1>4 DEF Created, PreviewTyped, PreviewTypeOK
<1> QED
  BY <1>5 DEF Fresh

\* A deployment that is created was unused, and counts as of its kind.
LEMMA CountsCreated ==
  ASSUME PreviewTyped, NEW d \in Deployments, kind[d] = NoDeployment, NEW k \in PRs \cup {Main},
         kind' = [kind EXCEPT ![d] = k]
  PROVE  /\ k = Main => Created({Main})' = Created({Main}) \cup {d} /\ Created(PRs)' = Created(PRs)
         /\ k \in PRs => Created(PRs)' = Created(PRs) \cup {d} /\ Created({Main})' = Created({Main})
         /\ d \notin Created(PRs) /\ d \notin Created({Main})
<1>1. kind \in [Deployments -> PRs \cup {Main, NoDeployment}] /\ Main \notin PRs /\ NoDeployment \notin PRs \cup {Main}
  BY PreviewAssumption DEF PreviewTyped, PreviewTypeOK
<1>2. kind'[d] = k /\ \A e \in Deployments \ {d} : kind'[e] = kind[e]
  BY <1>1
<1> QED
  BY <1>1, <1>2 DEF Created

LEMMA PreviewTypedInit == PreviewInit => PreviewTyped
<1> SUFFICES ASSUME PreviewInit PROVE PreviewTyped
  OBVIOUS
<1>1. PreviewTypeOK
  BY PreviewAssumption DEF PreviewInit, PreviewTypeOK, PreviewRow, Ports, Active, Actors
<1>2. Created(PRs) = {} /\ Created({Main}) = {} /\ Asking = {}
  BY PreviewAssumption DEF PreviewInit, Created, Asking
<1>4. events = 0
  BY DEF PreviewInit
<1>3. Counts
  BY <1>2, <1>4, FS_EmptySet, PreviewAssumption DEF Counts
<1> QED
  BY <1>1, <1>3 DEF PreviewTyped, KindsGiven, PreviewInit

\* A step that creates nothing and takes a request further, if any.
LEMMA CountsKept ==
  ASSUME PreviewTyped, NEW p, kind' = kind, events' = events, Asking' = Asking \/ Asking' = Asking \ {p}
  PROVE  Counts'
<1>1. Created(PRs)' = Created(PRs) /\ Created({Main})' = Created({Main})
  BY DEF Created
<1>2. IsFiniteSet(Asking) /\ Cardinality(Asking) \in Nat
  BY FS_CardinalityType DEF PreviewTyped, Counts
<1>3. IsFiniteSet(Asking') /\ Cardinality(Asking') <= Cardinality(Asking) /\ Cardinality(Asking') \in Nat
  <2>1. CASE Asking' = Asking
    BY <1>2, <2>1
  <2>2. CASE Asking' = Asking \ {p}
    <3>1. /\ IsFiniteSet(Asking \ {p})
          /\ Cardinality(Asking \ {p}) = IF p \in Asking THEN Cardinality(Asking) - 1 ELSE Cardinality(Asking)
      BY <1>2, FS_RemoveElement
    <3>2. Cardinality(Asking \ {p}) \in Nat
      BY <3>1, FS_CardinalityType
    <3> QED
      BY <1>2, <2>2, <3>1, <3>2
  <2> QED
    BY <2>1, <2>2
<1>4. Cardinality(Created(PRs)) \in Nat /\ Cardinality(Created({Main})) \in Nat /\ events \in Nat /\ Mains \in Nat
  BY FS_Subset, FS_CardinalityType, PreviewAssumption DEF Created, PreviewTyped, PreviewTypeOK
<1> QED
  BY <1>1, <1>2, <1>3, <1>4 DEF PreviewTyped, Counts

\* Somebody asks for a deployment: one push more.
LEMMA CountsAsked ==
  ASSUME PreviewTyped, NEW p, p \notin Asking, Asking' = Asking \cup {p}, kind' = kind, events' = events + 1
  PROVE  Counts'
<1>1. Created(PRs)' = Created(PRs) /\ Created({Main})' = Created({Main})
  BY DEF Created
<1>2. IsFiniteSet(Asking) /\ Cardinality(Asking) \in Nat
  BY FS_CardinalityType DEF PreviewTyped, Counts
<1>3. IsFiniteSet(Asking \cup {p}) /\ Cardinality(Asking \cup {p}) = Cardinality(Asking) + 1
  BY <1>2, FS_AddElement
<1>4. Cardinality(Created(PRs)) \in Nat /\ events \in Nat
  BY FS_Subset, FS_CardinalityType, PreviewAssumption DEF Created, PreviewTyped, PreviewTypeOK
<1> QED
  BY <1>1, <1>2, <1>3, <1>4 DEF PreviewTyped, Counts

LEMMA CreateMainTyped ==
  ASSUME PreviewTyped, CreateMain
  PROVE  /\ Fresh \in Deployments /\ kind[Fresh] = NoDeployment
         /\ Counts' /\ kind' = [kind EXCEPT ![Fresh] = Main] /\ pc' = [pc EXCEPT ![Fresh] = "queued"]
<1>1. /\ kind' = [kind EXCEPT ![Fresh] = Main] /\ pc' = [pc EXCEPT ![Fresh] = "queued"]
      /\ Cardinality(Created({Main})) < Mains /\ UNCHANGED <<hook, events>>
  BY DEF CreateMain, NewDeployment, requestVars, Created
<1>2. /\ IsFiniteSet(Deployments) /\ Cardinality(Deployments) \in Nat /\ Mains \in Nat /\ MaxEvents \in Nat
      /\ Cardinality(Deployments) >= Mains + MaxEvents /\ events \in Nat /\ events <= MaxEvents
  BY FS_CardinalityType, PreviewAssumption DEF PreviewTyped, PreviewTypeOK
<1>3. /\ IsFiniteSet(Created(PRs)) /\ IsFiniteSet(Created({Main}))
      /\ Cardinality(Created(PRs)) \in Nat /\ Cardinality(Created({Main})) \in Nat /\ Cardinality(Asking) \in Nat
  BY <1>2, FS_Subset, FS_CardinalityType DEF Created, PreviewTyped, Counts
<1>4. Cardinality(Created(PRs)) + Cardinality(Asking) <= events /\ Cardinality(Created({Main})) <= Mains
  BY DEF PreviewTyped, Counts
<1>5. Cardinality(Created(PRs)) + Cardinality(Created({Main})) < Cardinality(Deployments)
  BY <1>1, <1>2, <1>3, <1>4
<1>6. Fresh \in Deployments /\ kind[Fresh] = NoDeployment
  BY <1>5, FreshExists
<1>7. /\ Created({Main})' = Created({Main}) \cup {Fresh} /\ Created(PRs)' = Created(PRs) /\ Fresh \notin Created({Main})
  <2>1. PICK d \in Deployments : d = Fresh
    BY <1>6
  <2> QED
    BY <1>1, <1>6, <2>1, CountsCreated
<1>8. Cardinality(Created({Main}) \cup {Fresh}) = Cardinality(Created({Main})) + 1
  BY <1>3, <1>7, FS_AddElement
<1>9. Asking' = Asking
  BY <1>1 DEF Asking
<1> QED
  BY <1>1, <1>2, <1>3, <1>4, <1>6, <1>7, <1>8, <1>9 DEF PreviewTyped, Counts

LEMMA CreatePreviewTyped ==
  ASSUME PreviewTyped, NEW p \in PRs, CreatePreview(p), ~SlotTaken
  PROVE  /\ Fresh \in Deployments /\ kind[Fresh] = NoDeployment
         /\ Counts' /\ kind' = [kind EXCEPT ![Fresh] = p] /\ pc' = [pc EXCEPT ![Fresh] = "queued"]
<1>1. /\ kind' = [kind EXCEPT ![Fresh] = p] /\ pc' = [pc EXCEPT ![Fresh] = "queued"]
      /\ hook[p] = "create" /\ hook' = [hook EXCEPT ![p] = "none"] /\ UNCHANGED events
  BY DEF CreatePreview, NewDeployment
<1>2. /\ IsFiniteSet(Deployments) /\ Cardinality(Deployments) \in Nat /\ Mains \in Nat /\ MaxEvents \in Nat
      /\ Cardinality(Deployments) >= Mains + MaxEvents /\ events \in Nat /\ events <= MaxEvents
  BY FS_CardinalityType, PreviewAssumption DEF PreviewTyped, PreviewTypeOK
<1>3. /\ IsFiniteSet(Created(PRs)) /\ IsFiniteSet(Created({Main})) /\ IsFiniteSet(Asking)
      /\ Cardinality(Created(PRs)) \in Nat /\ Cardinality(Created({Main})) \in Nat /\ Cardinality(Asking) \in Nat
  BY <1>2, FS_Subset, FS_CardinalityType DEF Created, PreviewTyped, Counts
<1>4. Cardinality(Created(PRs)) + Cardinality(Asking) <= events /\ Cardinality(Created({Main})) <= Mains
  BY DEF PreviewTyped, Counts
<1>5. p \in Asking /\ Asking' = Asking \ {p}
  BY <1>1 DEF Asking, PreviewTyped, PreviewTypeOK
<1>6. /\ IsFiniteSet(Asking \ {p}) /\ Cardinality(Asking \ {p}) = Cardinality(Asking) - 1
      /\ Cardinality(Asking \ {p}) \in Nat
  <2>1. IsFiniteSet(Asking \ {p}) /\ Cardinality(Asking \ {p}) = Cardinality(Asking) - 1
    BY <1>3, <1>5, FS_RemoveElement
  <2> QED
    BY <2>1, FS_CardinalityType
<1>7. Cardinality(Created(PRs)) + Cardinality(Created({Main})) < Cardinality(Deployments)
  BY <1>2, <1>3, <1>4, <1>6
<1>8. Fresh \in Deployments /\ kind[Fresh] = NoDeployment
  BY <1>7, FreshExists
<1>9. Created(PRs)' = Created(PRs) \cup {Fresh} /\ Created({Main})' = Created({Main}) /\ Fresh \notin Created(PRs)
  <2>1. PICK d \in Deployments : d = Fresh
    BY <1>8
  <2> QED
    BY <1>1, <1>8, <2>1, CountsCreated
<1>10. Cardinality(Created(PRs) \cup {Fresh}) = Cardinality(Created(PRs)) + 1
  BY <1>3, <1>9, FS_AddElement
<1> QED
  BY <1>1, <1>2, <1>3, <1>4, <1>5, <1>6, <1>8, <1>9, <1>10 DEF PreviewTyped, Counts

(***************************************************************************)
(* Previews: what a production pipeline may count on, and the container    *)
(* that is routed.                                                         *)
(***************************************************************************)

\* Production pipelines at work beside each other both know it.
MainsKnow ==
  \A d, e \in Deployments : d # e /\ kind[d] = Main /\ kind[e] = Main /\ AtWork(d) /\ AtWork(e) => {d, e} \subseteq crossed

\* What a deployment's pipeline is for, and what its container is to production: it runs
\* from docker run on, unless a pipeline beside it has removed it; and it is the last that
\* succeeded, unless there is one beside it.
ProductionPart(d) ==
  /\ pc[d] = "stamp" => kind[d] # Main
  /\ pc[d] = "sweep" => kind[d] = Main
  /\ kind[d] = Main /\ pc[d] \in {"health", "converge", "sweep"} /\ (d \notin crossed \/ "sweep" \notin harm) => d \in prod
  /\ kind[d] = Main /\ pc[d] \in {"converge", "sweep"} /\ d \notin crossed => lastMain = d
  /\ d \in {lastMain, prodRoute} => kind[d] = Main /\ pc[d] \in {"converge", "sweep", "done"}

RouteInv ==
  /\ "sweep" \notin harm /\ lastMain # NoDeployment => lastMain \in prod
  /\ "converge" \notin harm => prodRoute = lastMain \/ (lastMain \in Deployments /\ pc[lastMain] = "converge")
  /\ ProductionServes

PreviewInv == PreviewTyped /\ MainsKnow /\ (\A d \in Deployments : ProductionPart(d)) /\ RouteInv

\* The steps that leave the deployments alone.
LEMMA DeploymentsKept ==
  ASSUME PreviewInv, PreviewTypeOK', Counts', UNCHANGED <<kind, pc, prod, lastMain, crossed, prodRoute, harm>>
  PROVE  PreviewInv'
BY DEF PreviewInv, PreviewTyped, KindsGiven, MainsKnow, AtWork, ProductionPart, RouteInv, ProductionServes

\* What is routed by a converge of nobody in particular.
LEMMA RouteConverged ==
  ASSUME PreviewInv, UNCHANGED <<kind, prod, lastMain, crossed>>, Converges
  PROVE  /\ harm' \in {harm, harm \ {"converge"}} /\ prodRoute' \in {prodRoute, lastMain}
         /\ "sweep" \notin harm /\ lastMain # NoDeployment => lastMain \in prod
         /\ "converge" \notin harm' => prodRoute' = lastMain \/ (lastMain \in Deployments /\ pc[lastMain] = "converge")
         /\ ProductionServes'
<1>1. CASE LoadsCaddy /\ harm' = harm \ {"converge"}
  BY <1>1 DEF PreviewInv, RouteInv, LoadsCaddy, ProductionServes
<1>2. CASE UNCHANGED caddyVars
  BY <1>2 DEF PreviewInv, RouteInv, caddyVars, ProductionServes
<1> QED
  BY <1>1, <1>2 DEF Converges

LEMMA DeploymentsRerouted ==
  ASSUME PreviewInv, PreviewTypeOK', Counts', UNCHANGED <<kind, pc, prod, lastMain, crossed>>, Converges
  PROVE  PreviewInv'
<1>1. RouteInv' /\ harm' \in {harm, harm \ {"converge"}} /\ prodRoute' \in {prodRoute, lastMain}
  BY RouteConverged DEF RouteInv
<1>2. \A e \in Deployments : ProductionPart(e)'
  BY <1>1 DEF PreviewInv, ProductionPart
<1> QED
  BY <1>1, <1>2 DEF PreviewInv, PreviewTyped, KindsGiven, MainsKnow, AtWork

\* A deployment is created.
LEMMA DeploymentCreated ==
  ASSUME PreviewInv, PreviewTypeOK', Counts', NEW d \in Deployments, NEW k \in PRs \cup {Main},
         kind[d] = NoDeployment, kind' = [kind EXCEPT ![d] = k], pc' = [pc EXCEPT ![d] = "queued"],
         UNCHANGED <<prod, lastMain, crossed, prodRoute, harm>>
  PROVE  PreviewInv'
<1>1. /\ kind \in [Deployments -> PRs \cup {Main, NoDeployment}] /\ DOMAIN pc = Deployments
      /\ NoDeployment \notin PRs \cup {Main}
  BY PreviewAssumption DEF PreviewInv, PreviewTyped, PreviewTypeOK
<1>2. kind'[d] = k /\ pc'[d] = "queued" /\ \A e \in Deployments \ {d} : kind'[e] = kind[e] /\ pc'[e] = pc[e]
  BY <1>1
<1>3. pc[d] = "idle"
  BY DEF PreviewInv, PreviewTyped, KindsGiven
<1>4. KindsGiven'
  BY <1>1, <1>2 DEF PreviewInv, PreviewTyped, KindsGiven
<1>5. MainsKnow'
  BY <1>2 DEF PreviewInv, MainsKnow, AtWork
<1>6. \A e \in Deployments : ProductionPart(e)'
  <2> TAKE e \in Deployments
  <2>1. CASE e = d
    BY <1>2, <1>3, <2>1 DEF PreviewInv, ProductionPart
  <2>2. CASE e # d
    BY <1>2, <2>2 DEF PreviewInv, ProductionPart
  <2> QED
    BY <2>1, <2>2
<1>7. RouteInv'
  BY <1>2, <1>3 DEF PreviewInv, RouteInv, ProductionServes
<1> QED
  BY <1>4, <1>5, <1>6, <1>7 DEF PreviewInv, PreviewTyped

\* A pipeline moves on.
LEMMA PipelineMoves ==
  ASSUME PreviewInv, PreviewTypeOK', Counts', NEW d \in Deployments, NEW phase, pc' = [pc EXCEPT ![d] = phase],
         pc[d] # "idle", phase # "idle", kind' = kind, MainsKnow', ProductionPart(d)', RouteInv',
         \A e \in Deployments \ {d} : ProductionPart(e)'
  PROVE  PreviewInv'
<1>1. DOMAIN pc = Deployments
  BY DEF PreviewInv, PreviewTyped, PreviewTypeOK
<1>2. pc'[d] = phase /\ \A e \in Deployments \ {d} : pc'[e] = pc[e]
  BY <1>1
<1>3. KindsGiven'
  BY <1>2 DEF PreviewInv, PreviewTyped, KindsGiven
<1> QED
  BY <1>3 DEF PreviewInv, PreviewTyped

LEMMA PreviewStarts == PreviewInit => PreviewInv
<1> SUFFICES ASSUME PreviewInit PROVE PreviewInv
  OBVIOUS
<1>1. MainsKnow /\ RouteInv /\ \A d \in Deployments : ProductionPart(d)
  BY PreviewAssumption DEF PreviewInit, MainsKnow, AtWork, RouteInv, ProductionServes, ProductionPart
<1> QED
  BY <1>1, PreviewTypedInit DEF PreviewInv

\* What a converge writes is typed.
LEMMA RoutesTyped ==
  ASSUME row' \in [PRs -> PreviewRow], link' \in [PRs -> Ports]
  PROVE  Routes' \in [PRs -> Ports]
BY DEF Routes, Ports

LEMMA HarmTyped ==
  ASSUME harm \subseteq {"converge", "sweep"}
  PROVE  \A h \in {harm, harm \ {"converge"}, {}, harm \cup {"converge"}} : h \subseteq {"converge", "sweep"}
OBVIOUS

\* A step of one teardown.
LEMMA TearTyped ==
  ASSUME NEW p \in PRs, NEW a \in Actors, NEW to \in {"none", "mark", "remove", "unlink", "converge", "close"},
         tear \in [PRs -> [Actors -> {"none", "mark", "remove", "unlink", "converge", "close"}]],
         tear' = [tear EXCEPT ![p][a] = to]
  PROVE  tear' \in [PRs -> [Actors -> {"none", "mark", "remove", "unlink", "converge", "close"}]]
<1>1. tear[p] \in [Actors -> {"none", "mark", "remove", "unlink", "converge", "close"}]
  OBVIOUS
<1>2. [tear[p] EXCEPT ![a] = to] \in [Actors -> {"none", "mark", "remove", "unlink", "converge", "close"}]
  BY <1>1
<1>3. tear' = [tear EXCEPT ![p] = [tear[p] EXCEPT ![a] = to]]
  OBVIOUS
<1> QED
  BY <1>2, <1>3

LEMMA PreviewRequests ==
  ASSUME PreviewInv, NEW p \in PRs,
         Push(p) \/ CloseEvent(p) \/ Webhook(p) \/ Teardown(p) \/ Ages(p) \/ SelectStale(p)
  PROVE  PreviewInv'
<1>0. PreviewTypeOK /\ PreviewTyped
  BY DEF PreviewInv, PreviewTyped
<1> USE PreviewAssumption DEF PreviewTypeOK, PreviewRow, Ports
<1>1. CASE Push(p)
  <2>1. PreviewTypeOK'
    BY <1>0, <1>1 DEF Push, deployVars, caddyVars
  <2>2. p \notin Asking /\ Asking' = Asking \cup {p}
    BY <1>0, <1>1 DEF Push, Asking
  <2>3. Counts'
    BY <1>0, <1>1, <2>2, CountsAsked DEF Push, deployVars
  <2> QED
    BY <1>1, <2>1, <2>3, DeploymentsKept DEF Push, deployVars, caddyVars
<1>2. CASE CountPreviews(p) \/ UpsertRow(p)
  <2>1. PreviewTypeOK'
    BY <1>0, <1>2 DEF CountPreviews, UpsertRow, deployVars, caddyVars
  <2>2. Asking' = Asking \/ Asking' = Asking \ {p}
    BY <1>0, <1>2 DEF CountPreviews, UpsertRow, Asking
  <2>3. Counts'
    BY <1>0, <1>2, <2>2, CountsKept DEF CountPreviews, UpsertRow, deployVars
  <2> QED
    BY <1>2, <2>1, <2>3, DeploymentsKept DEF CountPreviews, UpsertRow, deployVars, caddyVars
<1>3. CASE CreatePreview(p) /\ SlotTaken
  <2>1. PreviewTypeOK'
    BY <1>0, <1>3 DEF CreatePreview, caddyVars
  <2>2. Asking' = Asking \ {p}
    BY <1>0, <1>3 DEF CreatePreview, Asking
  <2>3. Counts'
    BY <1>0, <1>3, <2>2, CountsKept DEF CreatePreview
  <2> QED
    BY <1>3, <2>1, <2>3, DeploymentsKept DEF CreatePreview, caddyVars
<1>4. CASE CreatePreview(p) /\ ~SlotTaken
  <2>1. PICK d \in Deployments : d = Fresh
    BY <1>0, <1>4, CreatePreviewTyped
  <2>2. kind[d] = NoDeployment /\ Counts' /\ kind' = [kind EXCEPT ![d] = p] /\ pc' = [pc EXCEPT ![d] = "queued"]
    BY <1>0, <1>4, <2>1, CreatePreviewTyped
  <2>3. PreviewTypeOK'
    BY <1>0, <1>4, <2>1, <2>2 DEF CreatePreview, NewDeployment, Active, caddyVars
  <2> QED
    BY <1>4, <2>2, <2>3, DeploymentCreated DEF CreatePreview, caddyVars
<1>5. CASE CloseEvent(p) \/ MarkClosed(p) \/ Teardown(p) \/ Ages(p) \/ SelectStale(p)
  <2>1. /\ UNCHANGED <<kind, pc, prod, lastMain, crossed, offQueue, hook, events>>
        /\ UNCHANGED caddyVars \/ Converges
    <3>1. CASE CloseEvent(p) \/ MarkClosed(p) \/ Ages(p) \/ SelectStale(p) \/ SweptClose(p)
      BY <3>1 DEF CloseEvent, MarkClosed, SweptClose, Ages, SelectStale, deployVars
    <3>2. CASE \E a \in Actors : RemoveContainer(p, a) \/ Unlink(p, a) \/ TearConverge(p, a)
      BY <3>2 DEF RemoveContainer, Unlink, TearConverge, deployVars
    <3> QED
      BY <1>5, <3>1, <3>2 DEF Teardown
  <2>2. /\ open' \subseteq PRs /\ row' \in [PRs -> PreviewRow] /\ link' \in [PRs -> Ports] /\ age' \in [PRs -> 0..MaxAge]
        /\ ctr' \in [PRs -> Ports]
    <3>1. CASE CloseEvent(p) \/ SelectStale(p)
      BY <1>0, <3>1 DEF CloseEvent, SelectStale, deployVars
    <3>3. CASE MarkClosed(p) \/ SweptClose(p)
      BY <1>0, <3>3 DEF MarkClosed, SweptClose, deployVars
    <3>4. CASE Ages(p)
      <4>1. age[p] + 1 \in 0..MaxAge
        BY <1>0, <3>4 DEF Ages
      <4> QED
        BY <1>0, <3>4, <4>1 DEF Ages, deployVars
    <3>2. CASE \E a \in Actors : RemoveContainer(p, a) \/ Unlink(p, a) \/ TearConverge(p, a)
      BY <1>0, <3>2 DEF RemoveContainer, Unlink, TearConverge, deployVars
    <3> QED
      BY <1>5, <3>1, <3>2, <3>3, <3>4 DEF Teardown
  <2>6. route' \in [PRs -> Ports] /\ prodRoute' \in Ports /\ harm' \subseteq {"converge", "sweep"}
    BY <1>0, <2>1, <2>2, RoutesTyped, HarmTyped DEF Converges, LoadsCaddy, caddyVars
  <2>3. tear' \in [PRs -> [Actors -> {"none", "mark", "remove", "unlink", "converge", "close"}]]
    <3>1. PICK a \in Actors, to \in {"none", "mark", "remove", "unlink", "converge", "close"} :
            tear' = [tear EXCEPT ![p][a] = to] \/ tear' = tear
      BY <1>5 DEF CloseEvent, MarkClosed, Teardown, RemoveContainer, Unlink, TearConverge, SweptClose, Ages,
                  SelectStale, Step, Actors
    <3> QED
      BY <1>0, <3>1, TearTyped
  <2>4. PreviewTypeOK'
    BY <1>0, <2>1, <2>2, <2>3, <2>6
  <2>5. Counts'
    BY <1>0, <2>1, CountsKept DEF Asking
  <2> QED
    BY <2>1, <2>4, <2>5, DeploymentsKept, DeploymentsRerouted DEF caddyVars
<1> QED
  BY <1>1, <1>2, <1>3, <1>4, <1>5 DEF Webhook

LEMMA PreviewPipelines ==
  ASSUME PreviewInv, NEW d \in Deployments, Pipeline(d)
  PROVE  PreviewInv'
<1>0. /\ PreviewTypeOK /\ PreviewTyped /\ ProductionPart(d) /\ RouteInv /\ MainsKnow /\ NoDeployment \notin Deployments
      /\ Main \notin PRs /\ \A e \in Deployments : ProductionPart(e)
  BY PreviewAssumption DEF PreviewInv, PreviewTyped
<1>1. UNCHANGED <<open, events, age, hook, tear, kind>>
  BY DEF Pipeline, Begin, Up, BuildFails, HealthFails, Succeeds, ConvergeSwap, StampPreview, SweepContainers, requestVars
<1>2. Counts'
  BY <1>0, <1>1, CountsKept DEF Asking
<1>3. pc[d] # "idle" /\ kind[d] \in PRs \cup {Main}
  <2>1. pc[d] # "idle"
    BY DEF Pipeline, Begin, Up, BuildFails, HealthFails, Succeeds, ConvergeSwap, StampPreview, SweepContainers
  <2> QED
    BY <1>0, <2>1 DEF PreviewTypeOK, PreviewTyped, KindsGiven
<1>4. PICK phase \in Active \cup {"converge", "stamp", "sweep", "done"} : Goto(d, phase)
  BY DEF Pipeline, Begin, Up, BuildFails, HealthFails, Succeeds, ConvergeSwap, StampPreview, SweepContainers, Active
<1>5. /\ pc' = [pc EXCEPT ![d] = phase] /\ phase # "idle" /\ pc'[d] = phase
      /\ \A e \in Deployments \ {d} : pc'[e] = pc[e]
  BY <1>0, <1>4 DEF Goto, Active, PreviewTypeOK
<1>6. PreviewTypeOK'
  <2>1. /\ row' \in [PRs -> PreviewRow] /\ link' \in [PRs -> Ports] /\ ctr' \in [PRs -> Ports] /\ prod' \subseteq Deployments
    <3>1. CASE Begin(d) \/ BuildFails(d) \/ Succeeds(d) \/ ConvergeSwap(d)
      <4>1. UNCHANGED <<row, link, ctr, prod>>
        BY <3>1 DEF Begin, BuildFails, Succeeds, ConvergeSwap
      <4> QED
        BY <1>0, <4>1 DEF PreviewTypeOK
    <3>2. CASE Up(d) \/ HealthFails(d)
      <4>1. UNCHANGED <<row, link>>
        BY <3>2 DEF Up, HealthFails
      <4>2. \/ prod' \in {prod, prod \cup {d}, prod \ {d}} /\ ctr' = ctr
            \/ prod' = prod /\ \E e \in Ports : ctr' = [ctr EXCEPT ![kind[d]] = e]
        BY <3>2 DEF Up, HealthFails, Ports
      <4> QED
        BY <1>0, <1>3, <4>1, <4>2 DEF PreviewTypeOK, Ports
    <3>3. CASE StampPreview(d)
      BY <1>0, <1>3, <3>3 DEF StampPreview, PreviewTypeOK, PreviewRow, Ports, ProductionPart
    <3>4. CASE SweepContainers(d)
      BY <1>0, <3>4 DEF SweepContainers, PreviewTypeOK, Ports
    <3> QED
      BY <3>1, <3>2, <3>3, <3>4 DEF Pipeline
  <2>2. lastMain' \in Ports /\ crossed' \subseteq Deployments /\ offQueue' \subseteq Deployments
    BY <1>0, <1>4 DEF Pipeline, Begin, Up, BuildFails, HealthFails, Succeeds, ConvergeSwap, StampPreview,
                      SweepContainers, Goto, PreviewTypeOK, Ports, MainsBeside
  <2>3. route' \in [PRs -> Ports] /\ prodRoute' \in Ports /\ harm' \subseteq {"converge", "sweep"}
    <3>1. CASE Begin(d) \/ Up(d) \/ BuildFails(d) \/ HealthFails(d) \/ Succeeds(d)
      <4>1. UNCHANGED caddyVars
        BY <3>1 DEF Begin, Up, BuildFails, HealthFails, Succeeds
      <4> QED
        BY <1>0, <4>1 DEF caddyVars, PreviewTypeOK
    <3>2. CASE ConvergeSwap(d) \/ StampPreview(d)
      <4>1. LoadsCaddy \/ UNCHANGED <<route, prodRoute>>
        BY <3>2 DEF ConvergeSwap, StampPreview, Converges, caddyVars
      <4>2. harm' \in {harm, harm \ {"converge"}, {}, harm \cup {"converge"}}
        BY <3>2 DEF ConvergeSwap, StampPreview, Converges, caddyVars
      <4>3. harm' \subseteq {"converge", "sweep"}
        BY <1>0, <4>2, HarmTyped DEF PreviewTypeOK
      <4> QED
        BY <1>0, <2>1, <2>2, <4>1, <4>3, RoutesTyped DEF LoadsCaddy, PreviewTypeOK
    <3>3. CASE SweepContainers(d)
      BY <1>0, <3>3 DEF SweepContainers, PreviewTypeOK
    <3> QED
      BY <3>1, <3>2, <3>3 DEF Pipeline
  <2>4. pc' \in [Deployments -> Active \cup {"idle", "converge", "stamp", "sweep", "done"}]
    BY <1>0, <1>5 DEF PreviewTypeOK, Active
  <2> QED
    BY <1>0, <1>1, <2>1, <2>2, <2>3, <2>4 DEF PreviewTypeOK
<1>m. ASSUME crossed \subseteq crossed', AtWork(d) PROVE MainsKnow'
  BY <1>0, <1>1, <1>5, <1>m DEF MainsKnow, AtWork
<1>7. CASE Begin(d)
  <2>1. /\ pc[d] = "queued" /\ phase = "up" /\ UNCHANGED <<prod, lastMain, prodRoute, harm>> /\ crossed \subseteq crossed'
        /\ kind[d] = Main /\ MainsBeside(d) # {} => MainsBeside(d) \cup {d} \subseteq crossed'
    BY <1>0, <1>5, <1>7 DEF Begin, Goto, caddyVars, PreviewTypeOK
  <2>2. MainsKnow'
    BY <1>0, <1>1, <1>5, <2>1 DEF MainsKnow, AtWork, MainsBeside
  <2>3. \A e \in Deployments : ProductionPart(e)'
    BY <1>0, <1>1, <1>5, <2>1 DEF ProductionPart
  <2>4. RouteInv'
    BY <1>0, <1>5, <2>1 DEF RouteInv, ProductionServes
  <2> QED
    BY <1>1, <1>2, <1>3, <1>5, <1>6, <2>2, <2>3, <2>4, PipelineMoves
<1>8. CASE Up(d) \/ BuildFails(d) \/ HealthFails(d)
  <2>1. /\ UNCHANGED <<lastMain, crossed, prodRoute, harm>>
        /\ \/ pc[d] = "up" /\ phase = "health" /\ prod \subseteq prod' /\ (kind[d] = Main => d \in prod')
           \/ pc[d] \in {"up", "health"} /\ phase = "done" /\ prod \ {d} \subseteq prod'
    BY <1>0, <1>5, <1>8 DEF Up, BuildFails, HealthFails, Goto, caddyVars, PreviewTypeOK
  <2>2. MainsKnow'
    BY <1>m, <2>1 DEF AtWork
  <2>3. \A e \in Deployments : ProductionPart(e)'
    BY <1>0, <1>1, <1>5, <2>1 DEF ProductionPart
  <2>4. d \notin {lastMain, prodRoute}
    BY <1>0, <2>1 DEF ProductionPart
  <2>5. RouteInv'
    BY <1>0, <1>5, <2>1, <2>4 DEF RouteInv, ProductionServes
  <2> QED
    BY <1>1, <1>2, <1>3, <1>5, <1>6, <2>2, <2>3, <2>5, PipelineMoves
<1>9. CASE Succeeds(d)
  <2>1. /\ UNCHANGED <<prod, crossed, prodRoute, harm>> /\ pc[d] = "health" /\ phase = "converge"
        /\ lastMain' = IF kind[d] = Main THEN d ELSE lastMain
    BY <1>0, <1>5, <1>9 DEF Succeeds, Goto, caddyVars, PreviewTypeOK
  <2>2. MainsKnow'
    BY <1>m, <2>1 DEF AtWork
  <2>3. \A e \in Deployments : kind[d] = Main /\ kind[e] = Main /\ e # d /\ pc[e] \in {"converge", "sweep"} => e \in crossed
    BY <1>0, <2>1 DEF MainsKnow, AtWork
  <2>4. \A e \in Deployments : ProductionPart(e)'
    BY <1>0, <1>1, <1>5, <2>1, <2>3 DEF ProductionPart
  <2>5. d # lastMain /\ (kind[d] = Main /\ "sweep" \notin harm => d \in prod)
    BY <1>0, <2>1 DEF ProductionPart
  <2>6. RouteInv'
    BY <1>0, <1>5, <2>1, <2>5 DEF RouteInv, ProductionServes
  <2> QED
    BY <1>1, <1>2, <1>3, <1>5, <1>6, <2>2, <2>4, <2>6, PipelineMoves
<1>10. CASE (ConvergeSwap(d) /\ kind[d] # Main) \/ StampPreview(d)
  <2>1. /\ UNCHANGED <<prod, crossed, lastMain>> /\ pc[d] \in {"converge", "stamp"} /\ phase \in {"stamp", "done"}
        /\ kind[d] # Main /\ Converges
    BY <1>0, <1>5, <1>10 DEF ConvergeSwap, StampPreview, Goto, PreviewTypeOK, ProductionPart
  <2>2. /\ harm' \in {harm, harm \ {"converge"}} /\ prodRoute' \in {prodRoute, lastMain}
        /\ "sweep" \notin harm /\ lastMain # NoDeployment => lastMain \in prod
        /\ "converge" \notin harm' => prodRoute' = lastMain \/ (lastMain \in Deployments /\ pc[lastMain] = "converge")
        /\ ProductionServes'
    BY <1>1, <2>1, RouteConverged
  <2>3. MainsKnow'
    BY <1>m, <2>1 DEF AtWork
  <2>4. d # lastMain /\ \A e \in Deployments : ProductionPart(e)'
    BY <1>0, <1>1, <1>5, <2>1, <2>2 DEF ProductionPart
  <2>5. RouteInv'
    BY <1>5, <2>1, <2>2, <2>4 DEF RouteInv
  <2> QED
    BY <1>1, <1>2, <1>3, <1>5, <1>6, <2>3, <2>4, <2>5, PipelineMoves
<1>11. CASE ConvergeSwap(d) /\ kind[d] = Main
  <2>1. /\ UNCHANGED <<prod, crossed, lastMain>> /\ pc[d] = "converge" /\ phase = "sweep" /\ kind[d] = Main
        /\ \/ prodRoute' = lastMain /\ harm' = IF d \in crossed THEN harm \ {"converge"} ELSE {}
           \/ prodRoute' = prodRoute /\ harm' = harm \cup {"converge"}
    BY <1>0, <1>5, <1>11 DEF ConvergeSwap, LoadsCaddy, Goto, PreviewTypeOK
  <2>2. MainsKnow'
    BY <1>m, <2>1 DEF AtWork
  <2>3. d \notin crossed =>
          /\ lastMain = d /\ d \in prod
          /\ \A e \in Deployments : kind[e] = Main /\ pc[e] \in {"health", "converge", "sweep"} => e = d
    BY <1>0, <2>1 DEF ProductionPart, MainsKnow, AtWork
  <2>4. \A e \in Deployments : ProductionPart(e)'
    BY <1>0, <1>1, <1>5, <2>1, <2>3 DEF ProductionPart
  <2>5. RouteInv'
    BY <1>0, <1>5, <2>1, <2>3 DEF RouteInv, ProductionServes
  <2> QED
    BY <1>1, <1>2, <1>3, <1>5, <1>6, <2>2, <2>4, <2>5, PipelineMoves
<1>12. CASE SweepContainers(d)
  <2>1. /\ UNCHANGED <<lastMain, prodRoute>> /\ pc[d] = "sweep" /\ phase = "done" /\ crossed' = crossed \ {d}
        /\ \E spared \in {{d}, {}}, left \in SUBSET prod :
             /\ prod' = (prod \cap spared) \cup left
             /\ harm' = IF spared = {} \/ d \in crossed THEN harm \cup {"sweep"} ELSE harm
    BY <1>0, <1>5, <1>12 DEF SweepContainers, Goto, PreviewTypeOK
  <2>2. kind[d] = Main /\ AtWork(d) /\ \A e \in Deployments : e # d /\ kind[e] = Main /\ AtWork(e) => {d, e} \subseteq crossed
    BY <1>0, <2>1 DEF ProductionPart, MainsKnow, AtWork
  <2>3. MainsKnow'
    BY <1>0, <1>1, <1>5, <2>1 DEF MainsKnow, AtWork
  <2>4. CASE "sweep" \in harm'
    <3>1. harm' = harm \cup {"sweep"}
      BY <2>1, <2>4
    <3>2. \A e \in Deployments : ProductionPart(e)'
      BY <1>0, <1>1, <1>5, <2>1, <2>2, <3>1 DEF ProductionPart, AtWork
    <3>3. RouteInv'
      BY <1>0, <1>5, <2>1, <2>4, <3>1 DEF RouteInv, ProductionServes
    <3> QED
      BY <1>1, <1>2, <1>3, <1>5, <1>6, <2>3, <3>2, <3>3, PipelineMoves
  <2>5. CASE "sweep" \notin harm'
    <3>1. harm' = harm /\ d \notin crossed /\ (d \in prod => d \in prod')
      BY <2>1, <2>5
    <3>2. lastMain = d /\ d \in prod'
      BY <1>0, <2>1, <2>2, <3>1 DEF ProductionPart
    <3>3. \A e \in Deployments : ProductionPart(e)'
      BY <1>0, <1>1, <1>5, <2>1, <2>2, <3>1, <3>2 DEF ProductionPart, AtWork
    <3>4. RouteInv'
      BY <1>0, <1>5, <2>1, <3>1, <3>2 DEF RouteInv, ProductionServes
    <3> QED
      BY <1>1, <1>2, <1>3, <1>5, <1>6, <2>3, <3>3, <3>4, PipelineMoves
  <2> QED
    BY <2>4, <2>5
<1> QED
  BY <1>7, <1>8, <1>9, <1>10, <1>11, <1>12 DEF Pipeline

LEMMA PreviewStep == PreviewInv /\ [PreviewNext]_previewVars => PreviewInv'
<1> SUFFICES ASSUME PreviewInv, [PreviewNext]_previewVars PROVE PreviewInv'
  OBVIOUS
<1>1. CASE UNCHANGED previewVars
  <2>1. PreviewTypeOK' /\ Counts'
    BY <1>1 DEF previewVars, deployVars, caddyVars, PreviewInv, PreviewTyped, PreviewTypeOK, Counts, Created, Asking
  <2> QED
    BY <1>1, <2>1, DeploymentsKept DEF previewVars, deployVars, caddyVars
<1>2. CASE CreateMain
  <2>0. PreviewTypeOK /\ PreviewTyped
    BY DEF PreviewInv, PreviewTyped
  <2>1. PICK d \in Deployments : d = Fresh
    BY <1>2, <2>0, CreateMainTyped
  <2>2. kind[d] = NoDeployment /\ Counts' /\ kind' = [kind EXCEPT ![d] = Main] /\ pc' = [pc EXCEPT ![d] = "queued"]
    BY <1>2, <2>0, <2>1, CreateMainTyped
  <2>3. PreviewTypeOK'
    BY <1>2, <2>0, <2>1, <2>2 DEF CreateMain, NewDeployment, requestVars, caddyVars, PreviewTypeOK, Active
  <2> QED
    BY <1>2, <2>2, <2>3, DeploymentCreated DEF CreateMain, caddyVars
<1> QED
  BY <1>1, <1>2, PreviewRequests, PreviewPipelines DEF PreviewNext

\* Whatever pull requests do beside production deployments, whatever of theirs fails, and
\* whatever the sweeps of one application's containers take along: the production domain
\* stays routed to a production container that runs, unless production has harmed itself.
THEOREM PreviewsKeepProduction == PreviewSpec => [](PreviewTypeOK /\ ProductionServes)
<1>1. PreviewInv => PreviewTypeOK /\ ProductionServes
  BY DEF PreviewInv, PreviewTyped, RouteInv
<1> QED
  BY <1>1, PreviewStarts, PreviewStep, PTL DEF PreviewSpec

(***************************************************************************)
(* Log streams: only the owner of the topic has a process.                 *)
(***************************************************************************)

ChildInv ==
  /\ appPc \in [AppSubs -> {"none", "check", "over"}]
  /\ socketOpen \in BOOLEAN
  /\ appRegistered \in AppSubs \cup {None} /\ child \subseteq AppSubs
  /\ ChildIsOwned

LEMMA ChildStarts == LogInit => ChildInv
BY DEF LogInit, ChildInv, ChildIsOwned

LEMMA ChildStep == ChildInv /\ [LogNext]_logVars => ChildInv'
<1> SUFFICES ASSUME ChildInv, [LogNext]_logVars PROVE ChildInv'
  OBVIOUS
<1>1. CASE UNCHANGED <<appPc, socketOpen, appRegistered, child>>
  BY <1>1 DEF ChildInv, ChildIsOwned
<1>2. CASE Writer
  BY <1>1, <1>2 DEF Writer, Write, FlushTimer, InsertBatch, CloseWriter, Trim, appVars, viewerVars
<1>3. CASE \E s \in Subs : Viewer(s)
  BY <1>1, <1>3 DEF Viewer, Subscribe, Attach, ReadPage, Deliver, appVars, writerVars
<1>4. CASE Unsubscribe
  BY <1>1, <1>4 DEF Unsubscribe, appVars, writerVars
<1>5. CASE \E a \in AppSubs : AppLogs(a)
  BY <1>5, LogAssumption DEF AppLogs, AppSubscribe, AppSpawn, ChildEnds, ChildInv, ChildIsOwned
<1>6. CASE AppUnsubscribe
  BY <1>6 DEF AppUnsubscribe, ChildInv, ChildIsOwned
<1>7. CASE CloseSocket
  BY <1>7 DEF CloseSocket, ChildInv, ChildIsOwned
<1>8. CASE UNCHANGED logVars
  BY <1>1, <1>8 DEF logVars, appVars
<1> QED
  BY <1>2, <1>3, <1>4, <1>5, <1>6, <1>7, <1>8 DEF LogNext

\* However subscriptions, the look-ups that they wait for and the end of the socket
\* interleave, a process that follows a container belongs to the topic of an open socket.
THEOREM ChildrenAreOwned == LogSpec => []ChildIsOwned
<1>1. ChildInv => ChildIsOwned
  BY DEF ChildInv
<1> QED
  BY <1>1, ChildStarts, ChildStep, PTL DEF LogSpec

(***************************************************************************)
(* Numbers: what holds of some has a least one, so that what is kept from  *)
(* each number to the next holds of all.                                   *)
(***************************************************************************)
LEMMA LeastNumber ==
  ASSUME NEW T \in SUBSET Nat, T # {} PROVE \E x \in T : \A y \in T : x <= y
<1>1. IsWellFoundedOn(OpToRel(<, Nat), Nat)
  BY NatLessThanWellFounded
<1>2. \E x \in T : \A y \in T : <<y, x>> \notin OpToRel(<, Nat)
  BY <1>1, WFMin
<1> QED
  <2>1. PICK x \in T : \A y \in T : <<y, x>> \notin OpToRel(<, Nat)
    BY <1>2
  <2>2. \A y \in T : ~(y < x)
    BY <2>1, Zenon DEF OpToRel
  <2> QED
    BY <2>2

LEMMA MaxOfBounded ==
  ASSUME NEW n \in Nat, NEW S \in SUBSET (0..n), S # {} PROVE Max(S) \in S /\ \A y \in S : Max(S) >= y
<1> DEFINE bounds == {b \in Nat : \A x \in S : x <= b}
<1>1. n \in bounds
  OBVIOUS
<1>2. PICK b \in bounds : \A c \in bounds : b <= c
  BY <1>1, LeastNumber
<1>3. b \in S
  <2> SUFFICES ASSUME b \notin S PROVE FALSE
    OBVIOUS
  <2>1. PICK x \in S : x \in 0..n
    OBVIOUS
  <2>2. b - 1 \in Nat /\ \A y \in S : y <= b - 1
    BY <1>2, <2>1
  <2> QED
    BY <1>2, <2>2
<1>4. \E x \in S : \A y \in S : x >= y
  BY <1>2, <1>3
<1> QED
  BY <1>4 DEF Max

(***************************************************************************)
(* Sequences of numbers: in order, and what a filter keeps of them.        *)
(***************************************************************************)
Ordered(q) == \A i, j \in 1..Len(q) : i < j => q[i] < q[j]

\* Whether the numbers up to n can be put in order, those of any set of them.
CanOrder(n) ==
  \A S \in SUBSET (1..n) :
    IsFiniteSet(S) /\ \E q \in [1..Cardinality(S) -> S] :
      \A i, j \in 1..Cardinality(S) : i < j => q[i] < q[j]

LEMMA OrderOneMore == ASSUME NEW n \in Nat, CanOrder(n) PROVE CanOrder(n + 1)
<1> SUFFICES ASSUME NEW S \in SUBSET (1..n + 1)
             PROVE  IsFiniteSet(S) /\ \E q \in [1..Cardinality(S) -> S] :
                      \A i, j \in 1..Cardinality(S) : i < j => q[i] < q[j]
  BY DEF CanOrder
<1> DEFINE R == S \ {n + 1}
<1>1. R \in SUBSET (1..n)
  OBVIOUS
<1> HIDE DEF R
<1>2. PICK q \in [1..Cardinality(R) -> R] :
        \A i, j \in 1..Cardinality(R) : i < j => q[i] < q[j]
  BY <1>1 DEF CanOrder
<1>3. IsFiniteSet(R) /\ Cardinality(R) \in Nat
  BY <1>1, FS_CardinalityType DEF CanOrder
<1>4. CASE n + 1 \notin S
  <2>1. S = R
    BY <1>4 DEF R
  <2> QED
    BY <1>2, <1>3, <2>1
<1>5. CASE n + 1 \in S
  <2>1. S = R \cup {n + 1} /\ n + 1 \notin R
    BY <1>5 DEF R
  <2>2. IsFiniteSet(S) /\ Cardinality(S) = Cardinality(R) + 1
    BY <1>3, <2>1, FS_AddElement
  <2> DEFINE c == Cardinality(R)
  <2> DEFINE p == [i \in 1..c + 1 |-> IF i = c + 1 THEN n + 1 ELSE q[i]]
  <2>3. c \in Nat /\ q \in [1..c -> R] /\ \A i, j \in 1..c : i < j => q[i] < q[j]
    BY <1>2, <1>3
  <2> HIDE DEF c
  <2>4. \A i \in 1..c : p[i] = q[i] /\ p[i] \in R /\ p[i] \in 1..n
    <3> SUFFICES ASSUME NEW i \in 1..c PROVE p[i] = q[i] /\ p[i] \in R /\ p[i] \in 1..n
      OBVIOUS
    <3>1. i \in 1..c + 1 /\ i # c + 1
      BY <2>3
    <3>2. q[i] \in R
      BY <2>3
    <3> QED
      BY <1>1, <3>1, <3>2
  <2>5. p \in [1..c + 1 -> S] /\ p[c + 1] = n + 1
    <3>1. c + 1 \in 1..c + 1 /\ \A i \in 1..c + 1 : i # c + 1 => i \in 1..c
      BY <2>3
    <3>2. \A i \in 1..c + 1 : p[i] \in S
      BY <2>1, <2>4, <3>1
    <3> QED
      BY <3>1, <3>2
  <2>6. \A i, j \in 1..c + 1 : i < j => p[i] < p[j]
    <3> SUFFICES ASSUME NEW i \in 1..c + 1, NEW j \in 1..c + 1, i < j PROVE p[i] < p[j]
      OBVIOUS
    <3>1. i \in 1..c
      BY <2>3
    <3>2. CASE j = c + 1
      <4>1. p[i] \in 1..n /\ p[j] = n + 1
        BY <2>4, <2>5, <3>1, <3>2
      <4> HIDE DEF p
      <4> QED
        BY <4>1
    <3>3. CASE j # c + 1
      <4>1. j \in 1..c
        BY <2>3, <3>3
      <4> QED
        BY <2>3, <2>4, <3>1, <4>1
    <3> QED
      BY <3>2, <3>3
  <2> HIDE DEF p
  <2>8. Cardinality(S) = c + 1
    BY <2>2 DEF c
  <2> QED
    BY <2>2, <2>5, <2>6, <2>8
<1> QED
  BY <1>4, <1>5

LEMMA OrderAll == \A n \in Nat : CanOrder(n)
<1> DEFINE T == {n \in Nat : ~CanOrder(n)}
<1> SUFFICES ASSUME T # {} PROVE FALSE
  OBVIOUS
<1>1. PICK n \in T : \A m \in T : n <= m
  BY LeastNumber
<1>2. CASE n = 0
  <2>1. \A S \in SUBSET (1..0) : S = {}
    OBVIOUS
  <2>2. CanOrder(0)
    <3> SUFFICES ASSUME NEW S \in SUBSET (1..0)
                 PROVE  IsFiniteSet(S) /\ \E q \in [1..Cardinality(S) -> S] :
                          \A i, j \in 1..Cardinality(S) : i < j => q[i] < q[j]
      BY DEF CanOrder
    <3>1. S = {} /\ IsFiniteSet(S) /\ Cardinality(S) = 0
      BY <2>1, FS_EmptySet
    <3>2. [i \in 1..0 |-> 0] \in [1..Cardinality(S) -> S]
      BY <3>1
    <3> QED
      BY <3>1, <3>2
  <2> QED
    BY <1>2, <2>2
<1>3. CASE n # 0
  <2>1. n - 1 \in Nat /\ n - 1 \notin T
    BY <1>1, <1>3
  <2>2. CanOrder(n - 1 + 1)
    BY <2>1, OrderOneMore
  <2> QED
    BY <1>3, <2>2
<1> QED
  BY <1>2, <1>3

\* A finite set of numbers has them in order, each once.
LEMMA InOrderSorts ==
  ASSUME NEW n \in Nat, NEW S \in SUBSET (1..n)
  PROVE  /\ InOrder(S) \in Seq(S) /\ Ordered(InOrder(S)) /\ Range(InOrder(S)) = S
         /\ IsFiniteSet(S) /\ Cardinality(S) \in Nat
<1>0. \A x \in S : x \in Nat
  OBVIOUS
<1>1. CanOrder(n)
  BY OrderAll
<1>2. IsFiniteSet(S) /\ Cardinality(S) \in Nat
  BY <1>1, FS_CardinalityType DEF CanOrder
<1> DEFINE c == Cardinality(S)
<1> DEFINE sorts(q) == \A i, j \in 1..c : i < j => q[i] < q[j]
<1>3. \E q \in [1..c -> S] : sorts(q)
  BY <1>1 DEF CanOrder
<1>4. InOrder(S) \in [1..c -> S] /\ sorts(InOrder(S))
  BY <1>3 DEF InOrder
<1>5. PICK q \in [1..c -> S] : q = InOrder(S) /\ sorts(q)
  BY <1>4
<1>6. q \in Seq(S) /\ Len(q) = c /\ Ordered(q)
  BY <1>2, <1>5 DEF Ordered
<1>7. Range(q) = S
  <2>1. IsFiniteSet(1..c) /\ Cardinality(1..c) = c
    BY <1>2, FS_Interval
  <2>2. \A i, j \in 1..c : q[i] = q[j] => i = j
    <3> SUFFICES ASSUME NEW i \in 1..c, NEW j \in 1..c, q[i] = q[j], i # j PROVE FALSE
      OBVIOUS
    <3>1. i < j \/ j < i
      BY <1>2
    <3>2. q[i] \in S /\ q[j] \in S
      BY <1>5
    <3>3. q[i] \in Nat /\ q[j] \in Nat
      BY <1>0, <3>2, Zenon
    <3> QED
      BY <1>5, <3>1, <3>3
  <2>3. q \in Injection(1..c, S)
    BY <1>5, <2>2 DEF Injection, IsInjective
  <2>4. q \in Surjection(1..c, S)
    BY <1>2, <2>1, <2>3, FS_Injection
  <2> QED
    BY <1>5, <2>4 DEF Surjection, Range
<1> QED
  BY <1>2, <1>5, <1>6, <1>7

LEMMA UnseenFilters ==
  ASSUME NEW n \in Nat, NEW q \in Seq(1..n), Ordered(q), NEW last \in Nat
  PROVE  /\ Unseen(q, last) \in Seq(1..n) /\ Ordered(Unseen(q, last))
         /\ Range(Unseen(q, last)) = {x \in Range(q) : x > last}
<1> DEFINE kept == {i \in DOMAIN q : q[i] > last}
<1>1. kept \in SUBSET (1..Len(q)) /\ Len(q) \in Nat /\ DOMAIN q = 1..Len(q) /\ \A i \in 1..Len(q) : q[i] \in 1..n
  OBVIOUS
<1>2. PICK p \in Seq(kept) : p = InOrder(kept) /\ Ordered(p) /\ Range(p) = kept
  BY <1>1, InOrderSorts
<1>3. Unseen(q, last) = [k \in 1..Len(p) |-> q[p[k]]]
  BY <1>2 DEF Unseen
<1>4. \A k \in 1..Len(p) : p[k] \in 1..Len(q) /\ q[p[k]] \in 1..n /\ q[p[k]] > last
  BY <1>1, <1>2
<1>5. \A i \in kept : \E k \in 1..Len(p) : i = p[k]
  <2>1. DOMAIN p = 1..Len(p)
    BY <1>2
  <2> HIDE DEF kept
  <2> QED
    BY <1>2, <2>1 DEF Range
<1> HIDE DEF kept
<1> DEFINE u == [k \in 1..Len(p) |-> q[p[k]]]
<1>6. u \in Seq(1..n) /\ Len(u) = Len(p) /\ DOMAIN u = 1..Len(p) /\ \A k \in 1..Len(p) : u[k] = q[p[k]]
  <2>1. Len(p) \in Nat
    BY <1>2
  <2> QED
    BY <1>4, <2>1
<1> HIDE DEF u
<1>7. Ordered(u)
  <2>1. ASSUME NEW i \in 1..Len(p), NEW j \in 1..Len(p), i < j PROVE u[i] < u[j]
    <3>1. p[i] < p[j] /\ p[i] \in 1..Len(q) /\ p[j] \in 1..Len(q)
      BY <1>2, <1>4, <2>1 DEF Ordered
    <3>2. q[p[i]] < q[p[j]]
      BY <3>1 DEF Ordered
    <3> QED
      BY <1>6, <3>2
  <2> QED
    BY <1>6, <2>1 DEF Ordered
<1>8. Range(u) = {x \in Range(q) : x > last}
  <2>1. \A x \in Range(u) : x \in Range(q) /\ x > last
    BY <1>1, <1>4, <1>6 DEF Range
  <2>2. ASSUME NEW x \in Range(q), x > last PROVE x \in Range(u)
    <3>1. PICK i \in 1..Len(q) : x = q[i]
      BY <1>1 DEF Range
    <3>2. PICK k \in 1..Len(p) : i = p[k]
      BY <1>1, <1>5, <2>2, <3>1 DEF kept
    <3> QED
      BY <1>6, <3>1, <3>2 DEF Range
  <2> QED
    BY <2>1, <2>2
<1>9. Unseen(q, last) = u
  BY <1>3 DEF u
<1> QED
  BY <1>6, <1>7, <1>8, <1>9

LEMMA JoinedOrdered ==
  ASSUME NEW n \in Nat, NEW p \in Seq(1..n), NEW q \in Seq(1..n), Ordered(p), Ordered(q),
         \A x \in Range(p), y \in Range(q) : x < y
  PROVE  p \o q \in Seq(1..n) /\ Ordered(p \o q) /\ Range(p \o q) = Range(p) \cup Range(q)
<1>1. /\ p \o q \in Seq(1..n) /\ Len(p \o q) = Len(p) + Len(q) /\ Len(p) \in Nat /\ Len(q) \in Nat
      /\ \A i \in 1..Len(p) : (p \o q)[i] = p[i]
      /\ \A i \in 1..Len(q) : (p \o q)[Len(p) + i] = q[i]
  OBVIOUS
<1>2. \A i \in 1..Len(p) + Len(q) : i \in 1..Len(p) \/ (i - Len(p) \in 1..Len(q) /\ i = Len(p) + (i - Len(p)))
  BY <1>1
<1>3. \A i \in 1..Len(p) : p[i] \in Range(p) /\ p[i] \in 1..n
  BY DEF Range
<1>4. \A i \in 1..Len(q) : q[i] \in Range(q) /\ q[i] \in 1..n
  BY DEF Range
<1> DEFINE r == p \o q
<1> HIDE DEF r
<1>5. /\ Len(r) = Len(p) + Len(q) /\ r \in Seq(1..n) /\ DOMAIN r = 1..Len(r)
      /\ \A i \in 1..Len(p) : r[i] = p[i]
      /\ \A i \in 1..Len(q) : r[Len(p) + i] = q[i]
  BY <1>1 DEF r
<1>6. Ordered(r)
  <2> SUFFICES ASSUME NEW i \in 1..Len(p) + Len(q), NEW j \in 1..Len(p) + Len(q), i < j PROVE r[i] < r[j]
    BY <1>5 DEF Ordered
  <2>1. CASE j \in 1..Len(p)
    <3>1. i \in 1..Len(p)
      BY <1>1, <2>1
    <3> QED
      BY <1>5, <2>1, <3>1 DEF Ordered
  <2>2. CASE j \notin 1..Len(p)
    <3>1. PICK k \in 1..Len(q) : j = Len(p) + k /\ r[j] = q[k]
      BY <1>2, <1>5, <2>2
    <3>2. CASE i \in 1..Len(p)
      BY <1>3, <1>4, <1>5, <3>1, <3>2
    <3>3. CASE i \notin 1..Len(p)
      <4>1. PICK l \in 1..Len(q) : i = Len(p) + l /\ r[i] = q[l]
        BY <1>2, <1>5, <3>3
      <4>2. l < k
        BY <1>1, <3>1, <4>1
      <4> QED
        BY <3>1, <4>1, <4>2 DEF Ordered
    <3> QED
      BY <3>2, <3>3
  <2> QED
    BY <2>1, <2>2
<1>7. Range(r) = Range(p) \cup Range(q)
  <2>1. ASSUME NEW x \in Range(r) PROVE x \in Range(p) \cup Range(q)
    <3>1. PICK i \in 1..Len(p) + Len(q) : x = r[i]
      BY <1>5 DEF Range
    <3> QED
      BY <1>2, <1>3, <1>4, <1>5, <3>1
  <2>2. ASSUME NEW x \in Range(p) PROVE x \in Range(r)
    <3>1. PICK i \in 1..Len(p) : x = p[i]
      BY <2>2 DEF Range
    <3>2. i \in 1..Len(r)
      BY <1>1, <1>5
    <3> QED
      BY <1>5, <3>1, <3>2 DEF Range
  <2>3. ASSUME NEW x \in Range(q) PROVE x \in Range(r)
    <3>1. PICK i \in 1..Len(q) : x = q[i]
      BY <2>3 DEF Range
    <3>2. Len(p) + i \in 1..Len(r)
      BY <1>1, <1>5
    <3> QED
      BY <1>5, <3>1, <3>2 DEF Range
  <2> QED
    BY <2>1, <2>2, <2>3
<1> QED
  BY <1>5, <1>6, <1>7 DEF r

LEMMA AppendedOrdered ==
  ASSUME NEW n \in Nat, NEW q \in Seq(1..n), Ordered(q), NEW x \in 1..n, \A y \in Range(q) : y < x
  PROVE  Append(q, x) \in Seq(1..n) /\ Ordered(Append(q, x)) /\ Range(Append(q, x)) = Range(q) \cup {x}
<1>1. <<x>> \in Seq(1..n) /\ Ordered(<<x>>) /\ Range(<<x>>) = {x} /\ Append(q, x) = q \o <<x>>
  BY DEF Ordered, Range
<1>2. \A y \in Range(q), z \in Range(<<x>>) : y < z
  BY <1>1
<1> DEFINE one == <<x>>
<1>3. one \in Seq(1..n) /\ Ordered(one) /\ Range(one) = {x} /\ Append(q, x) = q \o one /\ \A y \in Range(q), z \in Range(one) : y < z
  BY <1>1, <1>2
<1> HIDE DEF one
<1> QED
  BY <1>3, JoinedOrdered

(***************************************************************************)
(* The log of a deployment.  The writer: rows, batches and the queue are   *)
(* in line, and no line is lost between them.                              *)
(***************************************************************************)

\* Rows come before batches, batches before later ones, all of them before the queue.
InLine(rows, c, q) ==
  /\ \A i, j \in 1..Len(c) : i < j => \A m \in c[i], n \in c[j] : m < n
  /\ \A i \in 1..Len(c) : \A m \in c[i], n \in q : m < n
  /\ \A m \in rows : \A i \in 1..Len(c) : \A n \in c[i] : m < n
  /\ \A m \in rows, n \in q : m < n

LEMMA RangeWithin == ASSUME NEW S, NEW q \in Seq(S) PROVE Range(q) \subseteq S
<1>1. DOMAIN q = 1..Len(q) /\ \A i \in 1..Len(q) : q[i] \in S
  OBVIOUS
<1> QED
  BY <1>1 DEF Range

LEMMA WiderSeq == ASSUME NEW T, NEW S \in SUBSET T, NEW q \in Seq(S) PROVE q \in Seq(T)
<1>1. Len(q) \in Nat /\ q = [i \in 1..Len(q) |-> q[i]] /\ \A i \in 1..Len(q) : q[i] \in T
  OBVIOUS
<1> QED
  BY <1>1

LEMMA InBatches ==
  ASSUME NEW c \in Seq(SUBSET Lines) PROVE \A n : n \in UNION Range(c) <=> \E i \in 1..Len(c) : n \in c[i]
<1>1. DOMAIN c = 1..Len(c)
  OBVIOUS
<1> QED
  BY <1>1 DEF Range

LEMMA SameElements == ASSUME NEW A, NEW B, \A n : n \in A <=> n \in B PROVE A = B
  OBVIOUS

LEMMA MovedOver == ASSUME NEW A, NEW B, NEW C, NEW D, A = {}, B = C \cup D PROVE A \cup B = D \cup C
  OBVIOUS

LEMMA BatchFlushed ==
  ASSUME NEW c \in Seq(SUBSET Lines), NEW q \in SUBSET Lines, NEW rows, InLine(rows, c, q),
         NEW d, d = IF q = {} THEN c ELSE Append(c, q)
  PROVE  d \in Seq(SUBSET Lines) /\ InLine(rows, d, {}) /\ UNION Range(d) = (UNION Range(c)) \cup q
<1>1. CASE q = {}
  BY <1>1 DEF InLine
<1>2. CASE q # {}
  <2>1. /\ d \in Seq(SUBSET Lines) /\ Len(c) \in Nat /\ Len(d) = Len(c) + 1 /\ d[Len(c) + 1] = q
        /\ \A i \in 1..Len(c) : d[i] = c[i]
    BY <1>2
  <2>2. \A i \in 1..Len(d) : (i \in 1..Len(c) /\ d[i] = c[i]) \/ (i = Len(c) + 1 /\ d[i] = q)
    BY <2>1
  <2>3. InLine(rows, d, {})
    <3>1. ASSUME NEW i \in 1..Len(d), NEW j \in 1..Len(d), i < j, NEW m \in d[i], NEW n \in d[j] PROVE m < n
      <4>1. i \in 1..Len(c) /\ d[i] = c[i]
        BY <2>1, <2>2, <3>1
      <4> QED
        BY <2>2, <3>1, <4>1 DEF InLine
    <3>2. ASSUME NEW m \in rows, NEW i \in 1..Len(d), NEW n \in d[i] PROVE m < n
      BY <2>2, <3>2 DEF InLine
    <3> QED
      BY <3>1, <3>2 DEF InLine
  <2>4. UNION Range(d) = (UNION Range(c)) \cup q
    <3>1. \A n : (\E i \in 1..Len(d) : n \in d[i]) <=> (\E i \in 1..Len(c) : n \in c[i]) \/ n \in q
      <4>1. \A i \in 1..Len(c) : i \in 1..Len(d)
        BY <2>1
      <4>2. Len(c) + 1 \in 1..Len(d)
        BY <2>1
      <4> QED
        BY <2>1, <2>2, <4>1, <4>2
    <3> DEFINE A == UNION Range(d)
    <3> DEFINE B == (UNION Range(c)) \cup q
    <3>2. \A n : n \in A <=> n \in B
      <4>1. \A n : n \in UNION Range(d) <=> \E i \in 1..Len(d) : n \in d[i]
        BY <2>1, InBatches
      <4>2. \A n : n \in UNION Range(c) <=> \E i \in 1..Len(c) : n \in c[i]
        BY InBatches
      <4>3. \A n : n \in B <=> n \in UNION Range(c) \/ n \in q
        OBVIOUS
      <4> QED
        BY <3>1, <4>1, <4>2, <4>3, Zenon
    <3> HIDE DEF A, B
    <3>3. A = B
      BY <3>2, SameElements
    <3> QED
      BY <3>3 DEF A, B
  <2> QED
    BY <2>1, <2>3, <2>4
<1> QED
  BY <1>1, <1>2

LEMMA BatchInserted ==
  ASSUME NEW c \in Seq(SUBSET Lines), c # <<>>, NEW q, NEW rows, InLine(rows, c, q)
  PROVE  /\ Tail(c) \in Seq(SUBSET Lines) /\ Head(c) \in SUBSET Lines
         /\ InLine(rows \cup Head(c), Tail(c), q) /\ InLine(rows, Tail(c), q)
         /\ UNION Range(c) = Head(c) \cup UNION Range(Tail(c))
<1>1. /\ Tail(c) \in Seq(SUBSET Lines) /\ Head(c) \in SUBSET Lines /\ Head(c) = c[1] /\ Len(c) \in Nat
      /\ Len(Tail(c)) = Len(c) - 1 /\ Len(c) # 0
  OBVIOUS
<1> DEFINE d == Tail(c)
<1>2. \A i \in 1..Len(d) : d[i] = c[i + 1] /\ i + 1 \in 1..Len(c)
  BY <1>1
<1>3. \A i \in 1..Len(c) : i = 1 \/ (i - 1 \in 1..Len(d) /\ d[i - 1] = c[i])
  <2> SUFFICES ASSUME NEW i \in 1..Len(c), i # 1 PROVE i - 1 \in 1..Len(d) /\ d[i - 1] = c[i]
    OBVIOUS
  <2>1. i - 1 \in 1..Len(d) /\ i - 1 + 1 = i
    BY <1>1
  <2> QED
    BY <1>2, <2>1
<1>4. d \in Seq(SUBSET Lines) /\ Len(d) \in Nat /\ Len(d) = Len(c) - 1
  BY <1>1
<1> HIDE DEF d
<1>5. InLine(rows \cup c[1], d, q)
  <2>0. 1 \in 1..Len(c)
    BY <1>1
  <2>1. ASSUME NEW i \in 1..Len(d), NEW j \in 1..Len(d), i < j, NEW m \in d[i], NEW n \in d[j] PROVE m < n
    <3>1. i + 1 < j + 1 /\ m \in c[i + 1] /\ n \in c[j + 1] /\ i + 1 \in 1..Len(c) /\ j + 1 \in 1..Len(c)
      BY <1>2, <2>1
    <3> QED
      BY <3>1 DEF InLine
  <2>2. ASSUME NEW i \in 1..Len(d), NEW m \in d[i], NEW n \in q PROVE m < n
    BY <1>2, <2>2 DEF InLine
  <2>3. ASSUME NEW m \in rows \cup c[1], NEW i \in 1..Len(d), NEW n \in d[i] PROVE m < n
    <3>1. 1 < i + 1 /\ i + 1 \in 1..Len(c) /\ n \in c[i + 1]
      BY <1>2, <2>3
    <3> QED
      BY <2>0, <2>3, <3>1 DEF InLine
  <2>4. ASSUME NEW m \in rows \cup c[1], NEW n \in q PROVE m < n
    BY <2>0, <2>4 DEF InLine
  <2> QED
    BY <2>1, <2>2, <2>3, <2>4 DEF InLine
<1>6. \A n : (\E i \in 1..Len(c) : n \in c[i]) <=> n \in c[1] \/ \E i \in 1..Len(d) : n \in d[i]
  <2>0. 1 \in 1..Len(c)
    BY <1>1
  <2> QED
    BY <1>2, <1>3, <2>0
<1>7. UNION Range(c) = c[1] \cup UNION Range(d)
  <2>1. \A n : n \in UNION Range(c) <=> n \in c[1] \/ n \in UNION Range(d)
    BY <1>4, <1>6, InBatches
  <2> QED
    BY <2>1
<1>8. InLine(rows, d, q)
  BY <1>5 DEF InLine
<1> QED
  BY <1>1, <1>5, <1>7, <1>8 DEF d

LogTyped ==
  /\ run \in {"running", "closing", "over"}
  /\ seq \in 0..MaxLines
  /\ queue \in SUBSET Lines /\ Cardinality(queue) < BatchSize
  /\ timer \in BOOLEAN
  /\ chain \in Seq(SUBSET Lines)
  /\ stored \in SUBSET Lines /\ dropped \in SUBSET Lines
  /\ socketOpen \in BOOLEAN
  /\ registered \in Subs \cup {None} /\ listening \in SUBSET Subs
  /\ subAt \in [Subs -> {"none", "status", "replay", "deliver", "live", "over"}]
  /\ from \in [Subs -> 0..MaxLines] /\ lastSeq \in [Subs -> 0..MaxLines]
  /\ page \in [Subs -> SUBSET Lines]
  /\ buffer \in [Subs -> Seq(Lines)] /\ view \in Seq(Lines)
  /\ appPc \in [AppSubs -> {"none", "check", "over"}]
  /\ appRegistered \in AppSubs \cup {None} /\ child \in SUBSET AppSubs

\* What is written is in a row, reported, or on its way, until the deployment is over.
WriterWhole ==
  /\ InLine(stored, chain, queue)
  /\ \A n \in stored \cup dropped \cup Waiting : n <= seq
  /\ run # "over" => \A n \in 1..seq : n \in stored \cup dropped \cup Waiting
  /\ run # "running" => queue = {} /\ ~timer
  /\ run = "over" => chain = <<>>
  /\ EndKeepsNewest

\* One subscription at a time is being answered, and the one that is registered listens.
OneListens ==
  /\ listening = {registered} \ {None}
  /\ \A s, t \in Subs : {subAt[s], subAt[t]} \subseteq {"status", "replay", "deliver"} => s = t
  /\ \A s \in Subs : subAt[s] = "status" => registered = None
  /\ \A s \in Subs : subAt[s] \in {"none", "status"} => buffer[s] = <<>>
  /\ registered # None => subAt[registered] \in {"replay", "deliver", "live"}
  /\ socketOpen => \A s \in Subs : subAt[s] \in {"replay", "deliver"} => registered = s

\* What a subscription holds is of the past and in order; the buffer has all since it
\* attached, and the page all up to its own end that the table has or will have.
Collected(s) ==
  /\ Ordered(buffer[s]) /\ (\A n \in Range(buffer[s]) : n <= seq)
  /\ (\A n \in page[s] : n <= seq) /\ lastSeq[s] <= seq
  /\ registered = s /\ subAt[s] \in {"replay", "deliver"} => from[s] + 1 .. seq \subseteq Range(buffer[s])
  /\ subAt[s] = "deliver" => \A m \in page[s], n \in stored \cup Waiting : n <= m => n \in page[s]

LogViews ==
  /\ Ordered(view) /\ \A n \in Range(view) : n <= seq
  /\ \A s \in Subs : Collected(s)
  /\ LiveMissesNothing

LogInv == LogTyped /\ WriterWhole /\ OneListens /\ LogViews

LEMMA LogStarts == LogInit => LogInv
<1> SUFFICES ASSUME LogInit PROVE LogInv
  OBVIOUS
<1>1. /\ 0 \in 0..MaxLines /\ BatchSize \in Nat /\ BatchSize > 0 /\ Cardinality({}) = 0
      /\ <<>> \in Seq(Lines) /\ <<>> \in Seq(SUBSET Lines)
  BY LogAssumption, FS_EmptySet
<1>2. LogTyped
  BY <1>1 DEF LogInit, LogTyped
<1>3. Range(<<>>) = {} /\ Len(<<>>) = 0 /\ \A q : Len(q) = 0 => Ordered(q)
  BY DEF Range, Ordered
<1>4. Waiting = {}
  BY <1>3 DEF LogInit, Waiting
<1>5. WriterWhole
  BY <1>3, <1>4 DEF LogInit, WriterWhole, InLine, EndKeepsNewest
<1>6. OneListens
  BY DEF LogInit, OneListens
<1>7. LogViews
  BY <1>3, <1>4 DEF LogInit, LogViews, Collected, LiveMissesNothing
<1> QED
  BY <1>2, <1>5, <1>6, <1>7 DEF LogInv

(***************************************************************************)
(* Steps of the writer that publish nothing.                               *)
(***************************************************************************)
LEMMA QuietWriterStep ==
  ASSUME LogInv, FlushTimer \/ InsertBatch \/ CloseWriter \/ Trim PROVE LogInv'
<1> USE DEF viewerVars, appVars
<1>1. /\ stored' \cup Waiting' \subseteq stored \cup Waiting
      /\ LogTyped' /\ WriterWhole'
  <2>0. /\ LogTyped /\ InLine(stored, chain, queue) /\ chain \in Seq(SUBSET Lines) /\ queue \in SUBSET Lines
        /\ Cardinality({}) = 0 /\ 0 < BatchSize /\ seq \in Nat /\ LineCap \in Nat
    BY FS_EmptySet, LogAssumption DEF LogInv, WriterWhole, LogTyped
  <2>1. CASE FlushTimer \/ CloseWriter
    <3>1. /\ chain' \in Seq(SUBSET Lines) /\ InLine(stored, chain', {})
          /\ UNION Range(chain') = (UNION Range(chain)) \cup queue /\ queue' = {} /\ timer' = FALSE
      BY <2>0, <2>1, BatchFlushed DEF FlushTimer, CloseWriter, Flushed
    <3>2. Waiting' = Waiting /\ UNCHANGED <<seq, stored, dropped>>
      <4>1. UNCHANGED <<seq, stored, dropped>>
        BY <2>1 DEF FlushTimer, CloseWriter
      <4>2. queue' \cup UNION Range(chain') = queue \cup UNION Range(chain)
        BY <3>1, MovedOver
      <4> QED
        BY <4>1, <4>2, Zenon DEF Waiting
    <3>3. LogTyped'
      BY <2>0, <2>1, <3>1 DEF LogTyped, FlushTimer, CloseWriter
    <3>4. run # "over" /\ run' # "over"
      BY <2>1 DEF FlushTimer, CloseWriter, LogInv, WriterWhole, LogTyped
    <3>5. WriterWhole'
      BY <3>1, <3>2, <3>4 DEF LogInv, WriterWhole, EndKeepsNewest
    <3> QED
      BY <3>2, <3>3, <3>5
  <2>2. CASE InsertBatch
    <3>1. /\ chain # <<>> /\ chain' = Tail(chain) /\ UNCHANGED <<run, seq, queue, timer>>
          /\ \/ stored' = stored \cup Head(chain) /\ dropped' = dropped
             \/ dropped' = dropped \cup Head(chain) /\ stored' = stored
      BY <2>2 DEF InsertBatch
    <3>2. /\ chain' \in Seq(SUBSET Lines) /\ Head(chain) \in SUBSET Lines /\ InLine(stored', chain', queue)
          /\ UNION Range(chain) = Head(chain) \cup UNION Range(chain')
      BY <2>0, <3>1, BatchInserted
    <3>3. /\ stored' \cup dropped' \cup Waiting' = stored \cup dropped \cup Waiting
          /\ stored' \cup Waiting' \subseteq stored \cup Waiting
      BY <3>1, <3>2 DEF Waiting
    <3>4. LogTyped'
      BY <2>0, <2>2, <3>1, <3>2 DEF LogTyped, InsertBatch
    <3>5. run # "over"
      BY <3>1 DEF LogInv, WriterWhole
    <3>6. WriterWhole'
      BY <3>1, <3>2, <3>3, <3>5 DEF LogInv, WriterWhole, EndKeepsNewest
    <3> QED
      BY <3>3, <3>4, <3>6
  <2>3. CASE Trim
    <3>1. /\ run = "closing" /\ chain = <<>> /\ run' = "over" /\ UNCHANGED <<seq, queue, timer, chain, dropped>>
          /\ stored' \subseteq stored
          /\ \A n \in stored : n + LineCap > seq => n \in stored'
      BY <2>0, <2>3 DEF Trim, LogTyped, Lines
    <3>2. queue = {} /\ Waiting = {} /\ Waiting' = {}
      BY <2>0, <3>1, InBatches DEF LogInv, WriterWhole, Waiting, Range
    <3>3. LogTyped'
      BY <2>0, <2>3, <3>1 DEF LogTyped, Trim
    <3>4. InLine(stored', chain', queue')
      BY <2>0, <3>1 DEF InLine
    <3>5. EndKeepsNewest'
      BY <3>1, <3>2 DEF EndKeepsNewest, LogInv, WriterWhole
    <3>6. WriterWhole'
      BY <3>1, <3>2, <3>4, <3>5 DEF LogInv, WriterWhole
    <3> QED
      BY <3>1, <3>2, <3>3, <3>6
  <2> QED
    BY <2>1, <2>2, <2>3
<1>2. UNCHANGED <<seq, socketOpen, registered, listening, subAt, from, buffer, page, lastSeq, view>>
  BY DEF FlushTimer, InsertBatch, CloseWriter, Trim
<1>3. OneListens'
  BY <1>2 DEF LogInv, OneListens
<1>4. ASSUME NEW s \in Subs PROVE Collected(s)'
  BY <1>1, <1>2 DEF LogInv, LogViews, Collected
<1>5. LiveMissesNothing'
  BY <1>1, <1>2 DEF LogInv, LogViews, LiveMissesNothing
<1> QED
  BY <1>1, <1>2, <1>3, <1>4, <1>5 DEF LogInv, LogViews

(***************************************************************************)
(* A line is written: it is queued behind all the others, and sent to the  *)
(* one subscription that listens, if it is live.                           *)
(***************************************************************************)
LEMMA LineQueued ==
  ASSUME NEW c \in Seq(SUBSET Lines), NEW q, NEW rows, InLine(rows, c, q), NEW n \in Nat,
         \A m \in rows : m \in Nat /\ m < n, \A i \in 1..Len(c) : \A m \in c[i] : m < n
  PROVE  InLine(rows, c, q \cup {n})
BY DEF InLine

LEMMA Joined == ASSUME NEW S, NEW p \in Seq(S), NEW q \in Seq(S) PROVE p \o q \in Seq(S)
  OBVIOUS

LEMMA WaitingIsLines == ASSUME LogTyped PROVE Waiting \subseteq Lines
<1>1. chain \in Seq(SUBSET Lines) /\ queue \subseteq Lines
  BY DEF LogTyped
<1> QED
  BY <1>1, InBatches DEF Waiting

LEMMA WriterStep ==
  ASSUME LogInv, Write
  PROVE  /\ LogTyped' /\ WriterWhole' /\ seq' = seq + 1
         /\ stored' = stored /\ \A n : n \in Waiting' <=> n \in Waiting \/ n = seq + 1
<1>0. /\ LogTyped /\ chain \in Seq(SUBSET Lines) /\ queue \in SUBSET Lines /\ MaxLines \in Nat
      /\ seq \in Nat /\ seq < MaxLines /\ seq + 1 \in Lines /\ BatchSize \in Nat /\ 0 < BatchSize
      /\ Cardinality({}) = 0 /\ seq' = seq + 1 /\ UNCHANGED <<run, stored, dropped>> /\ run = "running"
  BY FS_EmptySet, LogAssumption DEF LogInv, LogTyped, Write, Lines
<1> DEFINE lines == queue \cup {seq + 1}
<1>1. InLine(stored, chain, lines) /\ lines \in SUBSET Lines
  <2>1. \A i \in 1..Len(chain) : \A m \in chain[i] : m < seq + 1
    <3> SUFFICES ASSUME NEW i \in 1..Len(chain), NEW m \in chain[i] PROVE m < seq + 1
      OBVIOUS
    <3>1. m \in UNION Range(chain) /\ m \in Lines
      BY <1>0, InBatches
    <3>2. m <= seq
      BY <3>1 DEF LogInv, WriterWhole, Waiting
    <3> QED
      BY <1>0, <3>1, <3>2 DEF Lines
  <2>2. \A m \in stored : m \in Nat /\ m < seq + 1
    BY <1>0 DEF LogInv, LogTyped, WriterWhole, Lines
  <2> QED
    BY <1>0, <2>1, <2>2, LineQueued DEF LogInv, WriterWhole
<1>2. \/ Flushed(lines) /\ queue' = {} /\ timer' = FALSE
      \/ queue' = lines /\ timer' = TRUE /\ chain' = chain /\ Cardinality(lines) < BatchSize
  <2>1. IsFiniteSet(lines) /\ Cardinality(lines) \in Nat
    BY <1>0, <1>1, InOrderSorts DEF Lines
  <2> HIDE DEF lines
  <2>2. IF Cardinality(lines) >= BatchSize
        THEN Flushed(lines) /\ queue' = {} /\ timer' = FALSE
        ELSE queue' = lines /\ timer' = TRUE /\ UNCHANGED chain
    BY <1>0 DEF Write, lines
  <2> QED
    BY <1>0, <2>1, <2>2
<1>3. /\ chain' \in Seq(SUBSET Lines) /\ queue' \in SUBSET Lines /\ Cardinality(queue') < BatchSize
      /\ timer' \in BOOLEAN /\ InLine(stored, chain', queue')
      /\ \A n : n \in queue' \cup UNION Range(chain') <=> n \in lines \/ n \in UNION Range(chain)
  <2>1. CASE Flushed(lines) /\ queue' = {} /\ timer' = FALSE
    <3>1. /\ chain' \in Seq(SUBSET Lines) /\ InLine(stored, chain', {})
          /\ UNION Range(chain') = (UNION Range(chain)) \cup lines
      <4>0. chain' = IF lines = {} THEN chain ELSE Append(chain, lines)
        BY <2>1 DEF Flushed
      <4> HIDE DEF lines
      <4> QED
        BY <1>0, <1>1, <4>0, BatchFlushed
    <3> HIDE DEF lines
    <3>2. \A n : n \in queue' \cup UNION Range(chain') <=> n \in lines \/ n \in UNION Range(chain)
      BY <2>1, <3>1, Zenon
    <3> QED
      BY <1>0, <2>1, <3>1, <3>2
  <2>2. CASE queue' = lines /\ timer' = TRUE /\ chain' = chain /\ Cardinality(lines) < BatchSize
    BY <1>0, <1>1, <2>2
  <2> QED
    BY <1>2, <2>1, <2>2
<1>4. \A n : n \in Waiting' <=> n \in Waiting \/ n = seq + 1
  BY <1>3 DEF Waiting
<1>5. LogTyped'
  <2>1. UNCHANGED <<socketOpen, registered, listening, subAt, from, page, appPc, appRegistered, child>>
    BY DEF Write, appVars
  <2>2. /\ view' \in Seq(Lines) /\ lastSeq' \in [Subs -> 0..MaxLines] /\ buffer' \in [Subs -> Seq(Lines)]
    <3>1. lastSeq' \in [Subs -> 0..MaxLines] /\ buffer' \in [Subs -> Seq(Lines)]
      BY <1>0 DEF Write, Publish, LogTyped
    <3>2. view' \in Seq(Lines)
      <4>1. Sending(seq') \in SUBSET ({registered} \ {None})
        BY DEF Sending, LogInv, OneListens
      <4>2. IsFiniteSet(Sending(seq')) /\ Cardinality(Sending(seq')) \in Nat
        BY <4>1, FS_Singleton, FS_Subset, FS_CardinalityType
      <4>3. [i \in 1..Cardinality(Sending(seq')) |-> seq'] \in Seq(Lines)
        BY <1>0, <4>2
      <4>4. view \in Seq(Lines) /\ (view' = view \/ view' = view \o [i \in 1..Cardinality(Sending(seq')) |-> seq'])
        BY <1>0 DEF Write, Publish, LogTyped
      <4> DEFINE copies == [i \in 1..Cardinality(Sending(seq')) |-> seq']
      <4> HIDE DEF copies
      <4>5. copies \in Seq(Lines) /\ (view' = view \/ view' = view \o copies)
        BY <4>3, <4>4 DEF copies
      <4> QED
        BY <4>4, <4>5, Joined
    <3> QED
      BY <3>1, <3>2
  <2> QED
    BY <1>0, <1>3, <2>1, <2>2 DEF LogTyped
<1>6. WriterWhole'
  <2>1. \A n \in stored \cup dropped \cup Waiting : n <= seq
    BY DEF LogInv, WriterWhole
  <2>2. \A n \in 1..seq + 1 : n \in 1..seq \/ n = seq + 1
    BY <1>0
  <2>3. \A n \in 1..seq : n \in stored \cup dropped \cup Waiting
    BY <1>0 DEF LogInv, WriterWhole
  <2>4. \A n \in stored' \cup dropped' \cup Waiting' : n <= seq'
    <3> SUFFICES ASSUME NEW n \in stored \cup dropped \cup Waiting' PROVE n <= seq + 1
      BY <1>0
    <3>1. n = seq + 1 \/ (n \in stored \cup dropped \cup Waiting /\ n <= seq)
      BY <1>4, <2>1
    <3>2. n \in Nat \/ n = seq + 1
      BY <1>0, <3>1, WaitingIsLines DEF LogTyped, Lines
    <3> QED
      BY <1>0, <3>1, <3>2
  <2>5. \A n \in 1..seq' : n \in stored' \cup dropped' \cup Waiting'
    BY <1>0, <1>4, <2>2, <2>3
  <2>6. run' = "running"
    BY <1>0
  <2> QED
    BY <1>0, <1>3, <2>4, <2>5, <2>6 DEF WriterWhole, EndKeepsNewest
<1> QED
  BY <1>0, <1>4, <1>5, <1>6

\* What the socket's one listener is sent.
LEMMA OneIsSent ==
  ASSUME LogInv, Write
  PROVE  /\ view' = view \/ (socketOpen /\ view' = Append(view, seq + 1))
         /\ \A s \in Subs : socketOpen /\ registered = s /\ subAt[s] = "live" => view' = Append(view, seq + 1)
<1>0. /\ LogTyped /\ seq \in Nat /\ seq' = seq + 1 /\ view \in Seq(Lines)
      /\ view' = IF socketOpen THEN view \o [i \in 1..Cardinality(Sending(seq')) |-> seq'] ELSE view
  BY DEF LogInv, LogTyped, Write, Publish
<1>1. Sending(seq + 1) \in SUBSET ({registered} \ {None})
  BY DEF Sending, LogInv, OneListens
<1>2. Sending(seq + 1) = {} \/ Sending(seq + 1) = {registered}
  BY <1>1
<1>3. CASE Sending(seq + 1) = {}
  <2>1. Cardinality(Sending(seq')) = 0
    BY <1>0, <1>3, FS_EmptySet
  <2> DEFINE copies == [i \in 1..Cardinality(Sending(seq')) |-> seq']
  <2>2. copies = <<>>
    BY <2>1
  <2>3. view' = view
    <3>1. view' = IF socketOpen THEN view \o copies ELSE view
      BY <1>0
    <3>2. view \o <<>> = view
      BY <1>0
    <3> HIDE DEF copies
    <3> QED
      BY <2>2, <3>1, <3>2
  <2>4. ASSUME NEW s \in Subs, registered = s, subAt[s] = "live" PROVE FALSE
    <3>1. s \in listening /\ s # None
      BY <2>4, LogAssumption DEF LogInv, OneListens
    <3>2. seq + 1 > lastSeq[s]
      BY <1>0 DEF LogInv, LogViews, Collected, LogTyped
    <3> QED
      BY <1>3, <2>4, <3>1, <3>2 DEF Sending
  <2> QED
    BY <2>3, <2>4
<1>4. CASE Sending(seq + 1) = {registered}
  <2>1. Cardinality(Sending(seq')) = 1
    BY <1>0, <1>4, FS_Singleton
  <2> DEFINE copies == [i \in 1..Cardinality(Sending(seq')) |-> seq']
  <2>2. copies = <<seq + 1>>
    BY <1>0, <2>1
  <2>3. view' = IF socketOpen THEN view \o <<seq + 1>> ELSE view
    <3>1. view' = IF socketOpen THEN view \o copies ELSE view
      BY <1>0
    <3> HIDE DEF copies
    <3> QED
      BY <2>2, <3>1
  <2>4. view \o <<seq + 1>> = Append(view, seq + 1)
    BY <1>0
  <2> QED
    BY <2>3, <2>4
<1> QED
  BY <1>2, <1>3, <1>4

LEMMA LineWritten == ASSUME LogInv, Write PROVE LogInv'
<1>0. /\ LogTyped /\ MaxLines \in Nat /\ seq \in Nat /\ seq < MaxLines /\ seq + 1 \in 1..MaxLines
      /\ Lines = 1..MaxLines /\ view \in Seq(1..MaxLines)
      /\ UNCHANGED <<socketOpen, registered, listening, subAt, from, page>>
  BY LogAssumption DEF LogInv, LogTyped, Write, Lines
<1>1. /\ LogTyped' /\ WriterWhole' /\ seq' = seq + 1
      /\ stored' = stored /\ \A n : n \in Waiting' <=> n \in Waiting \/ n = seq + 1
  BY WriterStep
<1>2. \A s \in Subs : buffer[s] \in Seq(1..MaxLines) /\ Ordered(buffer[s]) /\ (\A n \in Range(buffer[s]) : n <= seq) /\ lastSeq[s] \in Nat /\ lastSeq[s] <= seq
  BY <1>0 DEF LogInv, LogViews, Collected, LogTyped
<1>3. \A s \in Subs : /\ buffer'[s] = IF s \in listening /\ subAt[s] # "live" THEN Append(buffer[s], seq + 1) ELSE buffer[s]
                      /\ lastSeq'[s] \in {lastSeq[s], seq + 1}
  BY <1>1 DEF Write, Publish
<1>4. OneListens'
  <2>1. \A s \in Subs : subAt[s] \in {"none", "status"} => s \notin listening
    BY DEF LogInv, OneListens, LogTyped
  <2>2. \A s \in Subs : subAt[s] \in {"none", "status"} => buffer'[s] = buffer[s]
    BY <1>3, <2>1
  <2> QED
    BY <1>0, <2>2 DEF LogInv, OneListens
<1>5. ASSUME NEW s \in Subs PROVE Collected(s)'
  <2>0. \A n \in Range(buffer[s]) : n < seq + 1
    <3>1. Range(buffer[s]) \subseteq 1..MaxLines
      BY <1>2, RangeWithin
    <3>2. (\A n \in Range(buffer[s]) : n <= seq) /\ seq \in Nat /\ MaxLines \in Nat
      BY <1>0, <1>2
    <3> QED
      BY <3>1, <3>2
  <2>1. Ordered(Append(buffer[s], seq + 1)) /\ Range(Append(buffer[s], seq + 1)) = Range(buffer[s]) \cup {seq + 1}
    BY <1>0, <1>2, <2>0, AppendedOrdered
  <2>2. Ordered(buffer'[s]) /\ \A n \in Range(buffer'[s]) : n <= seq + 1
    <3>0. Range(buffer[s]) \subseteq 1..MaxLines
      BY <1>2, RangeWithin
    <3>1. \A n \in Range(buffer[s]) : n <= seq + 1
      BY <1>0, <2>0, <3>0
    <3>2. seq + 1 <= seq + 1
      BY <1>0
    <3> HIDE <1>0
    <3> QED
      BY <1>2, <1>3, <2>1, <3>1, <3>2
  <2>3. (\A n \in page'[s] : n <= seq + 1) /\ lastSeq'[s] <= seq + 1
    <3>1. lastSeq'[s] <= seq + 1
      <4>1. lastSeq[s] \in Nat /\ lastSeq[s] <= seq
        BY <1>2
      <4>2. lastSeq'[s] = lastSeq[s] \/ lastSeq'[s] = seq + 1
        BY <1>3
      <4> QED
        BY <1>0, <4>1, <4>2
    <3>2. page'[s] = page[s] /\ page[s] \subseteq 1..MaxLines /\ \A n \in page[s] : n <= seq
      BY <1>0 DEF LogInv, LogViews, Collected, LogTyped
    <3> QED
      BY <1>0, <3>1, <3>2
  <2>4. registered' = s /\ subAt'[s] \in {"replay", "deliver"} => from'[s] + 1 .. seq + 1 \subseteq Range(buffer'[s])
    <3> SUFFICES ASSUME registered = s, subAt[s] \in {"replay", "deliver"}, NEW n \in from[s] + 1 .. seq + 1
                 PROVE  n \in Range(buffer'[s])
      BY <1>0
    <3>1. s \in listening
      BY LogAssumption DEF LogInv, OneListens
    <3>2. from[s] \in Nat
      BY <1>0 DEF LogTyped
    <3>3. n \in from[s] + 1 .. seq \/ n = seq + 1
      BY <1>0, <3>2
    <3>4. from[s] + 1 .. seq \subseteq Range(buffer[s])
      BY DEF LogInv, LogViews, Collected
    <3> QED
      BY <1>3, <2>1, <3>1, <3>3, <3>4
  <2>5. subAt'[s] = "deliver" => \A m \in page'[s], n \in stored' \cup Waiting' : n <= m => n \in page'[s]
    <3> SUFFICES ASSUME subAt[s] = "deliver", NEW m \in page[s], NEW n \in stored \cup Waiting', n <= m
                 PROVE  n \in page[s]
      BY <1>0, <1>1
    <3>1. m <= seq /\ m \in Nat
      BY <1>0 DEF LogInv, LogViews, Collected, LogTyped, Lines
    <3>2. n # seq + 1
      BY <1>0, <3>1
    <3>3. n \in stored \cup Waiting
      BY <1>1, <3>2
    <3> QED
      BY <3>3 DEF LogInv, LogViews, Collected
  <2> QED
    BY <1>1, <2>2, <2>3, <2>4, <2>5 DEF Collected
<1>6. view' = view \/ (view' = Append(view, seq + 1) /\ Ordered(view') /\ Range(view') = Range(view) \cup {seq + 1})
  <2>1. \A n \in Range(view) : n < seq + 1
    <3>1. Range(view) \subseteq 1..MaxLines
      BY <1>0, RangeWithin
    <3> QED
      BY <1>0, <3>1 DEF LogInv, LogViews
  <2>2. Ordered(view)
    BY DEF LogInv, LogViews
  <2>3. Ordered(Append(view, seq + 1)) /\ Range(Append(view, seq + 1)) = Range(view) \cup {seq + 1}
    BY <1>0, <2>1, <2>2, AppendedOrdered
  <2>4. view' = view \/ view' = Append(view, seq + 1)
    BY OneIsSent
  <2> QED
    BY <2>3, <2>4
<1>7. Ordered(view') /\ \A n \in Range(view') : n <= seq'
  <2>1. \A n \in Range(view) : n \in Nat /\ n <= seq
    <3>1. Range(view) \subseteq 1..MaxLines
      BY <1>0, RangeWithin
    <3> QED
      BY <3>1 DEF LogInv, LogViews
  <2>2. \A n \in Range(view) \cup {seq + 1} : n <= seq + 1
    BY <1>0, <2>1
  <2> QED
    BY <1>1, <1>6, <2>2 DEF LogInv, LogViews
<1>8. LiveMissesNothing'
  <2> SUFFICES ASSUME NEW s \in Subs, socketOpen, registered = s, subAt[s] = "live",
                      NEW n \in from[s] + 1 .. seq + 1, n \in stored \cup Waiting'
               PROVE  n \in Range(view')
    BY <1>0, <1>1 DEF LiveMissesNothing
  <2>1. Range(view') = Range(view) \cup {seq + 1}
    <3>1. view' = Append(view, seq + 1)
      BY OneIsSent
    <3>2. view' # view
      BY <1>0, <3>1
    <3> QED
      BY <1>6, <3>2
  <2>2. CASE n # seq + 1
    <3>1. n \in from[s] + 1 .. seq /\ n \in stored \cup Waiting
      BY <1>0, <1>1, <2>2 DEF LogTyped
    <3> QED
      BY <2>1, <3>1 DEF LogInv, LogViews, LiveMissesNothing
  <2> QED
    BY <2>1, <2>2
<1> QED
  BY <1>1, <1>4, <1>5, <1>7, <1>8 DEF LogInv, LogViews

(***************************************************************************)
(* Steps of the subscription.                                              *)
(***************************************************************************)
LEMMA QuietWriter == ASSUME WriterWhole, UNCHANGED writerVars PROVE WriterWhole' /\ Waiting' = Waiting
BY DEF WriterWhole, writerVars, Waiting, EndKeepsNewest

LEMMA SubscribeStep == ASSUME LogInv, NEW s \in Subs, Subscribe(s) \/ Attach(s) PROVE LogInv'
<1>0. /\ LogTyped /\ WriterWhole' /\ Waiting' = Waiting /\ UNCHANGED writerVars
      /\ UNCHANGED <<socketOpen, buffer, page, lastSeq, view, appPc, appRegistered, child>>
      /\ seq \in 0..MaxLines /\ seq \in Nat /\ s # None
  BY QuietWriter, LogAssumption DEF LogInv, LogTyped, Subscribe, Attach, appVars
<1>1. LogTyped'
  <2>1. /\ registered' \in Subs \cup {None} /\ listening' \in SUBSET Subs /\ from' \in [Subs -> 0..MaxLines]
        /\ subAt' \in [Subs -> {"none", "status", "replay", "deliver", "live", "over"}]
    <3>1. CASE Subscribe(s)
      BY <1>0, <3>1 DEF LogTyped, Subscribe, SubTo
    <3>2. CASE Attach(s)
      BY <1>0, <3>2 DEF LogTyped, Attach, SubTo
    <3> QED
      BY <3>1, <3>2
  <2> QED
    BY <1>0, <2>1 DEF LogTyped, writerVars
<1>2. OneListens'
  <2>1. CASE Subscribe(s)
    <3>1. /\ UNCHANGED <<registered, listening>> /\ subAt' = [subAt EXCEPT ![s] = "status"]
          /\ registered = None /\ subAt[s] = "none" /\ \A t \in Subs : subAt[t] \notin {"status", "replay", "deliver"}
      BY <2>1 DEF Subscribe, SubTo, Answered
    <3> QED
      BY <1>0, <3>1 DEF LogInv, OneListens, LogTyped
  <2>2. CASE Attach(s)
    <3>1. /\ subAt[s] = "status" /\ subAt' = [subAt EXCEPT ![s] = "replay"]
          /\ listening' = listening \cup {s} /\ registered' = s
      BY <2>2 DEF Attach, SubTo
    <3>2. registered = None /\ listening = {}
      BY <3>1 DEF LogInv, OneListens
    <3>3. \A t \in Subs : subAt'[t] = IF t = s THEN "replay" ELSE subAt[t]
      BY <3>1 DEF LogTyped, LogInv
    <3>4. \A t \in Subs : t # s => subAt[t] \notin {"status", "replay", "deliver"}
      BY <3>1 DEF LogInv, OneListens
    <3>5. \A t \in Subs : t # s => subAt'[t] = subAt[t]
      BY <3>3
    <3> QED
      BY <1>0, <3>1, <3>2, <3>3, <3>4, <3>5 DEF LogInv, OneListens
  <2> QED
    BY <2>1, <2>2
<1>3. ASSUME NEW t \in Subs PROVE Collected(t)'
  <2>1. CASE Subscribe(s)
    <3>1. /\ UNCHANGED <<registered, from>> /\ registered = None /\ subAt' = [subAt EXCEPT ![s] = "status"]
      BY <2>1 DEF Subscribe, SubTo
    <3>2. subAt'[t] = "deliver" => subAt[t] = "deliver"
      BY <3>1 DEF LogInv, LogTyped
    <3>3. registered' # t
      BY <3>1, LogAssumption
    <3> QED
      BY <1>0, <3>2, <3>3 DEF LogInv, LogViews, Collected, writerVars
  <2>2. CASE Attach(s)
    <3>1. /\ subAt[s] = "status" /\ subAt' = [subAt EXCEPT ![s] = "replay"]
          /\ registered' = s /\ from' = [from EXCEPT ![s] = seq]
      BY <2>2 DEF Attach, SubTo
    <3>2. subAt'[t] = "deliver" => subAt[t] = "deliver"
      BY <3>1 DEF LogInv, LogTyped
    <3>3. registered' = t => from'[t] + 1 .. seq = {}
      BY <1>0, <3>1 DEF LogInv, LogTyped
    <3> QED
      BY <1>0, <3>2, <3>3 DEF LogInv, LogViews, Collected, writerVars
  <2> QED
    BY <2>1, <2>2
<1>4. LiveMissesNothing'
  <2> SUFFICES ASSUME NEW t \in Subs, socketOpen', registered' = t, subAt'[t] = "live" PROVE FALSE
    BY DEF LiveMissesNothing
  <2>1. CASE Subscribe(s)
    BY <2>1, LogAssumption DEF Subscribe
  <2>2. CASE Attach(s)
    BY <1>0, <2>2 DEF Attach, SubTo, LogTyped
  <2> QED
    BY <2>1, <2>2
<1> QED
  BY <1>0, <1>1, <1>2, <1>3, <1>4 DEF LogInv, LogViews, writerVars

LEMMA ReadPageStep == ASSUME LogInv, NEW s \in Subs, ReadPage(s) PROVE LogInv'
<1>0. /\ LogTyped /\ WriterWhole' /\ Waiting' = Waiting /\ UNCHANGED writerVars
      /\ UNCHANGED <<socketOpen, registered, listening, from, buffer, lastSeq, view, appPc, appRegistered, child>>
      /\ subAt[s] = "replay" /\ subAt' = [subAt EXCEPT ![s] = "deliver"]
      /\ page' = [page EXCEPT ![s] = {n \in stored : Cardinality({m \in stored : m <= n}) <= PageSize}]
      /\ stored \in SUBSET (1..MaxLines) /\ MaxLines \in Nat /\ PageSize \in Nat
  BY QuietWriter, LogAssumption DEF LogInv, LogTyped, ReadPage, SubTo, appVars, Lines
<1>1. LogTyped'
  BY <1>0 DEF LogTyped, writerVars, Lines
<1>2. \A t \in Subs : /\ subAt'[t] = IF t = s THEN "deliver" ELSE subAt[t]
                      /\ t # s => page'[t] = page[t]
                      /\ page'[s] = {n \in stored : Cardinality({m \in stored : m <= n}) <= PageSize}
  BY <1>0 DEF LogTyped
<1>3. OneListens'
  <2>1. \A t \in Subs : subAt'[t] \in {"status", "replay", "deliver"} => subAt[t] \in {"status", "replay", "deliver"}
    BY <1>0, <1>2
  <2>2. \A t \in Subs : subAt'[t] \in {"none", "status"} => subAt'[t] = subAt[t]
    BY <1>2
  <2>3. \A t \in Subs : subAt'[t] \in {"replay", "deliver"} => subAt[t] \in {"replay", "deliver"}
    BY <1>0, <1>2
  <2>4. \A t \in Subs : subAt[t] \in {"replay", "deliver", "live"} => subAt'[t] \in {"replay", "deliver", "live"}
    BY <1>0, <1>2
  <2>5. \A t, u \in Subs : {subAt'[t], subAt'[u]} \subseteq {"status", "replay", "deliver"} => t = u
    <3> SUFFICES ASSUME NEW t \in Subs, NEW u \in Subs, {subAt'[t], subAt'[u]} \subseteq {"status", "replay", "deliver"} PROVE t = u
      OBVIOUS
    <3>1. {subAt[t], subAt[u]} \subseteq {"status", "replay", "deliver"}
      BY <2>1
    <3> QED
      BY <3>1 DEF LogInv, OneListens
  <2>6. registered \in Subs \cup {None}
    BY <1>0 DEF LogTyped
  <2> QED
    BY <1>0, <2>2, <2>3, <2>4, <2>5, <2>6 DEF LogInv, OneListens
<1>4. ASSUME NEW m \in page'[s], NEW n \in stored \cup Waiting, n <= m PROVE n \in page'[s]
  <2>1. m \in stored /\ Cardinality({k \in stored : k <= m}) <= PageSize
    BY <1>2
  <2>2. n \notin Waiting
    <3> SUFFICES ASSUME n \in Waiting PROVE FALSE
      OBVIOUS
    <3>1. m < n
      <4>1. chain \in Seq(SUBSET Lines)
        BY <1>0 DEF LogTyped
      <4> QED
        BY <2>1, <4>1, InBatches DEF Waiting, LogInv, WriterWhole, InLine
    <3>2. n \in Nat /\ m \in Nat
      BY <1>0, <2>1, WaitingIsLines DEF Lines
    <3> QED
      BY <1>4, <3>1, <3>2
  <2>3. n \in stored
    BY <1>4, <2>2
  <2>4. {k \in stored : k <= n} \subseteq {k \in stored : k <= m}
    <3>1. \A k \in stored \cup {n, m} : k \in Nat
      BY <1>0, <2>1, <2>3
    <3> QED
      BY <1>4, <3>1
  <2>5. /\ IsFiniteSet({k \in stored : k <= m}) /\ Cardinality({k \in stored : k <= m}) \in Nat
        /\ Cardinality({k \in stored : k <= n}) \in Nat
    BY <1>0, InOrderSorts
  <2>6. Cardinality({k \in stored : k <= n}) <= Cardinality({k \in stored : k <= m})
    BY <2>4, <2>5, FS_Subset
  <2>7. Cardinality({k \in stored : k <= n}) <= PageSize
    BY <1>0, <2>1, <2>5, <2>6
  <2> QED
    BY <1>2, <2>3, <2>7
<1>5. ASSUME NEW t \in Subs PROVE Collected(t)'
  <2>1. CASE t = s
    <3>1. subAt[s] \in {"replay", "deliver"} /\ subAt'[s] \in {"replay", "deliver"}
      BY <1>0, <1>2
    <3>2. \A n \in page'[s] : n <= seq
      BY <1>2 DEF LogInv, WriterWhole
    <3> QED
      BY <1>0, <1>4, <2>1, <3>1, <3>2 DEF LogInv, LogViews, Collected, writerVars
  <2>2. CASE t # s
    BY <1>0, <1>2, <2>2 DEF LogInv, LogViews, Collected, writerVars
  <2> QED
    BY <2>1, <2>2
<1>6. LiveMissesNothing'
  BY <1>0, <1>2 DEF LogInv, LogViews, LiveMissesNothing, writerVars
<1> QED
  BY <1>0, <1>1, <1>3, <1>5, <1>6 DEF LogInv, LogViews, writerVars

LEMMA PageEnd ==
  ASSUME NEW n \in Nat, NEW p \in SUBSET (1..n)
  PROVE  Max(p \cup {0}) \in p \cup {0} /\ Max(p \cup {0}) \in 0..n /\ \A x \in p : x <= Max(p \cup {0})
<1> DEFINE m == Max(p \cup {0})
<1>1. p \cup {0} \in SUBSET (0..n) /\ p \cup {0} # {}
  OBVIOUS
<1>2. m \in p \cup {0} /\ \A x \in p \cup {0} : m >= x
  BY <1>1, MaxOfBounded
<1> HIDE DEF m
<1>3. m \in p \cup {0} /\ m \in 0..n /\ \A x \in p : x <= m
  BY <1>2
<1> QED
  BY <1>3 DEF m

\* What the client is sent: the page, then what of the buffer is beyond it.
LEMMA ReplayedAndNew ==
  ASSUME NEW n \in Nat, NEW p \in SUBSET (1..n), NEW b \in Seq(1..n), Ordered(b),
         NEW last \in p \cup {0}, \A x \in p : x <= last
  PROVE  /\ InOrder(p) \o Unseen(b, last) \in Seq(1..n) /\ Ordered(InOrder(p) \o Unseen(b, last))
         /\ Range(InOrder(p) \o Unseen(b, last)) = p \cup {x \in Range(b) : x > last}
         /\ Max({last} \cup Range(Unseen(b, last))) \in {last} \cup Range(b)
<1> DEFINE rest == Unseen(b, last)
<1> DEFINE first == InOrder(p)
<1>1. last \in Nat /\ last \in 0..n
  OBVIOUS
<1>2. rest \in Seq(1..n) /\ Ordered(rest) /\ Range(rest) = {x \in Range(b) : x > last}
  BY <1>1, UnseenFilters
<1>3. first \in Seq(p) /\ Ordered(first) /\ Range(first) = p
  BY InOrderSorts
<1> HIDE DEF rest, first
<1>4. Range(rest) \subseteq 1..n /\ first \in Seq(1..n)
  <2>1. Range(rest) \subseteq 1..n
    BY <1>2, RangeWithin
  <2>2. first \in Seq(1..n)
    BY <1>3, WiderSeq
  <2> QED
    BY <2>1, <2>2
<1>5. \A x \in Range(first), y \in Range(rest) : x < y
  <2> SUFFICES ASSUME NEW x \in p, NEW y \in Range(rest) PROVE x < y
    BY <1>3
  <2>1. x <= last /\ x \in 1..n
    OBVIOUS
  <2>2. y > last /\ y \in 1..n
    BY <1>2, <1>4
  <2> QED
    BY <1>1, <2>1, <2>2
<1>6. first \o rest \in Seq(1..n) /\ Ordered(first \o rest) /\ Range(first \o rest) = Range(first) \cup Range(rest)
  BY <1>2, <1>3, <1>4, <1>5, JoinedOrdered
<1>7. Max({last} \cup Range(rest)) \in {last} \cup Range(rest)
  <2>1. {last} \cup Range(rest) \in SUBSET (0..n) /\ {last} \cup Range(rest) # {}
    BY <1>1, <1>4
  <2> QED
    BY <2>1, MaxOfBounded
<1>8. Max({last} \cup Range(rest)) \in {last} \cup Range(b)
  BY <1>2, <1>7
<1>9. Range(first \o rest) = p \cup {x \in Range(b) : x > last}
  BY <1>2, <1>3, <1>6
<1> QED
  BY <1>6, <1>8, <1>9 DEF rest, first

LEMMA DeliverStep == ASSUME LogInv, NEW s \in Subs, Deliver(s) PROVE LogInv'
<1> DEFINE last == Max(page[s] \cup {0})
<1> DEFINE rest == Unseen(buffer[s], last)
<1> DEFINE copies == InOrder(page[s]) \o rest
<1> DEFINE end == Max({last} \cup Range(rest))
<1>0. /\ LogTyped /\ WriterWhole' /\ Waiting' = Waiting /\ UNCHANGED writerVars
      /\ UNCHANGED <<socketOpen, registered, listening, from, appPc, appRegistered, child>>
      /\ subAt[s] = "deliver" /\ subAt' = [subAt EXCEPT ![s] = "live"]
      /\ view' = (IF socketOpen THEN copies ELSE view) /\ lastSeq' = [lastSeq EXCEPT ![s] = end]
      /\ buffer' = [buffer EXCEPT ![s] = <<>>] /\ page' = [page EXCEPT ![s] = {}]
      /\ MaxLines \in Nat /\ Lines = 1..MaxLines /\ seq \in Nat /\ seq \in 0..MaxLines
  <2>1. LogTyped /\ WriterWhole
    BY DEF LogInv
  <2>2. /\ UNCHANGED writerVars /\ UNCHANGED <<socketOpen, registered, listening, from, appPc, appRegistered, child>>
        /\ subAt[s] = "deliver" /\ subAt' = [subAt EXCEPT ![s] = "live"]
        /\ view' = (IF socketOpen THEN copies ELSE view) /\ lastSeq' = [lastSeq EXCEPT ![s] = end]
        /\ buffer' = [buffer EXCEPT ![s] = <<>>] /\ page' = [page EXCEPT ![s] = {}]
    BY DEF Deliver, SubTo, appVars
  <2>3. WriterWhole' /\ Waiting' = Waiting
    BY <2>1, <2>2, QuietWriter
  <2>4. MaxLines \in Nat /\ Lines = 1..MaxLines /\ seq \in Nat /\ seq \in 0..MaxLines
    BY <2>1, LogAssumption DEF LogTyped, Lines
  <2> QED
    BY <2>1, <2>2, <2>3, <2>4
<1>1. /\ copies \in Seq(Lines) /\ Ordered(copies) /\ Range(copies) = page[s] \cup {x \in Range(buffer[s]) : x > last}
      /\ end \in {0} \cup page[s] \cup Range(buffer[s])
      /\ last \in {0} \cup page[s] /\ last \in Nat /\ \A x \in page[s] : x <= last
  <2>1. page[s] \in SUBSET (1..MaxLines) /\ buffer[s] \in Seq(1..MaxLines) /\ Ordered(buffer[s])
    BY <1>0 DEF LogTyped, LogInv, LogViews, Collected
  <2>2. last \in page[s] \cup {0} /\ last \in 0..MaxLines /\ \A x \in page[s] : x <= last
    BY <1>0, <2>1, PageEnd
  <2> HIDE DEF last
  <2>3. /\ copies \in Seq(1..MaxLines) /\ Ordered(copies)
        /\ Range(copies) = page[s] \cup {x \in Range(buffer[s]) : x > last}
        /\ end \in {last} \cup Range(buffer[s])
    BY <1>0, <2>1, <2>2, ReplayedAndNew
  <2> HIDE DEF copies, end
  <2> QED
    BY <1>0, <2>2, <2>3
<1> HIDE DEF last, rest, copies, end
<1>2. (\A n \in page[s] : n <= seq) /\ (\A n \in Range(buffer[s]) : n <= seq) /\ Range(buffer[s]) \subseteq Lines /\ page[s] \subseteq Lines
  BY <1>0, RangeWithin DEF LogInv, LogViews, Collected, LogTyped
<1>3. end \in 0..MaxLines /\ end <= seq /\ \A n \in Range(copies) : n <= seq
  BY <1>0, <1>1, <1>2
<1>4. LogTyped'
  <2>1. view' \in Seq(Lines)
    BY <1>0, <1>1 DEF LogTyped
  <2>2. <<>> \in Seq(Lines)
    OBVIOUS
  <2> QED
    BY <1>0, <1>3, <2>1, <2>2 DEF LogTyped, writerVars
<1>5. \A t \in Subs : /\ subAt'[t] = IF t = s THEN "live" ELSE subAt[t]
                      /\ buffer'[t] = IF t = s THEN <<>> ELSE buffer[t]
                      /\ page'[t] = IF t = s THEN {} ELSE page[t]
                      /\ lastSeq'[t] = IF t = s THEN end ELSE lastSeq[t]
  BY <1>0 DEF LogTyped
<1>6. OneListens'
  <2>1. \A t \in Subs : subAt'[t] \in {"status", "replay", "deliver"} => t # s /\ subAt'[t] = subAt[t]
    BY <1>5
  <2>2. \A t \in Subs : subAt'[t] \in {"none", "status"} => t # s /\ subAt'[t] = subAt[t]
    BY <1>5
  <2>3. \A t \in Subs : subAt[t] \in {"replay", "deliver", "live"} => subAt'[t] \in {"replay", "deliver", "live"}
    BY <1>5
  <2>4. \A t, u \in Subs : {subAt'[t], subAt'[u]} \subseteq {"status", "replay", "deliver"} => t = u
    <3> SUFFICES ASSUME NEW t \in Subs, NEW u \in Subs, {subAt'[t], subAt'[u]} \subseteq {"status", "replay", "deliver"} PROVE t = u
      OBVIOUS
    <3>1. {subAt[t], subAt[u]} \subseteq {"status", "replay", "deliver"}
      BY <2>1
    <3> QED
      BY <3>1 DEF LogInv, OneListens
  <2>5. registered \in Subs \cup {None}
    BY <1>0 DEF LogTyped
  <2>6. \A t \in Subs : t # s => buffer'[t] = buffer[t]
    BY <1>5
  <2> QED
    BY <1>0, <2>1, <2>2, <2>3, <2>4, <2>5, <2>6 DEF LogInv, OneListens
<1>7. Ordered(view') /\ \A n \in Range(view') : n <= seq
  BY <1>0, <1>1, <1>3 DEF LogInv, LogViews
<1>8. ASSUME NEW t \in Subs PROVE Collected(t)'
  <2>1. CASE t = s
    <3>1. buffer'[s] = <<>> /\ page'[s] = {} /\ lastSeq'[s] = end /\ subAt'[s] = "live"
      BY <1>5
    <3>2. Ordered(<<>>) /\ Range(<<>>) = {}
      BY DEF Ordered, Range
    <3> QED
      BY <1>0, <1>3, <2>1, <3>1, <3>2 DEF Collected, writerVars
  <2>2. CASE t # s
    <3>1. buffer'[t] = buffer[t] /\ page'[t] = page[t] /\ lastSeq'[t] = lastSeq[t] /\ subAt'[t] = subAt[t]
      BY <1>5, <2>2
    <3> QED
      BY <1>0, <3>1 DEF LogInv, LogViews, Collected, writerVars
  <2> QED
    BY <2>1, <2>2
<1>9. LiveMissesNothing'
  <2> SUFFICES ASSUME NEW t \in Subs, socketOpen, registered = t, subAt'[t] = "live",
                      NEW n \in from[t] + 1 .. seq, n \in stored \cup Waiting
               PROVE  n \in Range(view')
    BY <1>0 DEF LiveMissesNothing, writerVars
  <2>1. registered = s
    BY <1>0 DEF LogInv, OneListens
  <2>2. t = s
    BY <2>1
  <2>3. n \in Range(buffer[s])
    BY <1>0, <2>1, <2>2 DEF LogInv, LogViews, Collected
  <2>4. CASE n > last
    BY <1>0, <1>1, <2>3, <2>4
  <2>5. CASE ~(n > last)
    <3>1. n \in Nat /\ n > 0
      BY <1>0, <1>2, <2>3
    <3>2. last \in page[s] /\ n <= last
      BY <1>1, <2>5, <3>1
    <3>3. n \in page[s]
      BY <1>0, <3>2 DEF LogInv, LogViews, Collected
    <3> QED
      BY <1>0, <1>1, <3>3
  <2> QED
    BY <2>4, <2>5
<1> QED
  BY <1>0, <1>4, <1>6, <1>7, <1>8, <1>9 DEF LogInv, LogViews, writerVars

(***************************************************************************)
(* The end of a subscription, and the other topic of the socket.           *)
(***************************************************************************)
LEMMA UnsubscribeStep == ASSUME LogInv, Unsubscribe PROVE LogInv'
<1>0. /\ LogTyped /\ WriterWhole' /\ Waiting' = Waiting /\ UNCHANGED writerVars
      /\ UNCHANGED <<socketOpen, buffer, page, view, appPc, appRegistered, child>>
      /\ subAt' = [subAt EXCEPT ![registered] = "over"] /\ registered \in Subs /\ registered' = None
      /\ listening' = listening \ {registered}
      /\ from' = [from EXCEPT ![registered] = 0] /\ lastSeq' = [lastSeq EXCEPT ![registered] = 0]
      /\ \A t \in Subs : subAt[t] \notin {"status", "replay", "deliver"}
      /\ seq \in Nat /\ 0 \in 0..MaxLines
  BY QuietWriter, LogAssumption DEF LogInv, LogTyped, Unsubscribe, Answered, SubTo, appVars
<1>1. LogTyped'
  BY <1>0 DEF LogTyped, writerVars
<1>2. \A t \in Subs : /\ subAt'[t] \notin {"status", "replay", "deliver"}
                      /\ subAt'[t] = "none" => subAt[t] = "none"
                      /\ lastSeq'[t] \in {0, lastSeq[t]}
  BY <1>0 DEF LogTyped
<1>3. OneListens'
  <2>1. listening' = {registered'} \ {None}
    BY <1>0, LogAssumption DEF LogInv, OneListens
  <2> QED
    BY <1>0, <1>2, <2>1 DEF LogInv, OneListens
<1>4. ASSUME NEW t \in Subs PROVE Collected(t)'
  <2>1. subAt'[t] \notin {"replay", "deliver"} /\ lastSeq'[t] <= seq
    BY <1>0, <1>2 DEF LogInv, LogViews, Collected
  <2> QED
    BY <1>0, <2>1 DEF LogInv, LogViews, Collected, writerVars
<1>5. LiveMissesNothing'
  BY <1>0, LogAssumption DEF LiveMissesNothing
<1> QED
  BY <1>0, <1>1, <1>3, <1>4, <1>5 DEF LogInv, LogViews, writerVars

LEMMA CloseSocketStep == ASSUME LogInv, CloseSocket PROVE LogInv'
<1>0. /\ LogTyped /\ WriterWhole' /\ Waiting' = Waiting /\ UNCHANGED writerVars
      /\ UNCHANGED <<subAt, from, buffer, page, lastSeq, view, appPc>>
      /\ socketOpen' = FALSE /\ registered' = None /\ listening' = {}
      /\ child' = child \ {appRegistered} /\ appRegistered' = None
  <2>1. listening \ {registered} = {}
    BY DEF LogInv, OneListens
  <2> QED
    BY <2>1, QuietWriter DEF LogInv, LogTyped, CloseSocket
<1>1. LogTyped'
  BY <1>0 DEF LogTyped, writerVars
<1>2. OneListens'
  BY <1>0 DEF LogInv, OneListens
<1>3. ASSUME NEW t \in Subs PROVE Collected(t)'
  <2>1. registered' # t
    BY <1>0, LogAssumption
  <2> QED
    BY <1>0, <2>1 DEF LogInv, LogViews, Collected, writerVars
<1>4. LiveMissesNothing'
  BY <1>0 DEF LiveMissesNothing
<1> QED
  BY <1>0, <1>1, <1>2, <1>3, <1>4 DEF LogInv, LogViews, writerVars

LEMMA QuietLog ==
  ASSUME LogInv, UNCHANGED <<writerVars, socketOpen, viewerVars>>,
         appPc' \in [AppSubs -> {"none", "check", "over"}],
         appRegistered' \in AppSubs \cup {None}, child' \in SUBSET AppSubs
  PROVE  LogInv'
<1>0. /\ LogTyped /\ WriterWhole' /\ Waiting' = Waiting
      /\ UNCHANGED <<run, seq, queue, timer, chain, stored, dropped, socketOpen, registered, listening, subAt,
                     from, buffer, page, lastSeq, view>>
  BY QuietWriter DEF LogInv, writerVars, viewerVars
<1>1. LogTyped'
  BY <1>0 DEF LogTyped
<1>2. OneListens'
  BY <1>0 DEF LogInv, OneListens
<1>3. LogViews'
  BY <1>0 DEF LogInv, LogViews, Collected, LiveMissesNothing
<1> QED
  BY <1>0, <1>1, <1>2, <1>3 DEF LogInv

LEMMA AppLogStep == ASSUME LogInv, NEW a \in AppSubs, AppLogs(a) PROVE LogInv'
<1>1. /\ UNCHANGED <<writerVars, socketOpen, viewerVars>>
      /\ appPc' \in [AppSubs -> {"none", "check", "over"}]
      /\ appRegistered' \in AppSubs \cup {None} /\ child' \in SUBSET AppSubs
  BY DEF LogInv, LogTyped, AppLogs, AppSubscribe, AppSpawn, ChildEnds
<1> QED
  BY <1>1, QuietLog

LEMMA AppUnsubscribeStep == ASSUME LogInv, AppUnsubscribe PROVE LogInv'
<1>1. /\ UNCHANGED <<writerVars, socketOpen, viewerVars>>
      /\ appPc' \in [AppSubs -> {"none", "check", "over"}]
      /\ appRegistered' \in AppSubs \cup {None} /\ child' \in SUBSET AppSubs
  BY DEF LogInv, LogTyped, AppUnsubscribe
<1> QED
  BY <1>1, QuietLog

LEMMA LogHolds == ASSUME LogInv, [LogNext]_logVars PROVE LogInv'
<1>1. ASSUME UNCHANGED logVars PROVE LogInv'
  <2>1. /\ UNCHANGED <<writerVars, socketOpen, viewerVars>> /\ UNCHANGED <<appPc, appRegistered, child>>
    BY <1>1 DEF logVars, appVars
  <2>2. /\ appPc' \in [AppSubs -> {"none", "check", "over"}]
        /\ appRegistered' \in AppSubs \cup {None} /\ child' \in SUBSET AppSubs
    BY <2>1 DEF LogInv, LogTyped
  <2> QED
    BY <2>1, <2>2, QuietLog
<1>2. CASE Writer
  BY <1>2, QuietWriterStep, LineWritten DEF Writer
<1>3. ASSUME NEW s \in Subs, Viewer(s) PROVE LogInv'
  BY <1>3, SubscribeStep, ReadPageStep, DeliverStep DEF Viewer
<1>4. ASSUME NEW a \in AppSubs, AppLogs(a) PROVE LogInv'
  BY <1>4, AppLogStep
<1> QED
  BY <1>1, <1>2, <1>3, <1>4, UnsubscribeStep, AppUnsubscribeStep, CloseSocketStep DEF LogNext

LEMMA LogShown == LogInv => LogTypeOK /\ LogIsWhole
<1> SUFFICES ASSUME LogInv PROVE LogTypeOK /\ LogIsWhole
  OBVIOUS
<1>1. LogTypeOK
  <2>1. /\ \A i \in DOMAIN chain : chain[i] \subseteq Lines
        /\ Range(view) \subseteq Lines /\ \A s \in Subs : Range(buffer[s]) \subseteq Lines
    BY RangeWithin DEF LogInv, LogTyped
  <2> QED
    BY <2>1 DEF LogInv, LogTyped, LogTypeOK
<1>2. RowsInOrder
  <2>1. chain \in Seq(SUBSET Lines)
    BY DEF LogInv, LogTyped
  <2> QED
    BY <2>1, InBatches DEF RowsInOrder, Waiting, LogInv, WriterWhole, InLine
<1>3. ViewInOrder
  <2>1. DOMAIN view = 1..Len(view)
    BY DEF LogInv, LogTyped
  <2> QED
    BY <2>1 DEF ViewInOrder, LogInv, LogViews, Ordered
<1> QED
  BY <1>1, <1>2, <1>3 DEF LogIsWhole, LogInv, WriterWhole, LogViews

\* The log that is kept and the log that is watched are the deployment's: the rows never
\* overtake and the newest are kept, and a client has every line since it attached, in
\* order and once (log-writer.ts:10-12, executor.ts:722-724, ws.ts:112-113).
THEOREM LogStaysWhole == LogSpec => [](LogTypeOK /\ LogIsWhole)
BY LogStarts, LogHolds, LogShown, PTL DEF LogSpec

(***************************************************************************)
(* The WAL archive.                                                        *)
(***************************************************************************)

\* The slot is at no later segment than the server, and a drain reads to no later one.
WalBound ==
  /\ IF slot = NoSlot THEN slotFrom = NoSlot ELSE slot <= written
  /\ \A d \in Drains : endpos[d] <= written

\* The segments before e that the slot has retained are in the bucket.
Archived(e) == \A s \in Segments : slotFrom <= s /\ s < e => s \in archived

\* A drain that moves the spool has received up to its position; one that is whole has
\* moved it.  None of them is there before the slot is.
WalRecorded ==
  /\ LsnIsArchived
  /\ \A d \in Drains : drainAt[d] = "sync" => endpos[d] <= slot
  /\ \A d \in whole : drainAt[d] = "stamp" /\ Archived(endpos[d])
  /\ slot = NoSlot => /\ whole = {} /\ stampedBy # "whole"
                      /\ \A d \in Drains : drainAt[d] \in {"idle", "slot"}

WalInv == WalTypeOK /\ NoWalGap /\ WalBound /\ WalRecorded

LEMMA WalStarts == WalInit => WalInv
<1> SUFFICES ASSUME WalInit PROVE WalInv
  OBVIOUS
<1>1. WalTypeOK /\ NoWalGap /\ WalBound
  BY WalAssumption DEF WalInit, WalTypeOK, NoWalGap, WalBound, NoSlot, Segments, DrainSteps
<1>2. WalRecorded
  BY WalAssumption DEF WalInit, WalRecorded, LsnIsArchived
<1> QED
  BY <1>1, <1>2 DEF WalInv

LEMMA WalStep == WalInv /\ [WalNext]_walVars => WalInv'
<1> SUFFICES ASSUME WalInv, [WalNext]_walVars PROVE WalInv'
  OBVIOUS
<1> USE WalAssumption
<1>0. WalTypeOK /\ NoWalGap /\ WalBound /\ WalRecorded
  BY DEF WalInv
<1>1. CASE UNCHANGED walVars
  BY <1>1 DEF walVars, WalInv, WalTypeOK, NoWalGap, WalBound, WalRecorded, LsnIsArchived, Archived
<1>2. CASE WriteSegment
  <2>1. WalTypeOK' /\ NoWalGap' /\ WalBound'
    BY <1>0, <1>2 DEF WriteSegment, results, WalBound, WalTypeOK, NoWalGap, NoSlot, Segments
  <2>2. WalRecorded'
    BY <1>0, <1>2 DEF WriteSegment, results, WalRecorded, LsnIsArchived, Archived
  <2> QED
    BY <2>1, <2>2 DEF WalInv
<1>3. CASE DeletePitrConfig
  <2>1. WalTypeOK' /\ NoWalGap' /\ WalBound'
    BY <1>0, <1>3 DEF DeletePitrConfig, results, WalBound, WalTypeOK, NoWalGap
  <2>2. WalRecorded'
    BY <1>0, <1>3 DEF DeletePitrConfig, results, WalRecorded, LsnIsArchived, Archived
  <2> QED
    BY <2>1, <2>2 DEF WalInv
<1>4. CASE DrainsCrash
  <2>1. WalTypeOK' /\ NoWalGap' /\ WalBound'
    BY <1>0, <1>4 DEF DrainsCrash, WalBound, WalTypeOK, NoWalGap, DrainSteps
  <2>2. WalRecorded'
    BY <1>0, <1>4 DEF DrainsCrash, WalRecorded, LsnIsArchived, Archived
  <2> QED
    BY <2>1, <2>2 DEF WalInv
<1>5. ASSUME NEW d \in Drains, MkSpool(d) PROVE WalInv'
  <2>1. WalTypeOK' /\ NoWalGap' /\ WalBound'
    BY <1>0, <1>5 DEF MkSpool, DrainTo, results, WalBound, WalTypeOK, NoWalGap, DrainSteps
  <2>2. WalRecorded'
    BY <1>0, <1>5 DEF MkSpool, DrainTo, results, WalRecorded, LsnIsArchived, Archived, WalTypeOK
  <2> QED
    BY <2>1, <2>2 DEF WalInv
<1>6. ASSUME NEW d \in Drains, CreateSlot(d) PROVE WalInv'
  <2>1. WalTypeOK' /\ NoWalGap' /\ WalBound'
    BY <1>0, <1>6 DEF CreateSlot, DrainTo, results, WalBound, WalTypeOK, NoWalGap, NoSlot, Segments, DrainSteps
  <2>2. CASE slot = NoSlot
    <3>1. whole' = {} /\ stampedBy' # "whole" /\ \A e \in Drains : drainAt'[e] # "sync"
      BY <1>0, <1>6, <2>2 DEF CreateSlot, DrainTo, results, WalRecorded, WalTypeOK
    <3>2. slot' = NoSlot => slot' = slot /\ UNCHANGED <<whole, stampedBy>> /\ \A e \in Drains : drainAt'[e] \in {"idle", "slot"}
      BY <1>0, <1>6, <2>2 DEF CreateSlot, DrainTo, results, WalRecorded, WalTypeOK, NoSlot
    <3> QED
      BY <2>1, <3>1, <3>2 DEF WalInv, WalRecorded, LsnIsArchived
  <2>3. CASE slot # NoSlot
    <3>1. UNCHANGED <<slot, slotFrom, archived, endpos, whole, lastWal, stampedBy>>
      BY <1>6, <2>3 DEF CreateSlot, results
    <3>2. \A e \in Drains : drainAt'[e] = "sync" => drainAt[e] = "sync"
      BY <1>0, <1>6 DEF CreateSlot, DrainTo, WalTypeOK
    <3>3. \A e \in whole : drainAt'[e] = drainAt[e]
      BY <1>0, <1>6 DEF CreateSlot, DrainTo, WalTypeOK, WalRecorded
    <3> QED
      BY <1>0, <2>1, <2>3, <3>1, <3>2, <3>3 DEF WalInv, WalRecorded, LsnIsArchived, Archived, WalTypeOK
  <2> QED
    BY <2>2, <2>3
<1>7. ASSUME NEW d \in Drains, ReadPosition(d) PROVE WalInv'
  <2>1. WalTypeOK' /\ NoWalGap' /\ WalBound'
    BY <1>0, <1>7 DEF ReadPosition, DrainTo, results, WalBound, WalTypeOK, NoWalGap, DrainSteps
  <2>2. WalRecorded'
    <3>1. /\ UNCHANGED <<slot, slotFrom, archived, whole, lastWal, stampedBy>> /\ slot # NoSlot
          /\ \A e \in Drains \ {d} : drainAt'[e] = drainAt[e] /\ endpos'[e] = endpos[e]
          /\ drainAt'[d] # "sync" /\ d \notin whole
      BY <1>0, <1>7 DEF ReadPosition, DrainTo, results, WalTypeOK, WalRecorded
    <3> QED
      BY <1>0, <3>1 DEF WalRecorded, LsnIsArchived, Archived, WalTypeOK
  <2> QED
    BY <2>1, <2>2 DEF WalInv
<1>8. ASSUME NEW d \in Drains, Receive(d) PROVE WalInv'
  <2>1. PICK upto \in slot..endpos[d] \cup {slot} :
          /\ spool' = spool \cup slot..(upto - 1) /\ slot' = upto
          /\ DrainTo(d, "stamp") \/ (upto >= endpos[d] /\ DrainTo(d, "sync"))
    BY <1>8 DEF Receive
  <2>2. upto \in 0..NoSlot /\ slot <= upto /\ (upto = slot \/ upto <= written)
    BY <1>0, <2>1 DEF WalBound, WalTypeOK, NoSlot
  <2>3. slot..(upto - 1) \subseteq Segments
    BY <1>0, <2>2 DEF WalTypeOK, Segments, NoSlot
  <2>4. WalTypeOK'
    BY <1>0, <1>8, <2>1, <2>2, <2>3 DEF Receive, DrainTo, results, WalTypeOK, DrainSteps
  <2>5. NoWalGap'
    BY <1>0, <1>8, <2>1, <2>2 DEF Receive, WalTypeOK, NoWalGap, Segments, NoSlot
  <2>6. WalBound'
    BY <1>0, <1>8, <2>1, <2>2 DEF Receive, WalTypeOK, WalBound, NoSlot
  <2>7. /\ UNCHANGED <<slotFrom, archived, endpos, whole, lastWal, stampedBy>> /\ slot # NoSlot
        /\ \A e \in Drains \ {d} : drainAt'[e] = drainAt[e]
        /\ drainAt'[d] = "sync" => endpos[d] <= slot'
        /\ d \notin whole
    BY <1>0, <1>8, <2>1 DEF Receive, DrainTo, results, WalTypeOK, WalRecorded
  <2>8. slot' # NoSlot
    BY <1>0, <2>1, <2>2, <2>7 DEF WalTypeOK, NoSlot
  <2>9. \A e \in Drains : drainAt'[e] = "sync" => endpos'[e] <= slot'
    <3> SUFFICES ASSUME NEW e \in Drains, drainAt'[e] = "sync" PROVE endpos[e] <= slot'
      BY <2>7
    <3>1. CASE e = d
      BY <2>7, <3>1
    <3>2. CASE e # d
      BY <1>0, <2>1, <2>2, <2>7, <3>2 DEF WalRecorded, WalTypeOK, NoSlot
    <3> QED
      BY <3>1, <3>2
  <2>10. WalRecorded'
    BY <1>0, <2>7, <2>8, <2>9 DEF WalRecorded, LsnIsArchived, Archived, WalTypeOK
  <2> QED
    BY <2>4, <2>5, <2>6, <2>10 DEF WalInv
<1>9. ASSUME NEW d \in Drains, WalSync(d) PROVE WalInv'
  <2>1. PICK moved \in SUBSET spool :
          /\ spool' = spool \ moved /\ archived' = archived \cup moved
          /\ whole' = IF moved = spool THEN whole \cup {d} ELSE whole
    BY <1>9 DEF WalSync
  <2>2. WalTypeOK' /\ NoWalGap' /\ WalBound'
    BY <1>0, <1>9, <2>1 DEF WalSync, DrainTo, WalBound, WalTypeOK, NoWalGap, DrainSteps
  <2>3. /\ UNCHANGED <<slot, slotFrom, endpos, lastWal, stampedBy>> /\ slot # NoSlot
        /\ \A e \in Drains \ {d} : drainAt'[e] = drainAt[e]
        /\ drainAt'[d] = "stamp" /\ archived \subseteq archived'
    BY <1>0, <1>9, <2>1 DEF WalSync, DrainTo, WalTypeOK, WalRecorded
  <2>4. moved = spool => Archived(endpos[d])'
    <3> SUFFICES ASSUME moved = spool, NEW s \in Segments, slotFrom <= s, s < endpos[d] PROVE s \in archived'
      BY <2>3 DEF Archived
    <3>1. endpos[d] <= slot /\ endpos[d] <= written
      BY <1>0, <1>9 DEF WalSync, WalRecorded, WalBound
    <3>2. s \in spool \cup archived
      BY <1>0, <3>1 DEF NoWalGap, WalTypeOK, Segments, NoSlot
    <3> QED
      BY <2>1, <3>2
  <2>5. \A e \in whole : Archived(endpos[e])'
    BY <1>0, <2>3 DEF WalRecorded, Archived
  <2>6. WalRecorded'
    BY <1>0, <2>1, <2>3, <2>4, <2>5 DEF WalRecorded, LsnIsArchived, Archived, WalTypeOK
  <2> QED
    BY <2>2, <2>6 DEF WalInv
<1>10. ASSUME NEW d \in Drains, StampWal(d) PROVE WalInv'
  <2>1. WalTypeOK' /\ NoWalGap' /\ WalBound'
    BY <1>0, <1>10 DEF StampWal, DrainTo, WalBound, WalTypeOK, NoWalGap, DrainSteps
  <2>2. /\ UNCHANGED <<slot, slotFrom, endpos, archived>>
        /\ \A e \in Drains \ {d} : drainAt'[e] = drainAt[e]
        /\ drainAt'[d] = "idle" /\ whole' = whole \ {d}
    BY <1>0, <1>10 DEF StampWal, DrainTo, WalTypeOK
  <2>3. LsnIsArchived' /\ (slot = NoSlot => stampedBy' # "whole")
    BY <1>0, <1>10, <2>2 DEF StampWal, WalRecorded, LsnIsArchived, Archived, WalTypeOK
  <2>4. WalRecorded'
    BY <1>0, <2>2, <2>3 DEF WalRecorded, Archived, WalTypeOK
  <2> QED
    BY <2>1, <2>4 DEF WalInv
<1> QED
  BY <1>1, <1>2, <1>3, <1>4, <1>5, <1>6, <1>7, <1>8, <1>9, <1>10 DEF WalNext

(***************************************************************************)
(* Restores into a fresh container.                                        *)
(***************************************************************************)

RestoreRows == [at : Steps \cup {"none", "stage", "ok", "failed"}, base : Positions, target : Positions, got : Instance]

\* One that nobody overlapped is alone.
AloneIfOwn ==
  \A r \in Restores \ overlapped : InProgress(r) => \A s \in Restores : InProgress(s) => s = r

\* What is staged, and then what runs, is the restore's that is alone, as far as it has come.
StagedIsOwn(r) ==
  /\ restores[r].at \in {"wal", "config", "chown", "remove", "run", "poll"} => staged.base = restores[r].base
  /\ restores[r].at \in {"chown", "remove", "run", "poll"} => staged.target = restores[r].target
  /\ restores[r].at = "poll" =>
       /\ instance.base = restores[r].base
       /\ instance.state = "promoted" => restores[r].target \in {0, instance.reached}

PitrInv ==
  /\ PitrTypeOK /\ walEnd # 0 /\ RecoveredAsAsked /\ AloneIfOwn
  /\ \A r \in Restores \ overlapped : StagedIsOwn(r)

LEMMA RowMoves ==
  ASSUME PitrTypeOK, NEW r \in Restores, NEW at \in Steps \cup {"none", "stage", "ok", "failed"}, RestoreTo(r, at)
  PROVE  /\ restores' \in [Restores -> RestoreRows]
         /\ \A s \in Restores : s # r => restores'[s] = restores[s]
         /\ restores'[r].at = at /\ restores'[r].base = restores[r].base /\ restores'[r].target = restores[r].target
BY DEF PitrTypeOK, RestoreTo, RestoreRows

LEMMA PitrStarts == PitrInit => PitrInv
<1> SUFFICES ASSUME PitrInit PROVE PitrInv
  OBVIOUS
<1>1. NoInstance \in Instance
  BY PitrRestoreAssumption DEF NoInstance, Instance, Positions
<1>2. NoRestore \in RestoreRows /\ NoRestore.at = "none"
  BY <1>1, PitrRestoreAssumption DEF NoRestore, RestoreRows, Positions
<1>3. PitrTypeOK
  BY <1>1, <1>2, PitrRestoreAssumption DEF PitrInit, PitrTypeOK, RestoreRows, NoStaging, Positions
<1> QED
  BY <1>2, <1>3 DEF PitrInit, PitrInv, RecoveredAsAsked, RestoreAt, AloneIfOwn, InProgress, StagedIsOwn, Steps

\* A step that moves one restore, not to an answer, keeps the answers; it keeps the others'
\* part of the invariant, since they are not alone beside it.
LEMMA OneMoves ==
  ASSUME PitrInv, NEW r \in Restores, InProgress(r), PitrTypeOK', UNCHANGED overlapped,
         UNCHANGED walEnd, \A s \in Restores : s # r => restores'[s] = restores[s],
         RestoreAt(r, "ok")' /\ r \notin overlapped =>
           restores'[r].got.base = restores'[r].base /\ restores'[r].target \in {0, restores'[r].got.reached},
         r \notin overlapped => StagedIsOwn(r)'
  PROVE  PitrInv'
<1>1. RecoveredAsAsked'
  BY DEF PitrInv, RecoveredAsAsked, RestoreAt
<1>2. \A s \in Restores : InProgress(s)' => InProgress(s)
  BY DEF InProgress
<1>3. AloneIfOwn'
  BY <1>2 DEF PitrInv, AloneIfOwn
<1>4. ASSUME NEW s \in Restores, s \notin overlapped, s # r PROVE StagedIsOwn(s)'
  <2>1. ~InProgress(s)
    BY <1>4 DEF PitrInv, AloneIfOwn
  <2> QED
    BY <1>4, <2>1 DEF StagedIsOwn, InProgress, Steps
<1> QED
  BY <1>1, <1>3, <1>4 DEF PitrInv

LEMMA PitrBegins ==
  ASSUME PitrInv, NEW r \in Restores, RestoreToInstance(r)
  PROVE  PitrInv'
<1>0. PitrTypeOK
  BY DEF PitrInv
<1>1. PICK b \in bases, t \in Positions :
        restores' = [restores EXCEPT ![r] = [NoRestore EXCEPT !.at = "stage", !.base = b, !.target = t]]
  BY DEF RestoreToInstance
<1>2. restores[r] = NoRestore /\ UNCHANGED <<asRoot, walEnd, bases, staged, instance, restoreFaults>>
  BY DEF RestoreToInstance
<1> DEFINE request == [NoRestore EXCEPT !.at = "stage", !.base = b, !.target = t]
<1>3. request \in RestoreRows /\ request.at = "stage" /\ restores[r].at = "none"
  <2>1. NoInstance \in Instance
    BY PitrRestoreAssumption DEF NoInstance, Instance, Positions
  <2>2. NoRestore \in RestoreRows /\ NoRestore.at = "none"
    BY <2>1, PitrRestoreAssumption DEF NoRestore, RestoreRows, Positions
  <2>3. b \in Positions
    BY <1>0 DEF PitrTypeOK
  <2> QED
    BY <1>2, <2>2, <2>3 DEF RestoreRows
<1>4. /\ restores' \in [Restores -> RestoreRows]
      /\ restores'[r].at = "stage"
      /\ \A s \in Restores : s # r => restores'[s] = restores[s]
  BY <1>0, <1>1, <1>3 DEF PitrTypeOK, RestoreRows
<1> HIDE DEF request
<1>5. overlapped \subseteq overlapped' /\ overlapped' \subseteq Restores
  BY <1>0 DEF RestoreToInstance, PitrTypeOK
<1>6. PitrTypeOK'
  BY <1>0, <1>2, <1>4, <1>5 DEF PitrTypeOK, RestoreRows
<1>7. RecoveredAsAsked'
  BY <1>4, <1>5 DEF PitrInv, RecoveredAsAsked, RestoreAt
<1>8. AloneIfOwn'
  <2>1. ~InProgress(r)
    BY <1>3 DEF InProgress, Steps
  <2>2. CASE \E s \in Restores : InProgress(s)
    <3>1. overlapped' = overlapped \cup {r} \cup {s \in Restores : InProgress(s)}
      BY <2>2 DEF RestoreToInstance
    <3> QED
      BY <1>4, <3>1 DEF AloneIfOwn, InProgress
  <2>3. CASE ~(\E s \in Restores : InProgress(s))
    BY <1>4, <2>3 DEF AloneIfOwn, InProgress
  <2> QED
    BY <2>2, <2>3
<1>9. ASSUME NEW s \in Restores, s \notin overlapped' PROVE StagedIsOwn(s)'
  <2>1. CASE s = r
    BY <1>4, <2>1 DEF StagedIsOwn
  <2>2. CASE s # r
    BY <1>2, <1>4, <1>5, <1>9, <2>2 DEF PitrInv, StagedIsOwn
  <2> QED
    BY <2>1, <2>2
<1> QED
  BY <1>2, <1>6, <1>7, <1>8, <1>9 DEF PitrInv

LEMMA PitrStages ==
  ASSUME PitrInv, NEW r \in Restores,
         StageFresh(r) \/ RestoreBundle(r) \/ StageWal(r) \/ WriteRecovery(r) \/ ChownDir(r)
  PROVE  PitrInv'
<1>0. PitrTypeOK /\ (r \notin overlapped => StagedIsOwn(r))
  BY DEF PitrInv
<1> DEFINE Staging == [base : Positions, wal : Positions, target : Positions, owner : {"plane", "postgres"}]
<1>1. PICK at \in Steps \cup {"none", "stage", "ok", "failed"} : RestoreTo(r, at) /\ at # "ok" /\ at \notin {"run", "poll"}
  BY DEF StageFresh, RestoreBundle, StageWal, WriteRecovery, ChownDir, Steps
<1>2. InProgress(r) /\ UNCHANGED <<asRoot, walEnd, bases, instance, overlapped, restoreFaults>>
  BY DEF StageFresh, RestoreBundle, StageWal, WriteRecovery, ChownDir, InProgress, RestoreAt, Steps
<1>3. /\ restores' \in [Restores -> RestoreRows]
      /\ \A s \in Restores : s # r => restores'[s] = restores[s]
      /\ restores'[r].at = at /\ restores'[r].base = restores[r].base /\ restores'[r].target = restores[r].target
  BY <1>0, <1>1, RowMoves
<1>4. restores[r].base \in Positions /\ restores[r].target \in Positions /\ walEnd \in Positions /\ staged \in Staging
  BY <1>0 DEF PitrTypeOK
<1>5. staged' \in Staging
  <2>1. NoStaging \in Staging
    BY PitrRestoreAssumption DEF NoStaging, Positions
  <2> QED
    BY <1>4, <2>1 DEF StageFresh, RestoreBundle, StageWal, WriteRecovery, ChownDir
<1>6. PitrTypeOK'
  BY <1>0, <1>2, <1>3, <1>5 DEF PitrTypeOK, RestoreRows
<1>7. StagedIsOwn(r) => StagedIsOwn(r)'
  <2>1. CASE StageFresh(r)
    BY <1>0, <1>3, <2>1 DEF StageFresh, RestoreTo, StagedIsOwn, PitrTypeOK
  <2>2. CASE RestoreBundle(r)
    BY <1>0, <1>3, <1>4, <2>2 DEF RestoreBundle, RestoreTo, StagedIsOwn, PitrTypeOK
  <2>3. CASE StageWal(r)
    BY <1>0, <1>3, <1>4, <2>3 DEF StageWal, RestoreAt, RestoreTo, StagedIsOwn, PitrTypeOK
  <2>4. CASE WriteRecovery(r)
    BY <1>0, <1>3, <1>4, <2>4 DEF WriteRecovery, RestoreAt, RestoreTo, StagedIsOwn, PitrTypeOK
  <2>5. CASE ChownDir(r)
    BY <1>0, <1>3, <1>4, <2>5 DEF ChownDir, RestoreAt, RestoreTo, StagedIsOwn, PitrTypeOK
  <2> QED
    BY <2>1, <2>2, <2>3, <2>4, <2>5
<1>8. ~RestoreAt(r, "ok")'
  BY <1>1, <1>3 DEF RestoreAt
<1> QED
  BY <1>0, <1>2, <1>3, <1>6, <1>7, <1>8, OneMoves

LEMMA PitrRuns ==
  ASSUME PitrInv, NEW r \in Restores, RemoveStale(r) \/ RunInstance(r) \/ CommandFails(r)
  PROVE  PitrInv'
<1>0. PitrTypeOK /\ (r \notin overlapped => StagedIsOwn(r))
  BY DEF PitrInv
<1>1. PICK at \in Steps \cup {"none", "stage", "ok", "failed"} : RestoreTo(r, at) /\ at \in {"failed", "run", "poll"}
  BY DEF RemoveStale, RunInstance, CommandFails, Steps
<1>2. InProgress(r) /\ UNCHANGED <<asRoot, walEnd, bases, staged, overlapped>>
  BY DEF RemoveStale, RunInstance, CommandFails, InProgress, RestoreAt, Steps
<1>3. /\ restores' \in [Restores -> RestoreRows]
      /\ \A s \in Restores : s # r => restores'[s] = restores[s]
      /\ restores'[r].at = at /\ restores'[r].base = restores[r].base /\ restores'[r].target = restores[r].target
  BY <1>0, <1>1, RowMoves
<1>4. instance' \in Instance
  <2>1. NoInstance \in Instance
    BY PitrRestoreAssumption DEF NoInstance, Instance, Positions
  <2>2. instance \in Instance /\ staged.base \in Positions
    BY <1>0 DEF PitrTypeOK
  <2>3. [state |-> "replaying", base |-> staged.base, reached |-> staged.base] \in Instance
    BY <2>2 DEF Instance
  <2> QED
    BY <2>1, <2>2, <2>3 DEF RemoveStale, RunInstance, CommandFails
<1>5. restoreFaults' \in 0..MaxRestoreFaults
  BY <1>0, PitrRestoreAssumption DEF RemoveStale, RunInstance, CommandFails, PitrTypeOK
<1>6. PitrTypeOK'
  BY <1>0, <1>2, <1>3, <1>4, <1>5 DEF PitrTypeOK, RestoreRows
<1>7. StagedIsOwn(r) => StagedIsOwn(r)'
  <2>1. CASE RemoveStale(r)
    <3>1. restores[r].at = "remove" /\ at = "run" /\ staged' = staged
      BY <1>0, <1>3, <2>1 DEF RemoveStale, RestoreAt, RestoreTo, PitrTypeOK
    <3> QED
      BY <1>3, <3>1 DEF StagedIsOwn
  <2>2. CASE RunInstance(r)
    <3>1. restores[r].at = "run" /\ staged' = staged
      BY <2>2 DEF RunInstance, RestoreAt
    <3>2. at = "poll" => instance' = [state |-> "replaying", base |-> staged.base, reached |-> staged.base]
      BY <1>0, <1>1, <1>3, <2>2 DEF RunInstance, RestoreTo, PitrTypeOK
    <3>3. at = "poll" => instance'.base = staged.base /\ instance'.state = "replaying"
      BY <3>2
    <3> QED
      BY <1>3, <3>1, <3>3 DEF StagedIsOwn
  <2>3. CASE CommandFails(r)
    <3>1. at = "failed"
      BY <1>0, <1>3, <2>3 DEF CommandFails, RestoreTo, PitrTypeOK
    <3> QED
      BY <1>3, <3>1 DEF StagedIsOwn
  <2> QED
    BY <2>1, <2>2, <2>3
<1>8. ~RestoreAt(r, "ok")'
  BY <1>1, <1>3 DEF RestoreAt
<1> QED
  BY <1>0, <1>2, <1>3, <1>6, <1>7, <1>8, OneMoves

LEMMA PitrPolls ==
  ASSUME PitrInv, NEW r \in Restores, PollRecovered(r)
  PROVE  PitrInv'
<1>0. PitrTypeOK /\ (r \notin overlapped => StagedIsOwn(r)) /\ instance \in Instance
  BY DEF PitrInv, PitrTypeOK
<1>1. /\ restores[r].at = "poll" /\ InProgress(r)
      /\ UNCHANGED <<asRoot, walEnd, bases, staged, instance, overlapped, restoreFaults>>
  BY DEF PollRecovered, RestoreAt, InProgress, Steps
<1>2. CASE RestoreTo(r, "failed")
  <2>1. /\ restores' \in [Restores -> RestoreRows]
        /\ \A s \in Restores : s # r => restores'[s] = restores[s]
        /\ restores'[r].at = "failed"
    BY <1>0, <1>2, RowMoves
  <2>2. PitrTypeOK'
    BY <1>0, <1>1, <2>1 DEF PitrTypeOK, RestoreRows
  <2>3. StagedIsOwn(r)' /\ ~RestoreAt(r, "ok")'
    BY <2>1 DEF StagedIsOwn, RestoreAt
  <2> QED
    BY <1>1, <2>1, <2>2, <2>3, OneMoves
<1>3. CASE instance.state = "promoted" /\ restores' = [restores EXCEPT ![r].at = "ok", ![r].got = instance]
  <2>1. /\ restores' \in [Restores -> RestoreRows]
        /\ \A s \in Restores : s # r => restores'[s] = restores[s]
        /\ restores'[r].at = "ok" /\ restores'[r].got = instance
        /\ restores'[r].base = restores[r].base /\ restores'[r].target = restores[r].target
    BY <1>0, <1>3 DEF PitrTypeOK, RestoreRows
  <2>2. PitrTypeOK'
    BY <1>0, <1>1, <2>1 DEF PitrTypeOK, RestoreRows
  <2>3. StagedIsOwn(r)'
    BY <2>1 DEF StagedIsOwn
  <2>4. r \notin overlapped =>
          restores'[r].got.base = restores'[r].base /\ restores'[r].target \in {0, restores'[r].got.reached}
    BY <1>0, <1>1, <1>3, <2>1 DEF StagedIsOwn
  <2> QED
    BY <1>1, <2>1, <2>2, <2>3, <2>4, OneMoves
<1> QED
  BY <1>2, <1>3 DEF PollRecovered

\* Postgres promotes at what is staged, which is the restore's that polls, if it is alone.
LEMMA PitrReplays ==
  ASSUME PitrInv, PostgresReplays
  PROVE  PitrInv'
<1>0. PitrTypeOK /\ instance \in Instance
  BY DEF PitrInv, PitrTypeOK
<1>1. instance.state = "replaying" /\ UNCHANGED <<asRoot, walEnd, bases, restores, staged, overlapped, restoreFaults>>
  BY DEF PostgresReplays
<1>2. PICK goal \in Positions :
        /\ staged.target # 0 => goal = staged.target
        /\ \/ instance' = [instance EXCEPT !.state = "promoted", !.reached = goal]
           \/ instance' = [instance EXCEPT !.state = "exited"]
  <2>1. staged.wal \in Positions /\ staged.target \in Positions
    BY <1>0 DEF PitrTypeOK
  <2> QED
    BY <2>1 DEF PostgresReplays
<1>3. /\ instance' \in Instance /\ instance'.base = instance.base
      /\ instance'.state = "promoted" => instance'.reached = goal
  BY <1>0, <1>2 DEF Instance
<1>4. PitrTypeOK'
  BY <1>0, <1>1, <1>3 DEF PitrTypeOK
<1>5. RecoveredAsAsked' /\ AloneIfOwn'
  BY <1>1 DEF PitrInv, RecoveredAsAsked, RestoreAt, AloneIfOwn, InProgress
<1>6. ASSUME NEW r \in Restores, r \notin overlapped PROVE StagedIsOwn(r)'
  <2>1. StagedIsOwn(r)
    BY <1>6 DEF PitrInv
  <2> QED
    BY <1>1, <1>2, <1>3, <2>1 DEF StagedIsOwn
<1> QED
  BY <1>1, <1>4, <1>5, <1>6 DEF PitrInv

LEMMA PitrAround ==
  ASSUME PitrInv, ArchiveGrows \/ BaseBackupTaken \/ UNCHANGED pitrVars
  PROVE  PitrInv'
<1>1. UNCHANGED <<restores, staged, instance, overlapped>> /\ walEnd' # 0
  BY PitrRestoreAssumption DEF PitrInv, PitrTypeOK, Positions, ArchiveGrows, BaseBackupTaken, pitrVars
<1>2. PitrTypeOK'
  <2>1. PitrTypeOK /\ walEnd # 0
    BY DEF PitrInv
  <2>2. CASE ArchiveGrows
    BY <2>1, <2>2, PitrRestoreAssumption DEF ArchiveGrows, PitrTypeOK, Positions
  <2>3. CASE BaseBackupTaken
    BY <2>1, <2>3 DEF BaseBackupTaken, PitrTypeOK, Positions
  <2>4. CASE UNCHANGED pitrVars
    BY <2>1, <2>4 DEF pitrVars, PitrTypeOK
  <2> QED
    BY <2>2, <2>3, <2>4
<1> QED
  BY <1>1, <1>2 DEF PitrInv, RecoveredAsAsked, RestoreAt, AloneIfOwn, InProgress, StagedIsOwn

LEMMA PitrDies ==
  ASSUME PitrInv, PlaneDiesRestoring
  PROVE  PitrInv'
<1>0. PitrTypeOK
  BY DEF PitrInv
<1>1. UNCHANGED <<asRoot, walEnd, bases, staged, instance, overlapped>> /\ restoreFaults' \in 0..MaxRestoreFaults
  BY <1>0, PitrRestoreAssumption DEF PlaneDiesRestoring, PitrTypeOK
<1>2. \A r \in Restores :
        /\ restores'[r] \in RestoreRows
        /\ ~InProgress(r)'
        /\ restores'[r].at = "failed" \/ restores'[r] = restores[r]
  <2> TAKE r \in Restores
  <2>1. restores[r] \in RestoreRows
    BY <1>0 DEF PitrTypeOK, RestoreRows
  <2>2. [restores[r] EXCEPT !.at = "failed"] \in RestoreRows /\ [restores[r] EXCEPT !.at = "failed"].at = "failed"
    BY <2>1 DEF RestoreRows
  <2>3. restores'[r] = IF InProgress(r) THEN [restores[r] EXCEPT !.at = "failed"] ELSE restores[r]
    BY DEF PlaneDiesRestoring
  <2> QED
    BY <2>1, <2>2, <2>3 DEF InProgress, Steps
<1>3. PitrTypeOK'
  <2>1. restores' \in [Restores -> RestoreRows]
    BY <1>2 DEF PlaneDiesRestoring
  <2> QED
    BY <1>0, <1>1, <2>1 DEF PitrTypeOK, RestoreRows
<1> QED
  BY <1>1, <1>2, <1>3 DEF PitrInv, RecoveredAsAsked, RestoreAt, AloneIfOwn, InProgress, StagedIsOwn, Steps

LEMMA PitrStep == PitrInv /\ [PitrNext]_pitrVars => PitrInv'
BY PitrBegins, PitrStages, PitrRuns, PitrPolls, PitrReplays, PitrAround, PitrDies DEF PitrNext

(***************************************************************************)
(* Both, in the run's module: the archive moves when it is in focus, and   *)
(* so do the restores.                                                     *)
(***************************************************************************)

LEMMA HostsArchive ==
  /\ HostsInit => WalInit /\ PitrInit
  /\ [HostsNext]_hostsVars => [WalNext]_walVars /\ [PitrNext]_pitrVars
BY DEF HostsInit, HostsNext, hostsVars, walVars, pitrVars

\* Whatever drain stops halfway, whenever the control plane dies, no segment that the server
\* completed since there is a slot is lost; the LSN that a row has from a drain whose every
\* command succeeded is one the archive reaches; and a restore that answers that it recovered
\* and was alone answers of its own base and target, whatever earlier ones left behind.
THEOREM ArchiveIsRestorable == HostsSpec => []ArchiveRestores
<1>1. WalInv /\ PitrInv => ArchiveRestores
  BY DEF WalInv, WalRecorded, PitrInv, ArchiveRestores
<1> QED
  BY <1>1, WalStarts, PitrStarts, HostsArchive, WalStep, PitrStep, PTL DEF HostsSpec

LEMMA HostsMachines ==
  /\ HostsInit => ServersInit /\ InstallerInit /\ UpdatesCardInit /\ ConsoleInit
  /\ [HostsNext]_hostsVars => /\ [ServersNext]_serverVars
                              /\ [InstallerNext]_installerVars
                              /\ [UpdatesCardNext]_updatesCardVars
                              /\ [ConsoleNext]_consoleVars
BY DEF HostsInit, HostsNext, hostsVars, serverVars, poolVars, rowVars, installerVars, machineVars, updatesCardVars, consoleVars

\* Whatever steps of its transport, its bootstraps and its sweep interleave, a server that is
\* said to be ready was prepared by one bootstrap whose logins know of the docker group;
\* wherever a run of the installer is cut, the next one that reports success has installed, with
\* secrets and a release that are whole but for those whose own writing was cut; whatever
\* answers the updates card gets, and when, it announces what the updater has written since the
\* update was accepted, unless a poll was answered before its first line; and viewers come and
\* go without a shell that outlives them or that they do not all see.
THEOREM MachinesHoldUp == HostsSpec => []MachinesAreSound
<1>1. ServersInv /\ MachineInv /\ CardInv /\ ConsoleInv => MachinesAreSound
  BY ServersInvSuffices, MachineIsInstalled, CardSuffices, ConsoleSuffices DEF MachinesAreSound, ServerIsSound
<1> QED
  BY <1>1, ServersInitInv, MachineStarts, CardStarts, ConsoleStarts, HostsMachines,
     ServersStep, MachineStep, CardStep, ConsoleStep, PTL DEF HostsSpec

(***************************************************************************)
(* Fan-outs: nobody is left out.                                           *)
(***************************************************************************)
FanRow == [at : {"idle", "load", "next", "log", "done", "threw"}, todo : SUBSET Targets, to : Targets \cup {"none"}]

\* What a fan-out owes is sent, or is still to be sent or logged; before it has read its
\* targets, and of a target that is deleted, it owes nothing.
Accounted(e, t) ==
  \A x \in TargetsIn(t) : <<x, e>> \in owed =>
    \/ <<x, e>> \in sends
    \/ x \in fans[<<e, t>>].todo
    \/ fans[<<e, t>>].at = "log" /\ x = fans[<<e, t>>].to
    \/ fans[<<e, t>>].at = "threw"
FanSound(e, t) ==
  /\ emitted[e] = "none" => fans[<<e, t>>].at = "idle"
  /\ fans[<<e, t>>].at \in {"idle", "load", "done"} => fans[<<e, t>>].todo = {}
  /\ fans[<<e, t>>].at \in {"idle", "load"} => \A x \in TargetsIn(t) : <<x, e>> \notin owed
  /\ t = "hooks" => fans[<<e, t>>].at # "threw"
  /\ Accounted(e, t)
OwedExist == \A x \in Targets, e \in Events : <<x, e>> \in owed => Exists(x)
FansSound == \A e \in Events, t \in Tables : FanSound(e, t)

NotifyInv == NotifyTypeOK /\ FansSound /\ OwedExist

LEMMA FanAt ==
  ASSUME NotifyTypeOK, NEW e \in Events, NEW t \in Tables
  PROVE  /\ <<e, t>> \in Events \X Tables /\ fans[<<e, t>>] \in FanRow
         /\ fans[<<e, t>>].todo \subseteq Targets /\ fans[<<e, t>>].to \in Targets \cup {"none"}
         /\ TargetsIn(t) \subseteq Targets /\ emitted[e] \in Kinds \cup {"none"}
<1>1. <<e, t>> \in Events \X Tables
  OBVIOUS
<1>2. fans[<<e, t>>] \in FanRow
  BY <1>1 DEF NotifyTypeOK, FanRow
<1> QED
  BY <1>1, <1>2 DEF NotifyTypeOK, FanRow, TargetsIn, Targets

LEMMA NotifyStarts == NotifyInit => NotifyInv
<1> SUFFICES ASSUME NotifyInit PROVE NotifyInv
  OBVIOUS
<1>1. NotifyTypeOK
  BY NotifyAssumption DEF NotifyInit, NotifyTypeOK, NoFan, Targets, Events, Tables, Kinds, DeployKinds
<1>2. \A e \in Events, t \in Tables : fans[<<e, t>>] = NoFan
  BY DEF NotifyInit
<1>3. FansSound
  BY <1>2 DEF FansSound, FanSound, Accounted, NoFan, NotifyInit
<1> QED
  BY <1>1, <1>3 DEF NotifyInv, OwedExist, NotifyInit

\* One fan-out moves; the others see what is sent and owed grow by rows of this one.
LEMMA FanMoves ==
  ASSUME NotifyInv, NEW e \in Events, NEW t \in Tables, NEW place \in FanRow,
         fans' = [fans EXCEPT ![<<e, t>>] = place], UNCHANGED <<hooks, channels, subs, creating, emitted>>,
         sends' \subseteq Targets \X (0..MaxNotices), sends \subseteq sends', owed' \subseteq Targets \X Events,
         \A x \in Targets, d \in Events : <<x, d>> \in owed' /\ <<x, d>> \notin owed => d = e /\ x \in TargetsIn(t) /\ Exists(x),
         FanSound(e, t)'
  PROVE  NotifyInv'
<1>0. NotifyTypeOK /\ FansSound /\ OwedExist
  BY DEF NotifyInv
<1>1. fans \in [Events \X Tables -> FanRow]
  BY <1>0 DEF NotifyTypeOK, FanRow
<1>2. <<e, t>> \in Events \X Tables
  OBVIOUS
<1>3. fans' \in [Events \X Tables -> FanRow]
  BY <1>1, <1>2
<1>4. NotifyTypeOK'
  BY <1>0, <1>3 DEF NotifyTypeOK, FanRow
<1>5. OwedExist'
  BY <1>0 DEF OwedExist, Exists
<1>6. ASSUME NEW d \in Events, NEW u \in Tables, <<d, u>> # <<e, t>> PROVE FanSound(d, u)'
  <2>1. <<d, u>> \in Events \X Tables
    OBVIOUS
  <2>2. fans'[<<d, u>>] = fans[<<d, u>>]
    BY <1>1, <1>2, <1>6, <2>1
  <2>3. \A x \in TargetsIn(u) : x \in Targets /\ (<<x, d>> \in owed' => <<x, d>> \in owed)
    BY <1>6, NotifyAssumption DEF TargetsIn, Targets, Tables
  <2>4. FanSound(d, u)
    BY <1>0 DEF FansSound
  <2> QED
    BY <2>2, <2>3, <2>4 DEF FanSound, Accounted, TargetsIn
<1>7. FansSound'
  BY <1>6 DEF FansSound
<1> QED
  BY <1>4, <1>5, <1>7 DEF NotifyInv

LEMMA TargetsChange ==
  ASSUME NotifyInv,
         \/ \E h \in HookIds : CreateOutboundWebhook(h) \/ DeleteOutboundWebhook(h)
         \/ \E c \in ChannelIds : CreateChannel(c) \/ SubscribeChannel(c) \/ DeleteChannel(c) \/ TestChannel(c)
  PROVE  NotifyInv'
<1>0. NotifyTypeOK /\ FansSound /\ OwedExist
  BY DEF NotifyInv
<1>1. fans' = fans /\ emitted' = emitted
  BY DEF CreateOutboundWebhook, DeleteOutboundWebhook, CreateChannel, SubscribeChannel, DeleteChannel, TestChannel
<1>2. ASSUME NEW h \in HookIds, CreateOutboundWebhook(h) PROVE NotifyTypeOK'
  <2>1. hooks' \in [HookIds -> SUBSET Kinds]
    BY <1>0, <1>2 DEF CreateOutboundWebhook, NotifyTypeOK, Kinds
  <2> QED
    BY <1>0, <1>1, <1>2, <2>1 DEF CreateOutboundWebhook, NotifyTypeOK
<1>3. ASSUME NEW h \in HookIds, DeleteOutboundWebhook(h) PROVE NotifyTypeOK'
  BY <1>0, <1>1, <1>3 DEF DeleteOutboundWebhook, NotifyTypeOK
<1>4. ASSUME NEW c \in ChannelIds, CreateChannel(c) PROVE NotifyTypeOK'
  <2>1. creating' \in [ChannelIds -> SUBSET DeployKinds]
    BY <1>0, <1>4 DEF CreateChannel, NotifyTypeOK, Kinds, DeployKinds
  <2> QED
    BY <1>0, <1>1, <1>4, <2>1 DEF CreateChannel, NotifyTypeOK
<1>5. ASSUME NEW c \in ChannelIds, SubscribeChannel(c) PROVE NotifyTypeOK'
  <2>1. creating' \in [ChannelIds -> SUBSET DeployKinds] /\ subs' \subseteq channels \X DeployKinds
    BY <1>0, <1>5 DEF SubscribeChannel, NotifyTypeOK
  <2> QED
    BY <1>0, <1>1, <1>5, <2>1 DEF SubscribeChannel, NotifyTypeOK
<1>6. ASSUME NEW c \in ChannelIds, DeleteChannel(c) PROVE NotifyTypeOK'
  <2>1. subs' \subseteq channels' \X DeployKinds
    BY <1>0, <1>6 DEF DeleteChannel, NotifyTypeOK
  <2> QED
    BY <1>0, <1>1, <1>6, <2>1 DEF DeleteChannel, NotifyTypeOK
<1>7. ASSUME NEW c \in ChannelIds, TestChannel(c) PROVE NotifyTypeOK'
  BY <1>0, <1>1, <1>7, NotifyAssumption DEF TestChannel, NotifyTypeOK, Targets
<1> DEFINE Kept == /\ owed' \subseteq owed
                   /\ \A x \in Targets, e \in Events :
                        <<x, e>> \in owed' => (<<x, e>> \in sends => <<x, e>> \in sends') /\ Exists(x)'
<1>8. Kept
  <2>1. ASSUME NEW h \in HookIds, CreateOutboundWebhook(h) PROVE Kept
    BY <1>0, <2>1 DEF CreateOutboundWebhook, OwedExist, Exists, NotifyTypeOK
  <2>2. ASSUME NEW h \in HookIds, DeleteOutboundWebhook(h) PROVE Kept
    BY <1>0, <2>2 DEF DeleteOutboundWebhook, OwedExist, Exists, NotifyTypeOK
  <2>3. ASSUME NEW c \in ChannelIds, CreateChannel(c) PROVE Kept
    BY <1>0, <2>3 DEF CreateChannel, OwedExist, Exists
  <2>4. ASSUME NEW c \in ChannelIds, SubscribeChannel(c) \/ TestChannel(c) PROVE Kept
    BY <1>0, <2>4 DEF SubscribeChannel, TestChannel, OwedExist, Exists
  <2>5. ASSUME NEW c \in ChannelIds, DeleteChannel(c) PROVE Kept
    BY <1>0, <2>5 DEF DeleteChannel, OwedExist, Exists
  <2> QED
    BY <2>1, <2>2, <2>3, <2>4, <2>5
<1>9. FansSound'
  <2> SUFFICES ASSUME NEW e \in Events, NEW t \in Tables PROVE FanSound(e, t)'
    BY DEF FansSound
  <2>1. FanSound(e, t) /\ TargetsIn(t) \subseteq Targets
    BY <1>0, FanAt DEF FansSound
  <2> QED
    BY <1>1, <1>8, <2>1 DEF FanSound, Accounted, TargetsIn
<1>10. OwedExist'
  BY <1>8 DEF OwedExist
<1> QED
  BY <1>2, <1>3, <1>4, <1>5, <1>6, <1>7, <1>9, <1>10 DEF NotifyInv

LEMMA EventEmitted ==
  ASSUME NotifyInv, NEW e \in Events, EmitEvent(e) PROVE NotifyInv'
<1>0. /\ fans \in [Events \X Tables -> FanRow] /\ emitted \in [Events -> Kinds \cup {"none"}]
      /\ NotifyTypeOK /\ FansSound /\ OwedExist
  BY DEF NotifyInv, NotifyTypeOK, FanRow
<1>1. PICK k \in Kinds :
        /\ emitted' = [emitted EXCEPT ![e] = k]
        /\ fans' = [f \in DOMAIN fans |->
             IF f[1] = e /\ (f[2] = "hooks" \/ k \in DeployKinds) THEN [fans[f] EXCEPT !.at = "load"] ELSE fans[f]]
  BY DEF EmitEvent
<1>2. UNCHANGED <<hooks, channels, subs, creating, sends, owed>> /\ emitted[e] = "none"
  BY DEF EmitEvent
<1>3. ASSUME NEW d \in Events, NEW t \in Tables
      PROVE  /\ fans'[<<d, t>>] \in FanRow
             /\ \/ fans'[<<d, t>>] = fans[<<d, t>>]
                \/ d = e /\ fans'[<<d, t>>].at = "load" /\ fans'[<<d, t>>].todo = fans[<<d, t>>].todo
  <2>1. fans[<<d, t>>] \in FanRow /\ <<d, t>> \in DOMAIN fans /\ <<d, t>>[1] = d
    BY <1>0
  <2>2. [fans[<<d, t>>] EXCEPT !.at = "load"] \in FanRow /\ [fans[<<d, t>>] EXCEPT !.at = "load"].at = "load"
        /\ [fans[<<d, t>>] EXCEPT !.at = "load"].todo = fans[<<d, t>>].todo
    BY <2>1 DEF FanRow
  <2>3. fans'[<<d, t>>] = fans[<<d, t>>] \/ (d = e /\ fans'[<<d, t>>] = [fans[<<d, t>>] EXCEPT !.at = "load"])
    BY <1>1, <2>1
  <2> QED
    BY <2>1, <2>2, <2>3
<1>4. NotifyTypeOK'
  <2>1. fans' = [f \in Events \X Tables |-> fans'[f]]
    BY <1>0, <1>1
  <2>2. \A f \in Events \X Tables : fans'[f] \in FanRow
    BY <1>3
  <2>3. fans' \in [Events \X Tables -> FanRow] /\ emitted' \in [Events -> Kinds \cup {"none"}]
    BY <1>0, <1>1, <2>1, <2>2
  <2> QED
    BY <1>0, <1>2, <2>3 DEF NotifyTypeOK, FanRow
<1>5. FansSound'
  <2> SUFFICES ASSUME NEW d \in Events, NEW t \in Tables PROVE FanSound(d, t)'
    BY DEF FansSound
  <2>1. FanSound(d, t)
    BY <1>0 DEF FansSound
  <2>2. CASE d = e
    <3>1. fans[<<d, t>>].at = "idle" /\ emitted'[d] # "none" /\ \A x \in TargetsIn(t) : <<x, d>> \notin owed
      BY <1>0, <1>1, <1>2, <2>1, <2>2 DEF FanSound, Kinds
    <3> QED
      BY <1>2, <1>3, <2>1, <3>1 DEF FanSound, Accounted, TargetsIn
  <2>3. CASE d # e
    <3>1. fans'[<<d, t>>] = fans[<<d, t>>] /\ emitted'[d] = emitted[d]
      BY <1>0, <1>1, <1>3, <2>3
    <3> QED
      BY <1>2, <2>1, <3>1 DEF FanSound, Accounted, TargetsIn
  <2> QED
    BY <2>2, <2>3
<1> QED
  BY <1>0, <1>2, <1>4, <1>5 DEF NotifyInv, OwedExist, Exists

LEMMA FanStepKeeps ==
  ASSUME NotifyInv, NEW e \in Events, NEW t \in Tables, FanStep(e, t) \/ DeploymentGone(e, t) PROVE NotifyInv'
<1>0. /\ <<e, t>> \in Events \X Tables /\ fans[<<e, t>>] \in FanRow /\ emitted[e] \in Kinds \cup {"none"}
      /\ fans \in [Events \X Tables -> FanRow] /\ FanSound(e, t) /\ TargetsIn(t) \subseteq Targets
      /\ NotifyTypeOK /\ sends \subseteq Targets \X (0..MaxNotices) /\ owed \subseteq Targets \X Events
  BY FanAt DEF NotifyInv, NotifyTypeOK, FanRow, FansSound
<1> DEFINE fan == fans[<<e, t>>]
<1>1. CASE LoadTargets(e, t)
  <2> DEFINE to == IF t = "hooks" THEN MatchesEvent(emitted[e]) ELSE Subscribed(emitted[e])
             place == [fan EXCEPT !.at = "next", !.todo = to]
  <2>1. to \subseteq TargetsIn(t) /\ \A x \in to : Exists(x)
    <3>1. CASE t = "hooks"
      BY <1>0, <3>1 DEF MatchesEvent, TargetsIn, Exists
    <3>2. CASE t # "hooks"
      BY <1>0, <3>2, NotifyAssumption DEF Subscribed, TargetsIn, Exists, NotifyTypeOK
    <3> QED
      BY <3>1, <3>2
  <2>2. /\ fans' = [fans EXCEPT ![<<e, t>>].at = "next", ![<<e, t>>].todo = to] /\ fan.at = "load"
        /\ owed' = owed \cup {<<x, e>> : x \in to}
        /\ UNCHANGED <<hooks, channels, subs, creating, emitted, sends>>
    BY <1>1 DEF LoadTargets
  <2> HIDE DEF to
  <2>3. fans' = [fans EXCEPT ![<<e, t>>] = place]
    BY <1>0, <2>2
  <2>4. place \in FanRow /\ place.at = "next" /\ place.todo = to
    BY <1>0, <2>1 DEF FanRow
  <2> HIDE DEF place
  <2>5. fans'[<<e, t>>] = place
    BY <1>0, <2>3
  <2>6. owed' \subseteq Targets \X Events
    BY <1>0, <2>1, <2>2
  <2>7. \A x \in TargetsIn(t) : <<x, e>> \in owed' => x \in to
    BY <1>0, <2>2 DEF FanSound
  <2>8. FanSound(e, t)'
    BY <1>0, <2>2, <2>4, <2>5, <2>7 DEF FanSound, Accounted, TargetsIn
  <2>9. \A x \in Targets, d \in Events : <<x, d>> \in owed' /\ <<x, d>> \notin owed => d = e /\ x \in TargetsIn(t) /\ Exists(x)
    BY <2>1, <2>2
  <2> QED
    BY <1>0, <2>2, <2>3, <2>4, <2>6, <2>8, <2>9, FanMoves
<1>2. CASE SendOne(e, t)
  <2>1. PICK to \in fan.todo : fans' = [fans EXCEPT ![<<e, t>>] = [at |-> "log", todo |-> @.todo \ {to}, to |-> to]]
    BY <1>0, <1>2 DEF SendOne
  <2> DEFINE place == [at |-> "log", todo |-> fan.todo \ {to}, to |-> to]
  <2>2. fans' = [fans EXCEPT ![<<e, t>>] = place]
    BY <1>0, <2>1
  <2>3. place \in FanRow /\ place.at = "log" /\ place.todo = fan.todo \ {to} /\ place.to = to
    BY <1>0, <2>1 DEF FanRow
  <2> HIDE DEF place
  <2>4. fans'[<<e, t>>] = place
    BY <1>0, <2>2
  <2>5. UNCHANGED <<hooks, channels, subs, creating, emitted, sends, owed>> /\ fan.at = "next"
    BY <1>2 DEF SendOne
  <2>6. FanSound(e, t)'
    BY <1>0, <2>3, <2>4, <2>5 DEF FanSound, Accounted, TargetsIn
  <2> QED
    BY <1>0, <2>2, <2>3, <2>5, <2>6, FanMoves
<1>3. CASE FanEnds(e, t) \/ DeploymentGone(e, t)
  <2> DEFINE place == [fan EXCEPT !.at = "done"]
  <2>1. fans' = [fans EXCEPT ![<<e, t>>].at = "done"] /\ fan.at \in {"next", "load"} /\ fan.todo = {}
    BY <1>0, <1>3 DEF FanEnds, DeploymentGone, FanSound
  <2>2. fans' = [fans EXCEPT ![<<e, t>>] = place]
    BY <1>0, <2>1
  <2>3. place \in FanRow /\ place.at = "done" /\ place.todo = {}
    BY <1>0, <2>1 DEF FanRow
  <2> HIDE DEF place
  <2>4. fans'[<<e, t>>] = place
    BY <1>0, <2>2
  <2>5. UNCHANGED <<hooks, channels, subs, creating, emitted, sends, owed>>
    BY <1>3 DEF FanEnds, DeploymentGone
  <2>6. FanSound(e, t)'
    BY <1>0, <2>1, <2>3, <2>4, <2>5 DEF FanSound, Accounted, TargetsIn
  <2> QED
    BY <1>0, <2>2, <2>3, <2>5, <2>6, FanMoves
<1> QED
  BY <1>1, <1>2, <1>3 DEF FanStep

LEMMA OneIsLogged ==
  ASSUME NotifyInv, NEW e \in Events, LogHook(e) \/ LogChannel(e) PROVE NotifyInv'
<1>1. PICK t \in Tables, then \in {"next", "threw"} :
        /\ t = "hooks" => then = "next"
        /\ Logged(e, t) \/ NotLogged(e, t, then)
  BY DEF LogHook, LogChannel, Tables
<1>0. /\ <<e, t>> \in Events \X Tables /\ fans[<<e, t>>] \in FanRow /\ emitted[e] \in Kinds \cup {"none"}
      /\ fans \in [Events \X Tables -> FanRow] /\ FanSound(e, t) /\ TargetsIn(t) \subseteq Targets
      /\ NotifyTypeOK /\ OwedExist /\ sends \subseteq Targets \X (0..MaxNotices) /\ owed \subseteq Targets \X Events
  BY FanAt DEF NotifyInv, NotifyTypeOK, FanRow, FansSound
<1> DEFINE fan == fans[<<e, t>>]
<1>2. PICK at \in {"next", then} :
        /\ fans' = [fans EXCEPT ![<<e, t>>].at = at] /\ fan.at = "log"
        /\ \/ Exists(fan.to) /\ sends' = sends \cup {<<fan.to, e>>}
           \/ ~Exists(fan.to) /\ sends' = sends
  BY <1>1 DEF Logged, NotLogged
<1> DEFINE place == [fan EXCEPT !.at = at]
<1>3. fans' = [fans EXCEPT ![<<e, t>>] = place]
  BY <1>0, <1>2
<1>4. place \in FanRow /\ place.at = at /\ place.todo = fan.todo
  BY <1>0, <1>1 DEF FanRow
<1> HIDE DEF place
<1>5. fans'[<<e, t>>] = place
  BY <1>0, <1>3
<1>6. sends \subseteq sends' /\ sends' \subseteq Targets \X (0..MaxNotices)
  <2>1. CASE Exists(fan.to) /\ sends' = sends \cup {<<fan.to, e>>}
    <3>1. fan.to \in Targets
      BY <1>0, <2>1 DEF Exists, Targets, NotifyTypeOK
    <3>2. e \in 0..MaxNotices
      BY NotifyAssumption DEF Events
    <3> QED
      BY <1>0, <2>1, <3>1, <3>2
  <2>2. CASE sends' = sends
    BY <1>0, <2>2
  <2> QED
    BY <1>2, <2>1, <2>2
<1>7. UNCHANGED <<hooks, channels, subs, creating, emitted, owed>>
  BY DEF LogHook, LogChannel
<1>8. Accounted(e, t)'
  <2> SUFFICES ASSUME NEW x \in TargetsIn(t), <<x, e>> \in owed, at = "next" PROVE <<x, e>> \in sends' \/ x \in fan.todo
    BY <1>1, <1>4, <1>5, <1>7 DEF Accounted, TargetsIn
  <2>1. <<x, e>> \in sends \/ x \in fan.todo \/ x = fan.to
    BY <1>0, <1>2 DEF FanSound, Accounted
  <2>2. Exists(x)
    BY <1>0 DEF OwedExist
  <2> QED
    BY <1>2, <1>6, <2>1, <2>2
<1>9. FanSound(e, t)'
  BY <1>0, <1>1, <1>2, <1>4, <1>5, <1>7, <1>8 DEF FanSound
<1> QED
  BY <1>0, <1>3, <1>4, <1>6, <1>7, <1>9, FanMoves

LEMMA NoticesRestart == ASSUME NotifyInv, NotifyRestart PROVE NotifyInv'
<1>0. /\ fans \in [Events \X Tables -> FanRow] /\ NotifyTypeOK /\ FansSound /\ OwedExist
      /\ owed' \subseteq owed /\ UNCHANGED <<hooks, channels, subs, emitted, sends>>
  BY DEF NotifyInv, NotifyTypeOK, FanRow, NotifyRestart
<1>1. NoFan \in FanRow /\ NoFan.at = "idle" /\ NoFan.todo = {}
  BY DEF NoFan, FanRow
<1>2. \A f \in Events \X Tables : fans'[f] = IF fans[f].at \in {"done", "threw"} THEN fans[f] ELSE NoFan
  BY <1>0 DEF NotifyRestart
<1>3. fans' \in [Events \X Tables -> FanRow]
  BY <1>0, <1>1, <1>2 DEF NotifyRestart
<1>4. ASSUME NEW e \in Events, NEW t \in Tables PROVE FanSound(e, t)'
  <2>1. FanSound(e, t) /\ <<e, t>> \in Events \X Tables
    BY <1>0 DEF FansSound
  <2>2. CASE fans[<<e, t>>].at \in {"done", "threw"}
    BY <1>0, <1>2, <2>1, <2>2 DEF FanSound, Accounted, TargetsIn
  <2>3. CASE fans[<<e, t>>].at \notin {"done", "threw"}
    <3>1. fans'[<<e, t>>] = NoFan
      BY <1>2, <2>1, <2>3
    <3>2. \A x \in TargetsIn(t) : <<x, e>> \notin owed'
      <4> SUFFICES ASSUME NEW x \in TargetsIn(t), <<x, e>> \in owed' PROVE FALSE
        OBVIOUS
      <4>1. PICK u \in Tables : x \in TargetsIn(u) /\ fans[<<e, u>>].at = "done"
        BY DEF NotifyRestart
      <4>2. u = t
        BY <4>1, NotifyAssumption DEF TargetsIn, Tables
      <4> QED
        BY <2>3, <4>1, <4>2
    <3> QED
      BY <1>1, <3>1, <3>2 DEF FanSound, Accounted, TargetsIn
  <2> QED
    BY <2>2, <2>3
<1>5. FansSound' /\ OwedExist'
  BY <1>0, <1>4 DEF FansSound, OwedExist, Exists
<1>6. NotifyTypeOK'
  BY <1>0, <1>3 DEF NotifyTypeOK, NotifyRestart, FanRow
<1> QED
  BY <1>5, <1>6 DEF NotifyInv

LEMMA NotifyStep == NotifyInv /\ [NotifyNext]_notifyVars => NotifyInv'
<1> SUFFICES ASSUME NotifyInv, [NotifyNext]_notifyVars PROVE NotifyInv'
  OBVIOUS
<1>1. CASE UNCHANGED notifyVars
  BY <1>1 DEF notifyVars, NotifyInv, NotifyTypeOK, FansSound, FanSound, Accounted, TargetsIn, OwedExist, Exists
<1> QED
  BY <1>1, TargetsChange, EventEmitted, OneIsLogged, FanStepKeeps, NoticesRestart DEF NotifyNext

LEMMA NoticesReach == NotifyInv => NotifyTypeOK /\ NobodyIsLeftOut
<1> SUFFICES ASSUME NotifyInv, NEW e \in Events, NEW t \in Tables
             PROVE  /\ fans[<<e, t>>].at = "done" => \A x \in TargetsIn(t) : <<x, e>> \in owed => <<x, e>> \in sends
                    /\ t = "hooks" => fans[<<e, t>>].at # "threw"
  BY DEF NotifyInv, NobodyIsLeftOut
<1>1. FanSound(e, t)
  BY DEF NotifyInv, FansSound
<1> QED
  BY <1>1 DEF FanSound, Accounted

(***************************************************************************)
(* Scheduled jobs: once a process has read the rows, each is registered,   *)
(* or is still to be, or its registration has failed.                      *)
(***************************************************************************)
Registering == {"unschedule", "schedule", "work"}

\* The entry and the worker of a row that neither a request nor the boot is at.
RowsCovered ==
  \A j \in Schedules : cronRow[j] = "enabled" /\ j \notin refused /\ bootAt # "reading" =>
    /\ syncAt[j] \in {"none", "work"} =>
         j \in entry \/ j \in bootRows \/ (j \in bootJob /\ bootAt \in {"unschedule", "schedule"})
    /\ syncAt[j] = "none" => j \in worker \/ j \in bootRows \/ (j \in bootJob /\ bootAt \in Registering)

\* A queue that is marked has its worker, unless the registration failed; the boot takes one
\* row at a time, the schedules first.
BootJobs ==
  /\ marked \subseteq worker \cup refused
  /\ bootAt = "booted" => bootRows = {}
  /\ bootAt \in Registering => \E j \in Cron : bootJob = {j} /\ (j \in Configs => bootRows \subseteq Configs)

CronInv == CronTypeOK /\ BootJobs /\ RowsCovered

LEMMA CronStarts == CronInit => CronInv
BY CronAssumption DEF CronInit, CronInv, CronTypeOK, BootJobs, RowsCovered, CronRow, SyncSteps, CronRunSteps, Registering

LEMMA DiesStep ==
  ASSUME CronInv, Volatile, due' \subseteq Cron, cronRow' = cronRow, entry' = entry, restarts' \in 0..MaxRestarts
  PROVE  CronInv'
BY DEF CronInv, CronTypeOK, BootJobs, RowsCovered, Volatile, SyncSteps, CronRunSteps, Registering

LEMMA RunsStep ==
  ASSUME CronInv, NEW j \in Cron, CronFires(j) \/ WorkerRuns(j) \/ InsertRun(j) \/ RecordRun(j) \/ RunNow(j)
  PROVE  CronInv'
<1>1. CronTypeOK'
  BY DEF CronInv, CronTypeOK, CronFires, WorkerRuns, InsertRun, RecordRun, RunNow, JobTo, CronRunSteps
<1>2. UNCHANGED <<cronRow, entry, worker, marked, syncAt, bootAt, bootRows, bootJob, refused>>
  BY DEF CronFires, WorkerRuns, InsertRun, RecordRun, RunNow
<1> QED
  BY <1>1, <1>2 DEF CronInv, BootJobs, RowsCovered

LEMMA ManualRuns == ASSUME CronInv, NEW j \in Cron, ManualStep(j) PROVE CronInv'
<1>1. CASE UNCHANGED <<cronRow, entry, worker, marked, syncAt, bootAt, bootRows, bootJob, refused, due, jobAt, restarts>>
  <2>1. manualAt' \in [Cron -> CronRunSteps]
    BY <1>1 DEF ManualStep, CronInv, CronTypeOK, CronRunSteps, Volatile
  <2> QED
    BY <1>1, <2>1 DEF CronInv, CronTypeOK, BootJobs, RowsCovered
<1>2. CASE /\ Volatile /\ due' = due \cup {k \in Cron : jobAt[k] # "idle"}
           /\ UNCHANGED <<cronRow, entry, restarts>>
  BY <1>2, DiesStep DEF CronInv, CronTypeOK
<1> QED
  BY <1>1, <1>2 DEF ManualStep

LEMMA CronDies == ASSUME CronInv, CronRestart PROVE CronInv'
<1>1. restarts' \in 0..MaxRestarts
  BY CronAssumption DEF CronInv, CronTypeOK, CronRestart
<1> QED
  BY <1>1, DiesStep DEF CronInv, CronTypeOK, CronRestart

LEMMA RequestsStep ==
  ASSUME CronInv, NEW j \in Cron, CreateCron(j) \/ SyncStep(j) \/ SyncFails(j) \/ DeleteCron(j) PROVE CronInv'
<1>0. CronTypeOK /\ BootJobs /\ RowsCovered
  BY DEF CronInv
<1>1. CASE CreateCron(j)
  <2>1. CronTypeOK'
    BY <1>0, <1>1 DEF CronTypeOK, CreateCron, CronRow, SyncSteps
  <2>2. RowsCovered'
    BY <1>0, <1>1 DEF RowsCovered, CreateCron, CronTypeOK, Cron
  <2> QED
    BY <1>0, <1>1, <2>1, <2>2 DEF CronInv, BootJobs, CreateCron
<1>2. CASE SyncStep(j)
  <2>1. CronTypeOK'
    BY <1>0, <1>2 DEF CronTypeOK, SyncStep, SyncTo, SyncSteps, Unscheduled, Scheduled, WorkerMarked, Working
  <2>2. RowsCovered'
    BY <1>0, <1>2 DEF RowsCovered, BootJobs, SyncStep, SyncTo, CronTypeOK, Cron, Unscheduled, Scheduled, WorkerMarked, Working
  <2>3. BootJobs'
    BY <1>0, <1>2 DEF BootJobs, SyncStep, WorkerMarked, Working
  <2> QED
    BY <2>1, <2>2, <2>3 DEF CronInv
<1>3. CASE SyncFails(j)
  <2>1. CronTypeOK'
    BY <1>0, <1>3 DEF CronTypeOK, SyncFails, SyncSteps
  <2>2. RowsCovered'
    BY <1>0, <1>3 DEF RowsCovered, SyncFails, CronTypeOK, Cron
  <2>3. BootJobs'
    BY <1>0, <1>3 DEF BootJobs, SyncFails
  <2> QED
    BY <2>1, <2>2, <2>3 DEF CronInv
<1>4. CASE DeleteCron(j)
  <2>1. CronTypeOK'
    BY <1>0, <1>4 DEF CronTypeOK, DeleteCron, CronRow, Unscheduled
  <2>2. RowsCovered'
    BY <1>0, <1>4 DEF RowsCovered, DeleteCron, CronTypeOK, Cron, Unscheduled
  <2> QED
    BY <1>0, <1>4, <2>1, <2>2 DEF CronInv, BootJobs, DeleteCron
<1> QED
  BY <1>1, <1>2, <1>3, <1>4

LEMMA BootsStep == ASSUME CronInv, CronProgress PROVE CronInv'
<1>0. CronTypeOK /\ BootJobs /\ RowsCovered
  BY DEF CronInv
<1>1. CASE BootReads
  BY <1>0, <1>1 DEF CronInv, CronTypeOK, BootJobs, RowsCovered, BootReads, Registering, Cron
<1>2. CASE BootNext
  <2>1. CronTypeOK'
    BY <1>0, <1>2 DEF CronTypeOK, BootNext
  <2>2. BootJobs'
    BY <1>0, <1>2 DEF CronTypeOK, BootJobs, BootNext, Registering
  <2>3. RowsCovered'
    BY <1>0, <1>2 DEF RowsCovered, BootNext, Registering
  <2> QED
    BY <2>1, <2>2, <2>3 DEF CronInv
<1>3. CASE CronBootStep
  <2>1. PICK j \in bootJob :
          \/ bootAt = "unschedule" /\ bootAt' = "schedule" /\ Unscheduled(j) /\ UNCHANGED <<marked, worker>>
          \/ bootAt = "schedule" /\ bootAt' = "work" /\ Scheduled(j) /\ UNCHANGED <<marked, worker>>
          \/ /\ bootAt = "work" /\ bootAt' = "next" /\ UNCHANGED entry
             /\ WorkerMarked(j) /\ IF j \in marked THEN UNCHANGED worker ELSE Working(j)
    BY <1>3 DEF CronBootStep
  <2>2. j \in Cron /\ bootJob = {j}
    BY <1>0, <2>1 DEF BootJobs, CronTypeOK, Registering
  <2>3. UNCHANGED <<cronRow, syncAt, bootRows, bootJob, refused, due, jobAt, manualAt, restarts>>
    BY <1>3 DEF CronBootStep
  <2>4. CronTypeOK'
    BY <1>0, <2>1, <2>2, <2>3 DEF CronTypeOK, Unscheduled, Scheduled, WorkerMarked, Working
  <2>5. BootJobs'
    BY <1>0, <2>1, <2>2, <2>3 DEF BootJobs, WorkerMarked, Working, Registering
  <2>6. RowsCovered'
    BY <1>0, <2>1, <2>2, <2>3 DEF BootJobs, RowsCovered, Unscheduled, Scheduled, WorkerMarked, Working, Registering
  <2> QED
    BY <2>4, <2>5, <2>6 DEF CronInv
<1>4. CASE BootFails
  <2>1. PICK j \in Cron : bootJob = {j} /\ (j \in Configs => bootRows \subseteq Configs)
    BY <1>0, <1>4 DEF BootFails, BootJobs, Registering
  <2>2. CronTypeOK'
    BY <1>0, <1>4, <2>1 DEF CronTypeOK, BootFails
  <2>3. BootJobs'
    BY <1>0, <1>4, <2>1 DEF BootJobs, BootFails, Registering
  <2>4. RowsCovered'
    BY <1>0, <1>4, <2>1, CronAssumption DEF RowsCovered, BootFails, Registering, Cron
  <2> QED
    BY <2>2, <2>3, <2>4 DEF CronInv
<1> QED
  BY <1>1, <1>2, <1>3, <1>4 DEF CronProgress

LEMMA CronStep == CronInv /\ [CronNext]_cronVars => CronInv'
<1> SUFFICES ASSUME CronInv, [CronNext]_cronVars PROVE CronInv'
  OBVIOUS
<1>1. CASE UNCHANGED cronVars
  BY <1>1 DEF cronVars, CronInv, CronTypeOK, BootJobs, RowsCovered
<1>2. Busy \subseteq Cron
  BY CronAssumption DEF Cron
<1> QED
  BY <1>1, <1>2, BootsStep, CronDies, RequestsStep, RunsStep, ManualRuns DEF CronNext

LEMMA RowsRegistered == CronInv => CronTypeOK /\ BootIsolatesRows
BY DEF CronInv, RowsCovered, BootJobs, BootIsolatesRows, Registering

(***************************************************************************)
(* The calendar: where the months start, and that each day is in one.      *)
(***************************************************************************)
Months == Len(MonthDays)

LEMMA CalendarTyped ==
  /\ MinutesPerHour \in Nat \ {0} /\ HoursPerDay \in Nat \ {0} /\ DaysPerWeek \in Nat \ {0} /\ Year \in Nat \ {0} /\ Horizon \in Nat
  /\ MonthsPerYear \in Nat \ {0}
  /\ Months \in Nat \ {0} /\ \A i \in 1..Months : MonthDays[i] \in Nat \ {0}
<1>1. {MinutesPerHour, HoursPerDay, DaysPerWeek, MonthsPerYear, Year} \subseteq Nat \ {0} /\ Horizon \in Nat
  BY CronExprAssumption
<1>2. MonthDays \in Seq(Nat \ {0}) /\ MonthDays # <<>>
  BY CronExprAssumption
<1>3. Months \in Nat \ {0}
  BY <1>2 DEF Months
<1>4. \A i \in 1..Months : MonthDays[i] \in Nat \ {0}
  BY <1>2 DEF Months
<1> QED
  BY <1>1, <1>3, <1>4

\* The first k months have starts.
CanStart(k) ==
  \E f \in [1..k + 1 -> Nat] : f[1] = 0 /\ \A i \in 2..k + 1 : f[i] = f[i - 1] + MonthDays[i - 1]

LEMMA StartOneMore == ASSUME NEW k \in 0..Months - 1, CanStart(k) PROVE CanStart(k + 1)
<1>1. PICK f \in [1..k + 1 -> Nat] : f[1] = 0 /\ \A i \in 2..k + 1 : f[i] = f[i - 1] + MonthDays[i - 1]
  BY DEF CanStart
<1> DEFINE g == [i \in 1..k + 2 |-> IF i = k + 2 THEN f[k + 1] + MonthDays[k + 1] ELSE f[i]]
<1>2. k \in Nat /\ k + 1 \in 1..Months /\ MonthDays[k + 1] \in Nat /\ f[k + 1] \in Nat
  BY CalendarTyped
<1>3. g \in [1..(k + 1) + 1 -> Nat]
  BY <1>2
<1>4. \A i \in 1..k + 1 : g[i] = f[i]
  BY <1>2
<1>5. g[k + 2] = f[k + 1] + MonthDays[k + 1]
  BY <1>2
<1> HIDE DEF g
<1>6. g[1] = 0
  BY <1>1, <1>2, <1>4
<1>7. ASSUME NEW i \in 2..(k + 1) + 1 PROVE g[i] = g[i - 1] + MonthDays[i - 1]
  <2>1. CASE i = k + 2
    <3>1. i - 1 = k + 1 /\ k + 1 \in 1..k + 1
      BY <1>2, <2>1
    <3> QED
      BY <1>4, <1>5, <2>1, <3>1
  <2>2. CASE i # k + 2
    <3>1. i \in 2..k + 1 /\ i - 1 \in 1..k + 1
      BY <1>2, <2>2
    <3> QED
      BY <1>1, <1>4, <3>1
  <2> QED
    BY <2>1, <2>2
<1> QED
  BY <1>3, <1>6, <1>7 DEF CanStart

LEMMA StartAll == CanStart(Months)
<1> DEFINE T == {k \in 0..Months : ~CanStart(k)}
<1>1. CanStart(0)
  <2> DEFINE f == [i \in 1..1 |-> 0]
  <2>1. f \in [1..0 + 1 -> Nat] /\ f[1] = 0 /\ 2..0 + 1 = {}
    OBVIOUS
  <2> HIDE DEF f
  <2> QED
    BY <2>1 DEF CanStart
<1> SUFFICES ASSUME T # {} PROVE FALSE
  BY CalendarTyped
<1>2. T \in SUBSET Nat
  BY CalendarTyped
<1>3. PICK k \in T : \A j \in T : k <= j
  <2> HIDE DEF T
  <2> QED
    BY <1>2, LeastNumber
<1>4. k # 0
  BY <1>1, <1>3
<1>5. k - 1 \in 0..Months - 1 /\ (k - 1) + 1 = k /\ k - 1 \notin T
  BY <1>3, <1>4, CalendarTyped
<1>6. CanStart(k - 1)
  BY <1>5, CalendarTyped
<1>7. CanStart((k - 1) + 1)
  BY <1>5, <1>6, StartOneMore
<1> QED
  BY <1>3, <1>5, <1>7

LEMMA MonthsStart ==
  MonthStart = [i \in 1..Months + 1 |-> IF i = 1 THEN 0 ELSE MonthStart[i - 1] + MonthDays[i - 1]]
<1>1. PICK f \in [1..Months + 1 -> Nat] : f[1] = 0 /\ \A i \in 2..Months + 1 : f[i] = f[i - 1] + MonthDays[i - 1]
  BY StartAll DEF CanStart
<1>2. f = [i \in 1..Months + 1 |-> IF i = 1 THEN 0 ELSE f[i - 1] + MonthDays[i - 1]]
  BY <1>1, CalendarTyped
<1> QED
  BY <1>2 DEF MonthStart, Months

\* What holds of the first, and from each to the next, holds of all.
LEMMA Upward ==
  ASSUME NEW n \in Nat \ {0}, NEW G \in SUBSET (1..n), 1 \in G, \A k \in 2..n : k - 1 \in G => k \in G
  PROVE  G = 1..n
<1> DEFINE T == (1..n) \ G
<1> SUFFICES ASSUME T # {} PROVE FALSE
  OBVIOUS
<1>1. T \in SUBSET Nat
  OBVIOUS
<1>2. PICK k \in T : \A j \in T : k <= j
  <2> HIDE DEF T
  <2> QED
    BY <1>1, LeastNumber
<1>3. k \in 2..n /\ k - 1 \in 1..n
  BY <1>2
<1>4. k - 1 \in G
  BY <1>2, <1>3
<1> QED
  BY <1>2, <1>3, <1>4

LEMMA StartsTyped ==
  /\ MonthStart[1] = 0
  /\ \A i \in 1..Months + 1 : MonthStart[i] \in Nat
  /\ \A i \in 1..Months : MonthStart[i + 1] = MonthStart[i] + MonthDays[i]
<1> DEFINE f == MonthStart
           G == {k \in 1..Months + 1 : f[k] \in Nat}
<1>1. f = [i \in 1..Months + 1 |-> IF i = 1 THEN 0 ELSE f[i - 1] + MonthDays[i - 1]]
  BY MonthsStart
<1>2. Months + 1 \in Nat \ {0} /\ 1 \in 1..Months + 1
  BY CalendarTyped
<1> HIDE DEF f
<1>3. f[1] = 0
  BY <1>1, <1>2
<1>4. \A i \in 2..Months + 1 : f[i] = f[i - 1] + MonthDays[i - 1]
  BY <1>1, CalendarTyped
<1>5. ASSUME NEW k \in 2..Months + 1, k - 1 \in G PROVE k \in G
  <2>1. k - 1 \in 1..Months
    BY CalendarTyped
  <2>2. MonthDays[k - 1] \in Nat
    BY <2>1, CalendarTyped
  <2>3. f[k - 1] \in Nat
    BY <1>5
  <2> QED
    BY <1>4, <2>2, <2>3, CalendarTyped
<1>6. G = 1..Months + 1
  <2>1. G \in SUBSET (1..Months + 1) /\ 1 \in G
    BY <1>2, <1>3
  <2> HIDE DEF G
  <2> QED
    BY <1>2, <1>5, <2>1, Upward
<1>7. ASSUME NEW i \in 1..Months PROVE f[i + 1] = f[i] + MonthDays[i]
  <2>1. i + 1 \in 2..Months + 1 /\ (i + 1) - 1 = i
    BY CalendarTyped
  <2> QED
    BY <1>4, <2>1
<1> QED
  BY <1>3, <1>6, <1>7 DEF f

\* A month ends no later than the year does, so none is longer than it.
LEMMA MonthsWithin ==
  LET total == MonthStart[Months + 1] IN
  total \in Nat \ {0} /\ \A i \in 1..Months : MonthDays[i] <= total
<1> DEFINE f == MonthStart
           n == Months
           G == {k \in 1..n + 1 : \A i \in 1..n : i < k => MonthDays[i] <= f[k]}
<1>0. n \in Nat \ {0} /\ n + 1 \in Nat \ {0} /\ \A i \in 1..n : MonthDays[i] \in Nat \ {0}
  BY CalendarTyped
<1>1. f[1] = 0 /\ (\A i \in 1..n + 1 : f[i] \in Nat) /\ \A i \in 1..n : f[i + 1] = f[i] + MonthDays[i]
  BY StartsTyped
<1> HIDE DEF f, n
<1>2. ASSUME NEW k \in 2..n + 1, k - 1 \in G PROVE k \in G
  <2>1. k - 1 \in 1..n /\ (k - 1) + 1 = k /\ f[k - 1] \in Nat /\ MonthDays[k - 1] \in Nat \ {0}
    BY <1>0, <1>1
  <2>2. f[k] = f[k - 1] + MonthDays[k - 1]
    BY <1>1, <2>1
  <2>3. ASSUME NEW i \in 1..n, i < k PROVE MonthDays[i] <= f[k]
    <3>1. CASE i = k - 1
      BY <2>1, <2>2, <3>1
    <3>2. CASE i # k - 1
      <4>1. i < k - 1
        BY <1>0, <2>3, <3>2
      <4>2. MonthDays[i] <= f[k - 1]
        BY <1>2, <4>1
      <4> QED
        BY <1>0, <2>1, <2>2, <4>2
    <3> QED
      BY <3>1, <3>2
  <2> QED
    BY <2>3
<1>3. G = 1..n + 1
  <2>1. G \in SUBSET (1..n + 1) /\ 1 \in G
    BY <1>0
  <2> HIDE DEF G
  <2> QED
    BY <1>0, <1>2, <2>1, Upward
<1>4. \A i \in 1..n : MonthDays[i] <= f[n + 1]
  BY <1>0, <1>3
<1>5. f[n + 1] \in Nat \ {0}
  <2>1. 1 \in 1..n /\ n + 1 \in 1..n + 1
    BY <1>0
  <2> QED
    BY <1>0, <1>1, <1>4, <2>1
<1> QED
  BY <1>4, <1>5 DEF f, n

LEMMA LongestIsLongest ==
  LongestMonth \in Nat \ {0} /\ \A i \in 1..Months : MonthDays[i] <= LongestMonth
<1> DEFINE total == MonthStart[Months + 1]
           B == {b \in Nat : \A i \in 1..Months : MonthDays[i] <= b}
<1>0. Months \in Nat \ {0} /\ \A i \in 1..Months : MonthDays[i] \in Nat \ {0}
  BY CalendarTyped
<1>1. total \in B
  BY MonthsWithin
<1>2. B \in SUBSET Nat
  OBVIOUS
<1>3. PICK b \in B : \A c \in B : b <= c
  <2> HIDE DEF B
  <2> QED
    BY <1>1, <1>2, LeastNumber
<1>4. \E i \in 1..Months : MonthDays[i] = b
  <2> SUFFICES ASSUME \A i \in 1..Months : MonthDays[i] # b PROVE FALSE
    OBVIOUS
  <2>1. 1 \in 1..Months
    BY <1>0
  <2>2. b \in Nat /\ b >= 1
    BY <1>0, <1>3, <2>1
  <2>3. b - 1 \in B
    BY <1>0, <1>3, <2>2, SMTT(30)
  <2> QED
    BY <1>3, <2>2, <2>3
<1>5. DOMAIN MonthDays = 1..Months
  BY CronExprAssumption DEF Months
<1>6. \E d \in {MonthDays[i] : i \in DOMAIN MonthDays} : \A i \in DOMAIN MonthDays : MonthDays[i] <= d
  BY <1>3, <1>4, <1>5
<1> QED
  BY <1>0, <1>5, <1>6 DEF LongestMonth

\* Every minute is on a day of a month, and on a day of the week.
LEMMA DaysExist ==
  ASSUME NEW t \in Nat
  PROVE  /\ MinuteIn(t) \in 0..MinutesPerHour - 1 /\ HourIn(t) \in 0..HoursPerDay - 1
         /\ Weekday(t) \in 0..DaysPerWeek - 1 /\ Month(t) \in 1..MonthsPerYear /\ MonthDay(t) \in 1..LongestMonth
<1> DEFINE total == MonthStart[Months + 1]
           D == DayInCycle(t)
           T == {i \in 1..Months : D < MonthStart[i + 1]}
<1>0. Months \in Nat \ {0} /\ (\A i \in 1..Months : MonthDays[i] \in Nat \ {0}) /\ total \in Nat \ {0}
  BY CalendarTyped, MonthsWithin
<1>1. MinuteIn(t) \in 0..MinutesPerHour - 1 /\ HourIn(t) \in 0..HoursPerDay - 1
  BY CalendarTyped DEF MinuteIn, HourIn
<1>2. DayOf(t) \in Nat
  <2>1. MinutesPerHour * HoursPerDay \in Nat \ {0}
    BY CalendarTyped
  <2> QED
    BY <2>1 DEF DayOf
<1>3. Weekday(t) \in 0..DaysPerWeek - 1
  BY <1>2, CalendarTyped DEF Weekday
<1>4. D \in 0..total - 1
  <2>1. D = DayOf(t) % total
    BY DEF DayInCycle, Months
  <2> HIDE DEF total, D
  <2> QED
    BY <1>0, <1>2, <2>1
<1>5. (\A i \in 1..Months + 1 : MonthStart[i] \in Nat) /\ MonthStart[1] = 0
      /\ \A i \in 1..Months : MonthStart[i + 1] = MonthStart[i] + MonthDays[i]
  BY StartsTyped
<1> HIDE DEF D
<1>6. T # {} /\ T \in SUBSET Nat
  <2>1. Months \in T
    BY <1>0, <1>4
  <2> QED
    BY <2>1
<1>7. PICK m \in T : \A i \in T : m <= i
  <2> HIDE DEF T
  <2> QED
    BY <1>6, LeastNumber
<1>8. MonthStart[m] <= D
  <2>1. CASE m = 1
    BY <1>4, <1>5, <2>1
  <2>2. CASE m # 1
    <3>1. m - 1 \in 1..Months /\ (m - 1) + 1 = m /\ m - 1 \notin T
      BY <1>0, <1>7, <2>2
    <3>2. ~(D < MonthStart[m])
      BY <3>1
    <3> QED
      BY <1>0, <1>4, <1>5, <1>7, <3>2
  <2> QED
    BY <2>1, <2>2
<1>9. \E i \in 1..Months : MonthStart[i] <= D /\ D < MonthStart[i + 1]
  BY <1>7, <1>8
<1>10. /\ MonthInCycle(t) \in 1..Months
       /\ MonthStart[MonthInCycle(t)] <= D /\ D < MonthStart[MonthInCycle(t) + 1]
  BY <1>9 DEF MonthInCycle, D, Months
<1>12. Month(t) \in 1..MonthsPerYear
  BY <1>10, CalendarTyped DEF Month
<1>11. MonthDay(t) \in 1..LongestMonth
  <2> DEFINE i == MonthInCycle(t)
  <2>1. i \in 1..Months /\ MonthStart[i] <= D /\ D < MonthStart[i + 1]
    BY <1>10
  <2>2. MonthStart[i] \in Nat /\ MonthStart[i + 1] = MonthStart[i] + MonthDays[i] /\ MonthDays[i] \in Nat
    BY <1>0, <1>5, <2>1
  <2>3. MonthDays[i] <= LongestMonth /\ LongestMonth \in Nat
    BY <2>1, LongestIsLongest
  <2>4. MonthDay(t) = D - MonthStart[i] + 1
    BY DEF MonthDay, D
  <2> HIDE DEF i
  <2> QED
    BY <1>4, <2>1, <2>2, <2>3, <2>4
<1> QED
  BY <1>1, <1>3, <1>11, <1>12

(***************************************************************************)
(* Fields: the set of its values, and what its parts say.                  *)
(***************************************************************************)
Part == [kind : {"star", "span"}, lo : Nat, hi : Nat, step : Nat]

LEMMA Multiples ==
  ASSUME NEW n \in Nat, NEW s \in Nat \ {0} PROVE n % s = 0 <=> \E k \in 0..n : n = k * s
<1>1. n = (s * (n \div s)) + (n % s) /\ n \div s \in Int /\ n % s \in 0..s - 1
  OBVIOUS
<1>3. n \div s \in 0..n
  BY <1>1
<1>2. ASSUME NEW k \in 0..n PROVE (k * s) % s = 0
  OBVIOUS
<1>4. ASSUME n % s = 0 PROVE n = (n \div s) * s
  BY <1>1, <1>4
<1> QED
  BY <1>2, <1>3, <1>4

LEMMA FieldSays ==
  ASSUME NEW f \in Seq(Part), NEW a \in Nat, NEW b \in Nat, CronField(f, <<a, b>>) # {}, NEW v \in Nat
  PROVE  v \in CronField(f, <<a, b>>) <=> Says(f, <<a, b>>, v)
<1> DEFINE r == <<a, b>>
<1>1. \A i \in DOMAIN f : WellFormed(f[i], r)
  BY DEF CronField
<1>2. CronField(f, r) = UNION {{w \in Low(f[i], r)..High(f[i], r) : (w - Low(f[i], r)) % f[i].step = 0} : i \in DOMAIN f}
  BY <1>1 DEF CronField
<1>3. ASSUME NEW i \in DOMAIN f
      PROVE  /\ Low(f[i], r) \in Nat /\ High(f[i], r) \in 0..b /\ f[i].step \in Nat \ {0}
  <2>1. f[i] \in Part /\ WellFormed(f[i], r)
    BY <1>1
  <2> QED
    BY <2>1 DEF Part, WellFormed, Low, High
<1>4. ASSUME NEW i \in DOMAIN f
      PROVE  v \in Low(f[i], r)..High(f[i], r) /\ (v - Low(f[i], r)) % f[i].step = 0
             <=> \E k \in 0..b : v = Low(f[i], r) + k * f[i].step /\ v <= High(f[i], r)
  <2> DEFINE l == Low(f[i], r)
             h == High(f[i], r)
             s == f[i].step
  <2>0. l \in Nat /\ h \in 0..b /\ s \in Nat \ {0}
    BY <1>3
  <2> HIDE DEF l, h, s
  <2>1. ASSUME v \in l..h, (v - l) % s = 0 PROVE \E k \in 0..b : v = l + k * s /\ v <= h
    <3>1. v - l \in Nat /\ v - l <= b
      BY <2>0, <2>1
    <3>2. PICK k \in 0..v - l : v - l = k * s
      BY <2>0, <2>1, <3>1, Multiples
    <3>3. k \in 0..b /\ k * s \in Nat
      BY <2>0, <3>1
    <3> QED
      BY <2>0, <2>1, <3>2, <3>3
  <2>2. ASSUME NEW k \in 0..b, v = l + k * s, v <= h PROVE v \in l..h /\ (v - l) % s = 0
    <3>1. k * s \in Nat /\ k <= k * s
      BY <2>0
    <3>2. v - l = k * s /\ v \in l..h /\ v - l \in Nat /\ k \in 0..v - l
      BY <2>0, <2>2, <3>1
    <3> QED
      BY <2>0, <3>2, Multiples
  <2> QED
    BY <2>1, <2>2 DEF l, h, s
<1>5. v \in CronField(f, r) <=> \E i \in DOMAIN f : v \in Low(f[i], r)..High(f[i], r) /\ (v - Low(f[i], r)) % f[i].step = 0
  <2> DEFINE among(i) == {w \in Low(f[i], r)..High(f[i], r) : (w - Low(f[i], r)) % f[i].step = 0}
  <2>1. \A i \in DOMAIN f : v \in among(i) <=> v \in Low(f[i], r)..High(f[i], r) /\ (v - Low(f[i], r)) % f[i].step = 0
    OBVIOUS
  <2>2. CronField(f, r) = UNION {among(i) : i \in DOMAIN f}
    BY <1>2
  <2> HIDE DEF among
  <2>3. v \in CronField(f, r) <=> \E i \in DOMAIN f : v \in among(i)
    BY <2>2
  <2> QED
    BY <2>1, <2>3
<1>6. r[2] = b
  OBVIOUS
<1> QED
  BY <1>4, <1>5, <1>6 DEF Says

\* An unrestricted field has every value of its range.
LEMMA StarSaysAll ==
  ASSUME NEW a \in Nat, NEW b \in Nat, NEW v \in a..b
  PROVE  v \in CronField(<<Star>>, <<a, b>>)
<1>1. DOMAIN <<Star>> = {1} /\ <<Star>>[1] = Star
  OBVIOUS
<1>2. Low(Star, <<a, b>>) = a /\ High(Star, <<a, b>>) = b /\ Star.step = 1
  BY DEF Low, High, Star
<1>3. WellFormed(Star, <<a, b>>)
  BY <1>2 DEF WellFormed
<1>4. (v - a) % 1 = 0
  OBVIOUS
<1> QED
  BY <1>1, <1>2, <1>3, <1>4 DEF CronField

(***************************************************************************)
(* Expressions.                                                            *)
(***************************************************************************)
LEMMA FieldsTyped == ASSUME NEW e \in Exprs, NEW i \in 1..5 PROVE e[i] \in Seq(Part)
<1>1. MinutesPerHour \in Nat /\ HoursPerDay \in Nat /\ DaysPerWeek \in Nat
  BY CalendarTyped
<1>2. Star \in Part /\ (\A n \in Nat : EveryNth(n) \in Part) /\ \A x, y, n \in Nat : Span(x, y, n) \in Part
  BY DEF Star, EveryNth, Span, Part
<1>3. \A p \in Part : <<p>> \in Seq(Part)
  OBVIOUS
<1>4. \A p, q \in Part : <<p, q>> \in Seq(Part)
  OBVIOUS
<1>5. e[i] \in FieldForms[i]
  BY DEF Exprs
<1>6. CASE i = 1
  BY <1>1, <1>2, <1>3, <1>5, <1>6 DEF FieldForms
<1>7. CASE i = 2
  BY <1>1, <1>2, <1>3, <1>5, <1>7 DEF FieldForms
<1>8. CASE i = 3
  BY <1>1, <1>2, <1>3, <1>4, <1>5, <1>8 DEF FieldForms
<1>9. CASE i = 4
  BY <1>1, <1>2, <1>3, <1>5, <1>9 DEF FieldForms
<1>10. CASE i = 5
  BY <1>1, <1>2, <1>3, <1>5, <1>10 DEF FieldForms
<1> QED
  BY <1>6, <1>7, <1>8, <1>9, <1>10

\* The condition of the loop.
LooksDue(e, t) ==
  /\ MinuteIn(t) \in CronField(e[1], FieldRange[1]) /\ HourIn(t) \in CronField(e[2], FieldRange[2])
  /\ Month(t) \in CronField(e[4], FieldRange[4]) /\ DayMatches(e, t)

LEMMA WeekdaysAgree ==
  ASSUME NEW e \in Exprs, IsValidCron(e), NEW t \in Nat
  PROVE  LET weekdays == CronField(e[5], FieldRange[5]) IN
         Weekday(t) \in weekdays \/ (Weekday(t) = 0 /\ DaysPerWeek \in weekdays)
         <=> \E w \in 0..DaysPerWeek : w % DaysPerWeek = Weekday(t) /\ Says(e[5], FieldRange[5], w)
<1> DEFINE d == Weekday(t)
           n == DaysPerWeek
           W == CronField(e[5], FieldRange[5])
<1>1. n \in Nat \ {0} /\ d \in 0..n - 1
  BY CalendarTyped, DaysExist
<1>2. FieldRange[5] = <<0, n>>
  BY DEF FieldRange
<1>3. e[5] \in Seq(Part) /\ W # {}
  BY FieldsTyped DEF IsValidCron
<1>4. \A w \in Nat : w \in W <=> Says(e[5], FieldRange[5], w)
  BY <1>1, <1>2, <1>3, FieldSays
<1>5. \A w \in 0..n : w % n = IF w = n THEN 0 ELSE w
  BY <1>1
<1> HIDE DEF d, n, W
<1>6. d \in W \/ (d = 0 /\ n \in W) <=> \E w \in 0..n : w % n = d /\ w \in W
  <2>1. d \in 0..n /\ n \in 0..n /\ 0 \in 0..n /\ d # n
    BY <1>1
  <2> QED
    BY <1>1, <1>5, <2>1
<1>7. \A w \in 0..n : w \in W <=> Says(e[5], FieldRange[5], w)
  BY <1>1, <1>4
<1> QED
  BY <1>6, <1>7 DEF d, n, W

\* The loop stops at a minute exactly when the expression says so.
LEMMA LoopIsRight ==
  ASSUME NEW e \in Exprs, IsValidCron(e), NEW t \in Nat PROVE LooksDue(e, t) <=> Fires(e, t)
<1>1. \A i \in 1..5 : e[i] \in Seq(Part) /\ CronField(e[i], FieldRange[i]) # {}
  BY FieldsTyped DEF IsValidCron
<1>2. /\ MinuteIn(t) \in 0..MinutesPerHour - 1 /\ HourIn(t) \in 0..HoursPerDay - 1
      /\ Weekday(t) \in 0..DaysPerWeek - 1 /\ Month(t) \in 1..MonthsPerYear /\ MonthDay(t) \in 1..LongestMonth
  BY DaysExist
<1>3. /\ MinutesPerHour - 1 \in Nat /\ HoursPerDay - 1 \in Nat /\ DaysPerWeek \in Nat /\ MonthsPerYear \in Nat /\ LongestMonth \in Nat
  BY CalendarTyped, LongestIsLongest
<1>n. MinuteIn(t) \in Nat /\ HourIn(t) \in Nat /\ Month(t) \in Nat /\ MonthDay(t) \in Nat
  <2>1. ASSUME NEW n \in Nat, NEW m, m \in 0..n \/ m \in 1..n PROVE m \in Nat
    BY <2>1
  <2>2. MinuteIn(t) \in Nat /\ HourIn(t) \in Nat
    BY <1>2, <1>3, <2>1
  <2>3. Month(t) \in Nat
    BY <1>2, <1>3, <2>1
  <2>4. MonthDay(t) \in Nat
    BY <1>2, <1>3, <2>1
  <2> QED
    BY <2>2, <2>3, <2>4
<1>4. /\ FieldRange[1] = <<0, MinutesPerHour - 1>> /\ FieldRange[2] = <<0, HoursPerDay - 1>> /\ FieldRange[3] = <<1, LongestMonth>>
      /\ FieldRange[4] = <<1, MonthsPerYear>> /\ FieldRange[5] = <<0, DaysPerWeek>>
  BY DEF FieldRange
<1>5. MinuteIn(t) \in CronField(e[1], FieldRange[1]) <=> Says(e[1], FieldRange[1], MinuteIn(t))
  <2>1. e[1] \in Seq(Part) /\ CronField(e[1], FieldRange[1]) # {} /\ MinuteIn(t) \in Nat
    BY <1>1, <1>n
  <2> QED
    BY <1>3, <1>4, <2>1, FieldSays
<1>6. HourIn(t) \in CronField(e[2], FieldRange[2]) <=> Says(e[2], FieldRange[2], HourIn(t))
  <2>1. e[2] \in Seq(Part) /\ CronField(e[2], FieldRange[2]) # {} /\ HourIn(t) \in Nat
    BY <1>1, <1>n
  <2> QED
    BY <1>3, <1>4, <2>1, FieldSays
<1>7. MonthDay(t) \in CronField(e[3], FieldRange[3]) <=> Says(e[3], FieldRange[3], MonthDay(t))
  <2>1. e[3] \in Seq(Part) /\ CronField(e[3], FieldRange[3]) # {} /\ MonthDay(t) \in Nat
    BY <1>1, <1>n
  <2> QED
    BY <1>3, <1>4, <2>1, FieldSays
<1>8. Month(t) \in CronField(e[4], FieldRange[4]) <=> Says(e[4], FieldRange[4], Month(t))
  <2>1. e[4] \in Seq(Part) /\ CronField(e[4], FieldRange[4]) # {} /\ Month(t) \in Nat
    BY <1>1, <1>n
  <2> QED
    BY <1>3, <1>4, <2>1, FieldSays
<1> DEFINE dow == Weekday(t) \in CronField(e[5], FieldRange[5]) \/ (Weekday(t) = 0 /\ DaysPerWeek \in CronField(e[5], FieldRange[5]))
           dom == MonthDay(t) \in CronField(e[3], FieldRange[3])
<1>9. dow <=> \E w \in 0..DaysPerWeek : w % DaysPerWeek = Weekday(t) /\ Says(e[5], FieldRange[5], w)
  BY WeekdaysAgree
<1>10. e[3] = <<Star>> => dom
  BY <1>2, <1>3, <1>4, StarSaysAll
<1>11. e[5] = <<Star>> => dow
  <2>1. Weekday(t) \in 0..DaysPerWeek
    BY <1>2, <1>3
  <2> QED
    BY <1>3, <1>4, <2>1, StarSaysAll
<1>12. DayMatches(e, t) <=> IF e[3] # <<Star>> /\ e[5] # <<Star>> THEN dom \/ dow ELSE dom /\ dow
  BY DEF DayMatches
<1> HIDE DEF dom, dow
<1>13. DayMatches(e, t) <=> IF e[3] = <<Star>> THEN dow ELSE IF e[5] = <<Star>> THEN dom ELSE dom \/ dow
  BY <1>10, <1>11, <1>12
<1>14. Fires(e, t) <=> /\ Says(e[1], FieldRange[1], MinuteIn(t)) /\ Says(e[2], FieldRange[2], HourIn(t))
                       /\ Says(e[4], FieldRange[4], Month(t))
                       /\ IF e[3] = <<Star>> THEN dow ELSE IF e[5] = <<Star>> THEN dom ELSE dom \/ dow
  BY <1>7, <1>9 DEF Fires, dom
<1> QED
  BY <1>5, <1>6, <1>8, <1>13, <1>14 DEF LooksDue

\* A search goes on only for an expression that is valid.
ExprInv ==
  /\ CronExprTypeOK /\ NextRunIsFirst
  /\ nextRun.at # "malformed" => expr \in Exprs /\ IsValidCron(expr)

\* What the run's module has for the other components.
NoExpr == expr = <<>> /\ after = 0 /\ cursor = 1 /\ nextRun = [at |-> "malformed", t |-> 0]

LEMMA ExprStarts == CronExprInit \/ NoExpr => ExprInv
<1> SUFFICES ASSUME CronExprInit \/ NoExpr PROVE ExprInv
  OBVIOUS
<1>1. Year \in Nat \ {0} /\ Horizon \in Nat
  BY CalendarTyped
<1>2. after \in 0..Horizon /\ cursor = after + 1
  BY <1>1 DEF CronExprInit, NoExpr
<1>3. /\ nextRun.t = 0 /\ nextRun.at \in {"searching", "malformed"}
      /\ nextRun.at # "malformed" => expr \in Exprs /\ IsValidCron(expr)
  BY DEF CronExprInit, NoExpr
<1>4. after + 1 .. cursor - 1 = {}
  BY <1>1, <1>2
<1> QED
  BY <1>1, <1>2, <1>3, <1>4 DEF ExprInv, CronExprTypeOK, NextRunIsFirst, NextRunShown

LEMMA ExprStep == ExprInv /\ [CronExprNext]_cronExprVars => ExprInv'
<1> SUFFICES ASSUME ExprInv, [CronExprNext]_cronExprVars PROVE ExprInv'
  OBVIOUS
<1>0. Year \in Nat \ {0} /\ Horizon \in Nat /\ after \in 0..Horizon /\ cursor \in after + 1..after + Year + 1
  BY CalendarTyped DEF ExprInv, CronExprTypeOK
<1>1. CASE UNCHANGED cronExprVars
  BY <1>1 DEF cronExprVars, ExprInv, CronExprTypeOK, NextRunIsFirst
<1>2. CASE LookAtMinute
  <2>1. /\ nextRun.at = "searching" /\ cursor <= after + Year /\ UNCHANGED <<expr, after>>
        /\ expr \in Exprs /\ IsValidCron(expr) /\ cursor \in Nat
    BY <1>0, <1>2 DEF LookAtMinute, ExprInv
  <2>2. LooksDue(expr, cursor) <=> Fires(expr, cursor)
    BY <2>1, LoopIsRight
  <2>3. \A t \in after + 1..cursor - 1 : ~Fires(expr, t)
    BY <2>1 DEF ExprInv, NextRunIsFirst
  <2>4. CASE LooksDue(expr, cursor)
    <3>1. nextRun' = [at |-> "found", t |-> cursor] /\ cursor' = cursor
      BY <1>2, <2>4 DEF LookAtMinute, LooksDue
    <3>2. nextRun'.at = "found" /\ nextRun'.t = cursor /\ cursor > after /\ cursor \in 0..Horizon + Year
      BY <1>0, <2>1, <3>1
    <3>3. CronExprTypeOK'
      BY <1>0, <2>1, <3>1, <3>2 DEF CronExprTypeOK, NextRunShown
    <3>4. NextRunIsFirst'
      BY <2>1, <2>2, <2>3, <2>4, <3>1, <3>2 DEF NextRunIsFirst, Fires
    <3> QED
      BY <2>1, <3>3, <3>4 DEF ExprInv
  <2>5. CASE ~LooksDue(expr, cursor)
    <3>1. nextRun' = nextRun /\ cursor' = cursor + 1
      BY <1>2, <2>5 DEF LookAtMinute, LooksDue
    <3>2. cursor' \in after' + 1..after' + Year + 1
      BY <1>0, <2>1, <3>1
    <3>3. \A t \in after + 1..cursor' - 1 : ~Fires(expr, t)
      <4> SUFFICES ASSUME NEW t \in after + 1..cursor' - 1 PROVE ~Fires(expr, t)
        OBVIOUS
      <4>1. t \in after + 1..cursor - 1 \/ t = cursor
        BY <1>0, <3>1
      <4> QED
        BY <2>2, <2>3, <2>5, <4>1
    <3>4. CronExprTypeOK'
      BY <2>1, <3>1, <3>2 DEF ExprInv, CronExprTypeOK
    <3>5. NextRunIsFirst'
      BY <2>1, <3>1, <3>3 DEF NextRunIsFirst
    <3> QED
      BY <2>1, <3>1, <3>4, <3>5 DEF ExprInv
  <2> QED
    BY <2>4, <2>5
<1>3. CASE GiveUp
  <2>1. /\ nextRun.at = "searching" /\ cursor > after + Year /\ nextRun' = [at |-> "none", t |-> 0]
        /\ UNCHANGED <<expr, after, cursor>>
    BY <1>3 DEF GiveUp
  <2>2. nextRun'.at = "none" /\ nextRun'.t = 0 /\ cursor = after + Year + 1 /\ 0 \in 0..Horizon + Year
    BY <1>0, <2>1
  <2> QED
    BY <1>0, <2>1, <2>2 DEF ExprInv, CronExprTypeOK, NextRunIsFirst, NextRunShown
<1> QED
  BY <1>1, <1>2, <1>3 DEF CronExprNext

LEMMA ExprShown == ExprInv => CronExprTypeOK /\ NextRunIsFirst
BY DEF ExprInv

(***************************************************************************)
(* All of it, in the run's module.                                         *)
(***************************************************************************)
LEMMA HostsRows ==
  /\ HostsInit => CronInit /\ NotifyInit /\ (CronExprInit \/ NoExpr)
  /\ [HostsNext]_hostsVars => [CronNext]_cronVars /\ [NotifyNext]_notifyVars /\ [CronExprNext]_cronExprVars
BY DEF HostsInit, HostsNext, hostsVars, cronVars, notifyVars, cronExprVars, NoExpr

\* Whatever a row throws at boot, and whatever requests and deletions do meanwhile, the schedules
\* that exist have their entry and their worker when it is over; a fan-out that is over has left
\* out no target that was not deleted, and no webhook cuts the one to the webhooks short; and the
\* next run that is shown is the first minute at which the expression fires, none being shown
\* only if the year that follows has none, on every calendar.
THEOREM RowsStayIsolated == HostsSpec => []RowsIsolated
<1>1. CronInv /\ NotifyInv /\ ExprInv => RowsIsolated
  BY RowsRegistered, NoticesReach, ExprShown DEF RowsIsolated
<1> QED
  BY <1>1, CronStarts, NotifyStarts, ExprStarts, HostsRows, CronStep, NotifyStep, ExprStep, PTL DEF HostsSpec

LEMMA HostsStores ==
  /\ HostsInit => PreviewInit /\ LogInit /\ BackupsInit
  /\ [HostsNext]_hostsVars => [PreviewNext]_previewVars /\ [LogNext]_logVars /\ [BackupsNext]_backupVars
BY DEF HostsInit, HostsNext, hostsVars, previewVars, logVars, writerVars, viewerVars, appVars, backupVars, dataVars

\* Each component's variables keep their types.
THEOREM HostsTypeCorrect == HostsSpec => []HostsTypeOK
<1> DEFINE Stores   == PreviewInv /\ LogInv /\ RetentionInv /\ WalInv /\ PitrInv
           Machines == ServersInv /\ MachineInv /\ CardInv /\ ConsoleInv
           Rows     == CronInv /\ NotifyInv /\ ExprInv
<1>1. Stores /\ Machines /\ Rows => HostsTypeOK
  <2>1. Stores => PreviewTypeOK /\ LogTypeOK /\ BackupsTypeOK /\ WalTypeOK /\ PitrTypeOK
    BY LogShown, SpareSuffices DEF PreviewInv, PreviewTyped, WalInv, PitrInv
  <2>2. Machines => ServersTypeOK /\ InstallerTypeOK /\ UpdatesCardTypeOK /\ ConsoleTypeOK
    BY ServersInvSuffices, MachineIsInstalled, CardSuffices, ConsoleSuffices
  <2>3. Rows => CronTypeOK /\ NotifyTypeOK /\ CronExprTypeOK
    BY RowsRegistered, NoticesReach, ExprShown
  <2> HIDE DEF Stores, Machines, Rows
  <2> QED
    BY <2>1, <2>2, <2>3 DEF HostsTypeOK
<1>2. HostsInit => Stores /\ Machines /\ Rows
  BY HostsStores, HostsArchive, HostsMachines, HostsRows, PreviewStarts, LogStarts, RetentionStarts, WalStarts, PitrStarts,
     ServersInitInv, MachineStarts, CardStarts, ConsoleStarts, CronStarts, NotifyStarts, ExprStarts
<1>3. Stores /\ Machines /\ Rows /\ [HostsNext]_hostsVars => (Stores /\ Machines /\ Rows)'
  <2>1. [HostsNext]_hostsVars /\ Stores => Stores'
    BY HostsStores, HostsArchive, PreviewStep, LogHolds, RetentionStep, WalStep, PitrStep
  <2>2. [HostsNext]_hostsVars /\ Machines => Machines'
    BY HostsMachines, ServersStep, MachineStep, CardStep, ConsoleStep
  <2>3. [HostsNext]_hostsVars /\ Rows => Rows'
    BY HostsRows, CronStep, NotifyStep, ExprStep
  <2> QED
    BY <2>1, <2>2, <2>3
<1> QED
  BY <1>1, <1>2, <1>3, PTL DEF HostsSpec

(***************************************************************************)
(* Triggers.  The poll visits an application that is polled.               *)
(***************************************************************************)
Visits == sweepAt.at # "idle" => sweepAt.app \in Polled
TriggersInv == TriggersTypeOK /\ Visits

DeployRow == [at : {"none", "queued", "orphan", "running", "fetched"},
              via : {"none", "inline", "unsent", "boss"}, commit : 0..Short(MaxCommits)]
Visit == [app : Polled \cup {"none"}, at : {"idle", "listed", "drift", "send"}, found : 0..DefaultHead]

LEMMA CommitsCounted ==
  /\ Commits \subseteq 0..DefaultHead /\ Commits \subseteq 0..Short(MaxCommits) /\ DefaultHead \in 0..DefaultHead
  /\ 1 \in Commits /\ 0 \in 0..Short(MaxCommits) /\ 0 \in 0..DefaultHead /\ \A c \in Commits : Short(c) \in 0..Short(MaxCommits)
BY TriggersAssumption DEF Commits, DefaultHead, Short

LEMMA TriggersStart == TriggersInit => TriggersInv
<1>1. NoDeploy \in DeployRow /\ NoVisit \in Visit
  BY CommitsCounted DEF NoDeploy, NoVisit, DeployRow, Visit
<1> QED
  BY <1>1, CommitsCounted, TriggersAssumption
     DEF TriggersInit, TriggersInv, TriggersTypeOK, Visits, NoVisit, DeployRow, Visit

\* A deployment moves, and nothing else.
LEMMA DeployMoves ==
  ASSUME TriggersInv, NEW a, NEW r, a \in TrigApps => r \in DeployRow, active' = [active EXCEPT ![a] = r]
  PROVE  active' \in [TrigApps -> DeployRow]
BY DEF TriggersInv, TriggersTypeOK, DeployRow

LEMMA OpensTyped ==
  ASSUME TriggersInv, NEW a, NEW way \in {"inline", "unsent"}, OpensOrConflict(a, way)
  PROVE  active' \in [TrigApps -> DeployRow]
<1>1. CASE Opens(a, way)
  <2>1. [at |-> "queued", via |-> way, commit |-> 0] \in DeployRow
    BY CommitsCounted DEF DeployRow
  <2> QED
    BY <1>1, <2>1, DeployMoves DEF Opens
<1>2. CASE UNCHANGED active
  BY <1>2 DEF TriggersInv, TriggersTypeOK, DeployRow
<1> QED
  BY <1>1, <1>2 DEF OpensOrConflict

\* What a step leaves of the rest.
LEMMA OnlyDeployments ==
  ASSUME TriggersInv, active' \in [TrigApps -> DeployRow], faults' \in 0..MaxFaults,
         fanTodo' \subseteq TrigApps, UNCHANGED <<branchVars, pasted, deliveries, deployed, built, sweepVars>>
  PROVE  TriggersInv'
BY DEF TriggersInv, TriggersTypeOK, Visits, DeployRow, branchVars, sweepVars

LEMMA FaultCounted == ASSUME TriggersInv, Fault PROVE faults' \in 0..MaxFaults
BY TriggersAssumption DEF Fault, TriggersInv, TriggersTypeOK

LEMMA DeployAt ==
  ASSUME TriggersInv, NEW a \in TrigApps
  PROVE  /\ active[a] \in DeployRow /\ active \in [TrigApps -> DeployRow] /\ tip \in Commits
         /\ deployed \in [TrigApps -> 0..Short(MaxCommits)] /\ built \in [TrigApps -> SUBSET Commits]
BY DEF TriggersInv, TriggersTypeOK, DeployRow

LEMMA DeploymentsStep ==
  ASSUME TriggersInv, NEW a \in TrigApps, DeployStep(a) \/ DeployFails(a) \/ RollBack(a) PROVE TriggersInv'
<1>0. /\ active[a] \in DeployRow /\ active \in [TrigApps -> DeployRow] /\ tip \in Commits
      /\ deployed \in [TrigApps -> 0..Short(MaxCommits)] /\ built \in [TrigApps -> SUBSET Commits]
  BY DeployAt
<1>n. NoDeploy \in DeployRow
  BY CommitsCounted DEF NoDeploy, DeployRow
<1>f. fanTodo \subseteq TrigApps /\ faults \in 0..MaxFaults
  BY DEF TriggersInv, TriggersTypeOK
<1>1. CASE DeployStarts(a)
  <2>1. active' = [active EXCEPT ![a] = [active[a] EXCEPT !.at = "running"]]
    BY <1>0, <1>1 DEF DeployStarts
  <2>2. [active[a] EXCEPT !.at = "running"] \in DeployRow
    BY <1>0 DEF DeployRow
  <2> QED
    BY <1>1, <1>f, <2>1, <2>2, DeployMoves, OnlyDeployments DEF DeployStarts, hookVars
<1>2. CASE DeployFetches(a)
  <2> DEFINE r == IF branchUp THEN [active[a] EXCEPT !.at = "fetched", !.commit = tip] ELSE NoDeploy
  <2>1. active' = [active EXCEPT ![a] = r]
    BY <1>0, <1>2 DEF DeployFetches
  <2>2. r \in DeployRow
    BY <1>0, <1>n, CommitsCounted DEF DeployRow
  <2> HIDE DEF r
  <2> QED
    BY <1>2, <1>f, <2>1, <2>2, DeployMoves, OnlyDeployments DEF DeployFetches, hookVars
<1>3. CASE DeployEnds(a)
  <2>1. active' \in [TrigApps -> DeployRow]
    BY <1>3, <1>n, DeployMoves DEF DeployEnds
  <2>2. active[a].commit \in 0..Short(MaxCommits)
    BY <1>0 DEF DeployRow
  <2>3. deployed' \in [TrigApps -> 0..Short(MaxCommits)] /\ built' \in [TrigApps -> SUBSET Commits]
    BY <1>0, <1>3, <2>2 DEF DeployEnds
  <2> QED
    BY <1>3, <2>1, <2>3 DEF DeployEnds, TriggersInv, TriggersTypeOK, Visits, DeployRow, branchVars, hookVars, sweepVars
<1>4. CASE DeployFails(a)
  BY <1>4, <1>n, <1>f, FaultCounted, DeployMoves, OnlyDeployments DEF DeployFails, hookVars
<1>5. CASE RollBack(a)
  <2>1. PICK c \in built[a] : active' = [active EXCEPT ![a] = [at |-> "fetched", via |-> "boss", commit |-> Short(c)]]
    BY <1>5 DEF RollBack
  <2>2. [at |-> "fetched", via |-> "boss", commit |-> Short(c)] \in DeployRow
    BY <1>0, CommitsCounted DEF DeployRow
  <2>3. active' \in [TrigApps -> DeployRow]
    BY <2>1, <2>2, DeployMoves
  <2> QED
    BY <1>5, <1>f, <2>3, FaultCounted, OnlyDeployments DEF RollBack, hookVars
<1> QED
  BY <1>1, <1>2, <1>3, <1>4, <1>5 DEF DeployStep

LEMMA PushesStep ==
  ASSUME TriggersInv, \/ PushCommit \/ DeleteBranch \/ HandleAppInbound
                      \/ \E d \in deliveries : DropDelivery(d)
                      \/ \E a \in TrigApps : PasteSecret(a) \/ EnsureWebhook(a) \/ HandleInbound(a) \/ FanOut(a)
  PROVE  TriggersInv'
<1> USE DEF branchVars, hookVars, deployedVars, sweepVars
<1>f. fanTodo \subseteq TrigApps /\ faults \in 0..MaxFaults
  BY DEF TriggersInv, TriggersTypeOK
<1>1. CASE PushCommit
  BY <1>1, TriggersAssumption DEF PushCommit, TriggersInv, TriggersTypeOK, Visits, Commits
<1>2. CASE DeleteBranch
  BY <1>2, FaultCounted DEF DeleteBranch, TriggersInv, TriggersTypeOK, Visits
<1>3. CASE HandleAppInbound
  BY <1>3 DEF HandleAppInbound, TriggersInv, TriggersTypeOK, Visits
<1>4. CASE \E d \in deliveries : DropDelivery(d)
  BY <1>4 DEF DropDelivery, TriggersInv, TriggersTypeOK, Visits
<1>5. ASSUME NEW a \in TrigApps, PasteSecret(a) \/ EnsureWebhook(a) PROVE TriggersInv'
  BY <1>5 DEF PasteSecret, EnsureWebhook, TriggersInv, TriggersTypeOK, Visits
<1>6. ASSUME NEW a \in TrigApps, HandleInbound(a) PROVE TriggersInv'
  BY <1>6, <1>f, OpensTyped, OnlyDeployments DEF HandleInbound
<1>7. ASSUME NEW a \in TrigApps, FanOut(a) PROVE TriggersInv'
  <2>1. CASE OpensOrConflict(a, "inline") /\ fanTodo' = fanTodo \ {a} /\ UNCHANGED faults
    BY <1>7, <1>f, <2>1, OpensTyped, OnlyDeployments DEF FanOut
  <2>2. CASE Fault /\ fanTodo' = {} /\ UNCHANGED active
    BY <1>7, <2>2, FaultCounted DEF FanOut, TriggersInv, TriggersTypeOK, Visits
  <2> QED
    BY <1>7, <2>1, <2>2 DEF FanOut
<1> QED
  BY <1>1, <1>2, <1>3, <1>4, <1>5, <1>6, <1>7

LEMMA PollsStep == ASSUME TriggersInv, PollStep PROVE TriggersInv'
<1> USE DEF branchVars, hookVars, deployedVars, sweepVars
<1>0. /\ sweepAt \in Visit /\ sweepTodo \subseteq Polled /\ Polled \subseteq TrigApps /\ NoVisit \in Visit /\ NoVisit.at = "idle"
      /\ fanTodo \subseteq TrigApps /\ faults \in 0..MaxFaults
  BY TriggersAssumption, CommitsCounted DEF TriggersInv, TriggersTypeOK, Visit, NoVisit
<1>r. ASSUME active' \in [TrigApps -> DeployRow], sweepAt' \in Visit, sweepAt'.at # "idle" => sweepAt'.app \in Polled,
             sweepTodo' \subseteq Polled, faults' \in 0..MaxFaults, UNCHANGED <<branchVars, hookVars, deployed, built>>
      PROVE  TriggersInv'
  BY <1>r DEF TriggersInv, TriggersTypeOK, Visits, DeployRow, Visit
<1>a. active \in [TrigApps -> DeployRow]
  BY DEF TriggersInv, TriggersTypeOK, DeployRow
<1>1. CASE PollTick
  BY <1>0, <1>1, <1>a, <1>r DEF PollTick
<1>2. CASE PollLists
  <2>1. PICK a \in sweepTodo :
          /\ sweepTodo' = sweepTodo \ {a}
          /\ \/ /\ sweepAt' = [app |-> a, at |-> "listed", found |-> IF branchUp THEN tip ELSE DefaultHead]
                /\ UNCHANGED faults
             \/ Fault /\ UNCHANGED sweepAt
    BY <1>2 DEF PollLists
  <2>2. (IF branchUp THEN tip ELSE DefaultHead) \in 0..DefaultHead
    BY CommitsCounted DEF TriggersInv, TriggersTypeOK
  <2>3. sweepAt' \in Visit /\ (sweepAt'.at # "idle" => sweepAt'.app \in Polled) /\ faults' \in 0..MaxFaults
    BY <1>0, <2>1, <2>2, FaultCounted DEF Visit, Visits, TriggersInv
  <2> QED
    BY <1>0, <1>2, <1>a, <1>r, <2>1, <2>3 DEF PollLists
<1>3. CASE PollCompares
  <2>1. sweepAt' \in Visit /\ (sweepAt'.at # "idle" => sweepAt'.app \in Polled)
    BY <1>0, <1>3 DEF PollCompares, PollDecides, Visit, Visits, TriggersInv
  <2> QED
    BY <1>0, <1>3, <1>a, <1>r, <2>1 DEF PollCompares, PollDecides
<1>4. CASE PollCreates
  <2>1. sweepAt' \in Visit /\ (sweepAt'.at # "idle" => sweepAt'.app \in Polled)
    BY <1>0, <1>4 DEF PollCreates, Visit, Visits, TriggersInv
  <2>2. active' \in [TrigApps -> DeployRow]
    BY <1>4, OpensTyped DEF PollCreates, OpensOrConflict
  <2> QED
    BY <1>0, <1>4, <1>r, <2>1, <2>2 DEF PollCreates
<1>5. CASE PollSends
  <2> DEFINE a == sweepAt.app
  <2>1. a \in TrigApps
    BY <1>0, <1>5 DEF PollSends, TriggersInv, Visits
  <2>2. PICK way \in {"boss", "inline"} : active' = [active EXCEPT ![a].via = IF active[a].at = "queued" THEN way ELSE @]
    BY <1>5 DEF PollSends
  <2> DEFINE r == [active[a] EXCEPT !.via = IF active[a].at = "queued" THEN way ELSE @]
  <2>3. active' = [active EXCEPT ![a] = r]
    BY <1>a, <2>1, <2>2
  <2>4. r \in DeployRow
    BY <1>a, <2>1 DEF DeployRow
  <2> HIDE DEF a, r
  <2>5. active' \in [TrigApps -> DeployRow]
    BY <2>3, <2>4, DeployMoves
  <2> QED
    BY <1>0, <1>5, <1>r, <2>5 DEF PollSends
<1> QED
  BY <1>1, <1>2, <1>3, <1>4, <1>5 DEF PollStep

LEMMA TriggersRestarts == ASSUME TriggersInv, TriggersRestart PROVE TriggersInv'
<1>1. NoVisit.at = "idle" /\ NoVisit \in Visit /\ NoDeploy \in DeployRow
  BY CommitsCounted DEF NoVisit, NoDeploy, Visit, DeployRow
<1>2. \A a \in TrigApps : active[a] \in DeployRow /\ [active[a] EXCEPT !.at = "orphan"] \in DeployRow
  <2> TAKE a \in TrigApps
  <2>1. active[a] \in DeployRow
    BY DeployAt
  <2> QED
    BY <2>1 DEF DeployRow
<1>3. active' \in [TrigApps -> DeployRow]
  BY <1>1, <1>2 DEF TriggersRestart
<1> QED
  BY <1>1, <1>3, FaultCounted DEF TriggersRestart, TriggersInv, TriggersTypeOK, Visits, Visit, DeployRow, branchVars

LEMMA TriggersStep == TriggersInv /\ [TriggersNext]_triggersVars => TriggersInv'
<1> SUFFICES ASSUME TriggersInv, [TriggersNext]_triggersVars PROVE TriggersInv'
  OBVIOUS
<1>1. CASE UNCHANGED triggersVars
  BY <1>1 DEF triggersVars, branchVars, hookVars, deployedVars, sweepVars, TriggersInv, TriggersTypeOK, Visits
<1> QED
  BY <1>1, DeploymentsStep, PushesStep, PollsStep, TriggersRestarts DEF TriggersNext

(***************************************************************************)
(* The pages that show deployments.  A socket that is not registered has   *)
(* no frames, and each frame but one stands for a step of its deployment;  *)
(* the dashboard opens a socket once, for a deployment just created.       *)
(***************************************************************************)
ShownStatus == ActiveStatuses \cup EndedStatuses \cup {"none"}
SockRow == [at : {"none", "opening", "read", "live", "over"}, read : ShownStatus, frames : Seq(ShownStatus)]
LoadRow == [at : {"none", "sent", "answered", "failed"}, saw : [Deploys -> ShownStatus], then : Deploys \cup {0}]
PostRow == [at : {"none", "sent", "ok", "conflict", "failed"}, id : Deploys \cup {0}]

ServerTyped ==
  /\ openPage \in {"none", "dashboard", "detail"} /\ created \in 0..MaxDeploys
  /\ rowStatus \in [Deploys -> ShownStatus] /\ \A d \in Deploys : d > created => rowStatus[d] = "none"
LoadsTyped  == loads \in [Loads -> LoadRow]
PageTyped  ==
  /\ pill \in [of : Deploys \cup {0}, status : ShownStatus]
  /\ list \in [Deploys -> ShownStatus] /\ selected \in Deploys \cup {0}
  /\ watched \subseteq Deploys /\ picks \in 0..MaxPicks /\ excused \in BOOLEAN

FramesFollow ==
  /\ socks \in [Deploys -> SockRow]
  /\ \A d \in Deploys : IF socks[d].at = "live" THEN Len(socks[d].frames) <= Rank(rowStatus[d]) + 1
                                                 ELSE socks[d].frames = <<>>
OpenedOnce ==
  /\ post \in PostRow /\ (openPage = "none" => post = NoPost)
  /\ post.at = "ok" => post.id \in 1..created
  /\ openPage # "detail" => /\ \A d \in Deploys : d > created => socks[d].at = "none"
                            /\ post.at = "ok" => socks[post.id].at = "none"

DeployPagesInv == ServerTyped /\ LoadsTyped /\ PageTyped /\ FramesFollow /\ OpenedOnce

LEMMA NothingShown ==
  /\ NoLoad \in LoadRow /\ NoSock \in SockRow /\ NoPost \in PostRow /\ NoSock.frames = <<>> /\ NoSock.at = "none"
  /\ NoPost.at = "none" /\ NoPost.id = 0
  /\ \A s \in ShownStatus : Rank(s) \in 0..3
BY DEF NoLoad, NoSock, NoPost, LoadRow, SockRow, PostRow, ShownStatus, ActiveStatuses, EndedStatuses, Rank

LEMMA Ranks ==
  /\ Rank("none") = 0 /\ Rank("queued") = 1 /\ Rank("running") = 2 /\ Rank("finished") = 3 /\ Rank("cancelled") = 3
BY DEF Rank

LEMMA SockOver ==
  /\ [NoSock EXCEPT !.at = "over"] \in SockRow /\ [NoSock EXCEPT !.at = "over"].at = "over" /\ [NoSock EXCEPT !.at = "over"].frames = <<>>
  /\ [NoSock EXCEPT !.at = "opening"] \in SockRow /\ [NoSock EXCEPT !.at = "opening"].at = "opening"
  /\ [NoSock EXCEPT !.at = "opening"].frames = <<>>
BY NothingShown DEF SockRow

LEMMA DeployPagesStart == DeployPagesInit => DeployPagesInv
<1> SUFFICES ASSUME DeployPagesInit PROVE DeployPagesInv
  OBVIOUS
<1>1. ServerTyped /\ PageTyped
  <2>1. "finished" \in ShownStatus /\ "none" \in ShownStatus
    BY DEF ShownStatus, EndedStatuses
  <2>2. rowStatus \in [Deploys -> ShownStatus] /\ \A d \in Deploys : d > created => rowStatus[d] = "none"
    BY <2>1 DEF DeployPagesInit
  <2>3. created \in 0..MaxDeploys /\ 0 \in 0..MaxPicks
    BY DeployPagesAssumption DEF DeployPagesInit
  <2>4. pill \in [of : Deploys \cup {0}, status : ShownStatus] /\ list \in [Deploys -> ShownStatus]
    BY <2>1 DEF DeployPagesInit
  <2> QED
    BY <2>2, <2>3, <2>4 DEF DeployPagesInit, ServerTyped, PageTyped
<1>2. LoadsTyped /\ FramesFollow /\ OpenedOnce
  BY NothingShown DEF DeployPagesInit, LoadsTyped, FramesFollow, OpenedOnce
<1> QED
  BY <1>1, <1>2 DEF DeployPagesInv

\* The newest deployment that a load saw is one of those there are.
LEMMA NewestSeen == ASSUME NEW seen \in [Deploys -> ShownStatus] PROVE Newest(seen) \in Deploys \cup {0}
<1>1. CASE \A d \in Deploys : seen[d] = "none"
  BY <1>1 DEF Newest
<1>2. CASE ~\A d \in Deploys : seen[d] = "none"
  <2> DEFINE above == {b \in Nat : \A e \in Deploys : e > b => seen[e] = "none"}
  <2>0. MaxDeploys \in Nat
    BY DeployPagesAssumption
  <2>1. MaxDeploys \in above
    BY <2>0 DEF Deploys
  <2>2. PICK b \in above : \A c \in above : b <= c
    BY <2>1, LeastNumber
  <2>3. b \in Deploys /\ seen[b] # "none"
    <3> SUFFICES ASSUME ~(b \in Deploys /\ seen[b] # "none") PROVE FALSE
      OBVIOUS
    <3>1. CASE b = 0
      BY <1>2, <2>0, <2>2, <3>1 DEF Deploys
    <3>2. CASE b # 0
      <4>1. b - 1 \in Nat
        BY <2>2, <3>2
      <4>2. \A e \in Deploys : e > b - 1 => e > b \/ e = b
        BY <2>0, <2>2, <4>1 DEF Deploys
      <4>3. b - 1 \in above
        BY <2>2, <4>1, <4>2
      <4> QED
        BY <2>2, <4>1, <4>3
    <3> QED
      BY <3>1, <3>2
  <2>4. \E d \in Deploys : seen[d] # "none" /\ \A e \in Deploys : e > d => seen[e] = "none"
    BY <2>2, <2>3
  <2> QED
    BY <1>2, <2>4 DEF Newest
<1> QED
  BY <1>1, <1>2

\* Sockets: one moves, or all are opened and closed by the selection.
LEMMA SockMoves ==
  ASSUME DeployPagesInv, NEW d \in Deploys, NEW k \in SockRow, socks' = [socks EXCEPT ![d] = k], rowStatus' = rowStatus,
         IF k.at = "live" THEN Len(k.frames) <= Rank(rowStatus[d]) + 1 ELSE k.frames = <<>>
  PROVE  FramesFollow' /\ socks'[d] = k /\ \A e \in Deploys \ {d} : socks'[e] = socks[e]
BY DEF DeployPagesInv, FramesFollow

LEMMA SelectionFollowed == ASSUME NEW d, socks' = Follow(d) PROVE FramesFollow'
<1>1. \A e \in Deploys : socks'[e] \in {NoSock, [NoSock EXCEPT !.at = "opening"]}
  BY DEF Follow
<1>2. socks' \in [Deploys -> SockRow]
  BY NothingShown, SockOver DEF Follow
<1>3. \A e \in Deploys : socks'[e].at # "live" /\ socks'[e].frames = <<>>
  BY <1>1, NothingShown, SockOver
<1> QED
  BY <1>2, <1>3 DEF FramesFollow

\* A socket that is opened has no frames, and so has one that is over.
LEMMA SockReset ==
  ASSUME DeployPagesInv, NEW d \in Deploys, NEW k \in SockRow, socks' = [socks EXCEPT ![d] = k], rowStatus' = rowStatus,
         k.at # "live", k.frames = <<>>
  PROVE  FramesFollow' /\ socks'[d] = k /\ \A e \in Deploys \ {d} : socks'[e] = socks[e]
BY SockMoves

LEMMA LoadMoves == ASSUME DeployPagesInv, NEW l \in Loads, NEW r \in LoadRow, loads' = [loads EXCEPT ![l] = r] PROVE LoadsTyped'
BY DEF DeployPagesInv, LoadsTyped

LEMMA LoadAsked == ASSUME DeployPagesInv, NEW then_ \in Deploys \cup {0}, LoadDeploys(then_) PROVE LoadsTyped'
<1> DEFINE l == CHOOSE l \in FreeLoads : \A k \in FreeLoads : l <= k
           r == [NoLoad EXCEPT !.at = "sent", !.then = then_]
<1>1. r \in LoadRow
  BY NothingShown DEF LoadRow
<1>2. loads' = [loads EXCEPT ![l] = r]
  BY DEF LoadDeploys
<1> HIDE DEF l, r
<1> QED
  BY <1>1, <1>2 DEF DeployPagesInv, LoadsTyped

\* The rows: a new one, or one that moves on.
LEMMA RowCreated ==
  ASSUME DeployPagesInv, Create, Room, UNCHANGED <<openPage, socks>>
  PROVE  ServerTyped' /\ FramesFollow' /\ created + 1 \in Deploys /\ created' = created + 1 /\ created \in Nat
<1>1. created + 1 \in Deploys /\ created \in Nat /\ created' \in 0..MaxDeploys
  BY DeployPagesAssumption DEF DeployPagesInv, ServerTyped, Room, Create, Deploys
<1>2. rowStatus' = [rowStatus EXCEPT ![created + 1] = "queued"] /\ created' = created + 1
  BY DEF Create
<1>3. ServerTyped'
  <2>1. "queued" \in ShownStatus /\ rowStatus \in [Deploys -> ShownStatus] /\ \A d \in Deploys : d > created => rowStatus[d] = "none"
    BY DEF DeployPagesInv, ServerTyped, ShownStatus, ActiveStatuses
  <2>2. rowStatus' \in [Deploys -> ShownStatus]
    BY <1>2, <2>1
  <2>3. \A d \in Deploys : d > created + 1 => rowStatus'[d] = "none"
    BY <1>1, <1>2, <2>1 DEF Deploys
  <2> QED
    BY <1>1, <1>2, <2>2, <2>3 DEF DeployPagesInv, ServerTyped
<1>4. FramesFollow'
  <2> SUFFICES ASSUME NEW d \in Deploys
               PROVE  IF socks[d].at = "live" THEN Len(socks[d].frames) <= Rank(rowStatus'[d]) + 1 ELSE socks[d].frames = <<>>
    BY DEF DeployPagesInv, FramesFollow
  <2>1. rowStatus'[d] = rowStatus[d] \/ (d = created + 1 /\ rowStatus'[d] = "queued" /\ rowStatus[d] = "none")
    BY <1>1, <1>2 DEF DeployPagesInv, ServerTyped
  <2>2. Rank(rowStatus[d]) <= Rank(rowStatus'[d]) /\ Rank(rowStatus[d]) \in 0..3 /\ Rank(rowStatus'[d]) \in 0..3
    BY <2>1, Ranks, NothingShown DEF DeployPagesInv, ServerTyped
  <2>3. Len(socks[d].frames) \in Nat
    BY DEF DeployPagesInv, FramesFollow, SockRow
  <2> QED
    BY <2>2, <2>3 DEF DeployPagesInv, FramesFollow
<1> QED
  BY <1>1, <1>2, <1>3, <1>4

LEMMA RowAdvances ==
  ASSUME DeployPagesInv, NEW d \in Deploys, Advance(d)
  PROVE  ServerTyped' /\ FramesFollow' /\ \A e \in Deploys : socks'[e].at = socks[e].at
<1>0. rowStatus \in [Deploys -> ShownStatus] /\ socks \in [Deploys -> SockRow]
  BY DEF DeployPagesInv, ServerTyped, FramesFollow
<1>1. PICK s \in ShownStatus : /\ rowStatus' = [rowStatus EXCEPT ![d] = s] /\ socks' = PublishStatus(d, s)
                               /\ rowStatus[d] \in ActiveStatuses /\ Rank(s) > Rank(rowStatus[d])
  <2>1. CASE rowStatus[d] = "queued"
    <3>1. PICK s \in {"running", "cancelled"} : rowStatus' = [rowStatus EXCEPT ![d] = s] /\ socks' = PublishStatus(d, s)
      BY <2>1 DEF Advance
    <3>2. s \in ShownStatus /\ rowStatus[d] \in ActiveStatuses
      BY <2>1, <3>1 DEF ShownStatus, ActiveStatuses, EndedStatuses
    <3>3. Rank(s) > Rank(rowStatus[d])
      <4>1. s = "running" \/ s = "cancelled"
        BY <3>1
      <4> QED
        BY <2>1, <4>1, Ranks
    <3> QED
      BY <3>1, <3>2, <3>3
  <2>2. CASE rowStatus[d] = "running"
    <3>1. PICK s \in EndedStatuses : rowStatus' = [rowStatus EXCEPT ![d] = s] /\ socks' = PublishStatus(d, s)
      BY <2>2 DEF Advance
    <3>2. s \in ShownStatus /\ rowStatus[d] \in ActiveStatuses
      BY <2>2, <3>1 DEF ShownStatus, ActiveStatuses, EndedStatuses
    <3>3. Rank(s) > Rank(rowStatus[d])
      <4>1. s = "finished" \/ s = "cancelled"
        BY <3>1 DEF EndedStatuses
      <4> QED
        BY <2>2, <4>1, Ranks
    <3> QED
      BY <3>1, <3>2, <3>3
  <2>3. rowStatus[d] \in {"queued", "running"}
    BY DEF Advance
  <2> QED
    BY <2>1, <2>2, <2>3
<1>2. ServerTyped'
  BY <1>1 DEF Advance, DeployPagesInv, ServerTyped, ActiveStatuses
<1> DEFINE f == IF socks[d].at = "live" THEN Append(socks[d].frames, s) ELSE socks[d].frames
<1>3. socks' = [socks EXCEPT ![d] = [socks[d] EXCEPT !.frames = f]]
  BY <1>0, <1>1 DEF PublishStatus
<1>4. f \in Seq(ShownStatus) /\ (socks[d].at = "live" => Len(f) = Len(socks[d].frames) + 1) /\ (socks[d].at # "live" => f = socks[d].frames)
  BY <1>0 DEF SockRow
<1> HIDE DEF f
<1>5. Rank(s) \in 0..3 /\ Rank(rowStatus[d]) \in 0..3 /\ Len(socks[d].frames) \in Nat
  BY <1>0, NothingShown DEF SockRow
<1>6. [socks[d] EXCEPT !.frames = f] \in SockRow
  BY <1>0, <1>4 DEF SockRow
<1>7. socks' \in [Deploys -> SockRow] /\ \A e \in Deploys : socks'[e] = IF e = d THEN [socks[d] EXCEPT !.frames = f] ELSE socks[e]
  BY <1>0, <1>3, <1>6
<1>8. \A e \in Deploys : socks'[e].at = socks[e].at
  BY <1>0, <1>7 DEF SockRow
<1>9. ASSUME NEW e \in Deploys
      PROVE  IF socks'[e].at = "live" THEN Len(socks'[e].frames) <= Rank(rowStatus'[e]) + 1 ELSE socks'[e].frames = <<>>
  <2>1. CASE e = d
    <3>1. socks'[d].frames = f /\ socks'[d].at = socks[d].at /\ rowStatus'[d] = s
      BY <1>0, <1>1, <1>7, <1>8 DEF SockRow
    <3> QED
      BY <1>1, <1>4, <1>5, <2>1, <3>1 DEF DeployPagesInv, FramesFollow
  <2>2. CASE e # d
    <3>1. socks'[e] = socks[e] /\ rowStatus'[e] = rowStatus[e]
      BY <1>0, <1>1, <1>7, <2>2
    <3> QED
      BY <3>1 DEF DeployPagesInv, FramesFollow
  <2> QED
    BY <2>1, <2>2
<1> QED
  BY <1>2, <1>7, <1>8, <1>9 DEF FramesFollow

\* No socket is opened by the step.
LEMMA NoneOpened ==
  ASSUME DeployPagesInv, post' = post, created' = created, openPage' = openPage,
         \A d \in Deploys : socks[d].at = "none" => socks'[d].at = "none"
  PROVE  OpenedOnce'
<1>1. post.at = "ok" => post.id \in Deploys
  BY DeployPagesAssumption DEF DeployPagesInv, OpenedOnce, ServerTyped, Deploys
<1> QED
  BY <1>1 DEF DeployPagesInv, OpenedOnce

\* On the application's page, and where nothing is posted.
LEMMA OpenedOnDetail ==
  ASSUME DeployPagesInv, OnDetail, post' = post \/ post' = NoPost, created' = created, openPage' = openPage PROVE OpenedOnce'
BY NothingShown DEF DeployPagesInv, OpenedOnce, OnDetail

LEMMA ServerSteps ==
  ASSUME DeployPagesInv, \/ OpenPage \/ CreatedElsewhere \/ ServeDeploy
                         \/ \E d \in Deploys : Advance(d) \/ ServeSubscribe(d) \/ Register(d)
                         \/ \E l \in Loads : ServeLoad(l)
  PROVE  DeployPagesInv'
<1> USE DEF server, shown
<1>0. /\ rowStatus \in [Deploys -> ShownStatus] /\ socks \in [Deploys -> SockRow] /\ loads \in [Loads -> LoadRow]
      /\ excused \in BOOLEAN /\ created \in Nat /\ 0 \in Loads
  BY DeployPagesAssumption DEF DeployPagesInv, ServerTyped, FramesFollow, LoadsTyped, PageTyped, Loads
<1>k. UNCHANGED <<pill, watched, list, selected, picks>> /\ excused' \in BOOLEAN => PageTyped'
  BY DEF DeployPagesInv, PageTyped
<1>s. UNCHANGED <<openPage, rowStatus, created>> => ServerTyped'
  BY DEF DeployPagesInv, ServerTyped
<1>f. UNCHANGED <<rowStatus, socks>> => FramesFollow'
  BY DEF DeployPagesInv, FramesFollow
<1>l. UNCHANGED loads => LoadsTyped'
  BY DEF DeployPagesInv, LoadsTyped
<1>1. CASE OpenPage
  <2>1. LoadsTyped'
    <3>1. loads' = [loads EXCEPT ![0] = [loads[0] EXCEPT !.at = "sent"]]
      BY <1>0, <1>1 DEF OpenPage
    <3>2. [loads[0] EXCEPT !.at = "sent"] \in LoadRow
      BY <1>0 DEF LoadRow
    <3> QED
      BY <1>0, <3>1, <3>2, LoadMoves
  <2>2. ServerTyped' /\ OpenedOnce'
    BY <1>1, NothingShown DEF OpenPage, DeployPagesInv, ServerTyped, OpenedOnce
  <2> QED
    BY <1>0, <1>1, <1>k, <1>f, <2>1, <2>2 DEF OpenPage, DeployPagesInv
<1>2. CASE CreatedElsewhere
  <2>1. ServerTyped' /\ FramesFollow' /\ created + 1 \in Deploys /\ created' = created + 1
    BY <1>2, RowCreated DEF CreatedElsewhere
  <2>2. OpenedOnce'
    BY <1>0, <1>2, <2>1 DEF CreatedElsewhere, DeployPagesInv, OpenedOnce, Deploys
  <2> QED
    BY <1>0, <1>2, <1>k, <1>l, <2>1, <2>2 DEF CreatedElsewhere, DeployPagesInv
<1>3. CASE ServeDeploy
  <2>0. openPage # "none" /\ excused' \in BOOLEAN
    BY <1>0, <1>3, NothingShown DEF ServeDeploy, DeployPagesInv, OpenedOnce
  <2>1. CASE ~NothingActive /\ post' = [NoPost EXCEPT !.at = "conflict"] /\ UNCHANGED <<server, excused>>
    <3>1. OpenedOnce'
      BY <1>3, <2>0, <2>1 DEF ServeDeploy, DeployPagesInv, OpenedOnce, NoPost, PostRow
    <3> QED
      BY <1>0, <1>3, <1>k, <1>s, <1>f, <1>l, <2>1, <3>1 DEF ServeDeploy, DeployPagesInv
  <2>2. CASE Room /\ Create /\ (post' = [at |-> "ok", id |-> created + 1] \/ post' = [NoPost EXCEPT !.at = "failed"])
    <3>1. ServerTyped' /\ FramesFollow' /\ created + 1 \in Deploys /\ created' = created + 1
      BY <1>3, <2>2, RowCreated DEF ServeDeploy
    <3>2. post' \in PostRow /\ (post'.at = "ok" => post'.id = created + 1)
      BY <2>2, <3>1 DEF PostRow, NoPost
    <3>3. OpenedOnce'
      BY <1>0, <1>3, <2>0, <3>1, <3>2 DEF ServeDeploy, DeployPagesInv, OpenedOnce, Deploys
    <3> QED
      BY <1>3, <1>k, <1>l, <2>0, <3>1, <3>3 DEF ServeDeploy, DeployPagesInv
  <2> QED
    BY <1>3, <2>1, <2>2 DEF ServeDeploy
<1>4. ASSUME NEW l \in Loads, ServeLoad(l) PROVE DeployPagesInv'
  <2>1. ASSUME loads' = [loads EXCEPT ![l].at = "answered", ![l].saw = rowStatus] PROVE LoadsTyped'
    <3>1. loads' = [loads EXCEPT ![l] = [loads[l] EXCEPT !.at = "answered", !.saw = rowStatus]]
      BY <1>0, <2>1
    <3>2. [loads[l] EXCEPT !.at = "answered", !.saw = rowStatus] \in LoadRow
      BY <1>0 DEF LoadRow
    <3> QED
      BY <3>1, <3>2, LoadMoves
  <2>2. ASSUME loads' = [loads EXCEPT ![l].at = "failed"] PROVE LoadsTyped'
    <3>1. loads' = [loads EXCEPT ![l] = [loads[l] EXCEPT !.at = "failed"]]
      BY <1>0, <2>2
    <3>2. [loads[l] EXCEPT !.at = "failed"] \in LoadRow
      BY <1>0 DEF LoadRow
    <3> QED
      BY <3>1, <3>2, LoadMoves
  <2>3. LoadsTyped'
    BY <1>4, <2>1, <2>2 DEF ServeLoad
  <2>4. excused' \in BOOLEAN
    BY <1>0, <1>4 DEF ServeLoad
  <2> QED
    BY <1>4, <1>k, <1>s, <1>f, <2>3, <2>4, NoneOpened DEF ServeLoad, DeployPagesInv
<1>5. ASSUME NEW d \in Deploys, Advance(d) PROVE DeployPagesInv'
  <2>1. ServerTyped' /\ FramesFollow' /\ \A e \in Deploys : socks'[e].at = socks[e].at
    BY <1>5, RowAdvances
  <2>2. excused' \in BOOLEAN
    BY <1>5 DEF Advance
  <2> QED
    BY <1>5, <1>k, <1>l, <2>1, <2>2, NoneOpened DEF Advance, DeployPagesInv
<1>6. ASSUME NEW d \in Deploys, ServeSubscribe(d) PROVE DeployPagesInv'
  <2> DEFINE k == [socks[d] EXCEPT !.at = "read", !.read = rowStatus[d]]
  <2>1. socks' = [socks EXCEPT ![d] = k]
    BY <1>0, <1>6 DEF ServeSubscribe
  <2>2. k \in SockRow /\ k.at = "read" /\ k.frames = socks[d].frames /\ socks[d].at = "opening"
    BY <1>0, <1>6 DEF ServeSubscribe, SockRow
  <2>3. socks[d].frames = <<>>
    BY <2>2 DEF DeployPagesInv, FramesFollow
  <2> HIDE DEF k
  <2>4. FramesFollow' /\ \A e \in Deploys : socks[e].at = "none" => socks'[e].at = "none"
    <3>1. FramesFollow' /\ socks'[d] = k /\ \A e \in Deploys \ {d} : socks'[e] = socks[e]
      <4>1. rowStatus' = rowStatus /\ k.at # "live" /\ k.frames = <<>>
        BY <1>6, <2>2, <2>3 DEF ServeSubscribe
      <4> QED
        BY <2>1, <2>2, <4>1, SockReset
    <3> QED
      BY <2>2, <3>1
  <2>5. excused' \in BOOLEAN
    BY <1>6 DEF ServeSubscribe
  <2> QED
    BY <1>6, <1>k, <1>s, <1>l, <2>4, <2>5, NoneOpened DEF ServeSubscribe, DeployPagesInv
<1>7. ASSUME NEW d \in Deploys, Register(d) PROVE DeployPagesInv'
  <2> DEFINE f == IF socks[d].read = "finished" THEN Append(socks[d].frames, socks[d].read) ELSE socks[d].frames
             k == [socks[d] EXCEPT !.at = "live", !.read = "none", !.frames = f]
  <2>1. socks' = [socks EXCEPT ![d] = k]
    BY <1>0, <1>7 DEF Register
  <2>2. socks[d].frames = <<>> /\ socks[d].at = "read"
    BY <1>7 DEF Register, DeployPagesInv, FramesFollow
  <2>3. f \in Seq(ShownStatus) /\ Len(f) <= 1
    BY <1>0, <2>2 DEF SockRow
  <2> HIDE DEF f
  <2>4. k \in SockRow /\ k.at = "live" /\ k.frames = f
    BY <1>0, <2>3 DEF SockRow, ShownStatus
  <2>5. Rank(rowStatus[d]) \in 0..3 /\ Len(f) \in Nat
    BY <1>0, <2>3, NothingShown
  <2> HIDE DEF k
  <2>6. FramesFollow' /\ \A e \in Deploys : socks[e].at = "none" => socks'[e].at = "none"
    <3>1. Len(k.frames) <= Rank(rowStatus[d]) + 1 /\ rowStatus' = rowStatus
      <4>1. rowStatus' = rowStatus
        BY <1>7 DEF Register
      <4> QED
        BY <2>3, <2>4, <2>5, <4>1
    <3>2. FramesFollow' /\ socks'[d] = k /\ \A e \in Deploys \ {d} : socks'[e] = socks[e]
      BY <2>1, <2>4, <3>1, SockMoves
    <3> QED
      BY <2>2, <3>2
  <2> QED
    BY <1>0, <1>7, <1>k, <1>s, <1>l, <2>6, NoneOpened DEF Register, DeployPagesInv
<1> QED
  BY <1>1, <1>2, <1>3, <1>4, <1>5, <1>6, <1>7

LEMMA DashboardSteps ==
  ASSUME DeployPagesInv, \/ ClickDeploy \/ DeployAnswered
                         \/ \E d \in Deploys : DashboardFrame(d) \/ DashboardClose(d)
                         \/ \E l \in Loads : DashboardLoaded(l)
  PROVE  DeployPagesInv'
<1> USE DEF server, shown
<1>0. /\ rowStatus \in [Deploys -> ShownStatus] /\ socks \in [Deploys -> SockRow] /\ loads \in [Loads -> LoadRow]
      /\ excused \in BOOLEAN /\ created \in Nat /\ post \in PostRow /\ pill \in [of : Deploys \cup {0}, status : ShownStatus]
      /\ watched \subseteq Deploys
  BY DeployPagesAssumption DEF DeployPagesInv, ServerTyped, FramesFollow, LoadsTyped, PageTyped, OpenedOnce
<1>k. /\ pill' \in [of : Deploys \cup {0}, status : ShownStatus] /\ watched' \subseteq Deploys /\ excused' \in BOOLEAN
      /\ UNCHANGED <<list, selected, picks>>
      => PageTyped'
  BY DEF DeployPagesInv, PageTyped
<1>s. UNCHANGED <<openPage, rowStatus, created>> => ServerTyped'
  BY DEF DeployPagesInv, ServerTyped
<1>f. UNCHANGED <<rowStatus, socks>> => FramesFollow'
  BY DEF DeployPagesInv, FramesFollow
<1>l. UNCHANGED loads => LoadsTyped'
  BY DEF DeployPagesInv, LoadsTyped
<1>1. CASE ClickDeploy
  <2>1. created + 1 \in Deploys
    BY <1>0, <1>1, DeployPagesAssumption DEF ClickDeploy, Room, OnDashboard, OnDetail, Deploys
  <2>2. pill' \in [of : Deploys \cup {0}, status : ShownStatus]
    BY <1>1, <2>1 DEF ClickDeploy, ShownStatus, ActiveStatuses
  <2>3. OpenedOnce'
    BY <1>1 DEF ClickDeploy, DeployPagesInv, OpenedOnce, OnDashboard, NoPost, PostRow
  <2> QED
    BY <1>0, <1>1, <1>k, <1>s, <1>f, <1>l, <2>2, <2>3 DEF ClickDeploy, DeployPagesInv
<1>2. CASE DeployAnswered
  <2>0. OpenedOnce' /\ FramesFollow' /\ watched' \subseteq Deploys
    <3>1. CASE post.at = "ok"
      <4> DEFINE d == post.id  k == [socks[post.id] EXCEPT !.at = "opening"]
      <4>1. d \in Deploys /\ d <= created /\ socks[d].at = "none" /\ openPage' # "none"
        BY <1>2, <3>1, DeployPagesAssumption DEF DeployAnswered, OnDashboard, DeployPagesInv, OpenedOnce, ServerTyped, Deploys
      <4>2. socks' = [socks EXCEPT ![d] = k] /\ watched' = watched \cup {d} /\ rowStatus' = rowStatus
        BY <1>0, <1>2, <3>1, <4>1 DEF DeployAnswered
      <4>3. socks[d].frames = <<>>
        BY <4>1 DEF DeployPagesInv, FramesFollow
      <4>4. k \in SockRow /\ k.at = "opening" /\ k.frames = <<>>
        BY <1>0, <4>1, <4>3 DEF SockRow
      <4> HIDE DEF d, k
      <4>5. FramesFollow' /\ \A e \in Deploys \ {d} : socks'[e] = socks[e]
        BY <4>1, <4>2, <4>4, SockReset
      <4>6. \A e \in Deploys : e > created => socks'[e].at = "none"
        <5>1. \A e \in Deploys : e > created => e # d
          BY <1>0, <4>1 DEF Deploys
        <5> QED
          BY <1>2, <4>5, <5>1 DEF DeployAnswered, OnDashboard, DeployPagesInv, OpenedOnce
      <4>7. OpenedOnce'
        BY <1>2, <4>1, <4>6, NothingShown DEF DeployAnswered, OpenedOnce
      <4> QED
        BY <1>0, <4>1, <4>2, <4>5, <4>7
    <3>2. CASE post.at # "ok"
      BY <1>0, <1>2, <1>f, <3>2, NothingShown DEF DeployAnswered, OnDashboard, DeployPagesInv, OpenedOnce
    <3> QED
      BY <3>1, <3>2
  <2>1. pill' \in [of : Deploys \cup {0}, status : ShownStatus] /\ excused' \in BOOLEAN
    BY <1>0, <1>2 DEF DeployAnswered, ShownStatus, ActiveStatuses, EndedStatuses
  <2> QED
    BY <1>2, <1>k, <1>s, <1>l, <2>0, <2>1 DEF DeployAnswered, DeployPagesInv
<1>3. ASSUME NEW d \in Deploys, DashboardFrame(d) PROVE DeployPagesInv'
  <2> DEFINE s == Head(socks[d].frames)
             k == IF s = "finished" THEN [NoSock EXCEPT !.at = "over"] ELSE [socks[d] EXCEPT !.frames = Tail(@)]
  <2>1. s \in ShownStatus /\ Tail(socks[d].frames) \in Seq(ShownStatus) /\ Len(Tail(socks[d].frames)) <= Len(socks[d].frames)
    BY <1>0, <1>3 DEF DashboardFrame, SockRow
  <2>2. socks' = [socks EXCEPT ![d] = k] /\ socks[d].at = "live"
    BY <1>0, <1>3 DEF DashboardFrame
  <2>3. Rank(rowStatus[d]) \in 0..3 /\ Len(socks[d].frames) <= Rank(rowStatus[d]) + 1 /\ Len(socks[d].frames) \in Nat
        /\ Len(Tail(socks[d].frames)) \in Nat
    BY <1>0, <2>1, <2>2, NothingShown DEF DeployPagesInv, FramesFollow, SockRow
  <2>4. k \in SockRow /\ (k.at = "live" => Len(k.frames) <= Rank(rowStatus[d]) + 1) /\ (k.at # "live" => k.frames = <<>>)
    <3>1. CASE s = "finished"
      BY <3>1, SockOver
    <3>2. CASE s # "finished"
      <4>1. k \in SockRow /\ k.at = "live" /\ k.frames = Tail(socks[d].frames)
        BY <1>0, <2>1, <2>2, <3>2 DEF SockRow
      <4> QED
        BY <2>1, <2>3, <4>1
    <3> QED
      BY <3>1, <3>2
  <2>5. pill' \in [of : Deploys \cup {0}, status : ShownStatus] /\ excused' \in BOOLEAN
    BY <1>3, <2>1 DEF DashboardFrame
  <2> HIDE DEF s, k
  <2>6. FramesFollow' /\ \A e \in Deploys : socks[e].at = "none" => socks'[e].at = "none"
    BY <1>3, <2>2, <2>4, SockMoves DEF DashboardFrame
  <2> QED
    BY <1>0, <1>3, <1>k, <1>s, <1>l, <2>5, <2>6, NoneOpened DEF DashboardFrame, DeployPagesInv
<1>4. ASSUME NEW d \in Deploys, DashboardClose(d) PROVE DeployPagesInv'
  <2>1. FramesFollow' /\ \A e \in Deploys : socks[e].at = "none" => socks'[e].at = "none"
    BY <1>4, SockOver, SockReset DEF DashboardClose
  <2>2. LoadsTyped'
    <3>0. d \in Loads
      BY DEF Loads
    <3>1. loads' = [loads EXCEPT ![d] = [loads[d] EXCEPT !.at = "sent"]]
      BY <1>0, <1>4, <3>0 DEF DashboardClose
    <3>2. [loads[d] EXCEPT !.at = "sent"] \in LoadRow
      BY <1>0, <3>0 DEF LoadRow
    <3> QED
      BY <3>0, <3>1, <3>2, LoadMoves
  <2>3. excused' \in BOOLEAN
    BY <1>4 DEF DashboardClose
  <2> QED
    BY <1>0, <1>4, <1>k, <1>s, <2>1, <2>2, <2>3, NoneOpened DEF DashboardClose, DeployPagesInv
<1>5. ASSUME NEW l \in Loads, DashboardLoaded(l) PROVE DeployPagesInv'
  <2> DEFINE seen == loads[l].saw  d == Newest(seen)
  <2>1. seen \in [Deploys -> ShownStatus]
    BY <1>0 DEF LoadRow
  <2>2. d \in Deploys \cup {0}
    BY <2>1, NewestSeen
  <2>3. IF d = 0 THEN UNCHANGED <<pill, excused>> ELSE pill' = [of |-> d, status |-> seen[d]] /\ excused' = (excused \/ Older(d, seen[d]))
    BY <1>5 DEF DashboardLoaded
  <2> HIDE DEF seen, d
  <2>4. pill' \in [of : Deploys \cup {0}, status : ShownStatus]
    BY <1>0, <2>1, <2>2, <2>3
  <2>6. excused' \in BOOLEAN
    BY <1>0, <2>3
  <2>5. LoadsTyped'
    BY <1>5, NothingShown, LoadMoves DEF DashboardLoaded
  <2> QED
    BY <1>0, <1>5, <1>k, <1>s, <1>f, <2>4, <2>5, <2>6, NoneOpened DEF DashboardLoaded, DeployPagesInv
<1> QED
  BY <1>1, <1>2, <1>3, <1>4, <1>5

LEMMA DetailSteps ==
  ASSUME DeployPagesInv, \/ PressDeploy \/ PressAnswered
                         \/ \E d \in Deploys : SelectRow(d) \/ DetailFrame(d) \/ DetailDrop(d)
                         \/ \E l \in Loads : DetailLoaded(l)
  PROVE  DeployPagesInv'
<1> USE DEF server, shown
<1>0. /\ rowStatus \in [Deploys -> ShownStatus] /\ socks \in [Deploys -> SockRow] /\ loads \in [Loads -> LoadRow]
      /\ excused \in BOOLEAN /\ post \in PostRow /\ list \in [Deploys -> ShownStatus] /\ selected \in Deploys \cup {0} /\ picks \in 0..MaxPicks
  BY DEF DeployPagesInv, ServerTyped, FramesFollow, LoadsTyped, PageTyped, OpenedOnce
<1>k. /\ list' \in [Deploys -> ShownStatus] /\ selected' \in Deploys \cup {0} /\ picks' \in 0..MaxPicks /\ excused' \in BOOLEAN
      /\ UNCHANGED <<pill, watched>>
      => PageTyped'
  BY DEF DeployPagesInv, PageTyped
<1>s. UNCHANGED <<openPage, rowStatus, created>> => ServerTyped'
  BY DEF DeployPagesInv, ServerTyped
<1>f. UNCHANGED <<rowStatus, socks>> => FramesFollow'
  BY DEF DeployPagesInv, FramesFollow
<1>l. UNCHANGED loads => LoadsTyped'
  BY DEF DeployPagesInv, LoadsTyped
<1>1. CASE PressDeploy
  <2>1. OpenedOnce'
    BY <1>1 DEF PressDeploy, DeployPagesInv, OpenedOnce, OnDetail, NoPost, PostRow
  <2> QED
    BY <1>0, <1>1, <1>k, <1>s, <1>f, <1>l, <2>1 DEF PressDeploy, DeployPagesInv
<1>2. CASE PressAnswered
  <2>1. LoadsTyped'
    <3>1. post.id \in Deploys \cup {0}
      BY <1>0 DEF PostRow
    <3> QED
      BY <1>2, <1>l, <3>1, LoadAsked DEF PressAnswered
  <2>2. OpenedOnce'
    BY <1>2, OpenedOnDetail DEF PressAnswered
  <2> QED
    BY <1>0, <1>2, <1>k, <1>s, <1>f, <2>1, <2>2 DEF PressAnswered, DeployPagesInv
<1>3. ASSUME NEW d \in Deploys, SelectRow(d) PROVE DeployPagesInv'
  <2>1. picks' \in 0..MaxPicks
    BY <1>0, <1>3, DeployPagesAssumption DEF SelectRow
  <2>2. FramesFollow' /\ OpenedOnce'
    BY <1>3, SelectionFollowed, OpenedOnDetail DEF SelectRow
  <2> QED
    BY <1>0, <1>3, <1>k, <1>s, <1>l, <2>1, <2>2 DEF SelectRow, DeployPagesInv
<1>4. ASSUME NEW d \in Deploys, DetailFrame(d) PROVE DeployPagesInv'
  <2> DEFINE k == [socks[d] EXCEPT !.frames = Tail(@)]
  <2>1. /\ socks' = [socks EXCEPT ![d] = k] /\ Tail(socks[d].frames) \in Seq(ShownStatus)
        /\ Len(Tail(socks[d].frames)) <= Len(socks[d].frames) /\ Len(socks[d].frames) \in Nat /\ Len(Tail(socks[d].frames)) \in Nat
    BY <1>0, <1>4 DEF DetailFrame, SockRow
  <2>2. socks[d].at = "live" /\ Len(socks[d].frames) <= Rank(rowStatus[d]) + 1 /\ Rank(rowStatus[d]) \in 0..3
    BY <1>0, <1>4, NothingShown DEF DetailFrame, DeployPagesInv, FramesFollow
  <2>3. k \in SockRow /\ k.at = "live" /\ k.frames = Tail(socks[d].frames)
    BY <1>0, <2>1, <2>2 DEF SockRow
  <2> HIDE DEF k
  <2>4. FramesFollow'
    <3>1. Len(k.frames) <= Rank(rowStatus[d]) + 1 /\ rowStatus' = rowStatus
      BY <1>4, <2>1, <2>2, <2>3 DEF DetailFrame
    <3> QED
      BY <2>1, <2>3, <3>1, SockMoves
  <2>5. LoadsTyped'
    BY <1>4, LoadAsked DEF DetailFrame
  <2> QED
    BY <1>0, <1>4, <1>k, <1>s, <2>4, <2>5, OpenedOnDetail DEF DetailFrame, DeployPagesInv
<1>5. ASSUME NEW d \in Deploys, DetailDrop(d) PROVE DeployPagesInv'
  <2>2. FramesFollow'
    BY <1>5, SockOver, SockReset DEF DetailDrop
  <2> QED
    BY <1>0, <1>5, <1>k, <1>s, <1>l, <2>2, OpenedOnDetail DEF DetailDrop, DeployPagesInv
<1>6. ASSUME NEW l \in Loads, DetailLoaded(l) PROVE DeployPagesInv'
  <2>1. loads[l] \in LoadRow /\ loads[l].saw \in [Deploys -> ShownStatus] /\ loads[l].then \in Deploys \cup {0}
    BY <1>0 DEF LoadRow
  <2>2. list' \in [Deploys -> ShownStatus] /\ excused' \in BOOLEAN
    BY <1>0, <1>6, <2>1 DEF DetailLoaded
  <2>3. selected' \in Deploys \cup {0}
    BY <1>0, <1>6, <2>1, NewestSeen DEF DetailLoaded
  <2>4. FramesFollow'
    BY <1>6, <1>f, SelectionFollowed DEF DetailLoaded
  <2>5. LoadsTyped'
    BY <1>6, NothingShown, LoadMoves DEF DetailLoaded
  <2> QED
    BY <1>0, <1>6, <1>k, <1>s, <2>2, <2>3, <2>4, <2>5, OpenedOnDetail DEF DetailLoaded, DeployPagesInv
<1> QED
  BY <1>1, <1>2, <1>3, <1>4, <1>5, <1>6

LEMMA DeployPagesKeep == DeployPagesInv /\ [DeployPagesNext]_deployPagesVars => DeployPagesInv'
<1> SUFFICES ASSUME DeployPagesInv, [DeployPagesNext]_deployPagesVars PROVE DeployPagesInv'
  OBVIOUS
<1>1. CASE UNCHANGED deployPagesVars
  BY <1>1 DEF deployPagesVars, DeployPagesInv, ServerTyped, LoadsTyped, PageTyped, FramesFollow, OpenedOnce
<1> QED
  BY <1>1, ServerSteps, DashboardSteps, DetailSteps DEF DeployPagesNext, PagesStep

LEMMA DeployPagesTyped == DeployPagesInv => DeployPagesTypeOK
<1> SUFFICES ASSUME DeployPagesInv PROVE DeployPagesTypeOK
  OBVIOUS
<1>1. ASSUME NEW d \in Deploys PROVE socks[d].at \in {"none", "opening", "read", "live", "over"} /\ Len(socks[d].frames) <= 4
  <2>1. socks[d] \in SockRow /\ Rank(rowStatus[d]) \in 0..3 /\ Len(socks[d].frames) \in Nat
    BY NothingShown DEF DeployPagesInv, FramesFollow, ServerTyped, SockRow
  <2> QED
    BY <2>1 DEF DeployPagesInv, FramesFollow, SockRow
<1> QED
  BY <1>1 DEF DeployPagesInv, DeployPagesTypeOK, ServerTyped, PageTyped, OpenedOnce, PostRow, ShownStatus

(***************************************************************************)
(* The flows that a user waits for, in their run's module.                 *)
(***************************************************************************)
LEMMA FlowsParts ==
  /\ FlowsInit => PreviewInit /\ LogInit /\ ChatInit /\ TriggersInit /\ DeployPagesInit
  /\ FlowsNext => /\ [PreviewNext]_previewVars /\ [LogNext]_logVars /\ [ChatNext]_chatVars
                  /\ [TriggersNext]_triggersVars /\ [DeployPagesNext]_deployPagesVars
BY DEF FlowsInit, FlowsNext

\* Each component of the flows keeps its types, with whatever bounds.
THEOREM FlowsTypeCorrect == FlowsSpec => []FlowsTypeOK
<1> DEFINE Inv == PreviewInv /\ LogInv /\ ChatInv /\ TriggersInv /\ DeployPagesInv
           all == <<flow, previewVars, logVars, chatVars, triggersVars, deployPagesVars>>
<1>1. Inv => FlowsTypeOK
  BY LogShown, ChatIsTyped, DeployPagesTyped DEF FlowsTypeOK, TriggersInv, PreviewInv, PreviewTyped
<1>2. FlowsInit => Inv
  BY FlowsParts, PreviewStarts, LogStarts, ChatInvInit, TriggersStart, DeployPagesStart
<1>3. Inv /\ [FlowsNext]_all => Inv'
  <2>1. [FlowsNext]_all => /\ [PreviewNext]_previewVars /\ [LogNext]_logVars /\ [ChatNext]_chatVars
                           /\ [TriggersNext]_triggersVars /\ [DeployPagesNext]_deployPagesVars
    BY FlowsParts
  <2> QED
    BY <2>1, PreviewStep, LogHolds, ChatInvStep, TriggersStep, DeployPagesKeep
<1> QED
  BY <1>1, <1>2, <1>3, PTL DEF FlowsSpec
=============================================================================
