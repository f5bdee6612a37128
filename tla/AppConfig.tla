------------------------------ MODULE AppConfig ------------------------------
(***************************************************************************)
(* One application's configuration: its environment, which a PUT replaces, *)
(* and its build configuration, which a PATCH merges; the deploy that      *)
(* reads them, and the deletion of the application under it.               *)
(* Transactions run at READ COMMITTED: a DELETE removes what was committed *)
(* when it began, and waits for whoever has removed one of those rows.     *)
(***************************************************************************)
EXTENDS Naturals, FiniteSets

CONSTANTS
  Writes,   \* bound: the PUTs and PATCHes there will be
  Clear,    \* clear variables
  Secret    \* the secret one

EnvKeys == Clear \cup {Secret}
Fields  == {"rootDirectory", "publishDirectory"}

ASSUME AppConfigAssumption == Secret \notin Clear

VARIABLES
  appRow,    \* the application's row is there
  env,       \* committed rows of env_vars: [key, of (the write that gave the value), by (that made the row)]
  build,     \* apps.build_config: field -> the write that gave it
  writes,    \* the writes
  deploying, \* the deploy: where it is and the rows it was resolved from
  container  \* the application's container runs

appConfigVars == <<appRow, env, build, writes, deploying, container>>

NotBegun == [op |-> "none", at |-> "none", keys |-> {}, keep |-> FALSE, field |-> "none",
             prev |-> {}, saw |-> {}, gone |-> {}, merged |-> [f \in Fields |-> "none"]]

\* Rows of env_vars, and apps.build_config.
EnvRow      == [key : EnvKeys, of : Writes, by : Writes]
BuildConfig == [Fields -> Writes \cup {"none"}]

AppConfigTypeOK ==
  /\ appRow \in BOOLEAN /\ container \in BOOLEAN
  /\ env \subseteq EnvRow /\ build \in BuildConfig
  /\ deploying.at \in {"idle", "resolve", "run", "row"} /\ deploying.env \subseteq EnvRow
  /\ \A w \in Writes :
       /\ writes[w].op \in {"none", "put", "patch"} /\ writes[w].keys \subseteq EnvKeys
       /\ writes[w].at \in {"none", "read", "delete", "removing", "insert", "commit", "update", "done", "refused"}

AppConfigInit ==
  /\ appRow = TRUE /\ env = {} /\ build = [f \in Fields |-> "none"] /\ container = FALSE
  /\ writes = [w \in Writes |-> NotBegun] /\ deploying = [at |-> "idle", env |-> {}]

WriteAt(w, at) == writes[w].at = at
WriteTo(w, at) == writes' = [writes EXCEPT ![w].at = at]

(***************************************************************************)
(* setEnv.                                                                 *)
(***************************************************************************)
SetEnv(w) ==
  /\ writes[w] = NotBegun /\ appRow
  /\ \E ks \in SUBSET EnvKeys, keep \in BOOLEAN :
       /\ keep => Secret \in ks
       /\ writes' = [writes EXCEPT ![w] = [NotBegun EXCEPT !.op = "put", !.at = "read", !.keys = ks, !.keep = keep]]
  /\ UNCHANGED <<appRow, env, build, deploying, container>>

\* What is there, for the secret that is to stay as it is; one that is not is refused.
ReadExisting(w) ==
  /\ WriteAt(w, "read")
  /\ writes' = [writes EXCEPT ![w].prev = {r \in env : r.key = Secret},
                 ![w].at = IF writes[w].keep /\ ~\E r \in env : r.key = Secret THEN "refused" ELSE "delete"]
  /\ UNCHANGED <<appRow, env, build, deploying, container>>

RowsOf(w) ==
  {[key |-> k, by |-> w,
    of |-> IF k = Secret /\ writes[w].keep THEN (CHOOSE r \in writes[w].prev : TRUE).of ELSE w] : k \in writes[w].keys}

Open(w) == writes[w].at \in {"insert", "commit"}

\* The DELETE begins, with the rows that are committed now.
DeleteBegins(w) ==
  /\ WriteAt(w, "delete") /\ writes' = [writes EXCEPT ![w].at = "removing", ![w].saw = env]
  /\ UNCHANGED <<appRow, env, build, deploying, container>>

\* It waits for the transactions that have removed one of them, and removes what is left.
DeleteEnds(w) ==
  /\ WriteAt(w, "removing")
  /\ \A v \in Writes \ {w} : Open(v) => writes[v].gone \cap writes[w].saw = {}
  /\ writes' = [writes EXCEPT ![w].at = "insert", ![w].gone = writes[w].saw \cap env]
  /\ UNCHANGED <<appRow, env, build, deploying, container>>

\* One row a key: it waits for an insert that is not committed, and fails on one that is;
\* so it does without the application's row.
InsertEnv(w) ==
  LET clash == {r \in env \ writes[w].gone : r.key \in writes[w].keys} IN
  /\ WriteAt(w, "insert")
  /\ \A v \in Writes \ {w} : WriteAt(v, "commit") => writes[v].keys \cap writes[w].keys = {}
  /\ WriteTo(w, IF clash # {} \/ (~appRow /\ writes[w].keys # {}) THEN "refused" ELSE "commit")
  /\ UNCHANGED <<appRow, env, build, deploying, container>>

CommitEnv(w) ==
  /\ WriteAt(w, "commit") /\ WriteTo(w, "done")
  /\ env' = (env \ writes[w].gone) \cup RowsOf(w)
  /\ UNCHANGED <<appRow, build, deploying, container>>

\* The connection or the process: what was not committed is as if it had not been.
WriteDies(w) ==
  /\ writes[w].at \notin {"none", "done", "refused"} /\ WriteTo(w, "refused")
  /\ UNCHANGED <<appRow, env, build, deploying, container>>

(***************************************************************************)
(* updateApp: the build configuration is merged over the row that was read *)
(***************************************************************************)
UpdateApp(w) ==
  /\ writes[w] = NotBegun /\ appRow
  /\ \E f \in Fields :
       writes' = [writes EXCEPT ![w] = [NotBegun EXCEPT !.op = "patch", !.at = "update", !.field = f,
                                                        !.merged = [build EXCEPT ![f] = w]]]
  /\ UNCHANGED <<appRow, env, build, deploying, container>>

UpdateRow(w) ==
  /\ WriteAt(w, "update") /\ WriteTo(w, IF appRow THEN "done" ELSE "refused")
  /\ build' = IF appRow THEN writes[w].merged ELSE build
  /\ UNCHANGED <<appRow, env, deploying, container>>

(***************************************************************************)
(* The deploy, and the deletion of the application.                        *)
(***************************************************************************)
DeployBegins ==
  /\ appRow /\ deploying.at = "idle" /\ deploying' = [at |-> "resolve", env |-> {}]
  /\ UNCHANGED <<appRow, env, build, writes, container>>

ResolveDeployEnv ==
  /\ deploying.at = "resolve" /\ deploying' = [at |-> "run", env |-> env]
  /\ UNCHANGED <<appRow, env, build, writes, container>>

RunContainer ==
  /\ deploying.at = "run" /\ container' = TRUE /\ deploying' = [deploying EXCEPT !.at = "row"]
  /\ UNCHANGED <<appRow, env, build, writes>>

\* The row of the deployment went with the application's; nothing is updated then.
ConfigDeployEnds ==
  /\ deploying.at = "row" /\ deploying' = [deploying EXCEPT !.at = "idle"]
  /\ UNCHANGED <<appRow, env, build, writes, container>>

\* It waits for inserts that refer to the row.
DeleteApp ==
  /\ appRow /\ \A w \in Writes : WriteAt(w, "commit") => writes[w].keys = {}
  /\ appRow' = FALSE /\ env' = {} /\ UNCHANGED <<build, writes, deploying, container>>

\* Once, in the background; a container that is started later is nobody's.
RemoveAppContainers ==
  /\ ~appRow /\ container /\ container' = FALSE /\ UNCHANGED <<appRow, env, build, writes, deploying>>

AppConfigNext ==
  \/ \E w \in Writes : \/ SetEnv(w) \/ ReadExisting(w) \/ DeleteBegins(w) \/ DeleteEnds(w) \/ InsertEnv(w)
                       \/ CommitEnv(w) \/ WriteDies(w) \/ UpdateApp(w) \/ UpdateRow(w)
  \/ DeployBegins \/ ResolveDeployEnv \/ RunContainer \/ ConfigDeployEnds \/ DeleteApp \/ RemoveAppContainers

AppConfigSpec == AppConfigInit /\ [][AppConfigNext]_appConfigVars

(***************************************************************************)
(* Properties.                                                             *)
(***************************************************************************)

\* A deploy runs with all the variables of a PUT or with none: a replacement is one
\* transaction, through others that run beside it, refusals and deaths
\* (env.service.ts:86-93, 111-133).
EnvWhole ==
  \A w \in Writes : LET mine == {r \in deploying.env : r.by = w} IN
    mine # {} => {r.key : r \in mine} = writes[w].keys
=============================================================================
