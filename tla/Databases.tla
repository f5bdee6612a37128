----------------------------- MODULE Databases ------------------------------
(***************************************************************************)
(* Provisioned databases: one managed server, the databases and roles that *)
(* requests create and drop on it by SQL, the rows that describe them, and *)
(* the studio's sessions, which pin a database.  SQL and rows are written  *)
(* one after another, outside any transaction.  Then the replication of    *)
(* one server's databases to another: the two share no state.              *)
(***************************************************************************)
EXTENDS Naturals

CONSTANTS
  DbNames,      \* names of databases, the role of each being <name>_app
  DbIds,        \* databases that may be created
  DbCalls,      \* bound: requests at a time
  MaxDbFaults   \* bound: statements that fail and deaths of the process

NoDb == "none"
ASSUME DatabasesAssumption == NoDb \notin DbIds /\ MaxDbFaults \in Nat

VARIABLES
  dbServer,   \* the server's row
  dbRows,     \* the rows of databases: id -> name and whether database_users has its row
  sqlRole,    \* roles on the server: name -> the database it was made for
  sqlDb,      \* databases on the server: name -> the creation that made it
  sessions,   \* the studio's sessions: <<id, "pooled" or "closing">>
  dbCalls,    \* requests under way
  doomed,     \* databases whose drop was asked for, or that another row's drop hit
  dbFaults

databasesVars == <<dbServer, dbRows, sqlRole, sqlDb, sessions, dbCalls, doomed, dbFaults>>

NoDbRow  == [name |-> NoDb, user |-> FALSE]
NoDbCall == [op |-> "none", at |-> "none", id |-> NoDb, name |-> NoDb, again |-> FALSE]

\* Rows of database_servers, and of databases with that of database_users.
DbServerRow == {"absent", "registered", "deleted"}
DbRow       == [name : DbNames \cup {NoDb}, user : BOOLEAN]

\* Where a request is, and whether a query opened a session after its eviction.
DbCallState == [op : {"none", "create", "drop", "query"},
                at : {"none", "role", "db", "row", "user", "evict", "close", "dropdb", "droprole",
                      "delete", "acquire"},
                id : DbIds \cup {NoDb}, name : DbNames \cup {NoDb}, again : BOOLEAN]

DatabasesTypeOK ==
  /\ dbServer \in DbServerRow /\ dbFaults \in 0..MaxDbFaults /\ doomed \subseteq DbIds
  /\ dbRows \in [DbIds -> DbRow]
  /\ sqlRole \in [DbNames -> DbIds \cup {NoDb}] /\ sqlDb \in [DbNames -> DbIds \cup {NoDb}]
  /\ sessions \subseteq DbIds \X {"pooled", "closing"}
  /\ dbCalls \in [DbCalls -> DbCallState]

DatabasesInit ==
  /\ dbServer = "absent" /\ dbRows = [d \in DbIds |-> NoDbRow]
  /\ sqlRole = [n \in DbNames |-> NoDb] /\ sqlDb = [n \in DbNames |-> NoDb]
  /\ sessions = {} /\ dbCalls = [c \in DbCalls |-> NoDbCall] /\ doomed = {} /\ dbFaults = 0

DbCallAt(c, at) == dbCalls[c].at = at
DbCallTo(c, at) == dbCalls' = [dbCalls EXCEPT ![c].at = at]
DbAnswers(c)    == dbCalls' = [dbCalls EXCEPT ![c] = NoDbCall]
OnServer        == <<sqlRole, sqlDb>>

RegisterDbServer ==
  /\ dbServer = "absent" /\ dbServer' = "registered"
  /\ UNCHANGED <<dbRows, OnServer, sessions, dbCalls, doomed, dbFaults>>

\* The server goes, and by cascade the rows; what is on the machine stays.
DeleteDbServer ==
  /\ dbServer = "registered" /\ dbServer' = "deleted" /\ dbRows' = [d \in DbIds |-> NoDbRow]
  /\ UNCHANGED <<OnServer, sessions, dbCalls, doomed, dbFaults>>

(***************************************************************************)
(* createDatabase: CREATE ROLE, CREATE DATABASE, REVOKE, and then the two  *)
(* rows.  The connection string is in the answer and nowhere else.         *)
(***************************************************************************)
CreateDatabase(c) ==
  /\ dbServer = "registered" /\ dbCalls[c] = NoDbCall
  /\ \E d \in DbIds, n \in DbNames :
       /\ dbRows[d] = NoDbRow /\ \A k \in DbCalls : dbCalls[k].id # d
       /\ d \notin doomed /\ \A m \in DbNames : sqlRole[m] # d /\ sqlDb[m] # d
       /\ dbCalls' = [dbCalls EXCEPT ![c] = [NoDbCall EXCEPT !.op = "create", !.at = "role",
                                                            !.id = d, !.name = n]]
  /\ UNCHANGED <<dbServer, dbRows, OnServer, sessions, doomed, dbFaults>>

\* Fails where the role exists.
CreateRole(c) ==
  LET n == dbCalls[c].name IN
  /\ DbCallAt(c, "role")
  /\ IF sqlRole[n] # NoDb THEN DbAnswers(c) /\ UNCHANGED sqlRole
     ELSE DbCallTo(c, "db") /\ sqlRole' = [sqlRole EXCEPT ![n] = dbCalls[c].id]
  /\ UNCHANGED <<dbServer, dbRows, sqlDb, sessions, doomed, dbFaults>>

\* Fails where the database exists; the role that was just created stays.
CreateDb(c) ==
  LET n == dbCalls[c].name IN
  /\ DbCallAt(c, "db")
  /\ IF sqlDb[n] # NoDb THEN DbAnswers(c) /\ UNCHANGED sqlDb
     ELSE DbCallTo(c, "row") /\ sqlDb' = [sqlDb EXCEPT ![n] = dbCalls[c].id]
  /\ UNCHANGED <<dbServer, dbRows, sqlRole, sessions, doomed, dbFaults>>

\* Refused where a row has the name, or the server's row is gone.
InsertDatabase(c) ==
  LET n == dbCalls[c].name IN
  /\ DbCallAt(c, "row")
  /\ IF dbServer = "registered" /\ \A d \in DbIds : dbRows[d].name # n
     THEN DbCallTo(c, "user") /\ dbRows' = [dbRows EXCEPT ![dbCalls[c].id].name = n]
     ELSE DbAnswers(c) /\ UNCHANGED dbRows
  /\ UNCHANGED <<dbServer, OnServer, sessions, doomed, dbFaults>>

\* The last step: the row is referenced, so it must still be there.
InsertDatabaseUser(c) ==
  /\ DbCallAt(c, "user") /\ DbAnswers(c)
  /\ dbRows' = IF dbRows[dbCalls[c].id] = NoDbRow THEN dbRows
               ELSE [dbRows EXCEPT ![dbCalls[c].id].user = TRUE]
  /\ UNCHANGED <<dbServer, OnServer, sessions, doomed, dbFaults>>

(***************************************************************************)
(* dropDatabase: the studio's connection first, then DROP DATABASE and     *)
(* DROP ROLE, IF EXISTS both, then the row.                                *)
(***************************************************************************)
DropDatabase(c) ==
  /\ dbServer = "registered" /\ dbCalls[c] = NoDbCall
  /\ \E d \in DbIds :
       /\ dbRows[d] # NoDbRow /\ doomed' = doomed \cup {d}
       /\ dbCalls' = [dbCalls EXCEPT ![c] = [NoDbCall EXCEPT !.op = "drop", !.at = "evict",
                                                            !.id = d, !.name = dbRows[d].name]]
  /\ UNCHANGED <<dbServer, dbRows, OnServer, sessions, dbFaults>>

\* Faulty: the close is not waited for.
EvictManagedSoon(c) ==
  LET d == dbCalls[c].id IN
  /\ DbCallAt(c, "evict") /\ DbCallTo(c, "dropdb")
  /\ sessions' = IF <<d, "pooled">> \in sessions
                 THEN (sessions \ {<<d, "pooled">>}) \cup {<<d, "closing">>} ELSE sessions
  /\ UNCHANGED <<dbServer, dbRows, OnServer, doomed, dbFaults>>

\* The driver leaves the pool at once and is closed; one that another request's
\* eviction took out of the pool is nothing to wait for.
EvictManaged(c) ==
  LET d == dbCalls[c].id IN
  /\ DbCallAt(c, "evict")
  /\ IF <<d, "pooled">> \in sessions
     THEN /\ sessions' = (sessions \ {<<d, "pooled">>}) \cup {<<d, "closing">>}
          /\ DbCallTo(c, "close")
     ELSE DbCallTo(c, "dropdb") /\ UNCHANGED sessions
  /\ UNCHANGED <<dbServer, dbRows, OnServer, doomed, dbFaults>>

SessionCloses(d) ==
  /\ <<d, "closing">> \in sessions /\ sessions' = sessions \ {<<d, "closing">>}
  /\ dbCalls' = [c \in DbCalls |-> IF dbCalls[c].id = d /\ DbCallAt(c, "close")
                                   THEN [dbCalls[c] EXCEPT !.at = "dropdb"] ELSE dbCalls[c]]
  /\ UNCHANGED <<dbServer, dbRows, OnServer, doomed, dbFaults>>

\* Refused while a session is on the database, and the request with it.
Pinned(n) == \E s \in sessions : sqlDb[n] = s[1]

DropDb(c) ==
  LET n == dbCalls[c].name IN
  /\ DbCallAt(c, "dropdb")
  /\ IF Pinned(n) THEN DbAnswers(c) /\ UNCHANGED <<sqlDb, doomed>>
     ELSE /\ DbCallTo(c, "droprole") /\ sqlDb' = [sqlDb EXCEPT ![n] = NoDb]
          /\ doomed' = doomed \cup ({sqlDb[n]} \ {NoDb})
  /\ UNCHANGED <<dbServer, dbRows, sqlRole, sessions, dbFaults>>

\* Refused while the role owns a database.
DropRole(c) ==
  LET n == dbCalls[c].name IN
  /\ DbCallAt(c, "droprole")
  /\ IF sqlDb[n] # NoDb THEN DbAnswers(c) /\ UNCHANGED <<sqlRole, doomed>>
     ELSE /\ DbCallTo(c, "delete") /\ sqlRole' = [sqlRole EXCEPT ![n] = NoDb]
          /\ doomed' = doomed \cup ({sqlRole[n]} \ {NoDb})
  /\ UNCHANGED <<dbServer, dbRows, sqlDb, sessions, dbFaults>>

DeleteDatabase(c) ==
  /\ DbCallAt(c, "delete") /\ DbAnswers(c) /\ dbRows' = [dbRows EXCEPT ![dbCalls[c].id] = NoDbRow]
  /\ UNCHANGED <<dbServer, OnServer, sessions, doomed, dbFaults>>

(***************************************************************************)
(* The studio on a managed database: the rows are read, then a driver is   *)
(* taken from the pool or made, and its session idles out.                 *)
(***************************************************************************)
ResolveManaged(c) ==
  /\ dbCalls[c] = NoDbCall
  /\ \E d \in DbIds :
       /\ dbRows[d] # NoDbRow
       /\ dbCalls' = [dbCalls EXCEPT ![c] = [NoDbCall EXCEPT !.op = "query", !.at = "acquire", !.id = d]]
  /\ UNCHANGED <<dbServer, dbRows, OnServer, sessions, doomed, dbFaults>>

\* A session can be had where the database is.
AcquireManaged(c) ==
  LET d == dbCalls[c].id IN
  /\ DbCallAt(c, "acquire")
  /\ IF \A n \in DbNames : sqlDb[n] # d THEN DbAnswers(c) /\ UNCHANGED sessions
     ELSE /\ sessions' = sessions \cup {<<d, "pooled">>}
          /\ dbCalls' = [k \in DbCalls |-> IF k = c THEN NoDbCall
                         ELSE IF dbCalls[k].id = d THEN [dbCalls[k] EXCEPT !.again = dbCalls[k].at \in {"close", "dropdb"}]
                         ELSE dbCalls[k]]
  /\ UNCHANGED <<dbServer, dbRows, OnServer, doomed, dbFaults>>

SessionIdles(d) ==
  /\ <<d, "pooled">> \in sessions /\ sessions' = sessions \ {<<d, "pooled">>}
  /\ UNCHANGED <<dbServer, dbRows, OnServer, dbCalls, doomed, dbFaults>>

\* A statement or an insert fails for a reason of its own.
DbStepFails(c) ==
  /\ dbFaults < MaxDbFaults /\ dbFaults' = dbFaults + 1
  /\ dbCalls[c].at \notin {"none", "evict", "close"} /\ DbAnswers(c)
  /\ UNCHANGED <<dbServer, dbRows, OnServer, sessions, doomed>>

DbProcessDies ==
  /\ dbFaults < MaxDbFaults /\ dbFaults' = dbFaults + 1
  /\ dbCalls' = [c \in DbCalls |-> NoDbCall] /\ sessions' = {}
  /\ UNCHANGED <<dbServer, dbRows, OnServer, doomed>>

DatabasesNext ==
  \/ RegisterDbServer \/ DeleteDbServer \/ DbProcessDies
  \/ \E c \in DbCalls : \/ CreateDatabase(c) \/ CreateRole(c) \/ CreateDb(c) \/ InsertDatabase(c)
                        \/ InsertDatabaseUser(c) \/ DropDatabase(c) \/ EvictManaged(c) \/ DropDb(c)
                        \/ DropRole(c) \/ DeleteDatabase(c) \/ ResolveManaged(c) \/ AcquireManaged(c)
                        \/ DbStepFails(c)
  \/ \E d \in DbIds : SessionCloses(d) \/ SessionIdles(d)

DatabasesSpec == DatabasesInit /\ [][DatabasesNext]_databasesVars

(***************************************************************************)
(* Properties.                                                             *)
(***************************************************************************)

\* A listed database that nobody asked to drop is on the server with the role whose
\* password its caller got, through failures and deaths between the statements and the
\* rows, and whatever was left by others of the same name (provisioner.ts:39-59,
\* databases.service.ts:182-216).
RowBacked ==
  \A d \in DbIds : dbRows[d] # NoDbRow /\ d \notin doomed =>
    sqlDb[dbRows[d].name] = d /\ sqlRole[dbRows[d].name] = d

\* databases.service.ts:250-252: the studio's connection is closed "first - else DROP
\* DATABASE fails": when the statement is sent only a request that came in after the
\* eviction, or one whose eviction another drop took over, has a session there.
DropFindsNoSession ==
  \A c \in DbCalls : DbCallAt(c, "dropdb") /\ (\E s \in sessions : s[1] = dbCalls[c].id) =>
    dbCalls[c].again \/ \E k \in DbCalls \ {c} : DbCallAt(k, "close") /\ dbCalls[k].id = dbCalls[c].id

(***************************************************************************)
(* Logical replication between two managed servers: a publication on the   *)
(* primary, a subscription on the replica, and the row that says they are  *)
(* there.  Each is made and dropped over a connection of its own.          *)
(***************************************************************************)
CONSTANTS
  RepIds,       \* replicas that may be created
  RepCalls,     \* bound: requests at a time
  MaxRepFaults  \* bound: connections that fail and deaths of the process

NoRep == "none"
ASSUME ReplicasAssumption == NoRep \notin RepIds /\ MaxRepFaults \in Nat

VARIABLES
  managed,       \* the two servers that are registered
  repRows,       \* db_replicas: whether a replica has a row, and its replica server
  publications,  \* on the primary
  subscriptions, \* on the replica, each with its slot on the primary
  repCalls,      \* requests under way
  tornDown,      \* replicas whose deletion was asked for
  repFaults

replicasVars == <<managed, repRows, publications, subscriptions, repCalls, tornDown, repFaults>>

NoRepCall == [at |-> "none", id |-> NoRep, both |-> FALSE]

\* Rows of database_servers and of db_replicas.
ManagedServers == {"primary", "replica"}
ReplicaRow     == {"none", "streaming", "orphaned"}

ReplicasTypeOK ==
  /\ managed \subseteq ManagedServers /\ repFaults \in 0..MaxRepFaults
  /\ repRows \in [RepIds -> ReplicaRow]
  /\ publications \subseteq RepIds /\ subscriptions \subseteq RepIds /\ tornDown \subseteq RepIds
  /\ repCalls \in [RepCalls -> [at : {"none", "publish", "subscribe", "insert", "unsubscribe",
                                      "unpublish", "delete"},
                                id : RepIds \cup {NoRep}, both : BOOLEAN]]

ReplicasInit ==
  /\ managed = ManagedServers /\ repRows = [i \in RepIds |-> "none"]
  /\ publications = {} /\ subscriptions = {} /\ tornDown = {} /\ repFaults = 0
  /\ repCalls = [c \in RepCalls |-> NoRepCall]

RepAt(c, at) == repCalls[c].at = at
RepTo(c, at) == repCalls' = [repCalls EXCEPT ![c].at = at]
RepAnswers(c) == repCalls' = [repCalls EXCEPT ![c] = NoRepCall]
RepArrives(c, at, i, both) ==
  repCalls[c] = NoRepCall /\ repCalls' = [repCalls EXCEPT ![c] = [at |-> at, id |-> i, both |-> both]]
Fails == repFaults < MaxRepFaults /\ repFaults' = repFaults + 1
Works == UNCHANGED repFaults

\* The rows of a primary go with it; a replica's keep a null.
DeleteManaged(s) ==
  /\ s \in managed /\ managed' = managed \ {s}
  /\ repRows' = [i \in RepIds |-> IF repRows[i] = "none" \/ s = "primary" THEN "none" ELSE "orphaned"]
  /\ UNCHANGED <<publications, subscriptions, repCalls, tornDown, repFaults>>

\* Both servers in the organization, different, and Postgres.
CreateReplica(c) ==
  /\ managed = {"primary", "replica"}
  /\ \E i \in RepIds \ (publications \cup subscriptions \cup tornDown) :
       /\ repRows[i] = "none" /\ \A k \in RepCalls : repCalls[k].id # i
       /\ RepArrives(c, "publish", i, TRUE)
  /\ UNCHANGED <<managed, repRows, publications, subscriptions, tornDown, repFaults>>

CreatePublication(c) ==
  /\ RepAt(c, "publish")
  /\ \/ Works /\ RepTo(c, "subscribe") /\ publications' = publications \cup {repCalls[c].id}
     \/ Fails /\ RepAnswers(c) /\ UNCHANGED publications
  /\ UNCHANGED <<managed, repRows, subscriptions, tornDown>>

\* On a failure the request is refused, and the publication stays.
CreateSubscription(c) ==
  /\ RepAt(c, "subscribe")
  /\ \/ Works /\ RepTo(c, "insert") /\ subscriptions' = subscriptions \cup {repCalls[c].id}
     \/ Fails /\ RepAnswers(c) /\ UNCHANGED subscriptions
  /\ UNCHANGED <<managed, repRows, publications, tornDown>>

\* Its status is streaming from the first.  Refused where a server has gone.
InsertReplica(c) ==
  /\ RepAt(c, "insert") /\ RepAnswers(c)
  /\ repRows' = IF managed = {"primary", "replica"}
                THEN [repRows EXCEPT ![repCalls[c].id] = "streaming"] ELSE repRows
  /\ UNCHANGED <<managed, publications, subscriptions, tornDown, repFaults>>

\* The row and the servers it names are read first.
DeleteReplica(c) ==
  /\ \E i \in RepIds :
       /\ repRows[i] # "none" /\ tornDown' = tornDown \cup {i}
       /\ RepArrives(c, IF repRows[i] = "streaming" THEN "unsubscribe" ELSE "unpublish", i, repRows[i] = "streaming")
  /\ UNCHANGED <<managed, repRows, publications, subscriptions, repFaults>>

\* A failure is put up with: the subscription, and its slot, stay.
DropSubscription(c) ==
  /\ RepAt(c, "unsubscribe") /\ RepTo(c, "unpublish")
  /\ \/ Works /\ subscriptions' = subscriptions \ {repCalls[c].id}
     \/ Fails /\ UNCHANGED subscriptions
  /\ UNCHANGED <<managed, repRows, publications, tornDown>>

DropPublication(c) ==
  /\ RepAt(c, "unpublish") /\ RepTo(c, "delete")
  /\ \/ Works /\ publications' = publications \ {repCalls[c].id}
     \/ Fails /\ UNCHANGED publications
  /\ UNCHANGED <<managed, repRows, subscriptions, tornDown>>

DeleteReplicaRow(c) ==
  /\ RepAt(c, "delete") /\ RepAnswers(c) /\ repRows' = [repRows EXCEPT ![repCalls[c].id] = "none"]
  /\ UNCHANGED <<managed, publications, subscriptions, tornDown, repFaults>>

RepProcessDies ==
  /\ Fails /\ repCalls' = [c \in RepCalls |-> NoRepCall]
  /\ UNCHANGED <<managed, repRows, publications, subscriptions, tornDown>>

ReplicasNext ==
  \/ \E s \in ManagedServers : DeleteManaged(s)
  \/ RepProcessDies
  \/ \E c \in RepCalls : \/ CreateReplica(c) \/ CreatePublication(c) \/ CreateSubscription(c)
                         \/ InsertReplica(c) \/ DeleteReplica(c) \/ DropSubscription(c)
                         \/ DropPublication(c) \/ DeleteReplicaRow(c)

ReplicasSpec == ReplicasInit /\ [][ReplicasNext]_replicasVars

(***************************************************************************)
(* Properties.                                                             *)
(***************************************************************************)

\* A row that says "streaming" has its publication and its subscription until somebody
\* asks for its deletion: it is written last, and no failure on the way, death of the
\* process or deletion of another replica lets it lie (replication.service.ts:130-163).
StreamingIsReal ==
  \A i \in RepIds \ tornDown : repRows[i] = "streaming" => i \in publications \cap subscriptions
=============================================================================
