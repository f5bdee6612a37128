------------------------------- MODULE Studio --------------------------------
(***************************************************************************)
(* The database studio on external profiles: the pool of drivers that all  *)
(* requests share, and the statements and batches of row edits they run    *)
(* through it.  A Postgres driver gives a batch a session of its own; a    *)
(* MySQL driver has one session, on which everything is interleaved.       *)
(***************************************************************************)
EXTENDS Naturals, Sequences, FiniteSets

CONSTANTS
  Profiles,    \* external connection profiles
  MyProfiles,  \* the ones of engine mysql or mariadb; the others are postgres
  StudioCalls, \* bound: requests in all
  PoolMax      \* createDbStudioPool: max (25)

ASSUME StudioAssumption == MyProfiles \subseteq Profiles /\ "none" \notin Profiles /\ PoolMax \in Nat \ {0}

VARIABLES
  profiles,   \* db_connections
  drivers,    \* the pool, oldest first
  session,    \* a MySQL driver's session: its transaction, and how its dial went
  studio,     \* the requests
  committed,  \* what is in the database: statements <<request, number>>
  unheard     \* requests of which the server carried out what its answer did not tell

studioVars == <<profiles, drivers, session, studio, committed, unheard>>

NoSession  == [dial |-> "idle", inTx |-> FALSE, tx |-> {}]
Broken     == [dial |-> "refused", inTx |-> FALSE, tx |-> {}]
NewCall == [op |-> "none", at |-> "none", on |-> "none", next |-> 1, mine |-> {}, gone |-> FALSE]
StatementsOf(c) == IF studio[c].op = "edits" THEN {1, 2} ELSE {1}

\* Rows of db_connections.
ProfileRow == {"none", "writable", "readonly", "deleting", "deleted"}

StudioTypeOK ==
  /\ profiles \in [Profiles -> ProfileRow]
  /\ Len(drivers) <= PoolMax /\ \A i \in 1..Len(drivers) : drivers[i] \in Profiles
  /\ committed \subseteq StudioCalls \X {1, 2} /\ unheard \subseteq StudioCalls
  /\ \A x \in Profiles : session[x].dial \in {"idle", "open", "refused"}
                         /\ session[x].tx \subseteq StudioCalls \X {1, 2}
  /\ \A c \in StudioCalls :
       /\ studio[c].op \in {"none", "edits", "write"} /\ studio[c].next \in 1..3
       /\ studio[c].at \in {"none", "acquire", "begin", "run", "commit", "rollback", "ok", "failed"}

StudioInit ==
  /\ profiles = [x \in Profiles |-> "none"] /\ drivers = <<>> /\ committed = {} /\ unheard = {}
  /\ session = [x \in Profiles |-> NoSession]
  /\ studio = [c \in StudioCalls |-> NewCall]

StudioAt(c, at) == studio[c].at = at
StudioTo(c, at) == studio' = [studio EXCEPT ![c].at = at]
Pooled(x) == \E i \in 1..Len(drivers) : drivers[i] = x
Mine(c)   == studio[c].on \in MyProfiles

Without(x) == LET i == CHOOSE i \in 1..Len(drivers) : drivers[i] = x IN
              SubSeq(drivers, 1, i - 1) \o SubSeq(drivers, i + 1, Len(drivers))

\* Its host passed the check; it is made writable or not.
CreateExternal(x) ==
  /\ profiles[x] = "none" /\ \E p \in {"writable", "readonly"} : profiles' = [profiles EXCEPT ![x] = p]
  /\ UNCHANGED <<drivers, session, studio, committed, unheard>>

(***************************************************************************)
(* The pool.  A driver that is evicted is closed under whoever uses it;    *)
(* the server rolls back what its session had open.                        *)
(***************************************************************************)
Closed(calls, xs) ==
  [c \in StudioCalls |-> IF calls[c].on \in xs /\ calls[c].at \notin {"acquire", "ok", "failed"}
                         THEN [calls[c] EXCEPT !.gone = TRUE] ELSE calls[c]]
ClosedSessions(xs) == [x \in Profiles |-> IF x \in xs THEN NoSession ELSE session[x]]

DeleteExternal(x) ==
  /\ profiles[x] \in {"writable", "readonly"} /\ profiles' = [profiles EXCEPT ![x] = "deleting"]
  /\ UNCHANGED <<drivers, session, studio, committed, unheard>>

EvictExternal(x) ==
  /\ profiles[x] = "deleting" /\ profiles' = [profiles EXCEPT ![x] = "deleted"]
  /\ drivers' = IF Pooled(x) THEN Without(x) ELSE drivers
  /\ studio' = Closed(studio, {x}) /\ session' = ClosedSessions({x})
  /\ UNCHANGED <<committed, unheard>>

\* resolveExternal: the row is read, and the host checked again, before the pool is asked.
ResolveExternal(c) ==
  /\ studio[c] = NewCall
  /\ \E x \in Profiles, op \in {"edits", "write"} :
       /\ profiles[x] \in {"writable", "readonly"}
       /\ studio' = [studio EXCEPT ![c].op = op, ![c].on = x,
                                   ![c].at = IF profiles[x] = "writable" THEN "acquire" ELSE "failed"]
  /\ UNCHANGED <<profiles, drivers, session, committed, unheard>>

Acquire(c) ==
  LET x == studio[c].on
      full == Len(drivers) >= PoolMax
      oldest == IF full THEN {Head(drivers)} ELSE {} IN
  /\ StudioAt(c, "acquire")
  /\ IF Pooled(x) THEN StudioTo(c, "begin") /\ UNCHANGED <<drivers, session>>
     ELSE /\ drivers' = Append(IF full THEN Tail(drivers) ELSE drivers, x)
          /\ session' = ClosedSessions(oldest \cup {x})
          /\ studio' = [Closed(studio, oldest) EXCEPT ![c].at = "begin"]
  /\ UNCHANGED <<profiles, committed, unheard>>

(***************************************************************************)
(* Running on the driver.                                                  *)
(***************************************************************************)

\* The first use dials; the promise is kept, and with it a refusal, for the driver's life.
DialMysql(c) ==
  LET x == studio[c].on IN
  /\ StudioAt(c, "begin") /\ Mine(c) /\ ~studio[c].gone /\ session[x].dial = "idle"
  /\ \E d \in {"open", "refused"} : session' = [session EXCEPT ![x].dial = d]
  /\ UNCHANGED <<profiles, drivers, studio, committed, unheard>>

\* The connection is lost, and its transaction with it; the driver keeps it as it is.
SessionDrops(x) ==
  /\ x \in MyProfiles /\ session[x].dial = "open" /\ session' = [session EXCEPT ![x] = Broken]
  /\ UNCHANGED <<profiles, drivers, studio, committed, unheard>>

DialFailed(c) ==
  /\ StudioAt(c, "begin") /\ (studio[c].gone \/ (Mine(c) /\ session[studio[c].on].dial = "refused"))
  /\ StudioTo(c, "failed") /\ UNCHANGED <<profiles, drivers, session, committed, unheard>>

\* A single statement has no transaction of its own.
BeginStatement(c) ==
  /\ StudioAt(c, "begin") /\ studio[c].op = "write" /\ ~studio[c].gone
  /\ Mine(c) => session[studio[c].on].dial = "open"
  /\ StudioTo(c, "run") /\ UNCHANGED <<profiles, drivers, session, committed, unheard>>

\* BEGIN on a session that has a transaction open commits that one first.
BeginMysql(c) ==
  LET x == studio[c].on IN
  /\ StudioAt(c, "begin") /\ studio[c].op = "edits" /\ Mine(c)
  /\ ~studio[c].gone /\ session[x].dial = "open" /\ StudioTo(c, "run")
  /\ committed' = committed \cup session[x].tx
  /\ session' = [session EXCEPT ![x].inTx = TRUE, ![x].tx = {}]
  /\ UNCHANGED <<profiles, drivers, unheard>>

\* sql.begin: a connection of the driver's is this batch's until it ends.
BeginPostgres(c) ==
  /\ StudioAt(c, "begin") /\ studio[c].op = "edits" /\ ~Mine(c) /\ ~studio[c].gone
  /\ StudioTo(c, "run")
  /\ UNCHANGED <<profiles, drivers, session, committed, unheard>>

After(c) == IF studio[c].next + 1 \in StatementsOf(c) THEN "run"
            ELSE IF studio[c].op = "edits" THEN "commit" ELSE "ok"
Failing(c) == IF studio[c].op = "edits" THEN "rollback" ELSE "failed"

\* A statement reaches the MySQL server: it is in the session's transaction if one is
\* open, whoever opened it.
LandsMysql(c) ==
  LET x == studio[c].on  s == <<c, studio[c].next>> IN
  /\ StudioAt(c, "run") /\ Mine(c) /\ ~studio[c].gone /\ session[x].dial = "open"
  /\ IF session[x].inTx THEN session' = [session EXCEPT ![x].tx = @ \cup {s}] /\ UNCHANGED committed
     ELSE committed' = committed \cup {s} /\ UNCHANGED session
  /\ UNCHANGED <<profiles, drivers>>

RunMysql(c) ==
  /\ LandsMysql(c) /\ UNCHANGED unheard
  /\ studio' = [studio EXCEPT ![c].at = After(c), ![c].next = @ + 1]

\* The time limit is the client's.  The server goes on, and the statement takes effect
\* before whatever follows it on the session.
MysqlTimesOut(c) ==
  /\ LandsMysql(c) /\ StudioTo(c, Failing(c))
  /\ unheard' = IF session[studio[c].on].inTx THEN unheard ELSE unheard \cup {c}

\* Faulty: the statements go to the pool, and each commits by itself.
RunPostgresOutside(c) ==
  LET s == <<c, studio[c].next>> IN
  /\ StudioAt(c, "run") /\ ~Mine(c)
  /\ studio' = [studio EXCEPT ![c].at = After(c), ![c].next = @ + 1]
  /\ committed' = committed \cup {s} /\ UNCHANGED <<profiles, drivers, session, unheard>>

RunPostgres(c) ==
  LET s == <<c, studio[c].next>>  batch == studio[c].op = "edits" IN
  /\ StudioAt(c, "run") /\ ~Mine(c)
  /\ studio' = [studio EXCEPT ![c].at = After(c), ![c].next = @ + 1,
                              ![c].mine = IF batch THEN @ \cup {s} ELSE @]
  /\ committed' = IF batch THEN committed ELSE committed \cup {s}
  /\ UNCHANGED <<profiles, drivers, session, unheard>>

\* A statement on its own is carried out, and the connection is gone before its answer:
\* lost, or ended by a close that waits for its queries no longer than its timeout.
WriteUnheard(c) ==
  /\ StudioAt(c, "run") /\ studio[c].op = "write" /\ ~Mine(c) /\ StudioTo(c, "failed")
  /\ committed' = committed \cup {<<c, 1>>} /\ unheard' = unheard \cup {c}
  /\ UNCHANGED <<profiles, drivers, session>>

\* A constraint, a time limit of the server's, or a session that was closed underneath.
StatementFails(c) ==
  /\ StudioAt(c, "run") /\ StudioTo(c, Failing(c))
  /\ UNCHANGED <<profiles, drivers, session, committed, unheard>>

CommitMysql(c) ==
  LET x == studio[c].on IN
  /\ StudioAt(c, "commit") /\ Mine(c)
  /\ IF studio[c].gone \/ session[x].dial # "open" THEN StudioTo(c, "rollback") /\ UNCHANGED <<session, committed>>
     ELSE /\ StudioTo(c, "ok") /\ committed' = committed \cup session[x].tx
          /\ session' = [session EXCEPT ![x].inTx = FALSE, ![x].tx = {}]
  /\ UNCHANGED <<profiles, drivers, unheard>>

\* What a closed session had is rolled back by the server.
RollbackMysql(c) ==
  LET x == studio[c].on IN
  /\ StudioAt(c, "rollback") /\ Mine(c) /\ StudioTo(c, "failed")
  /\ session' = IF studio[c].gone THEN session
                ELSE [session EXCEPT ![x].inTx = FALSE, ![x].tx = {}]
  /\ UNCHANGED <<profiles, drivers, committed, unheard>>

CommitPostgres(c) ==
  /\ StudioAt(c, "commit") /\ ~Mine(c)
  /\ studio' = [studio EXCEPT ![c].at = "ok", ![c].mine = {}]
  /\ committed' = committed \cup studio[c].mine /\ UNCHANGED <<profiles, drivers, session, unheard>>

RollbackPostgres(c) ==
  /\ (StudioAt(c, "rollback") \/ (StudioAt(c, "commit") /\ studio[c].gone)) /\ ~Mine(c)
  /\ studio' = [studio EXCEPT ![c].at = "failed", ![c].mine = {}]
  /\ UNCHANGED <<profiles, drivers, session, committed, unheard>>

\* The COMMIT is carried out, and its answer does not arrive: the connection is lost, or
\* closed after its timeout.  The rollback that follows has nothing to roll back.
PostgresCommitUnheard(c) ==
  /\ StudioAt(c, "commit") /\ ~Mine(c)
  /\ studio' = [studio EXCEPT ![c].at = "failed", ![c].mine = {}]
  /\ committed' = committed \cup studio[c].mine /\ unheard' = unheard \cup {c}
  /\ UNCHANGED <<profiles, drivers, session>>

MysqlCommitUnheard(c) ==
  LET x == studio[c].on IN
  /\ StudioAt(c, "commit") /\ Mine(c) /\ ~studio[c].gone /\ session[x].dial = "open"
  /\ StudioTo(c, "failed") /\ session' = [session EXCEPT ![x] = Broken]
  /\ committed' = committed \cup session[x].tx /\ unheard' = unheard \cup {c}
  /\ UNCHANGED <<profiles, drivers>>

StudioNext ==
  \/ \E x \in Profiles : CreateExternal(x) \/ DeleteExternal(x) \/ EvictExternal(x) \/ SessionDrops(x)
  \/ \E c \in StudioCalls :
       \/ ResolveExternal(c) \/ Acquire(c) \/ DialMysql(c) \/ DialFailed(c) \/ BeginStatement(c)
       \/ BeginMysql(c) \/ BeginPostgres(c) \/ RunMysql(c) \/ RunPostgres(c) \/ StatementFails(c)
       \/ CommitMysql(c) \/ RollbackMysql(c) \/ CommitPostgres(c) \/ RollbackPostgres(c)
       \/ MysqlTimesOut(c) \/ WriteUnheard(c) \/ PostgresCommitUnheard(c) \/ MysqlCommitUnheard(c)

StudioSpec == StudioInit /\ [][StudioNext]_studioVars

(***************************************************************************)
(* Properties.                                                             *)
(***************************************************************************)
NoneIn(c) == \A i \in {1, 2} : <<c, i>> \notin committed
AllIn(c)  == \A i \in StatementsOf(c) : <<c, i>> \in committed

AnsweredTruly(c) ==
  /\ StudioAt(c, "ok") => AllIn(c)
  /\ StudioAt(c, "failed") => NoneIn(c) \/ (c \in unheard /\ AllIn(c))

\* dbstudio.service.ts:351-353: a batch of edits "runs in one transaction
\* (all-or-nothing)", while other requests run on the same driver and evictions close it;
\* its answer says which of the two, unless the answer that was to say "all" was lost.
\* For Postgres, and for MySQL while one request runs.
EditsAtomic ==
  \A c \in StudioCalls : ~Mine(c) \/ (\A k \in StudioCalls \ {c} : studio[k] = NewCall) => AnsweredTruly(c)

(***************************************************************************)
(* The page of the database studio: what it shows of the connection and    *)
(* the table that are picked, and the row edits it sends.  Answers come in *)
(* any order; a request that a newer one of its kind has overtaken is      *)
(* recognized by its epoch.  The grid stays on screen while the next one   *)
(* loads, and everything around it can be clicked while a commit runs.     *)
(***************************************************************************)

CONSTANTS
  PageConns, \* saved connections
  External,  \* the external profiles of them; the others are managed databases
  PageTables, \* their tables: pairs of a connection and a name
  Views,     \* offset, sort and filter: what else a page of rows depends on
  FirstView, \* offset 0, no sort, no filter
  PageCalls, \* bound: requests under way at a time
  Edits      \* bound: row edits in all

ASSUME StudioPageAssumption ==
  /\ FirstView \in Views /\ PageCalls \subseteq Nat /\ \A t \in PageTables : t[1] \in PageConns
  /\ {"none", "unread"} \cap PageConns = {}

VARIABLES
  page,      \* the state of the component
  pageCalls, \* its requests
  saved,     \* the connections that exist
  made,      \* the edits that were typed
  astray,    \* those of them typed on rows of another table than the picked one
  applied,   \* those that were carried out
  misplaced, \* those carried out on another table than they were typed on
  twice,     \* those carried out more than once
  answerLost \* a commit was carried out and its answer did not arrive

studioPageVars == <<page, pageCalls, saved, made, astray, applied, misplaced, twice, answerLost>>

Nothing == "none"
NoTable == <<Nothing, Nothing>>
NoRows  == <<NoTable, FirstView>>
NoCall == [kind |-> "none", of |-> NoTable, view |-> FirstView, current |-> FALSE,
         edits |-> {}, answer |-> "none"]

\* A page of rows is of a table, from an offset, sorted and filtered.
Browsed == (PageTables \X Views) \cup {NoRows}

StudioPageTypeOK ==
  /\ page.conn \in PageConns \cup {Nothing} /\ page.table \in PageTables \cup {NoTable}
  /\ page.schema \in PageConns \cup {Nothing, "unread"} /\ page.view \in Views
  /\ page.rows \in Browsed
  /\ page.detail \in PageTables \cup {NoTable} /\ page.tab \in {"data", "structure"}
  /\ {page.rowsLoading, page.schemaLoading, page.writeMode, page.committing, page.crossed} \subseteq BOOLEAN
  /\ page.pending \subseteq Edits \X PageTables
  /\ \A r \in PageCalls :
       /\ pageCalls[r].kind \in {"none", "schema", "rows", "detail", "commit", "remove"}
       /\ pageCalls[r].answer \in {"none", "ok", "failed"}
  /\ saved \subseteq PageConns /\ made \subseteq Edits /\ astray \subseteq made /\ twice \subseteq applied /\ misplaced \subseteq applied

StudioPageInit ==
  /\ page = [conn |-> Nothing, table |-> NoTable, schema |-> Nothing, schemaLoading |-> FALSE,
             rows |-> NoRows, rowsLoading |-> FALSE, view |-> FirstView, detail |-> NoTable,
             tab |-> "data", writeMode |-> FALSE, pending |-> {}, committing |-> FALSE, crossed |-> FALSE]
  /\ pageCalls = [r \in PageCalls |-> NoCall] /\ saved = PageConns
  /\ made = {} /\ astray = {} /\ applied = {} /\ misplaced = {} /\ twice = {} /\ answerLost = FALSE

\* A request takes the first place that is free.
Unused(r) == pageCalls[r] = NoCall /\ \A q \in PageCalls : q < r => pageCalls[q] # NoCall
Request(kind, of, view, edits) ==
  [kind |-> kind, of |-> of, view |-> view, current |-> TRUE, edits |-> edits, answer |-> "none"]

\* ++epoch: the request is the current one of its kind.
Overtaken(calls, kind) ==
  [q \in PageCalls |-> IF calls[q].kind = kind THEN [calls[q] EXCEPT !.current = FALSE] ELSE calls[q]]
SendCall(calls, r, call) == [Overtaken(calls, call.kind) EXCEPT ![r] = call]

\* The cleanup of the structure effect, when the tab, the connection or the table changes.
Cleanup(calls) == Overtaken(calls, "detail")

\* The grid and its bars are on screen; an edit needs the mode and a row.
DataShown == page.table # NoTable /\ page.tab = "data"
Editable  == DataShown /\ page.writeMode /\ page.rows # NoRows

kept == <<saved, made, astray, applied, misplaced, twice, answerLost>>

(***************************************************************************)
(* The user.                                                               *)
(***************************************************************************)

\* Nothing of the old connection is left in the page, except the structure.
SelectConnection(c, r) ==
  /\ Unused(r)
  /\ page' = [page EXCEPT !.conn = c, !.schema = Nothing, !.schemaLoading = TRUE, !.table = NoTable,
                          !.rows = NoRows, !.view = FirstView, !.writeMode = FALSE, !.pending = {}]
  /\ pageCalls' = SendCall(Cleanup(pageCalls), r, Request("schema", <<c, Nothing>>, FirstView, {}))
  /\ UNCHANGED kept

\* loadRows: the connection, the table and the view are those of the render it was made in.
LoadRows(p, calls, r, t, v) ==
  /\ Unused(r)
  /\ page' = [p EXCEPT !.rowsLoading = TRUE, !.crossed = <<t, v>> # <<p.table, p.view>>]
  /\ pageCalls' = SendCall(calls, r, Request("rows", t, v, {}))

\* The tree shows once the schema is there.  The rows of the table before stay on screen.
SelectTable(t, r) ==
  /\ page.schema = t[1] /\ page.conn # Nothing
  /\ LoadRows([page EXCEPT !.table = t, !.view = FirstView, !.tab = "data", !.detail = NoTable,
                           !.writeMode = FALSE, !.pending = {}], Cleanup(pageCalls), r, t, FirstView)
  /\ UNCHANGED kept

\* Sort, filter, previous and next page: the effect loads again.
ChangeView(v, r) ==
  /\ DataShown /\ v # page.view
  /\ LoadRows([page EXCEPT !.view = v], pageCalls, r, page.table, v) /\ UNCHANGED kept

Refresh(r) ==
  /\ DataShown /\ ~page.rowsLoading
  /\ LoadRows(page, pageCalls, r, page.table, page.view) /\ UNCHANGED kept

OpenStructure(r) ==
  /\ DataShown /\ Unused(r)
  /\ page' = [page EXCEPT !.tab = "structure", !.detail = NoTable]
  /\ pageCalls' = SendCall(pageCalls, r, Request("detail", page.table, FirstView, {}))
  /\ UNCHANGED kept

\* What the structure tab held is not shown again: it is reset when the tab opens.
OpenData ==
  /\ page.tab = "structure" /\ page' = [page EXCEPT !.tab = "data", !.detail = NoTable]
  /\ pageCalls' = Cleanup(pageCalls) /\ UNCHANGED kept

ToggleWrite ==
  /\ DataShown
  /\ page' = [page EXCEPT !.writeMode = ~@, !.pending = IF page.writeMode THEN {} ELSE @]
  /\ UNCHANGED <<pageCalls, kept>>

\* A cell, a deletion or a new row, with the key of the row that is on screen.
EditCell(e) ==
  /\ Editable /\ e \notin made
  /\ page' = [page EXCEPT !.pending = @ \cup {<<e, page.rows[1]>>}]
  /\ made' = made \cup {e} /\ astray' = IF page.rows[1] = page.table THEN astray ELSE astray \cup {e}
  /\ UNCHANGED <<pageCalls, saved, applied, misplaced, twice, answerLost>>

Discard ==
  /\ DataShown /\ page.pending # {} /\ ~page.committing
  /\ page' = [page EXCEPT !.pending = {}] /\ UNCHANGED <<pageCalls, kept>>

CommitEdits(r) ==
  /\ DataShown /\ page.pending # {} /\ ~page.committing /\ Unused(r)
  /\ page' = [page EXCEPT !.committing = TRUE]
  /\ pageCalls' = SendCall(pageCalls, r, Request("commit", page.table, page.view, page.pending))
  /\ UNCHANGED kept

RemoveConn(r) ==
  /\ page.conn \in External /\ Unused(r) /\ UNCHANGED <<page, kept>>
  /\ pageCalls' = SendCall(pageCalls, r, Request("remove", <<page.conn, Nothing>>, FirstView, {}))

(***************************************************************************)
(* The server.  The connection is looked up by the request itself; its     *)
(* database may refuse or be away.                                         *)
(***************************************************************************)
Asks(r, kind) == pageCalls[r].kind = kind /\ pageCalls[r].answer = "none"
AnswersWith(r, how) == pageCalls' = [pageCalls EXCEPT ![r].answer = how]
Outcomes(c) == IF c \in saved THEN {"ok", "failed"} ELSE {"failed"}

ServeSchema(r) ==
  /\ Asks(r, "schema") /\ \E how \in Outcomes(pageCalls[r].of[1]) : AnswersWith(r, how)
  /\ UNCHANGED <<page, kept>>

ServeRows(r) ==
  /\ Asks(r, "rows") /\ \E how \in Outcomes(pageCalls[r].of[1]) : AnswersWith(r, how)
  /\ UNCHANGED <<page, kept>>

ServeDetail(r) ==
  /\ Asks(r, "detail") /\ \E how \in Outcomes(pageCalls[r].of[1]) : AnswersWith(r, how)
  /\ UNCHANGED <<page, kept>>

\* All of the batch or nothing of it; the answer may be lost on its way.
ServeEdits(r) ==
  LET batch == pageCalls[r].edits  carried == {x[1] : x \in batch} IN
  /\ Asks(r, "commit")
  /\ \/ AnswersWith(r, "failed") /\ UNCHANGED <<applied, misplaced, twice, answerLost>>
     \/ /\ pageCalls[r].of[1] \in saved /\ applied' = applied \cup carried
        /\ twice' = twice \cup (carried \cap applied)
        /\ misplaced' = misplaced \cup {x[1] : x \in {y \in batch : y[2] # pageCalls[r].of}}
        /\ \/ AnswersWith(r, "ok") /\ UNCHANGED answerLost
           \/ AnswersWith(r, "failed") /\ answerLost' = TRUE
  /\ UNCHANGED <<page, saved, made, astray>>

ServeRemove(r) ==
  /\ Asks(r, "remove") /\ saved' = saved \ {pageCalls[r].of[1]}
  /\ AnswersWith(r, IF pageCalls[r].of[1] \in saved THEN "ok" ELSE "failed")
  /\ UNCHANGED <<page, made, astray, applied, misplaced, twice, answerLost>>

(***************************************************************************)
(* Answers.                                                                *)
(***************************************************************************)
AnswerOf(r, kind) == pageCalls[r].kind = kind /\ pageCalls[r].answer # "none"
Forget(calls, r) == [calls EXCEPT ![r] = NoCall]
Good(r) == pageCalls[r].answer = "ok"

SchemaArrives(r) ==
  /\ AnswerOf(r, "schema") /\ pageCalls' = Forget(pageCalls, r) /\ UNCHANGED kept
  /\ page' = IF ~pageCalls[r].current THEN page
             ELSE [page EXCEPT !.schemaLoading = FALSE,
                               !.schema = IF Good(r) THEN pageCalls[r].of[1] ELSE "unread"]

RowsArrive(r) ==
  /\ AnswerOf(r, "rows") /\ pageCalls' = Forget(pageCalls, r) /\ UNCHANGED kept
  /\ page' = IF ~pageCalls[r].current THEN page
             ELSE [page EXCEPT !.rowsLoading = FALSE,
                               !.rows = IF Good(r) THEN <<pageCalls[r].of, pageCalls[r].view>> ELSE NoRows]

DetailArrives(r) ==
  /\ AnswerOf(r, "detail") /\ pageCalls' = Forget(pageCalls, r) /\ UNCHANGED kept
  /\ page' = IF pageCalls[r].current /\ Good(r) THEN [page EXCEPT !.detail = pageCalls[r].of] ELSE page

\* Whatever waits now is dropped, and the rows that the edits were typed on are loaded
\* again, by the loadRows of the render in which the commit was clicked.
CommitArrives(r) ==
  /\ AnswerOf(r, "commit") /\ UNCHANGED kept
  /\ IF Good(r)
     THEN /\ page' = [page EXCEPT !.committing = FALSE, !.pending = {}, !.rowsLoading = TRUE,
                                  !.crossed = <<pageCalls[r].of, pageCalls[r].view>> # <<page.table, page.view>>]
          /\ pageCalls' = [Overtaken(pageCalls, "rows") EXCEPT
                             ![r] = Request("rows", pageCalls[r].of, pageCalls[r].view, {})]
     ELSE page' = [page EXCEPT !.committing = FALSE] /\ pageCalls' = Forget(pageCalls, r)

\* The connection that was picked when it was clicked is the one removed, so whatever
\* is picked by now is put away.
RemoveArrives(r) ==
  /\ AnswerOf(r, "remove") /\ UNCHANGED kept
  /\ page' = IF Good(r) THEN [page EXCEPT !.conn = Nothing, !.schema = Nothing, !.table = NoTable,
                                          !.rows = NoRows] ELSE page
  /\ pageCalls' = IF Good(r) THEN Forget(Cleanup(pageCalls), r) ELSE Forget(pageCalls, r)

StudioPageNext ==
  \/ OpenData \/ ToggleWrite \/ Discard \/ \E e \in Edits : EditCell(e)
  \/ \E r \in PageCalls :
       \/ \E c \in PageConns : SelectConnection(c, r)
       \/ \E t \in PageTables : SelectTable(t, r)
       \/ \E v \in Views : ChangeView(v, r)
       \/ Refresh(r) \/ OpenStructure(r) \/ CommitEdits(r) \/ RemoveConn(r)
       \/ ServeSchema(r) \/ ServeRows(r) \/ ServeDetail(r) \/ ServeEdits(r) \/ ServeRemove(r)
       \/ SchemaArrives(r) \/ RowsArrive(r) \/ DetailArrives(r) \/ CommitArrives(r) \/ RemoveArrives(r)

(***************************************************************************)
(* Properties.                                                             *)
(***************************************************************************)

\* studio.tsx:94-96: "a stale schema/rows payload must not overwrite the current
\* selection": the tree, the rows and the structure on screen are of the connection, the
\* table and the page that are picked, once nothing of theirs is loading.  Not while the
\* last load is that of a commit whose table has been left.
ShowsTheSelection ==
  /\ page.conn # Nothing /\ page.schema \in PageConns => page.schema = page.conn
  /\ page.table # NoTable /\ page.rows # NoRows /\ ~page.rowsLoading /\ ~page.crossed
       => page.rows = <<page.table, page.view>>
  /\ page.tab = "structure" /\ page.table # NoTable /\ page.detail # NoTable => page.detail = page.table

\* An edit reaches the table whose row it was typed on, once: unless the row on screen was
\* of another table than the picked one, or an answer was lost and it was sent again.
EditsReachTheirRows ==
  /\ misplaced \subseteq astray
  /\ twice # {} => answerLost
=============================================================================
