----------------------------- MODULE LogStream -----------------------------
(***************************************************************************)
(* The log of one deployment and one WebSocket that watches it: the        *)
(* writer, which numbers a line, publishes it on the bus at once and       *)
(* inserts it in batches; the retention when the pipeline ends; the        *)
(* subscription, which attaches to the bus, replays the stored lines and   *)
(* follows; and, on the same socket, the subscription to the output of the *)
(* application's running container, a child process per subscription.      *)
(*                                                                         *)
(* A line is its sequence number.                                          *)
(***************************************************************************)
EXTENDS Naturals, Sequences, FiniteSets, FiniteSetsExt, Functions

CONSTANTS BatchSize,      \* lines that make a batch
          LineCap,        \* lines kept when the deployment has ended
          PageSize,       \* lines of a replay
          Subs, AppSubs,  \* subscribe messages for the deployment and for the application
          None,
          MaxLines        \* bound: lines of the deployment

ASSUME LogAssumption ==
  /\ {BatchSize, LineCap, PageSize} \subseteq Nat \ {0}
  /\ MaxLines \in Nat
  /\ None \notin Subs \cup AppSubs

VARIABLES
  run,        \* the pipeline: running, closing the writer, over
  seq,        \* lines written
  queue,      \* lines of the next batch
  timer,      \* the flush timer is set
  chain,      \* batches whose insert is under way or waits for the one before
  stored,     \* rows of deployment_logs
  dropped,    \* lines of the batches whose insert failed
  socketOpen, \* the socket
  registered, \* subs: the subscription of the deployment's topic
  listening,  \* subscriptions attached to the bus
  subAt,         \* where each subscription is
  from,       \* lines published before it attached
  buffer,     \* lines it received before its replay was sent
  page,       \* the replay it read
  lastSeq,    \* the last line it sent
  view,       \* the lines the client has been sent
  appPc, appRegistered,  \* the same for the application's topic
  child       \* subscriptions with a live "docker logs" process

writerVars == <<run, seq, queue, timer, chain, stored, dropped>>
viewerVars == <<registered, listening, subAt, from, buffer, page, lastSeq, view>>
appVars    == <<appPc, appRegistered, child>>
logVars    == <<writerVars, socketOpen, viewerVars, appVars>>

Lines == 1..MaxLines

LogTypeOK ==
  /\ run \in {"running", "closing", "over"}
  /\ seq \in 0..MaxLines
  /\ queue \subseteq Lines /\ Cardinality(queue) < BatchSize
  /\ timer \in BOOLEAN
  /\ \A i \in DOMAIN chain : chain[i] \subseteq Lines
  /\ stored \subseteq Lines /\ dropped \subseteq Lines
  /\ socketOpen \in BOOLEAN
  /\ registered \in Subs \cup {None} /\ listening \subseteq Subs
  /\ subAt \in [Subs -> {"none", "status", "replay", "deliver", "live", "over"}]
  /\ from \in [Subs -> 0..MaxLines] /\ lastSeq \in [Subs -> 0..MaxLines]
  /\ page \in [Subs -> SUBSET Lines]
  /\ \A s \in Subs : Range(buffer[s]) \subseteq Lines
  /\ Range(view) \subseteq Lines
  /\ appPc \in [AppSubs -> {"none", "check", "over"}]
  /\ appRegistered \in AppSubs \cup {None} /\ child \subseteq AppSubs

LogInit ==
  /\ run = "running" /\ seq = 0 /\ queue = {} /\ timer = FALSE
  /\ chain = <<>> /\ stored = {} /\ dropped = {}
  /\ socketOpen = TRUE /\ registered = None /\ listening = {}
  /\ subAt = [s \in Subs |-> "none"]
  /\ from = [s \in Subs |-> 0] /\ lastSeq = [s \in Subs |-> 0]
  /\ buffer = [s \in Subs |-> <<>>] /\ page = [s \in Subs |-> {}]
  /\ view = <<>>
  /\ appPc = [a \in AppSubs |-> "none"] /\ appRegistered = None /\ child = {}

(***************************************************************************)
(* The writer.                                                             *)
(***************************************************************************)
Flushed(lines) == chain' = IF lines = {} THEN chain ELSE Append(chain, lines)

\* The bus calls every listener: a live one sends the line, another keeps it.
Sending(n) == {s \in listening : subAt[s] = "live" /\ n > lastSeq[s]}
Publish(n) ==
  /\ view' = IF socketOpen THEN view \o [i \in 1..Cardinality(Sending(n)) |-> n] ELSE view
  /\ lastSeq' = [s \in Subs |-> IF s \in Sending(n) THEN n ELSE lastSeq[s]]
  /\ buffer' = [s \in Subs |-> IF s \in listening /\ subAt[s] # "live"
                               THEN Append(buffer[s], n) ELSE buffer[s]]

\* Faulty: a batch is flushed one line late.
WriteOverfull ==
  /\ run = "running" /\ seq < MaxLines
  /\ seq' = seq + 1
  /\ Publish(seq')
  /\ LET lines == queue \cup {seq'} IN
       IF Cardinality(lines) > BatchSize
       THEN Flushed(lines) /\ queue' = {} /\ timer' = FALSE
       ELSE queue' = lines /\ timer' = TRUE /\ UNCHANGED chain
  /\ UNCHANGED <<run, stored, dropped, socketOpen, registered, listening, subAt, from, page, appVars>>

\* write: publish, queue, and flush at the batch size or by the timer.
Write ==
  /\ run = "running" /\ seq < MaxLines
  /\ seq' = seq + 1
  /\ Publish(seq')
  /\ LET lines == queue \cup {seq'} IN
       IF Cardinality(lines) >= BatchSize
       THEN Flushed(lines) /\ queue' = {} /\ timer' = FALSE
       ELSE queue' = lines /\ timer' = TRUE /\ UNCHANGED chain
  /\ UNCHANGED <<run, stored, dropped, socketOpen, registered, listening, subAt, from, page, appVars>>

FlushTimer ==
  /\ timer
  /\ Flushed(queue) /\ queue' = {} /\ timer' = FALSE
  /\ UNCHANGED <<run, seq, stored, dropped, socketOpen, viewerVars, appVars>>

\* The insert of the first batch ends; a failure is reported to onError, which
\* drops it, and the chain goes on.
InsertBatch ==
  /\ chain # <<>>
  /\ chain' = Tail(chain)
  /\ \/ stored' = stored \cup Head(chain) /\ UNCHANGED dropped
     \/ dropped' = dropped \cup Head(chain) /\ UNCHANGED stored
  /\ UNCHANGED <<run, seq, queue, timer, socketOpen, viewerVars, appVars>>

\* The finally block closes the writer: the queue is flushed and the chain awaited.
CloseWriter ==
  /\ run = "running"
  /\ run' = "closing"
  /\ Flushed(queue) /\ queue' = {} /\ timer' = FALSE
  /\ UNCHANGED <<seq, stored, dropped, socketOpen, viewerVars, appVars>>

\* computeTrim and its delete, which may fail.
Trim ==
  /\ run = "closing" /\ chain = <<>>
  /\ run' = "over"
  /\ \/ stored' = IF seq > LineCap THEN {n \in stored : n >= seq - LineCap + 1} ELSE stored
     \/ UNCHANGED stored
  /\ UNCHANGED <<seq, queue, timer, chain, dropped, socketOpen, viewerVars, appVars>>

(***************************************************************************)
(* The subscription to the deployment.                                     *)
(***************************************************************************)
SubTo(s, phase) == subAt' = [subAt EXCEPT ![s] = phase]

\* The dashboard sends the next message when the last one has been answered.
Answered == \A s \in Subs : subAt[s] \notin {"status", "replay", "deliver"}

\* subscribe: nothing to do for a topic that is registered.
Subscribe(s) ==
  /\ socketOpen /\ Answered
  /\ subAt[s] = "none" /\ registered = None
  /\ SubTo(s, "status")
  /\ UNCHANGED <<writerVars, socketOpen, registered, listening, from, buffer, page, lastSeq, view, appVars>>

\* The deployment was found: attach to the bus and register, the socket open or not.
Attach(s) ==
  /\ subAt[s] = "status"
  /\ SubTo(s, "replay")
  /\ listening' = listening \cup {s} /\ registered' = s
  /\ from' = [from EXCEPT ![s] = seq]
  /\ UNCHANGED <<writerVars, socketOpen, buffer, page, lastSeq, view, appVars>>

\* getDeploymentLogs: the first lines that are stored.
ReadPage(s) ==
  /\ subAt[s] = "replay"
  /\ SubTo(s, "deliver")
  /\ page' = [page EXCEPT ![s] = {n \in stored : Cardinality({m \in stored : m <= n}) <= PageSize}]
  /\ UNCHANGED <<writerVars, socketOpen, registered, listening, from, buffer, lastSeq, view, appVars>>

\* The numbers of S, the smallest first; and what a filter keeps of q, in its order.
InOrder(S) ==
  CHOOSE q \in [1..Cardinality(S) -> S] : \A i, j \in 1..Cardinality(S) : i < j => q[i] < q[j]
Unseen(q, last) ==
  LET kept == InOrder({i \in DOMAIN q : q[i] > last}) IN [k \in DOMAIN kept |-> q[kept[k]]]

\* Faulty: the buffer is forgotten.
DeliverReplayOnly(s) ==
  /\ subAt[s] = "deliver"
  /\ SubTo(s, "live")
  /\ view' = IF socketOpen THEN InOrder(page[s]) ELSE view
  /\ lastSeq' = [lastSeq EXCEPT ![s] = Max(page[s] \cup {0})]
  /\ buffer' = [buffer EXCEPT ![s] = <<>>] /\ page' = [page EXCEPT ![s] = {}]
  /\ UNCHANGED <<writerVars, socketOpen, registered, listening, from, appVars>>

\* The replay, then what is new in the buffer, which nobody uses afterwards.  The
\* client starts afresh with a replay; a socket that is closed sends nothing.
Deliver(s) ==
  LET last == Max(page[s] \cup {0})
      rest == Unseen(buffer[s], last)
  IN /\ subAt[s] = "deliver"
     /\ SubTo(s, "live")
     /\ view' = IF socketOpen THEN InOrder(page[s]) \o rest ELSE view
     /\ lastSeq' = [lastSeq EXCEPT ![s] = Max({last} \cup Range(rest))]
     /\ buffer' = [buffer EXCEPT ![s] = <<>>] /\ page' = [page EXCEPT ![s] = {}]
     /\ UNCHANGED <<writerVars, socketOpen, registered, listening, from, appVars>>

Unsubscribe ==
  /\ socketOpen /\ Answered /\ registered # None
  /\ SubTo(registered, "over")
  /\ listening' = listening \ {registered} /\ registered' = None
  /\ from' = [from EXCEPT ![registered] = 0] /\ lastSeq' = [lastSeq EXCEPT ![registered] = 0]
  /\ UNCHANGED <<writerVars, socketOpen, buffer, page, view, appVars>>

(***************************************************************************)
(* The subscription to the running container's output.                     *)
(***************************************************************************)
AppSubscribe(a) ==
  /\ socketOpen
  /\ appPc[a] = "none" /\ appRegistered = None
  /\ appPc' = [appPc EXCEPT ![a] = "check"]
  /\ UNCHANGED <<writerVars, socketOpen, viewerVars, appRegistered, child>>

\* Faulty: whoever comes last registers.
AppSpawnUnchecked(a) ==
  /\ appPc[a] = "check"
  /\ appPc' = [appPc EXCEPT ![a] = "over"]
  /\ child' = child \cup {a} /\ appRegistered' = a
  /\ UNCHANGED <<writerVars, socketOpen, viewerVars>>

\* The application and its container were looked up; "docker logs -f" starts,
\* and is stopped again when the socket has closed or another message won.
AppSpawn(a) ==
  /\ appPc[a] = "check"
  /\ appPc' = [appPc EXCEPT ![a] = "over"]
  /\ \/ UNCHANGED <<appRegistered, child>>
     \/ socketOpen /\ appRegistered = None /\ child' = child \cup {a} /\ appRegistered' = a
  /\ UNCHANGED <<writerVars, socketOpen, viewerVars>>

\* The container stops; the topic stays registered.
ChildEnds(a) ==
  /\ a \in child
  /\ child' = child \ {a}
  /\ UNCHANGED <<writerVars, socketOpen, viewerVars, appPc, appRegistered>>

AppUnsubscribe ==
  /\ socketOpen /\ appRegistered # None
  /\ child' = child \ {appRegistered} /\ appRegistered' = None
  /\ UNCHANGED <<writerVars, socketOpen, viewerVars, appPc>>

\* The socket closes: every registered topic is unsubscribed.
CloseSocket ==
  /\ socketOpen
  /\ socketOpen' = FALSE
  /\ listening' = listening \ {registered} /\ registered' = None
  /\ child' = child \ {appRegistered} /\ appRegistered' = None
  /\ UNCHANGED <<writerVars, subAt, from, buffer, page, lastSeq, view, appPc>>

Writer     == Write \/ FlushTimer \/ InsertBatch \/ CloseWriter \/ Trim
Viewer(s)  == Subscribe(s) \/ Attach(s) \/ ReadPage(s) \/ Deliver(s)
AppLogs(a) == AppSubscribe(a) \/ AppSpawn(a) \/ ChildEnds(a)

LogNext == \/ Writer
           \/ \E s \in Subs : Viewer(s)
           \/ \E a \in AppSubs : AppLogs(a)
           \/ Unsubscribe \/ AppUnsubscribe \/ CloseSocket

\* Timers fire and inserts end.
LogFairness == WF_logVars(FlushTimer) /\ WF_logVars(InsertBatch)

LogSpec == LogInit /\ [][LogNext]_logVars

(***************************************************************************)
(* Properties.                                                             *)
(***************************************************************************)
Waiting == queue \cup UNION Range(chain)

\* The rows never overtake: whoever reads line n of the table has every earlier
\* line that will ever be there (log-writer.ts:10-12, the serialized chain).
RowsInOrder == \A m \in stored, n \in Waiting : m < n

\* The end of a deployment loses no line: the newest ones are all stored, or
\* their insert failed (executor.ts:722-724).
EndKeepsNewest ==
  run = "over" => \A n \in 1..seq : n + LineCap > seq => n \in stored \cup dropped

\* No duplicates and no line out of order, whatever the replay and the live
\* lines have in common (ws.ts:112-113).
ViewInOrder == \A i, j \in DOMAIN view : i < j => view[i] < view[j]

\* No gap: of the lines published since its subscription attached to the bus, a
\* client whose replay has been sent has all that the table has, or will have
\* (ws.ts:112-113).
LiveMissesNothing ==
  \A s \in Subs : socketOpen /\ registered = s /\ subAt[s] = "live" =>
                 (from[s]+1 .. seq) \cap (stored \cup Waiting) \subseteq Range(view)

\* The log that is kept and the log that is watched are the deployment's.
LogIsWhole == RowsInOrder /\ EndKeepsNewest /\ ViewInOrder /\ LiveMissesNothing

\* No process is leaked: one that follows a container belongs to the topic of
\* an open socket (ws.ts:69, 74-75).
ChildIsOwned == child \subseteq (IF socketOpen THEN {appRegistered} ELSE {})

\* Every line reaches the table or is reported as dropped.
LinesReachTable == \A n \in Lines : seq = n ~> n \in stored \cup dropped
=============================================================================
