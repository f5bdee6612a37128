---------------------------- MODULE SharedProofs ----------------------------
(***************************************************************************)
(* Proofs about components of which several compositions have one: the   *)
(* pool of connections, the bootstraps and the status of a worker server,  *)
(* the runs of a backup, and the turns of the assistant, for every number  *)
(* of requests, connections, runs and turns.                               *)
(***************************************************************************)
EXTENDS Servers, Backups, Chat, TLAPS, FiniteSetTheorems

(***************************************************************************)
(* The pool: who waits for, or works on, which connection.                 *)
(***************************************************************************)
ConnsTyped ==
  /\ pooled \in Conns \cup {NoConn}
  /\ conn \in [Conns -> {"closed", "connecting", "open"}]
  /\ evictedConns \subseteq Conns /\ newLogin \subseteq Conns
  /\ via \in [Callers -> Conns \cup {NoConn}]
  /\ call \in [Callers -> Settlements \cup {"idle", "waiting", "running"}]

\* A caller has a connection exactly while its command is under way.
CallFits(c) ==
  /\ via[c] = NoConn => call[c] \notin {"waiting", "running"}
  /\ via[c] # NoConn => call[c] = (IF conn[via[c]] = "connecting" THEN "waiting" ELSE "running")
  /\ via[c] # NoConn => conn[via[c]] # "closed"

\* A connection that is dialled has somebody who waits, and the map or an evict knows it;
\* one that is open is in the map.
ConnFits(k) ==
  /\ conn[k] = "connecting" => (k = pooled \/ k \in evictedConns) /\ \E c \in Callers : via[c] = k
  /\ conn[k] = "open" => k = pooled
  /\ k \in evictedConns => conn[k] = "connecting" /\ k # pooled
  /\ k \in newLogin => conn[k] = "open"

PoolInv ==
  /\ ConnsTyped
  /\ pooled # NoConn => conn[pooled] # "closed"
  /\ \A c \in Callers : CallFits(c)
  /\ \A k \in Conns : ConnFits(k)

\* A step of the pool starts no command but those it is asked to start.
NobodyStarts == \A c \in Callers : via'[c] \in {via[c], NoConn}

\* One more connection than there are callers is enough for a fresh one.
LEMMA FreshConnExists ==
  ASSUME PoolInv, pooled = NoConn
  PROVE  FreshConn \in Conns /\ conn[FreshConn] = "closed" /\ \A c \in Callers : via[c] # FreshConn
<1> DEFINE used == {via[c] : c \in Callers}
<1>1. IsFiniteSet(used) /\ Cardinality(used) <= Cardinality(Callers)
  <2>1. via \in Surjection(Callers, used)
    BY DEF PoolInv, ConnsTyped, Surjection
  <2> QED
    BY <2>1, ServersAssumption, FS_Surjection
<1>2. \E k \in Conns : k \notin used
  <2> SUFFICES ASSUME Conns \subseteq used PROVE FALSE
    OBVIOUS
  <2>1. Cardinality(Conns) <= Cardinality(used)
    BY <1>1, FS_Subset
  <2> QED
    BY <1>1, <2>1, ServersAssumption, FS_CardinalityType
<1>3. PICK k \in Conns : k \notin used
  BY <1>2
<1>4. conn[k] = "closed"
  BY <1>3, ServersAssumption DEF PoolInv, ConnsTyped, ConnFits
<1> QED
  BY <1>3, <1>4 DEF FreshConn

LEMMA PoolExec ==
  ASSUME PoolInv, NEW c \in Callers, SshExec(c)
  PROVE  PoolInv' /\ \A d \in Callers \ {c} : via'[d] = via[d]
<1> DEFINE k == IF pooled = NoConn THEN FreshConn ELSE pooled
<1>1. /\ k \in Conns /\ k # NoConn /\ k \notin evictedConns
      /\ pooled = NoConn => conn[k] = "closed" /\ \A d \in Callers : via[d] # k
      /\ pooled # NoConn => k = pooled /\ conn[k] # "closed"
  BY FreshConnExists, ServersAssumption DEF PoolInv, ConnsTyped, ConnFits
<1>2. /\ pooled' = k /\ conn' = [conn EXCEPT ![k] = IF pooled = NoConn THEN "connecting" ELSE @]
      /\ via' = [via EXCEPT ![c] = k]
      /\ call' = [call EXCEPT ![c] = IF conn[k] = "open" THEN "running" ELSE "waiting"]
      /\ UNCHANGED <<evictedConns, newLogin>> /\ via[c] = NoConn
  <2>1. via[c] = NoConn
    BY DEF SshExec, PoolInv, CallFits
  <2> QED
    BY <2>1 DEF SshExec
<1> HIDE DEF k
<1>3. ConnsTyped'
  BY <1>1, <1>2 DEF PoolInv, ConnsTyped, Settlements
<1>4. pooled' # NoConn => conn'[pooled'] # "closed"
  BY <1>1, <1>2 DEF PoolInv, ConnsTyped
<1>5. ASSUME NEW d \in Callers PROVE CallFits(d)' /\ (d # c => via'[d] = via[d])
  <2>1. CASE d = c
    BY <1>1, <1>2, <2>1 DEF PoolInv, ConnsTyped, CallFits, ConnFits
  <2>2. CASE d # c
    BY <1>1, <1>2, <2>2 DEF PoolInv, ConnsTyped, CallFits
  <2> QED
    BY <2>1, <2>2
<1>6. ASSUME NEW j \in Conns PROVE ConnFits(j)'
  <2>1. CASE j = k
    BY <1>1, <1>2, <2>1 DEF PoolInv, ConnsTyped, ConnFits
  <2>2. CASE j # k
    <3>1. conn'[j] = conn[j] /\ (conn[j] # "closed" => j \in evictedConns)
      BY <1>1, <1>2, <2>2, ServersAssumption DEF PoolInv, ConnsTyped, ConnFits
    <3>2. \A d \in Callers : via[d] = j => via'[d] = j
      BY <1>1, <1>2, ServersAssumption DEF PoolInv, ConnsTyped
    <3> QED
      BY <1>1, <1>2, <2>2, <3>1, <3>2 DEF PoolInv, ConnsTyped, ConnFits
  <2> QED
    BY <2>1, <2>2
<1> QED
  BY <1>3, <1>4, <1>5, <1>6 DEF PoolInv

\* Whoever closes a connection, those that use it are settled and nobody keeps it.
LEMMA PoolCloses ==
  ASSUME PoolInv, NEW k \in Conns, NEW o \in CutOff(k), Closes(k, o)
  PROVE  PoolInv' /\ NobodyStarts
<1>1. /\ conn' = [conn EXCEPT ![k] = "closed"]
      /\ pooled' = IF pooled = k THEN NoConn ELSE pooled
      /\ evictedConns' = evictedConns \ {k} /\ newLogin' = newLogin \ {k}
      /\ call' = [c \in Callers |-> IF via[c] # k THEN call[c] ELSE
                                    IF call[c] = "waiting" THEN "threw" ELSE o[c]]
      /\ via' = [c \in Callers |-> IF via[c] = k THEN NoConn ELSE via[c]]
  BY DEF Closes
<1>2. o \in [Callers -> Settlements] /\ k # NoConn
  BY ServersAssumption DEF CutOff
<1>3. ConnsTyped'
  BY <1>1, <1>2 DEF PoolInv, ConnsTyped, Settlements
<1>4. pooled' # NoConn => conn'[pooled'] # "closed"
  BY <1>1 DEF PoolInv, ConnsTyped
<1>5. ASSUME NEW d \in Callers PROVE CallFits(d)' /\ via'[d] \in {via[d], NoConn}
  <2>1. o[d] \in Settlements
    BY <1>2
  <2> QED
    BY <1>1, <1>2, <2>1 DEF PoolInv, ConnsTyped, CallFits, Settlements
<1>6. ASSUME NEW j \in Conns PROVE ConnFits(j)'
  <2>1. conn'[j] = IF j = k THEN "closed" ELSE conn[j]
    BY <1>1 DEF PoolInv, ConnsTyped
  <2>2. (\E d \in Callers : via[d] = j) /\ j # k => \E d \in Callers : via'[d] = j
    BY <1>1
  <2>3. pooled' = j <=> pooled = j /\ j # k
    BY <1>1, ServersAssumption
  <2> QED
    BY <1>1, <2>1, <2>2, <2>3 DEF PoolInv, ConnFits
<1> QED
  BY <1>3, <1>4, <1>5, <1>6 DEF PoolInv, NobodyStarts

LEMMA PoolConnected ==
  ASSUME PoolInv, NEW k \in Conns, Connected(k)
  PROVE  PoolInv' /\ NobodyStarts
<1>1. /\ conn[k] = "connecting" /\ k \notin evictedConns /\ conn' = [conn EXCEPT ![k] = "open"]
      /\ newLogin' \subseteq newLogin \cup {k}
      /\ call' = [c \in Callers |-> IF via[c] = k THEN "running" ELSE call[c]]
      /\ UNCHANGED <<pooled, evictedConns, via>> /\ k = pooled /\ k # NoConn
  <2>1. newLogin' \subseteq newLogin \cup {k}
    BY DEF Connected
  <2> QED
    BY <2>1, ServersAssumption DEF Connected, PoolInv, ConnFits
<1>2. ConnsTyped'
  BY <1>1 DEF PoolInv, ConnsTyped
<1>3. conn'[pooled'] # "closed"
  BY <1>1 DEF PoolInv, ConnsTyped
<1>4. ASSUME NEW d \in Callers PROVE CallFits(d)'
  BY <1>1 DEF PoolInv, ConnsTyped, CallFits
<1>5. ASSUME NEW j \in Conns PROVE ConnFits(j)'
  BY <1>1 DEF PoolInv, ConnsTyped, ConnFits
<1> QED
  BY <1>1, <1>2, <1>3, <1>4, <1>5 DEF PoolInv, NobodyStarts

LEMMA PoolCommandEnds ==
  ASSUME PoolInv, NEW c \in Callers, CommandEnds(c)
  PROVE  PoolInv' /\ NobodyStarts
<1>1. PICK o \in {"ok", "nonzero"} : call' = [call EXCEPT ![c] = o]
  BY DEF CommandEnds
<1>2. /\ via' = [via EXCEPT ![c] = NoConn] /\ call[c] = "running"
      /\ UNCHANGED <<pooled, conn, evictedConns, newLogin>>
  BY DEF CommandEnds
<1>3. ConnsTyped'
  BY <1>1, <1>2 DEF PoolInv, ConnsTyped, Settlements
<1>4. ASSUME NEW d \in Callers PROVE CallFits(d)' /\ via'[d] \in {via[d], NoConn}
  BY <1>1, <1>2 DEF PoolInv, ConnsTyped, CallFits
<1>5. ASSUME NEW j \in Conns PROVE ConnFits(j)'
  <2>1. conn[j] = "connecting" => via[c] # j
    BY <1>2 DEF PoolInv, CallFits
  <2> QED
    BY <1>1, <1>2, <2>1 DEF PoolInv, ConnsTyped, ConnFits
<1> QED
  BY <1>2, <1>3, <1>4, <1>5 DEF PoolInv, NobodyStarts

LEMMA PoolExecThrows ==
  ASSUME PoolInv, NEW c \in Callers, ExecThrows(c)
  PROVE  PoolInv' /\ NobodyStarts
<1>1. via[c] \in Conns
  BY DEF PoolInv, ConnsTyped, CallFits, ExecThrows
<1> QED
  BY <1>1, PoolCloses DEF ExecThrows

\* After an evict no connection is open.
LEMMA PoolEvict ==
  ASSUME PoolInv, Evict
  PROVE  PoolInv' /\ NobodyStarts /\ \A k \in Conns : conn'[k] # "open"
<1>1. CASE pooled = NoConn
  <2>1. UNCHANGED poolVars
    BY <1>1 DEF Evict
  <2> QED
    BY <1>1, <2>1, ServersAssumption
       DEF poolVars, PoolInv, ConnsTyped, CallFits, ConnFits, NobodyStarts
<1>2. CASE pooled # NoConn /\ conn[pooled] = "connecting"
  <2>1. /\ pooled' = NoConn /\ evictedConns' = evictedConns \cup {pooled} /\ pooled \in Conns
        /\ UNCHANGED <<conn, newLogin, via, call>>
    BY <1>2 DEF Evict, PoolInv, ConnsTyped
  <2>2. ASSUME NEW j \in Conns PROVE ConnFits(j)' /\ conn'[j] # "open"
    BY <1>2, <2>1, ServersAssumption DEF PoolInv, ConnsTyped, ConnFits
  <2>3. ASSUME NEW d \in Callers PROVE CallFits(d)'
    BY <2>1 DEF PoolInv, ConnsTyped, CallFits
  <2>4. ConnsTyped'
    BY <2>1 DEF PoolInv, ConnsTyped
  <2> QED
    BY <2>1, <2>2, <2>3, <2>4 DEF PoolInv, NobodyStarts
<1>3. CASE pooled # NoConn /\ conn[pooled] # "connecting"
  <2>1. PICK o \in CutOff(pooled) : Closes(pooled, o)
    BY <1>3 DEF Evict
  <2>2. pooled \in Conns
    BY <1>3 DEF PoolInv, ConnsTyped
  <2>3. PoolInv' /\ NobodyStarts
    BY <2>1, <2>2, PoolCloses
  <2>4. ASSUME NEW k \in Conns PROVE conn'[k] # "open"
    BY <2>1, <2>2 DEF PoolInv, ConnsTyped, ConnFits, Closes
  <2> QED
    BY <2>3, <2>4
<1> QED
  BY <1>1, <1>2, <1>3

\* The result of a command that has ended is taken.
LEMMA PoolTaken ==
  ASSUME PoolInv, NEW c \in Callers, via[c] = NoConn, call' = [call EXCEPT ![c] = "idle"],
         UNCHANGED <<pooled, conn, evictedConns, newLogin, via>>
  PROVE  PoolInv' /\ NobodyStarts
<1>1. ConnsTyped'
  BY DEF PoolInv, ConnsTyped
<1>2. ASSUME NEW d \in Callers PROVE CallFits(d)'
  BY DEF PoolInv, ConnsTyped, CallFits
<1>3. ASSUME NEW j \in Conns PROVE ConnFits(j)'
  BY DEF PoolInv, ConnsTyped, ConnFits
<1> QED
  BY <1>1, <1>2, <1>3 DEF PoolInv, NobodyStarts

LEMMA PoolTransport ==
  ASSUME PoolInv, Transport
  PROVE  PoolInv' /\ NobodyStarts /\ UNCHANGED rowVars
<1>1. ASSUME NEW k \in Conns, Settles(k) \/ TransportCloses(k)
      PROVE  PoolInv' /\ NobodyStarts
  BY <1>1, PoolConnected, PoolCloses DEF Settles, DoomedOpens, ConnectFails, TransportCloses
<1>2. UNCHANGED rowVars
  BY DEF Transport, Settles
<1> QED
  BY <1>1, <1>2, PoolCommandEnds, PoolExecThrows DEF Transport

(***************************************************************************)
(* Bootstraps, the sweep and the row.                                      *)
(***************************************************************************)
RowTyped ==
  /\ granted \subseteq Boots /\ proven \in BOOLEAN
  /\ status \in ServerStatus
  /\ boot \in [Boots -> Phases \cup {"none", "checked", "succeeded", "failed", "done", "recorded"}]
  /\ saw \in {"none", "ready", "error", "unreachable"}
  /\ probed \in {"none", "up", "down", "unreachable"}
  /\ crashes \in 0..MaxCrashes

\* A command is under way only where the bootstrap, or the sweep, awaits one.
CommandsAwaited ==
  /\ \A b \in Boots : boot[b] \notin Phases => via[b] = NoConn
  /\ probed = "unreachable" => via[Sweep] = NoConn

GroupGranted == \E b \in granted : boot[b] \in {"succeeded", "recorded"}

\* Since then every open connection is of a login that has the group.
LoginsAreFresh == GroupGranted => \A k \in Conns : conn[k] = "open" => k \in newLogin

\* Neither the row nor what the sweep read of it says that the server is ready.
ReadyIsProven == {status, saw} \cap {"ready", "unreachable"} # {} => proven

ServersInv == PoolInv /\ RowTyped /\ CommandsAwaited /\ LoginsAreFresh /\ ReadyIsProven

\* A connection that opens while the group has members knows of the group.
LoginsKept ==
  granted # {} => \A k \in Conns : conn'[k] = "open" => k \in newLogin' \/ (conn[k] = "open" /\ k \notin newLogin)

LEMMA ClosesLogins ==
  ASSUME PoolInv, NEW k \in Conns, NEW o, Closes(k, o) PROVE LoginsKept
BY DEF PoolInv, ConnsTyped, Closes, LoginsKept

LEMMA TransportLogins ==
  ASSUME PoolInv, Transport PROVE LoginsKept
<1>1. ASSUME NEW k \in Conns, Connected(k) PROVE LoginsKept
  BY <1>1 DEF PoolInv, ConnsTyped, Connected, LoginsKept
<1>2. ASSUME NEW c \in Callers, CommandEnds(c) PROVE LoginsKept
  BY <1>2 DEF CommandEnds, LoginsKept
<1>3. ASSUME NEW c \in Callers, ExecThrows(c) PROVE LoginsKept
  <2>1. via[c] \in Conns
    BY <1>3 DEF PoolInv, ConnsTyped, CallFits, ExecThrows
  <2> QED
    BY <1>3, <2>1, ClosesLogins DEF ExecThrows
<1>4. ASSUME NEW k \in Conns, Settles(k) \/ TransportCloses(k) PROVE LoginsKept
  BY <1>1, <1>4, ClosesLogins DEF Settles, DoomedOpens, ConnectFails, TransportCloses
<1> QED
  BY <1>2, <1>3, <1>4 DEF Transport

LEMMA ExecLogins ==
  ASSUME PoolInv, NEW c \in Callers, SshExec(c) PROVE LoginsKept
<1> DEFINE k == IF pooled = NoConn THEN FreshConn ELSE pooled
<1>1. k \in Conns
  BY FreshConnExists DEF PoolInv, ConnsTyped
<1>2. conn' = [conn EXCEPT ![k] = IF pooled = NoConn THEN "connecting" ELSE @] /\ newLogin' = newLogin
  BY DEF SshExec
<1> HIDE DEF k
<1>3. \A j \in Conns : conn'[j] = "open" => conn[j] = "open"
  BY <1>1, <1>2 DEF PoolInv, ConnsTyped
<1> QED
  BY <1>2, <1>3 DEF LoginsKept

LEMMA FreshFromKept ==
  ASSUME LoginsAreFresh, LoginsKept, GroupGranted' => GroupGranted PROVE LoginsAreFresh'
BY DEF LoginsAreFresh, LoginsKept, GroupGranted

LEMMA ServersInitInv == ServersInit => ServersInv
<1> SUFFICES ASSUME ServersInit PROVE ServersInv
  OBVIOUS
<1>1. PoolInv
  BY ServersAssumption DEF ServersInit, PoolInv, ConnsTyped, CallFits, ConnFits
<1>2. RowTyped
  <2>1. crashes \in 0..MaxCrashes
    BY ServersAssumption DEF ServersInit
  <2> QED
    BY <2>1 DEF ServersInit, RowTyped, ServerStatus
<1> QED
  BY <1>1, <1>2 DEF ServersInit, ServersInv, CommandsAwaited, LoginsAreFresh, GroupGranted, ReadyIsProven, Callers

\* Steps of the transport leave the rows alone.
LEMMA TransportInv ==
  ASSUME ServersInv, Transport PROVE ServersInv'
<1>1. PoolInv' /\ NobodyStarts /\ UNCHANGED rowVars /\ LoginsKept
  BY PoolTransport, TransportLogins DEF ServersInv
<1>2. CommandsAwaited'
  BY <1>1 DEF ServersInv, CommandsAwaited, NobodyStarts, rowVars, Callers
<1>3. LoginsAreFresh'
  BY <1>1, FreshFromKept DEF ServersInv, GroupGranted, rowVars
<1> QED
  BY <1>1, <1>2, <1>3 DEF ServersInv, RowTyped, ReadyIsProven, rowVars

\* Steps of the rows that leave the connections, or take a result, and give nobody the group.
LEMMA RowsInv ==
  ASSUME ServersInv, RowTyped', ReadyIsProven', PoolInv', NobodyStarts,
         UNCHANGED <<conn, newLogin>>, GroupGranted' => GroupGranted,
         \A b \in Boots : boot'[b] \notin Phases => boot[b] \notin Phases \/ via[b] = NoConn,
         probed' = "unreachable" => probed = "unreachable" \/ via[Sweep] = NoConn
  PROVE  ServersInv'
<1>1. CommandsAwaited'
  BY DEF ServersInv, CommandsAwaited, NobodyStarts, Callers
<1>2. LoginsAreFresh'
  BY DEF ServersInv, LoginsAreFresh
<1> QED
  BY <1>1, <1>2 DEF ServersInv

LEMMA PoolStays ==
  ASSUME PoolInv, UNCHANGED poolVars PROVE PoolInv' /\ NobodyStarts
BY DEF poolVars, PoolInv, ConnsTyped, CallFits, ConnFits, NobodyStarts

LEMMA BootReadInv == ASSUME ServersInv, NEW b \in Boots, BootRead(b) PROVE ServersInv'
<1>1. PoolInv' /\ NobodyStarts
  BY PoolStays DEF ServersInv, BootRead
<1>2. RowTyped'
  BY DEF ServersInv, BootRead, BootTo, RowTyped
<1> QED
  BY <1>1, <1>2, RowsInv DEF ServersInv, RowTyped, BootRead, BootTo, ReadyIsProven, GroupGranted, CommandsAwaited, poolVars, Phases

LEMMA BootStartInv == ASSUME ServersInv, NEW b \in Boots, BootStart(b) PROVE ServersInv'
<1>1. PoolInv' /\ NobodyStarts
  BY PoolStays DEF ServersInv, BootStart
<1>2. RowTyped'
  BY DEF ServersInv, BootStart, BootTo, RowTyped, Row, ServerStatus, Phases
<1>3. ReadyIsProven'
  BY DEF ServersInv, BootStart, ReadyIsProven, Row
<1> QED
  BY <1>1, <1>2, <1>3, RowsInv DEF ServersInv, RowTyped, BootStart, BootTo, GroupGranted, poolVars, Phases

LEMMA BootExecInv == ASSUME ServersInv, NEW b \in Boots, BootExec(b) PROVE ServersInv'
<1>1. b \in Callers /\ SshExec(b) /\ UNCHANGED rowVars /\ boot[b] \in Phases
  BY DEF BootExec, Callers
<1>2. PoolInv' /\ LoginsKept /\ \A d \in Callers \ {b} : via'[d] = via[d]
  BY <1>1, PoolExec, ExecLogins DEF ServersInv
<1>3. CommandsAwaited'
  BY <1>1, <1>2, ServersAssumption DEF ServersInv, CommandsAwaited, rowVars, Callers
<1>4. LoginsAreFresh'
  BY <1>1, <1>2, FreshFromKept DEF ServersInv, GroupGranted, rowVars
<1> QED
  BY <1>1, <1>2, <1>3, <1>4 DEF ServersInv, RowTyped, ReadyIsProven, rowVars

LEMMA UsermodInv == ASSUME ServersInv, NEW b \in Boots, Usermod(b) PROVE ServersInv'
<1>1. PoolInv' /\ NobodyStarts
  BY PoolStays DEF ServersInv, Usermod
<1>2. RowTyped'
  BY DEF ServersInv, Usermod, RowTyped
<1>3. GroupGranted' => GroupGranted
  BY DEF Usermod, GroupGranted
<1> QED
  BY <1>1, <1>2, <1>3, RowsInv DEF ServersInv, Usermod, ReadyIsProven, poolVars

\* A caller whose command has ended has no connection.
LEMMA EndedIsFree ==
  ASSUME PoolInv, NEW c \in Callers, call[c] \in Settlements \cup {"idle"} PROVE via[c] = NoConn
BY DEF PoolInv, CallFits, Settlements

LEMMA BootResultInv == ASSUME ServersInv, NEW b \in Boots, BootResult(b) PROVE ServersInv'
<1>1. b \in Callers /\ via[b] = NoConn
  BY EndedIsFree DEF BootResult, Callers, ServersInv
<1>2. PoolInv' /\ NobodyStarts
  BY <1>1, PoolTaken DEF BootResult, ServersInv
<1>3. RowTyped' /\ boot'[b] \notin {"succeeded", "recorded"}
  <2>1. AfterPhase[boot[b]][call[b]] \in Phases \cup {"succeeded", "failed"}
    BY DEF BootResult, AfterPhase, Phases, Settlements
  <2> QED
    BY <2>1 DEF ServersInv, RowTyped, BootResult, BootTo, Phases
<1>4. GroupGranted' => GroupGranted
  BY <1>3 DEF ServersInv, RowTyped, BootResult, BootTo, GroupGranted
<1> QED
  BY <1>1, <1>2, <1>3, <1>4, RowsInv DEF ServersInv, RowTyped, BootResult, BootTo, ReadyIsProven

LEMMA BootSucceedsInv == ASSUME ServersInv, NEW b \in Boots, BootSucceeds(b) PROVE ServersInv'
<1>1. b \in Callers /\ via[b] = NoConn
  BY EndedIsFree DEF BootSucceeds, Callers, ServersInv
<1>2. PoolInv' /\ NobodyStarts /\ \A k \in Conns : conn'[k] # "open"
  BY PoolEvict DEF BootSucceeds, ServersInv
<1>3. RowTyped' /\ ReadyIsProven'
  BY DEF ServersInv, RowTyped, BootSucceeds, BootTo, ReadyIsProven
<1>4. CommandsAwaited'
  BY <1>1, <1>2 DEF ServersInv, RowTyped, BootSucceeds, BootTo, CommandsAwaited, NobodyStarts, Callers
<1> QED
  BY <1>2, <1>3, <1>4 DEF ServersInv, LoginsAreFresh

LEMMA BootWriteInv == ASSUME ServersInv, NEW b \in Boots, BootWrite(b) PROVE ServersInv'
<1>1. b \in Callers /\ via[b] = NoConn
  BY DEF BootWrite, Callers, ServersInv, CommandsAwaited, Phases
<1>2. PoolInv' /\ NobodyStarts
  BY <1>1, PoolTaken DEF BootWrite, ServersInv
<1>3. RowTyped'
  BY DEF ServersInv, RowTyped, BootWrite, BootTo, Row, ServerStatus
<1>4. ReadyIsProven'
  BY DEF ServersInv, RowTyped, BootWrite, Row, ReadyIsProven
<1>5. GroupGranted' => GroupGranted
  BY DEF ServersInv, RowTyped, BootWrite, BootTo, GroupGranted
<1> QED
  BY <1>1, <1>2, <1>3, <1>4, <1>5, RowsInv DEF ServersInv, RowTyped, BootWrite, BootTo

LEMMA SweepStartInv == ASSUME ServersInv, SweepStart PROVE ServersInv'
<1>1. PoolInv' /\ NobodyStarts
  BY PoolStays DEF ServersInv, SweepStart
<1>2. RowTyped' /\ ReadyIsProven'
  BY DEF ServersInv, SweepStart, RowTyped, ReadyIsProven
<1> QED
  BY <1>1, <1>2, RowsInv DEF ServersInv, SweepStart, poolVars, GroupGranted

LEMMA SweepExecInv == ASSUME ServersInv, SweepExec PROVE ServersInv'
<1>1. Sweep \in Callers /\ SshExec(Sweep) /\ UNCHANGED rowVars /\ probed # "unreachable"
  BY DEF SweepExec, Callers
<1>2. PoolInv' /\ LoginsKept /\ \A d \in Callers \ {Sweep} : via'[d] = via[d]
  BY <1>1, PoolExec, ExecLogins DEF ServersInv
<1>3. CommandsAwaited'
  BY <1>1, <1>2, ServersAssumption DEF ServersInv, CommandsAwaited, rowVars, Callers
<1>4. LoginsAreFresh'
  BY <1>1, <1>2, FreshFromKept DEF ServersInv, GroupGranted, rowVars
<1> QED
  BY <1>1, <1>2, <1>3, <1>4 DEF ServersInv, RowTyped, ReadyIsProven, rowVars

LEMMA DockerProbedInv == ASSUME ServersInv, DockerProbed PROVE ServersInv'
<1>1. Sweep \in Callers /\ via[Sweep] = NoConn
  BY EndedIsFree DEF DockerProbed, Callers, ServersInv
<1>2. PoolInv' /\ NobodyStarts
  BY <1>1, PoolTaken DEF DockerProbed, ServersInv
<1>3. RowTyped' /\ ReadyIsProven'
  BY DEF ServersInv, DockerProbed, RowTyped, ReadyIsProven, Settlements
<1> QED
  BY <1>1, <1>2, <1>3, RowsInv DEF ServersInv, DockerProbed, GroupGranted

LEMMA SweepWriteInv == ASSUME ServersInv, SweepWrite PROVE ServersInv'
<1>1. Sweep \in Callers /\ via[Sweep] = NoConn
  BY EndedIsFree DEF SweepWrite, Callers, ServersInv, CommandsAwaited
<1>2. PoolInv' /\ NobodyStarts
  BY <1>1, PoolTaken DEF SweepWrite, ServersInv
<1>3. DecideServerStatus(saw, Probe) \in ServerStatus
      /\ (DecideServerStatus(saw, Probe) \in {"ready", "unreachable"} => proven)
  BY DEF ServersInv, RowTyped, ReadyIsProven, DecideServerStatus, ServerStatus
<1>4. RowTyped' /\ ReadyIsProven'
  BY <1>3 DEF ServersInv, SweepWrite, Row, RowTyped, ReadyIsProven, ServerStatus
<1> QED
  BY <1>1, <1>2, <1>4, RowsInv DEF ServersInv, SweepWrite, GroupGranted

LEMMA DeleteServerInv == ASSUME ServersInv, DeleteServer PROVE ServersInv'
<1>1. PoolInv' /\ NobodyStarts
  BY PoolStays DEF ServersInv, DeleteServer
<1>2. RowTyped' /\ ReadyIsProven'
  BY DEF ServersInv, DeleteServer, RowTyped, ReadyIsProven, ServerStatus
<1> QED
  BY <1>1, <1>2, RowsInv DEF ServersInv, DeleteServer, poolVars, GroupGranted

LEMMA ServersCrashInv == ASSUME ServersInv, ServersCrash PROVE ServersInv'
<1>1. PoolInv'
  BY DEF ServersCrash, PoolInv, ConnsTyped, CallFits, ConnFits
<1>2. RowTyped'
  BY ServersAssumption DEF ServersInv, ServersCrash, RowTyped
<1>3. CommandsAwaited' /\ LoginsAreFresh'
  BY DEF ServersCrash, CommandsAwaited, LoginsAreFresh, Callers
<1>4. ReadyIsProven'
  BY DEF ServersInv, ServersCrash, ReadyIsProven
<1> QED
  BY <1>1, <1>2, <1>3, <1>4 DEF ServersInv

LEMMA ServersStep == ServersInv /\ [ServersNext]_serverVars => ServersInv'
<1> SUFFICES ASSUME ServersInv, [ServersNext]_serverVars PROVE ServersInv'
  OBVIOUS
<1>1. CASE UNCHANGED serverVars
  <2>1. UNCHANGED poolVars /\ UNCHANGED rowVars
    BY <1>1 DEF serverVars
  <2>2. PoolInv' /\ NobodyStarts
    BY <2>1, PoolStays DEF ServersInv
  <2> QED
    BY <2>1, <2>2 DEF ServersInv, poolVars, rowVars, RowTyped, CommandsAwaited, LoginsAreFresh, GroupGranted, ReadyIsProven
<1>2. ASSUME NEW b \in Boots, BootRead(b) \/ BootStep(b) \/ Usermod(b) PROVE ServersInv'
  BY <1>2, BootReadInv, BootStartInv, BootExecInv, UsermodInv, BootResultInv, BootSucceedsInv, BootWriteInv
     DEF BootStep
<1> QED
  BY <1>1, <1>2, TransportInv, SweepStartInv, SweepExecInv, DockerProbedInv, SweepWriteInv, DeleteServerInv,
     ServersCrashInv DEF ServersNext, SweepStep

LEMMA ServersInvSuffices ==
  ASSUME ServersInv PROVE ServersTypeOK /\ PoolIsSound /\ FreshLogin /\ ReadyWasBootstrapped
<1>1. ServersTypeOK
  BY DEF ServersInv, PoolInv, ConnsTyped, RowTyped, ServersTypeOK
<1>2. PoolIsSound
  BY DEF ServersInv, PoolInv, ConnsTyped, ConnFits, PoolIsSound
<1>3. FreshLogin
  <2> SUFFICES ASSUME GroupGranted, NEW c \in Callers, call[c] = "running" PROVE via[c] \in newLogin
    BY DEF FreshLogin, GroupGranted
  <2>1. via[c] \in Conns /\ conn[via[c]] = "open"
    BY DEF ServersInv, PoolInv, ConnsTyped, CallFits
  <2> QED
    BY <2>1 DEF ServersInv, LoginsAreFresh
<1>4. ReadyWasBootstrapped
  BY DEF ServersInv, ReadyIsProven, ReadyWasBootstrapped
<1> QED
  BY <1>1, <1>2, <1>3, <1>4

(***************************************************************************)
(* Backups: what a prune may delete has enough newer objects, and it keeps *)
(* them while it and others delete.                                        *)
(***************************************************************************)

\* So many newer objects that the retention need not keep run r.
Spare(r) == Cardinality(Newer(r, bucket)) >= KeepNewest

\* Runs beyond the counter have not begun.
BegunInOrder == \A r \in Runs : r > begun => runAt[r] = "idle" /\ runRow[r] = "none"

\* A run that has left the window has ended, and a prune takes only such.
AgedHaveEnded ==
  /\ \A r \in aged : r <= begun /\ runAt[r] = "idle"
  /\ \A q \in Runs : pruning[q] \subseteq aged

PruningIsSpare  == \A q \in Runs : \A n \in pruning[q] : Spare(n)
MissingIsSpare  == \A r \in Uploaded \ bucket : Spare(r) /\ runAt[r] = "idle"

RetentionInv == BackupsTypeOK /\ BegunInOrder /\ AgedHaveEnded /\ PruningIsSpare /\ MissingIsSpare

LEMMA RunsFinite == \A S \in SUBSET Runs : IsFiniteSet(S) /\ Cardinality(S) \in Nat
<1>1. IsFiniteSet(Runs)
  BY BackupsAssumption, FS_Interval DEF Runs
<1> QED
  BY <1>1, FS_Subset, FS_CardinalityType

\* More objects, more that are newer.
LEMMA NewerGrows ==
  ASSUME NEW small \in SUBSET Runs, NEW large \in SUBSET Runs, NEW r \in Runs, NEW n \in Runs,
         Newer(r, small) \subseteq Newer(n, large)
  PROVE  Cardinality(Newer(r, small)) <= Cardinality(Newer(n, large))
<1>1. Newer(n, large) \in SUBSET Runs
  BY DEF Newer
<1> QED
  BY <1>1, RunsFinite, FS_Subset

\* An upload leaves what is spare so, and so does the deletion of a spare object: it has
\* itself enough that are newer than both.
LEMMA SpareKept ==
  ASSUME BackupsTypeOK, BackupsTypeOK', NEW r \in Runs, Spare(r),
         \/ bucket \subseteq bucket'
         \/ \E n \in Runs : Spare(n) /\ bucket' = bucket \ {n}
  PROVE  Spare(r)'
<1>0. bucket \in SUBSET Runs /\ bucket' \in SUBSET Runs /\ KeepNewest \in Nat
  BY BackupsAssumption DEF BackupsTypeOK
<1>1. \A s \in Runs : /\ Newer(s, bucket) \in SUBSET Runs /\ Newer(s, bucket') \in SUBSET Runs
                      /\ Cardinality(Newer(s, bucket)) \in Nat /\ Cardinality(Newer(s, bucket')) \in Nat
  <2> TAKE s \in Runs
  <2>1. Newer(s, bucket) \in SUBSET Runs /\ Newer(s, bucket') \in SUBSET Runs
    BY <1>0 DEF Newer
  <2> QED
    BY <2>1, RunsFinite
<1>2. ASSUME NEW n \in Runs, Spare(n), Newer(n, bucket) \subseteq Newer(r, bucket') PROVE Spare(r)'
  <2>1. Cardinality(Newer(n, bucket)) <= Cardinality(Newer(r, bucket'))
    BY <1>0, <1>2, NewerGrows
  <2> QED
    BY <1>0, <1>1, <1>2, <2>1 DEF Spare
<1>3. CASE bucket \subseteq bucket'
  <2>1. Newer(r, bucket) \subseteq Newer(r, bucket')
    BY <1>3 DEF Newer
  <2> QED
    BY <1>2, <2>1
<1>4. ASSUME NEW n \in Runs, Spare(n), bucket' = bucket \ {n} PROVE Spare(r)'
  <2>1. CASE n > r
    <3>1. \A q \in bucket : q > n => q > r /\ q # n
      BY <1>0, <1>4, <2>1, BackupsAssumption DEF Runs
    <3>2. Newer(n, bucket) \subseteq Newer(r, bucket')
      BY <1>4, <3>1 DEF Newer
    <3> QED
      BY <1>2, <1>4, <3>2
  <2>2. CASE ~(n > r)
    <3>1. Newer(r, bucket) \subseteq Newer(r, bucket')
      BY <1>4, <2>2 DEF Newer
    <3> QED
      BY <1>2, <3>1
  <2> QED
    BY <2>1, <2>2
<1> QED
  BY <1>3, <1>4

LEMMA RetentionStarts == BackupsInit => RetentionInv
<1> SUFFICES ASSUME BackupsInit PROVE RetentionInv
  OBVIOUS
<1>1. BackupsTypeOK
  BY BackupsAssumption DEF BackupsInit, BackupsTypeOK, Runs, NoRun, ConfigTypes, RunSteps, RestoreEnds
<1>2. Uploaded = {}
  BY DEF BackupsInit, Uploaded
<1> QED
  BY <1>1, <1>2 DEF BackupsInit, RetentionInv, BegunInOrder, AgedHaveEnded, PruningIsSpare, MissingIsSpare

\* A step that neither deletes nor adds an uploaded run keeps what must be spare.
LEMMA SpareUnlessDeleted ==
  ASSUME RetentionInv, BackupsTypeOK', UNCHANGED bucket,
         \A q \in Runs : pruning'[q] \subseteq pruning[q],
         \A r \in Uploaded' : r \in Uploaded /\ (runAt[r] = "idle" => runAt'[r] = "idle")
  PROVE  PruningIsSpare' /\ MissingIsSpare'
<1>1. \A r \in Runs : Spare(r) => Spare(r)'
  BY SpareKept DEF RetentionInv
<1>2. \A q \in Runs : pruning[q] \subseteq Runs
  BY DEF RetentionInv, BackupsTypeOK
<1>3. Uploaded' \subseteq Runs
  BY DEF Uploaded
<1> QED
  BY <1>1, <1>2, <1>3 DEF RetentionInv, PruningIsSpare, MissingIsSpare

LEMMA RetentionRequests ==
  ASSUME RetentionInv, NEW r \in Runs, BeginRun(r) \/ Age(r) \/ RestoreBackupRun(r)
  PROVE  RetentionInv'
<1>0. BackupsTypeOK /\ BegunInOrder /\ AgedHaveEnded
  BY DEF RetentionInv
<1>1. CASE BeginRun(r)
  <2>1. /\ r = begun + 1 /\ begun' = r /\ runAt[r] = "idle" /\ runRow[r] = "none"
        /\ runRow' = [runRow EXCEPT ![r] = "running"] /\ runAt' = [runAt EXCEPT ![r] = "dump"]
        /\ UNCHANGED <<pruning, bucket, aged>>
    BY <1>0, <1>1, BackupsAssumption DEF BeginRun, RunTo, BegunInOrder, BackupsTypeOK, Runs
  <2>2. BackupsTypeOK'
    BY <1>0, <1>1, <2>1 DEF BeginRun, BackupsTypeOK, RunSteps, Runs
  <2>3. BegunInOrder'
    BY <1>0, <2>1 DEF BegunInOrder, BackupsTypeOK, Runs
  <2>4. AgedHaveEnded'
    BY <1>0, <2>1 DEF AgedHaveEnded, BackupsTypeOK, Runs
  <2>5. \A s \in Uploaded' : s \in Uploaded /\ (runAt[s] = "idle" => runAt'[s] = "idle")
    BY <1>0, <2>1 DEF Uploaded, BackupsTypeOK
  <2> QED
    BY <2>1, <2>2, <2>3, <2>4, <2>5, SpareUnlessDeleted DEF RetentionInv
<1>2. CASE Age(r)
  <2>1. BackupsTypeOK' /\ BegunInOrder' /\ AgedHaveEnded'
    BY <1>0, <1>2 DEF Age, BackupsTypeOK, BegunInOrder, AgedHaveEnded
  <2>2. \A s \in Uploaded' : s \in Uploaded /\ (runAt[s] = "idle" => runAt'[s] = "idle")
    BY <1>2 DEF Age, Uploaded
  <2> QED
    BY <1>2, <2>1, <2>2, SpareUnlessDeleted DEF RetentionInv, Age
<1>3. CASE RestoreBackupRun(r)
  <2>1. BackupsTypeOK' /\ BegunInOrder' /\ AgedHaveEnded'
    BY <1>0, <1>3 DEF RestoreBackupRun, dataVars, BackupsTypeOK, BegunInOrder, AgedHaveEnded, RestoreEnds
  <2>2. \A s \in Uploaded' : s \in Uploaded /\ (runAt[s] = "idle" => runAt'[s] = "idle")
    BY <1>3 DEF RestoreBackupRun, Uploaded
  <2> QED
    BY <1>3, <2>1, <2>2, SpareUnlessDeleted DEF RetentionInv, RestoreBackupRun, dataVars
<1> QED
  BY <1>1, <1>2, <1>3

\* A run that is under way has begun and has not left the window.
LEMMA RunUnderWay ==
  ASSUME RetentionInv, NEW r \in Runs, runAt[r] # "idle"
  PROVE  r <= begun /\ r \notin aged
<1>1. r <= begun \/ r > begun
  BY BackupsAssumption DEF RetentionInv, BackupsTypeOK, Runs
<1> QED
  BY <1>1 DEF RetentionInv, BegunInOrder, AgedHaveEnded

\* What a step of a run keeps when it moves that run alone and touches no object.
LEMMA RunMoves ==
  ASSUME RetentionInv, BackupsTypeOK', NEW r \in Runs, NEW step \in RunSteps, runAt[r] # "idle",
         runAt' = [runAt EXCEPT ![r] = step], UNCHANGED <<begun, aged>>,
         \A q \in Runs : runRow[q] = "none" => runRow'[q] = "none" \/ q = r,
         \A q \in Runs : pruning'[q] \subseteq aged
  PROVE  BegunInOrder' /\ AgedHaveEnded'
<1>0. BackupsTypeOK /\ BegunInOrder /\ AgedHaveEnded
  BY DEF RetentionInv
<1>1. r <= begun /\ r \notin aged
  BY RunUnderWay
<1>2. \A q \in Runs : q # r => runAt'[q] = runAt[q]
  BY <1>0 DEF BackupsTypeOK
<1>3. BegunInOrder'
  BY <1>0, <1>1, <1>2, BackupsAssumption DEF BegunInOrder, BackupsTypeOK, Runs
<1>4. AgedHaveEnded'
  BY <1>0, <1>1, <1>2 DEF AgedHaveEnded, BackupsTypeOK
<1> QED
  BY <1>3, <1>4

LEMMA RetentionExecutes ==
  ASSUME RetentionInv, NEW r \in Runs, LogicalDump(r) \/ BaseBackup(r) \/ ProbeSize(r) \/ FinishRun(r)
  PROVE  RetentionInv'
<1>0. BackupsTypeOK /\ BegunInOrder /\ AgedHaveEnded
  BY DEF RetentionInv
<1>1. BackupsTypeOK'
  <2>1. CASE LogicalDump(r)
    BY <1>0, <2>1 DEF LogicalDump, RunTo, BackupsTypeOK, RunSteps
  <2>2. CASE BaseBackup(r)
    BY <1>0, <2>2 DEF BaseBackup, RunTo, dataVars, BackupsTypeOK, RunSteps
  <2>3. CASE ProbeSize(r)
    BY <1>0, <2>3 DEF ProbeSize, RunTo, dataVars, BackupsTypeOK, RunSteps
  <2>4. CASE FinishRun(r)
    BY <1>0, <2>4 DEF FinishRun, RecordFinish, RunTo, BackupsTypeOK, RunSteps, NoRun
  <2> QED
    BY <2>1, <2>2, <2>3, <2>4
<1>2. PICK step \in RunSteps :
        /\ runAt[r] # "idle" /\ runAt' = [runAt EXCEPT ![r] = step]
        /\ UNCHANGED <<begun, aged, pruning, bucket>>
        /\ \A q \in Runs : q # r => runRow'[q] = runRow[q]
        /\ runRow'[r] = "success" => runRow[r] = "success" \/ runAt[r] = "succeed"
        /\ step \in {"size", "list", "prune", "succeed"} => runAt[r] = "size" /\ UNCHANGED runRow
        /\ step = "idle" => runAt[r] \in {"succeed", "fail"}
  BY <1>0 DEF LogicalDump, BaseBackup, ProbeSize, FinishRun, RecordFinish, RunTo, dataVars, BackupsTypeOK, RunSteps
<1>3. BegunInOrder' /\ AgedHaveEnded'
  BY <1>0, <1>1, <1>2, RunMoves DEF AgedHaveEnded
<1>4. \A s \in Uploaded' : s \in Uploaded /\ (runAt[s] = "idle" => runAt'[s] = "idle")
  <2> TAKE s \in Uploaded'
  <2>1. s \in Runs
    BY DEF Uploaded
  <2>2. CASE s # r
    BY <1>0, <1>2, <2>1, <2>2 DEF Uploaded, BackupsTypeOK
  <2>3. CASE s = r
    BY <1>0, <1>2, <2>3 DEF Uploaded, BackupsTypeOK
  <2> QED
    BY <2>2, <2>3
<1> QED
  BY <1>1, <1>2, <1>3, <1>4, SpareUnlessDeleted DEF RetentionInv

LEMMA RetentionUploads ==
  ASSUME RetentionInv, NEW r \in Runs, Upload(r)
  PROVE  RetentionInv'
<1>0. BackupsTypeOK /\ BegunInOrder /\ AgedHaveEnded
  BY DEF RetentionInv
<1>1. BackupsTypeOK'
  BY <1>0 DEF Upload, RunTo, BackupsTypeOK, RunSteps
<1>2. BegunInOrder' /\ AgedHaveEnded'
  <2>1. PICK step \in RunSteps : runAt' = [runAt EXCEPT ![r] = step]
    BY DEF Upload, RunTo, RunSteps
  <2>2. runAt[r] # "idle" /\ UNCHANGED <<begun, aged, pruning, runRow>>
    BY DEF Upload
  <2> QED
    BY <1>0, <1>1, <2>1, <2>2, RunMoves DEF AgedHaveEnded
<1>3. \A s \in Runs : Spare(s) => Spare(s)'
  BY <1>0, <1>1, SpareKept DEF Upload
<1>4. PruningIsSpare'
  BY <1>0, <1>3 DEF RetentionInv, PruningIsSpare, Upload, BackupsTypeOK
<1>5. MissingIsSpare'
  <2> SUFFICES ASSUME NEW s \in (Uploaded \ bucket)' PROVE Spare(s)' /\ runAt'[s] = "idle"
    BY DEF MissingIsSpare
  <2>1. s \in Runs /\ s \notin bucket /\ runAt[r] = "upload"
    BY DEF Upload, Uploaded
  <2>2. s # r
    BY <1>0, <2>1 DEF RetentionInv, MissingIsSpare, Upload, RunTo, Uploaded, BackupsTypeOK
  <2>3. runAt'[s] = runAt[s] /\ s \in Uploaded
    BY <1>0, <2>1, <2>2 DEF Upload, RunTo, Uploaded, BackupsTypeOK
  <2> QED
    BY <1>3, <2>1, <2>3 DEF RetentionInv, MissingIsSpare
<1> QED
  BY <1>1, <1>2, <1>4, <1>5 DEF RetentionInv

\* A prune is of runs that are aged, and the one that prunes is not.
LEMMA RetentionPrunes ==
  ASSUME RetentionInv, NEW r \in Runs, ListPrefix(r) \/ Prune(r)
  PROVE  RetentionInv'
<1>0. BackupsTypeOK /\ BegunInOrder /\ AgedHaveEnded /\ PruningIsSpare /\ MissingIsSpare
  BY DEF RetentionInv
<1>1. CASE ListPrefix(r)
  <2>1. SelectBackupsToPrune(bucket) \subseteq bucket \cap aged
    BY DEF SelectBackupsToPrune
  <2>2. /\ runAt[r] = "list" /\ runAt' = [runAt EXCEPT ![r] = "prune"]
        /\ UNCHANGED <<begun, aged, runRow, bucket>>
        /\ pruning' = [pruning EXCEPT ![r] = SelectBackupsToPrune(bucket)] \/ pruning' = pruning
    BY <1>1 DEF ListPrefix, RunTo, dataVars
  <2>3. BackupsTypeOK'
    BY <1>0, <1>1, <2>1, <2>2 DEF ListPrefix, dataVars, BackupsTypeOK, RunSteps
  <2>4. \A q \in Runs : pruning'[q] \subseteq aged
    BY <1>0, <2>1, <2>2 DEF AgedHaveEnded, BackupsTypeOK
  <2>5. BegunInOrder' /\ AgedHaveEnded'
    BY <2>2, <2>3, <2>4, RunMoves DEF RunSteps
  <2>6. PruningIsSpare'
    BY <1>0, <2>2 DEF PruningIsSpare, Spare, SelectBackupsToPrune, BackupsTypeOK
  <2>7. MissingIsSpare'
    BY <1>0, <2>2 DEF MissingIsSpare, Spare, Uploaded, BackupsTypeOK
  <2> QED
    BY <2>3, <2>5, <2>6, <2>7 DEF RetentionInv
<1>2. CASE Prune(r) /\ pruning[r] = {}
  <2>1. /\ runAt[r] = "prune" /\ runAt' = [runAt EXCEPT ![r] = "succeed"]
        /\ UNCHANGED <<begun, aged, runRow, bucket, pruning>>
    BY <1>2 DEF Prune, RunTo
  <2>2. BackupsTypeOK'
    BY <1>0, <1>2, <2>1 DEF Prune, BackupsTypeOK, RunSteps
  <2>3. BegunInOrder' /\ AgedHaveEnded'
    BY <1>0, <2>1, <2>2, RunMoves DEF RunSteps, AgedHaveEnded
  <2>4. \A s \in Uploaded' : s \in Uploaded /\ (runAt[s] = "idle" => runAt'[s] = "idle")
    BY <1>0, <2>1 DEF Uploaded, BackupsTypeOK
  <2> QED
    BY <2>1, <2>2, <2>3, <2>4, SpareUnlessDeleted DEF RetentionInv
<1>3. CASE Prune(r) /\ pruning[r] # {}
  <2>1. PICK n \in pruning[r] :
          /\ runAt[r] = "prune" /\ pruning' = [pruning EXCEPT ![r] = pruning[r] \ {n}]
          /\ bucket' = bucket \ {n} \/ bucket' = bucket
          /\ UNCHANGED <<begun, aged, runRow, runAt>>
    BY <1>3 DEF Prune
  <2>2. n \in Runs /\ Spare(n) /\ runAt[n] = "idle"
    BY <1>0, <2>1 DEF BackupsTypeOK, PruningIsSpare, AgedHaveEnded
  <2>3. BackupsTypeOK'
    BY <1>0, <1>3, <2>1 DEF Prune, BackupsTypeOK
  <2>4. BegunInOrder' /\ AgedHaveEnded'
    BY <1>0, <2>1 DEF BegunInOrder, AgedHaveEnded, BackupsTypeOK
  <2>5. \A s \in Runs : Spare(s) => Spare(s)'
    BY <1>0, <2>1, <2>2, <2>3, SpareKept
  <2>6. PruningIsSpare'
    BY <1>0, <2>1, <2>5 DEF PruningIsSpare, BackupsTypeOK
  <2>7. MissingIsSpare'
    <3> SUFFICES ASSUME NEW s \in (Uploaded \ bucket)' PROVE Spare(s)' /\ runAt'[s] = "idle"
      BY DEF MissingIsSpare
    <3>1. s \in Uploaded /\ s \in Runs /\ runAt'[s] = runAt[s]
      BY <2>1 DEF Uploaded
    <3>2. s = n \/ s \notin bucket
      BY <2>1
    <3> QED
      BY <1>0, <2>2, <2>5, <3>1, <3>2 DEF MissingIsSpare
  <2> QED
    BY <2>3, <2>4, <2>6, <2>7 DEF RetentionInv
<1> QED
  BY <1>1, <1>2, <1>3

LEMMA RetentionInterrupted ==
  ASSUME RetentionInv, DeleteBackupConfig \/ BackupsCrash
  PROVE  RetentionInv'
<1>0. BackupsTypeOK /\ BegunInOrder /\ AgedHaveEnded
  BY DEF RetentionInv
<1>1. CASE DeleteBackupConfig
  <2>1. BackupsTypeOK' /\ BegunInOrder' /\ AgedHaveEnded'
    BY <1>0, <1>1 DEF DeleteBackupConfig, dataVars, BackupsTypeOK, BegunInOrder, AgedHaveEnded
  <2>2. \A s \in Uploaded' : s \in Uploaded /\ (runAt[s] = "idle" => runAt'[s] = "idle")
    BY <1>1 DEF DeleteBackupConfig, Uploaded
  <2> QED
    BY <1>1, <2>1, <2>2, SpareUnlessDeleted DEF RetentionInv, DeleteBackupConfig, dataVars
<1>2. CASE BackupsCrash
  <2>1. BackupsTypeOK'
    BY <1>0, <1>2, BackupsAssumption DEF BackupsCrash, dataVars, BackupsTypeOK, RunSteps, RestoreEnds
  <2>2. BegunInOrder' /\ AgedHaveEnded'
    BY <1>0, <1>2 DEF BackupsCrash, dataVars, BegunInOrder, AgedHaveEnded, BackupsTypeOK
  <2>3. \A s \in Uploaded' : s \in Uploaded /\ (runAt[s] = "idle" => runAt'[s] = "idle")
    BY <1>2 DEF BackupsCrash, Uploaded
  <2>4. \A q \in Runs : pruning'[q] \subseteq pruning[q]
    BY <1>2 DEF BackupsCrash
  <2> QED
    BY <1>2, <2>1, <2>2, <2>3, <2>4, SpareUnlessDeleted DEF RetentionInv, BackupsCrash, dataVars
<1> QED
  BY <1>1, <1>2

LEMMA RetentionStep == RetentionInv /\ [BackupsNext]_backupVars => RetentionInv'
<1> SUFFICES ASSUME RetentionInv, [BackupsNext]_backupVars PROVE RetentionInv'
  OBVIOUS
<1>1. CASE UNCHANGED backupVars
  <2>1. BackupsTypeOK' /\ BegunInOrder' /\ AgedHaveEnded'
    BY <1>1 DEF backupVars, dataVars, RetentionInv, BackupsTypeOK, BegunInOrder, AgedHaveEnded
  <2>2. \A s \in Uploaded' : s \in Uploaded /\ (runAt[s] = "idle" => runAt'[s] = "idle")
    BY <1>1 DEF backupVars, Uploaded
  <2> QED
    BY <1>1, <2>1, <2>2, SpareUnlessDeleted DEF RetentionInv, backupVars, dataVars
<1> QED
  BY <1>1, RetentionRequests, RetentionExecutes, RetentionUploads, RetentionPrunes, RetentionInterrupted
     DEF BackupsNext, RunStep

\* What is spare by the objects that are there is so by all that was ever uploaded.
LEMMA SpareSuffices == RetentionInv => BackupsTypeOK /\ RetentionKeeps
<1> SUFFICES ASSUME RetentionInv, NEW r \in Uploaded, r \notin bucket,
                    Cardinality(Newer(r, Uploaded \cup bucket)) < KeepNewest \/ runAt[r] # "idle"
             PROVE  FALSE
  BY DEF RetentionInv, RetentionKeeps
<1>1. Spare(r) /\ runAt[r] = "idle"
  BY DEF RetentionInv, MissingIsSpare
<1>2. r \in Runs /\ bucket \in SUBSET Runs /\ Uploaded \cup bucket \in SUBSET Runs
  BY DEF Uploaded, RetentionInv, BackupsTypeOK
<1>3. Newer(r, bucket) \in SUBSET Runs /\ Newer(r, Uploaded \cup bucket) \in SUBSET Runs
  BY <1>2 DEF Newer
<1>4. Cardinality(Newer(r, bucket)) <= Cardinality(Newer(r, Uploaded \cup bucket))
  <2>1. Newer(r, bucket) \subseteq Newer(r, Uploaded \cup bucket)
    BY DEF Newer
  <2> QED
    BY <1>2, <2>1, NewerGrows
<1>5. Cardinality(Newer(r, bucket)) \in Nat /\ Cardinality(Newer(r, Uploaded \cup bucket)) \in Nat
  BY <1>3, RunsFinite
<1> QED
  BY <1>1, <1>4, <1>5, BackupsAssumption DEF Spare

\* However many runs overlap, whatever listing or deletion fails, whenever the control plane
\* dies: none of the newest backups goes, nor the one whose run is about to be recorded.
THEOREM BackupsAreKept == BackupsSpec => [](BackupsTypeOK /\ RetentionKeeps)
BY SpareSuffices, RetentionStarts, RetentionStep, PTL DEF BackupsSpec

(***************************************************************************)
(* Chat.                                                                   *)
(***************************************************************************)

\* The loop's own variables.
LoopTyped ==
  /\ chatAt \in [Turns -> {"none", "history", "user", "loop", "model", "tools", "asking", "persist", "over"}]
  /\ uses \in [Turns -> Seq(Uses)] /\ \A t \in Turns : Len(uses[t]) <= MaxUses
  /\ round \in [Turns -> Nat] /\ budget \in [Turns -> MaxTurns..PlanTurnCap]
  /\ \A t \in Turns : round[t] <= budget[t]
  /\ asked \in [Turns -> Nat] /\ parked \in [Turns -> Card]
  /\ \A t \in Turns : /\ parked[t].turn = t
                      /\ chatAt[t] = "asking" => uses[t] # <<>> /\ parked[t].use = Use(t)

\* No card has an id that its turn has yet to give, and a yes is on its way only for a
\* card that the user has said yes to.
PanelTyped ==
  /\ streaming \in Turns \cup {NoTurn} /\ closed \subseteq Turns
  /\ cards \subseteq Card /\ said \subseteq Card /\ posts \subseteq [card : Card, yes : BOOLEAN]
  /\ \A c \in cards \cup said : c.n <= asked[c.turn]
  /\ \A p \in posts : p.card.n <= asked[p.card.turn] /\ (p.yes = TRUE => p.card \in said)

\* What has run, what is granted and what the card that the turn waits for stands for, if
\* the user has said yes to it, is no more than the user agreed to.
Owed(t, x) == IF x \in WriteTools THEN grants[t][x] ELSE 0
Due(t, x)  == IF chatAt[t] = "asking" /\ parked[t] \in said THEN Consents(parked[t], x) ELSE 0

ConsentTyped ==
  /\ grants \in [Turns -> [WriteTools -> Nat]]
  /\ ran \in [Turns -> [Risky -> Nat]] /\ agreed \in [Turns -> [Risky -> Nat]]
ConsentKept == \A t \in Turns : \A x \in Risky : ran[t][x] + Owed(t, x) + Due(t, x) <= agreed[t][x]

\* Whatever turns are looked at, their rows have a last one: rows come one by one and
\* leave by the turn.
MessagesOf(T) == {m \in messages : m.turn \in T}
RowsHaveLast == \A T \in SUBSET Turns : MessagesOf(T) = {} \/ \E m \in MessagesOf(T) : \A k \in MessagesOf(T) : k.ordinal <= m.ordinal

MessagesTyped ==
  /\ base \in [Turns -> Nat]
  /\ messages \subseteq [turn : Turns, role : {"user", "assistant"}, ordinal : Nat]
  /\ RowsHaveLast

LEMMA TailUses ==
  ASSUME NEW s \in Seq(Uses), s # <<>>
  PROVE  Tail(s) \in Seq(Uses) /\ Len(Tail(s)) = Len(s) - 1
OBVIOUS

LEMMA ConsentsCount == ASSUME NEW c \in Card, NEW x PROVE Consents(c, x) \in Nat
<1> DEFINE S == {i \in DOMAIN c.steps : c.steps[i] = x}
<1>1. c.steps \in Seq(Risky)
  BY DEF Card
<1>2. DOMAIN c.steps = 1..Len(c.steps) /\ Len(c.steps) \in Nat
  BY <1>1
<1>3. IsFiniteSet(1..Len(c.steps))
  BY <1>2, FS_Interval
<1>4. S \subseteq 1..Len(c.steps)
  BY <1>2
<1>5. IsFiniteSet(S)
  BY <1>3, <1>4, FS_Subset
<1>6. Cardinality(S) \in Nat
  BY <1>5, FS_CardinalityType
<1> QED
  BY <1>6 DEF Consents

LEMMA NewCard ==
  ASSUME NEW t \in Turns, NEW n \in Nat, NEW use \in Meta \cup Risky, NEW steps \in Plans \cup {<<>>}
  PROVE  [turn |-> t, n |-> n, use |-> use, steps |-> steps] \in Card
<1>1. steps \in Seq(Risky)
  <2>1. CASE steps \in Plans
    <3>1. PICK k \in 0..PlanSteps : steps \in [1..k -> Risky]
      BY <2>1 DEF Plans
    <3> QED
      BY <3>1, ChatAssumption
  <2>2. CASE steps = <<>>
    BY <2>2
  <2> QED
    BY <2>1, <2>2
<1> QED
  BY <1>1 DEF Card

LEMMA LoopStep == LoopTyped /\ [ChatNext]_chatVars => LoopTyped'
<1> SUFFICES ASSUME LoopTyped, [ChatNext]_chatVars PROVE LoopTyped'
  OBVIOUS
<1> USE ChatAssumption DEF ChatTo
<1>1. CASE UNCHANGED loopVars
  BY <1>1 DEF loopVars, askVars, LoopTyped, Use
<1>2. ASSUME NEW t \in Turns, NEW at \in {"history", "user", "loop", "over"}, chatAt' = [chatAt EXCEPT ![t] = at],
             UNCHANGED <<uses, round, budget, askVars>>
      PROVE  LoopTyped'
  BY <1>2 DEF askVars, LoopTyped, Use
<1>3. ASSUME NEW t \in Turns, CallModel(t) PROVE LoopTyped'
  BY <1>3 DEF CallModel, askVars, LoopTyped, Use
<1>4. ASSUME NEW t \in Turns, ModelAnswers(t) PROVE LoopTyped'
  <2>1. UNCHANGED <<round, budget, asked, parked>> /\ chatAt' \in {[chatAt EXCEPT ![t] = "persist"], [chatAt EXCEPT ![t] = "tools"]}
    BY <1>4 DEF ModelAnswers, askVars
  <2>2. uses' \in [Turns -> Seq(Uses)] /\ \A k \in Turns : Len(uses'[k]) <= MaxUses
    <3>1. CASE UNCHANGED uses
      BY <3>1 DEF LoopTyped
    <3>2. CASE ~UNCHANGED uses
      <4>1. PICK n \in 1..MaxUses : \E answer \in [1..n -> Uses] : uses' = [uses EXCEPT ![t] = answer]
        BY <1>4, <3>2 DEF ModelAnswers
      <4>2. PICK answer \in [1..n -> Uses] : uses' = [uses EXCEPT ![t] = answer]
        BY <4>1
      <4>3. answer \in Seq(Uses) /\ Len(answer) = n
        BY <4>1
      <4> QED
        BY <4>1, <4>2, <4>3 DEF LoopTyped
    <3> QED
      BY <3>1, <3>2
  <2>3. \A k \in Turns : chatAt'[k] = "asking" => uses'[k] = uses[k] /\ chatAt[k] = "asking"
    BY <1>4 DEF ModelAnswers, LoopTyped
  <2> QED
    BY <2>1, <2>2, <2>3 DEF LoopTyped, Use
<1>5. ASSUME NEW t \in Turns, RunRead(t) \/ RunGranted(t) PROVE LoopTyped'
  <2>1. /\ uses[t] # <<>> /\ uses' = [uses EXCEPT ![t] = Tail(@)] /\ chatAt[t] = "tools"
        /\ UNCHANGED <<chatAt, round, budget, asked, parked>>
    BY <1>5 DEF RunRead, RunGranted, Used, AtUse, askVars
  <2>2. uses[t] \in Seq(Uses) /\ Len(uses[t]) <= MaxUses
    BY DEF LoopTyped
  <2>3. Tail(uses[t]) \in Seq(Uses) /\ Len(Tail(uses[t])) <= MaxUses
    BY <2>1, <2>2, TailUses
  <2> QED
    BY <2>1, <2>3 DEF LoopTyped, Use
<1>6. ASSUME NEW t \in Turns, Ask(t) PROVE LoopTyped'
  <2>1. PICK steps \in Plans \cup {<<>>} :
           parked' = [parked EXCEPT ![t] = [turn |-> t, n |-> asked[t] + 1, use |-> Use(t), steps |-> steps]]
    BY <1>6 DEF Ask
  <2>2. /\ UNCHANGED <<uses, round, budget>> /\ asked' = [asked EXCEPT ![t] = @ + 1]
        /\ chatAt' = [chatAt EXCEPT ![t] = "asking"] /\ uses[t] # <<>> /\ Use(t) # "read"
    BY <1>6 DEF Ask
  <2>3. Use(t) \in Meta \cup Risky /\ asked[t] + 1 \in Nat
    BY <2>2 DEF Uses, Use, LoopTyped
  <2>4. [turn |-> t, n |-> asked[t] + 1, use |-> Use(t), steps |-> steps] \in Card
    BY <2>3, NewCard
  <2> QED
    BY <2>1, <2>2, <2>4 DEF LoopTyped, Use
\* An answer to an approval, a form or a plan takes one use off.
<1>7. ASSUME NEW t \in Turns, ReplyTo(t)
      PROVE  /\ chatAt' = [chatAt EXCEPT ![t] = "tools"] /\ UNCHANGED <<round, asked, parked>>
             /\ uses' \in [Turns -> Seq(Uses)] /\ \A k \in Turns : Len(uses'[k]) <= MaxUses
             /\ \A j \in Turns \ {t} : uses'[j] = uses[j]
  <2>1. /\ chatAt[t] = "asking" /\ chatAt' = [chatAt EXCEPT ![t] = "tools"] /\ UNCHANGED <<round, asked, parked>>
        /\ uses' = [uses EXCEPT ![t] = Tail(@)]
    BY <1>7 DEF ReplyTo, Used, askVars
  <2>2. uses[t] \in Seq(Uses) /\ Len(uses[t]) <= MaxUses /\ uses[t] # <<>>
    BY <2>1 DEF LoopTyped
  <2>3. Tail(uses[t]) \in Seq(Uses) /\ Len(Tail(uses[t])) <= MaxUses
    BY <2>2, TailUses
  <2> QED
    BY <2>1, <2>3 DEF LoopTyped
<1>8. ASSUME NEW t \in Turns, ReplyTo(t), budget' \in [Turns -> MaxTurns..PlanTurnCap],
             \A k \in Turns : budget[k] <= budget'[k]
      PROVE  LoopTyped'
  <2>1. \A k \in Turns : round'[k] <= budget'[k]
    BY <1>7, <1>8 DEF LoopTyped
  <2>2. /\ chatAt' \in [Turns -> {"none", "history", "user", "loop", "model", "tools", "asking", "persist", "over"}]
        /\ round' \in [Turns -> Nat] /\ asked' \in [Turns -> Nat] /\ parked' \in [Turns -> Card]
    BY <1>7, <1>8 DEF LoopTyped
  <2>3. ASSUME NEW k \in Turns
        PROVE  parked'[k].turn = k /\ (chatAt'[k] = "asking" => uses'[k] # <<>> /\ parked'[k].use = Head(uses'[k]))
    <3>1. parked'[k] = parked[k] /\ (chatAt'[k] = "asking" => k # t /\ chatAt[k] = "asking" /\ uses'[k] = uses[k])
      BY <1>7, <1>8 DEF LoopTyped
    <3> QED
      BY <3>1 DEF LoopTyped, Use
  <2> QED
    BY <1>7, <1>8, <2>1, <2>2, <2>3 DEF LoopTyped, Use
<1>9. ASSUME NEW t \in Turns, Approve(t) PROVE LoopTyped'
  <2>0. ReplyTo(t) /\ Accepted(t)
    BY <1>9 DEF Approve
  <2>1. CASE Use(t) = "propose_plan"
    <3> DEFINE need == round[t] + 2 * Len(parked[t].steps) + 2
               more == Smaller(PlanTurnCap, Larger(budget[t], need))
    <3>1. budget \in [Turns -> MaxTurns..PlanTurnCap] /\ need \in Nat
      BY DEF Card, LoopTyped
    <3>2. budget' = [budget EXCEPT ![t] = more]
      BY <2>0, <2>1 DEF Accepted
    <3> HIDE DEF need
    <3>3. more \in MaxTurns..PlanTurnCap /\ budget[t] <= more
      BY <3>1 DEF Smaller, Larger
    <3> HIDE DEF more
    <3>4. budget' \in [Turns -> MaxTurns..PlanTurnCap] /\ \A k \in Turns : budget[k] <= budget'[k]
      BY <3>1, <3>2, <3>3
    <3> QED
      BY <1>8, <2>0, <3>4
  <2>2. CASE Use(t) # "propose_plan"
    <3>1. budget' = budget
      BY <2>0, <2>2 DEF Accepted
    <3>2. budget' \in [Turns -> MaxTurns..PlanTurnCap] /\ \A k \in Turns : budget[k] <= budget'[k]
      BY <3>1 DEF LoopTyped
    <3> QED
      BY <1>8, <2>0, <3>2
  <2> QED
    BY <2>1, <2>2
<1>10. ASSUME NEW t \in Turns, Send(t) \/ ReadHistory(t) \/ InsertUserMessage(t) \/ ProviderFails(t)
                               \/ PersistAnswer(t) \/ ToolsDone(t)
       PROVE  LoopTyped'
  BY <1>2, <1>10 DEF Send, ReadHistory, InsertUserMessage, ProviderFails, PersistAnswer, ToolsDone
<1>11. ASSUME NEW t \in Turns, Decline(t) \/ AskTimesOut(t) PROVE LoopTyped'
  <2>1. ReplyTo(t) /\ budget' = budget
    BY <1>11 DEF Decline, AskTimesOut
  <2>2. budget' \in [Turns -> MaxTurns..PlanTurnCap] /\ \A k \in Turns : budget[k] <= budget'[k]
    BY <2>1 DEF LoopTyped
  <2> QED
    BY <1>8, <2>1, <2>2
<1>12. ASSUME NEW t \in Turns, TurnStep(t) \/ Approve(t) \/ Decline(t) PROVE LoopTyped'
  BY <1>3, <1>4, <1>5, <1>6, <1>9, <1>10, <1>11, <1>12 DEF TurnStep
<1>13. CASE Panel
  BY <1>1, <1>10, <1>13 DEF Panel, Stop, Decide, PostFails, PostTooLate
<1> QED
  BY <1>1, <1>12, <1>13 DEF ChatNext, chatVars

LEMMA PanelStep == LoopTyped /\ PanelTyped /\ [ChatNext]_chatVars => PanelTyped'
<1> SUFFICES ASSUME LoopTyped, PanelTyped, [ChatNext]_chatVars PROVE PanelTyped'
  OBVIOUS
<1>0. asked \in [Turns -> Nat] /\ \A c \in Card : c.turn \in Turns
  BY DEF LoopTyped, Card
<1> USE ChatAssumption DEF PanelTyped, panelVars
<1>1. ASSUME UNCHANGED <<said, asked>>, posts' \subseteq posts, cards' \subseteq cards,
             streaming' \in Turns \cup {NoTurn}, closed' \subseteq Turns
      PROVE  PanelTyped'
  BY <1>1
<1>2. CASE Panel
  <2>1. ASSUME NEW t \in Turns, Send(t) PROVE PanelTyped'
    BY <1>1, <2>1 DEF Send, askVars
  <2>2. CASE Stop
    BY <1>1, <2>2 DEF Stop, loopVars, askVars
  <2>3. ASSUME NEW c \in cards, NEW yes \in BOOLEAN, Decide(c, yes) PROVE PanelTyped'
    <3>1. /\ cards' = cards \ {c} /\ posts' = posts \cup {[card |-> c, yes |-> yes]}
          /\ UNCHANGED <<streaming, closed, asked>>
      BY <2>3 DEF Decide, loopVars, askVars
    <3>2. said' \in {said, said \cup {c}} /\ (yes = TRUE => c \in said')
      BY <2>3 DEF Decide
    <3>3. c \in Card /\ c.n <= asked[c.turn]
      OBVIOUS
    <3>4. posts' \subseteq [card : Card, yes : BOOLEAN] /\ cards' \subseteq Card /\ said' \subseteq Card
      BY <3>1, <3>2, <3>3
    <3>5. \A p \in posts' : p.card.n <= asked[p.card.turn] /\ (p.yes = TRUE => p.card \in said')
      BY <3>1, <3>2, <3>3
    <3> QED
      BY <3>1, <3>2, <3>3, <3>4, <3>5
  <2>4. CASE PostFails
    <3>1. PICK p \in posts : posts' = posts \ {p} /\ cards' = OnDisplay(p.card)
      BY <2>4 DEF PostFails
    <3>2. UNCHANGED <<streaming, said, closed, asked>>
      BY <2>4 DEF PostFails, loopVars, askVars
    <3>3. p.card \in Card /\ cards' \subseteq cards \cup {p.card}
      BY <3>1 DEF OnDisplay
    <3> QED
      BY <3>1, <3>2, <3>3
  <2>5. CASE PostTooLate
    BY <1>1, <2>5 DEF PostTooLate, loopVars, askVars
  <2> QED
    BY <1>2, <2>1, <2>2, <2>3, <2>4, <2>5 DEF Panel
<1>3. ASSUME NEW t \in Turns, ProviderFails(t) \/ PersistAnswer(t) PROVE PanelTyped'
  BY <1>1, <1>3 DEF ProviderFails, PersistAnswer, Ended, askVars
<1>4. ASSUME NEW t \in Turns, Ask(t) PROVE PanelTyped'
  <2>1. PICK steps \in Plans \cup {<<>>} : LET c == [turn |-> t, n |-> asked[t] + 1, use |-> Use(t), steps |-> steps] IN
           parked' = [parked EXCEPT ![t] = c] /\ cards' = IF streaming = t THEN OnDisplay(c) ELSE cards
    BY <1>4 DEF Ask
  <2> DEFINE c == [turn |-> t, n |-> asked[t] + 1, use |-> Use(t), steps |-> steps]
  <2>2. /\ UNCHANGED <<streaming, posts, said, closed>> /\ asked' = [asked EXCEPT ![t] = @ + 1]
        /\ uses[t] # <<>> /\ Use(t) # "read"
    BY <1>4 DEF Ask
  <2>3. Use(t) \in Meta \cup Risky
    BY <2>2 DEF Uses, Use, LoopTyped
  <2>4. c \in Card /\ c.turn = t /\ c.n = asked[t] + 1
    BY <2>3, <1>0, NewCard
  <2>5. cards' \subseteq cards \cup {c}
    BY <2>1 DEF OnDisplay
  <2>6. \A k \in Turns : asked[k] <= asked'[k] /\ asked'[k] \in Nat
    BY <2>2, <1>0
  <2>7. \A k \in Card : k.n \in Nat /\ (k.n <= asked[k.turn] => k.n <= asked'[k.turn])
    BY <1>0, <2>6 DEF Card
  <2>8. c.n <= asked'[c.turn]
    BY <1>0, <2>2, <2>4
  <2> HIDE DEF c
  <2>9. \A k \in cards' \cup said' : k \in Card /\ k.n <= asked'[k.turn]
    BY <2>2, <2>4, <2>5, <2>7, <2>8
  <2>10. \A p \in posts' : p.card \in Card /\ p.card.n <= asked'[p.card.turn] /\ (p.yes = TRUE => p.card \in said')
    BY <2>2, <2>7
  <2> QED
    BY <2>2, <2>9, <2>10
<1>5. ASSUME NEW t \in Turns, Approve(t) \/ Decline(t) \/ AskTimesOut(t) PROVE PanelTyped'
  BY <1>1, <1>5 DEF Approve, Decline, AskTimesOut, ReplyTo, askVars
<1>6. ASSUME NEW t \in Turns, TurnStep(t) \/ Approve(t) \/ Decline(t) PROVE PanelTyped'
  BY <1>1, <1>3, <1>4, <1>5, <1>6
     DEF TurnStep, ReadHistory, InsertUserMessage, CallModel, ModelAnswers, ToolsDone, RunRead, RunGranted, askVars
<1> QED
  BY <1>1, <1>2, <1>6 DEF ChatNext, chatVars, loopVars, askVars

\* No step lets a tool run, or grants a run, that the user has not agreed to.
LEMMA ConsentStep ==
  LoopTyped /\ PanelTyped /\ ConsentTyped /\ ConsentKept /\ [ChatNext]_chatVars => ConsentTyped' /\ ConsentKept'
<1> SUFFICES ASSUME LoopTyped, PanelTyped, ConsentTyped, ConsentKept, [ChatNext]_chatVars
             PROVE  ConsentTyped' /\ ConsentKept'
  OBVIOUS
<1> DEFINE Kept == ConsentTyped' /\ ConsentKept'
<1>0. \A t \in Turns : parked[t] \in Card /\ parked[t].turn = t
  BY DEF LoopTyped
<1>1. \A t \in Turns : \A x \in Risky : Due(t, x) \in Nat /\ Owed(t, x) \in Nat /\ ran[t][x] \in Nat /\ agreed[t][x] \in Nat
  BY <1>0, ConsentsCount DEF Due, Owed, ConsentTyped
\* The turn may leave its card.
<1>2. ASSUME UNCHANGED <<grants, ran, agreed>>,
             \A t \in Turns : \A x \in Risky : Due(t, x)' \in {0, Due(t, x)}
      PROVE  Kept
  <2>1. \A t \in Turns : \A x \in Risky : Owed(t, x)' = Owed(t, x)
    BY <1>2 DEF Owed
  <2>2. \A t \in Turns : \A x \in Risky : Due(t, x)' <= Due(t, x)
    BY <1>1, <1>2
  <2>3. \A t \in Turns : \A x \in Risky : ran[t][x] + Owed(t, x) + Due(t, x) <= agreed[t][x]
    BY DEF ConsentKept
  <2>4. ASSUME NEW t \in Turns, NEW x \in Risky PROVE ran'[t][x] + Owed(t, x)' + Due(t, x)' <= agreed'[t][x]
    <3>1. Due(t, x)' \in Nat
      BY <1>1, <1>2
    <3> QED
      BY <1>1, <1>2, <2>1, <2>2, <2>3, <3>1
  <2> QED
    BY <1>2, <2>4 DEF ConsentTyped, ConsentKept
<1>3. ASSUME UNCHANGED <<grants, ran, agreed, parked, said>>, NEW t \in Turns,
             \E at \in {"none", "history", "user", "loop", "model", "tools", "persist", "over"} : chatAt' = [chatAt EXCEPT ![t] = at]
      PROVE  Kept
  <2>1. \A k \in Turns : chatAt'[k] = "asking" => chatAt[k] = "asking"
    BY <1>3 DEF LoopTyped
  <2>2. \A k \in Turns : \A x \in Risky : Due(k, x)' \in {0, Due(k, x)}
    BY <1>3, <2>1 DEF Due, Consents
  <2> QED
    BY <1>2, <1>3, <2>2
<1>4. ASSUME UNCHANGED <<grants, ran, agreed, parked, said, chatAt>> PROVE Kept
  <2>1. \A k \in Turns : \A x \in Risky : Due(k, x)' = Due(k, x)
    BY <1>4 DEF Due, Consents
  <2> QED
    BY <1>2, <1>4, <2>1
<1>5. ASSUME NEW c \in cards, NEW yes \in BOOLEAN, Decide(c, yes) PROVE Kept
  <2>0. UNCHANGED <<grants, ran, parked, chatAt>> /\ c \in Card
    BY <1>5 DEF Decide, loopVars, askVars, PanelTyped
  <2>1. CASE UNCHANGED <<said, agreed>>
    BY <1>4, <2>0, <2>1
  <2>2. CASE ~UNCHANGED <<said, agreed>>
    <3> DEFINE s == c.turn
    <3>1. /\ c \notin said /\ said' = said \cup {c}
          /\ agreed' = [agreed EXCEPT ![s] = [x \in Risky |-> agreed[s][x] + Consents(c, x)]]
      BY <1>5, <2>2 DEF Decide
    <3>2. s \in Turns
      BY <2>0 DEF Card
    <3>3. ConsentTyped'
      BY <2>0, <3>1, <3>2, ConsentsCount DEF ConsentTyped
    <3>4. ASSUME NEW t \in Turns, NEW x \in Risky PROVE ran'[t][x] + Owed(t, x)' + Due(t, x)' <= agreed'[t][x]
      <4>1. ran[t][x] + Owed(t, x) + Due(t, x) <= agreed[t][x] /\ ran'[t][x] = ran[t][x] /\ Owed(t, x)' = Owed(t, x)
        BY <2>0 DEF ConsentKept, Owed
      <4>2. CASE t # s
        <5>1. parked[t] # c
          BY <1>0, <4>2
        <5>2. Due(t, x)' = Due(t, x)
          BY <2>0, <3>1, <5>1 DEF Due, Consents
        <5>3. agreed'[t] = agreed[t]
          BY <3>1, <4>2 DEF ConsentTyped
        <5> QED
          BY <4>1, <5>2, <5>3
      <4>3. CASE t = s
        <5>1. agreed'[t][x] = agreed[t][x] + Consents(c, x)
          BY <3>1, <3>2, <4>3 DEF ConsentTyped
        <5>2. Due(t, x)' \in {Due(t, x), Due(t, x) + Consents(c, x)}
          <6>1. CASE chatAt[t] = "asking" /\ parked[t] = c
            <7>1. Due(t, x) = 0
              BY <3>1, <6>1 DEF Due
            <7>2. Due(t, x)' = Consents(c, x)
              BY <2>0, <3>1, <6>1 DEF Due, Consents
            <7> QED
              BY <7>1, <7>2, <2>0, ConsentsCount
          <6>2. CASE ~(chatAt[t] = "asking" /\ parked[t] = c)
            <7>1. Due(t, x)' = Due(t, x)
              BY <2>0, <3>1, <6>2 DEF Due, Consents
            <7> QED
              BY <7>1
          <6> QED
            BY <6>1, <6>2
        <5>3. Consents(c, x) \in Nat
          BY <2>0, ConsentsCount
        <5> QED
          BY <1>1, <4>1, <5>1, <5>2, <5>3
      <4> QED
        BY <4>2, <4>3
    <3> QED
      BY <3>3, <3>4 DEF ConsentKept
  <2> QED
    BY <2>1, <2>2
<1>6. CASE Panel
  <2>1. ASSUME NEW t \in Turns, Send(t) PROVE Kept
    BY <1>3, <2>1 DEF Send, ChatTo, askVars
  <2> QED
    BY <1>4, <1>5, <1>6, <2>1 DEF Panel, Stop, PostFails, PostTooLate, loopVars, askVars
\* A new card has an id that the user cannot have seen.
<1>7. ASSUME NEW t \in Turns, Ask(t) PROVE Kept
  <2>1. PICK steps \in Plans \cup {<<>>} :
           parked' = [parked EXCEPT ![t] = [turn |-> t, n |-> asked[t] + 1, use |-> Use(t), steps |-> steps]]
    BY <1>7 DEF Ask
  <2>2. UNCHANGED <<grants, ran, agreed, said>> /\ chatAt' = [chatAt EXCEPT ![t] = "asking"]
    BY <1>7 DEF Ask, ChatTo
  <2>3. parked'[t].n = asked[t] + 1 /\ parked'[t].turn = t /\ asked[t] \in Nat
    BY <2>1 DEF LoopTyped
  <2>4. parked'[t] \notin said
    BY <2>3 DEF PanelTyped
  <2>5. \A k \in Turns : \A x \in Risky : Due(k, x)' \in {0, Due(k, x)}
    <3> SUFFICES ASSUME NEW k \in Turns, NEW x \in Risky PROVE Due(k, x)' \in {0, Due(k, x)}
      OBVIOUS
    <3>1. CASE k = t
      BY <2>2, <2>4, <3>1 DEF Due
    <3>2. CASE k # t
      <4>1. parked'[k] = parked[k] /\ chatAt'[k] = chatAt[k]
        BY <2>1, <2>2, <3>2 DEF LoopTyped
      <4>2. Due(k, x)' = Due(k, x)
        BY <2>2, <4>1 DEF Due, Consents
      <4> QED
        BY <4>2
    <3> QED
      BY <3>1, <3>2
  <2> QED
    BY <1>2, <2>2, <2>5
<1>8. ASSUME NEW t \in Turns, RunGranted(t) PROVE Kept
  <2> DEFINE w == Use(t)
  <2>1. /\ w \in WriteTools /\ grants[t][w] > 0 /\ grants' = [grants EXCEPT ![t][w] = @ - 1]
        /\ ran' = [ran EXCEPT ![t][w] = @ + 1] /\ UNCHANGED <<agreed, parked, said, chatAt>>
    BY <1>8 DEF RunGranted, Granted, Ran, panelVars, askVars
  <2>2. w \in Risky
    BY <2>1 DEF Risky
  <2> HIDE DEF w
  <2>3. ConsentTyped'
    BY <2>1, <2>2 DEF ConsentTyped
  <2>4. ASSUME NEW k \in Turns, NEW x \in Risky PROVE ran'[k][x] + Owed(k, x)' + Due(k, x)' <= agreed'[k][x]
    <3>1. ran[k][x] + Owed(k, x) + Due(k, x) <= agreed[k][x] /\ agreed'[k][x] = agreed[k][x]
      BY <2>1 DEF ConsentKept
    <3>2. Due(k, x)' = Due(k, x)
      BY <2>1 DEF Due, Consents
    <3>3. CASE k = t /\ x = w
      <4>1. ran'[k][x] = ran[k][x] + 1
        BY <2>1, <2>2, <3>3 DEF ConsentTyped
      <4>2. Owed(k, x)' = Owed(k, x) - 1
        BY <2>1, <3>3 DEF ConsentTyped, Owed
      <4> QED
        BY <1>1, <3>1, <3>2, <4>1, <4>2
    <3>4. CASE ~(k = t /\ x = w)
      <4>1. ran'[k][x] = ran[k][x] /\ Owed(k, x)' = Owed(k, x)
        BY <2>1, <2>2, <3>4 DEF ConsentTyped, Owed
      <4> QED
        BY <3>1, <3>2, <4>1
    <3> QED
      BY <3>3, <3>4
  <2> QED
    BY <2>3, <2>4 DEF ConsentKept
\* A yes that is accepted was said to this very card.
<1>9. ASSUME NEW t \in Turns, Approve(t) PROVE Kept
  <2> DEFINE c == parked[t]
             w == Use(t)
  <2>1. /\ chatAt[t] = "asking" /\ chatAt' = [chatAt EXCEPT ![t] = "tools"]
        /\ UNCHANGED <<agreed, said, parked>> /\ c \in said /\ Accepted(t)
    BY <1>9 DEF Approve, ReplyTo, ChatTo, askVars, PanelTyped
  <2>2. c \in Card /\ c.turn = t /\ c.use = w
    BY <1>0, <2>1 DEF LoopTyped
  <2>3. \A x \in Risky : Due(t, x) = Consents(c, x) /\ Due(t, x)' = 0 /\ Consents(c, x) \in Nat
    BY <2>1, <2>2, ConsentsCount DEF Due, LoopTyped
  <2>4. \A k \in Turns \ {t} : \A x \in Risky : Due(k, x)' = Due(k, x)
    BY <2>1 DEF Due, Consents, LoopTyped
  <2>5. \A k \in Turns : \A x \in Risky : ran[k][x] + Owed(k, x) + Due(k, x) <= agreed[k][x] /\ agreed'[k][x] = agreed[k][x]
    BY <2>1 DEF ConsentKept
  <2>6. CASE w = "propose_plan"
    <3>1. ran' = ran /\ grants' = [grants EXCEPT ![t] = [x \in WriteTools |-> grants[t][x] + Consents(c, x)]]
      BY <2>1, <2>6 DEF Accepted
    <3>2. ConsentTyped'
      BY <2>1, <2>2, <3>1, ConsentsCount DEF ConsentTyped
    <3>3. ASSUME NEW k \in Turns, NEW x \in Risky PROVE ran'[k][x] + Owed(k, x)' + Due(k, x)' <= agreed'[k][x]
      <4>1. CASE k = t
        <5>1. Owed(t, x)' \in {Owed(t, x), Owed(t, x) + Consents(c, x)}
          BY <3>1 DEF Owed, ConsentTyped
        <5> HIDE DEF c
        <5> QED
          BY <1>1, <2>3, <2>5, <3>1, <4>1, <5>1
      <4>2. CASE k # t
        <5>1. Owed(k, x)' = Owed(k, x)
          BY <3>1, <4>2 DEF Owed, ConsentTyped
        <5> QED
          BY <2>4, <2>5, <3>1, <4>2, <5>1
      <4> QED
        BY <4>1, <4>2
    <3> QED
      BY <3>2, <3>3 DEF ConsentKept
  <2>7. CASE w # "propose_plan" /\ w \in Risky
    <3>1. grants' = grants /\ ran' = [ran EXCEPT ![t][w] = @ + 1]
      BY <2>1, <2>7 DEF Accepted, Ran
    <3>2. Consents(c, w) = 1
      BY <2>2, <2>7 DEF Consents
    <3> HIDE DEF c, w
    <3>3. ConsentTyped'
      BY <2>1, <2>7, <3>1 DEF ConsentTyped
    <3>4. ASSUME NEW k \in Turns, NEW x \in Risky PROVE ran'[k][x] + Owed(k, x)' + Due(k, x)' <= agreed'[k][x]
      <4>0. Owed(k, x)' = Owed(k, x)
        BY <3>1 DEF Owed
      <4>1. CASE k = t /\ x = w
        <5>1. ran'[k][x] = ran[k][x] + 1
          BY <3>1, <4>1 DEF ConsentTyped
        <5> QED
          BY <1>1, <2>3, <2>5, <3>2, <4>0, <4>1, <5>1
      <4>2. CASE ~(k = t /\ x = w)
        <5>1. ran'[k][x] = ran[k][x]
          BY <2>7, <3>1, <4>2 DEF ConsentTyped
        <5>2. Due(k, x)' \in Nat /\ Due(k, x)' <= Due(k, x)
          BY <1>1, <2>3, <2>4
        <5> QED
          BY <1>1, <2>5, <4>0, <5>1, <5>2
      <4> QED
        BY <4>1, <4>2
    <3> QED
      BY <3>3, <3>4 DEF ConsentKept
  <2>8. CASE w # "propose_plan" /\ w \notin Risky
    <3>1. UNCHANGED <<grants, ran>>
      BY <2>1, <2>8 DEF Accepted
    <3> QED
      BY <1>3, <2>1, <3>1
  <2> QED
    BY <2>6, <2>7, <2>8
<1>10. ASSUME NEW t \in Turns, Decline(t) \/ AskTimesOut(t) PROVE Kept
  BY <1>3, <1>10 DEF Decline, AskTimesOut, ReplyTo, ChatTo, askVars
<1>11. ASSUME NEW t \in Turns, ReadHistory(t) \/ InsertUserMessage(t) \/ CallModel(t) \/ ModelAnswers(t) \/ ProviderFails(t)
                               \/ PersistAnswer(t) \/ ToolsDone(t)
       PROVE  Kept
  BY <1>3, <1>11 DEF ReadHistory, InsertUserMessage, CallModel, ModelAnswers, ProviderFails, PersistAnswer, ToolsDone,
                     ChatTo, panelVars, askVars
<1>12. ASSUME NEW t \in Turns, RunRead(t) PROVE Kept
  BY <1>4, <1>12 DEF RunRead, panelVars, askVars
<1>13. ASSUME NEW t \in Turns, TurnStep(t) \/ Approve(t) \/ Decline(t) PROVE Kept
  BY <1>7, <1>8, <1>9, <1>10, <1>11, <1>12, <1>13 DEF TurnStep
<1> QED
  BY <1>4, <1>6, <1>13 DEF ChatNext, chatVars, panelVars, loopVars, askVars

\* A new row keeps every turn's rows with a last one, and so does taking a turn's back.
LEMMA NewRow ==
  ASSUME MessagesTyped, NEW t \in Turns, NEW role_ \in {"user", "assistant"}, NEW n \in Nat, UNCHANGED base,
         messages' = messages \cup {[turn |-> t, role |-> role_, ordinal |-> n]}
  PROVE  MessagesTyped'
<1> DEFINE new == [turn |-> t, role |-> role_, ordinal |-> n]
<1>1. new \in [turn : Turns, role : {"user", "assistant"}, ordinal : Nat] /\ new.turn = t /\ new.ordinal = n
  OBVIOUS
<1>2. messages' = messages \cup {new}
  OBVIOUS
<1> HIDE DEF new
<1>3. ASSUME NEW T \in SUBSET Turns
      PROVE  MessagesOf(T)' = {} \/ \E m \in MessagesOf(T)' : \A k \in MessagesOf(T)' : k.ordinal <= m.ordinal
  <2>1. CASE t \notin T
    <3>1. MessagesOf(T)' = MessagesOf(T)
      BY <1>1, <1>2, <2>1 DEF MessagesOf
    <3> QED
      BY <3>1 DEF MessagesTyped, RowsHaveLast
  <2>2. CASE t \in T
    <3>1. MessagesOf(T)' = MessagesOf(T) \cup {new}
      BY <1>1, <1>2, <2>2 DEF MessagesOf
    <3>2. \A m \in MessagesOf(T)' : m.ordinal \in Nat
      BY <1>1, <3>1 DEF MessagesOf, MessagesTyped
    <3>3. CASE MessagesOf(T) = {}
      BY <1>1, <3>1, <3>3
    <3>4. CASE MessagesOf(T) # {}
      <4>1. PICK m \in MessagesOf(T) : \A k \in MessagesOf(T) : k.ordinal <= m.ordinal
        BY <3>4 DEF MessagesTyped, RowsHaveLast
      <4>2. CASE n <= m.ordinal
        BY <1>1, <3>1, <3>2, <4>1, <4>2
      <4>3. CASE ~(n <= m.ordinal)
        <5>1. \A k \in MessagesOf(T)' : k.ordinal <= new.ordinal
          BY <1>1, <3>1, <3>2, <4>1, <4>3
        <5> QED
          BY <3>1, <5>1
      <4> QED
        BY <4>2, <4>3
    <3> QED
      BY <3>3, <3>4
  <2> QED
    BY <2>1, <2>2
<1> QED
  BY <1>1, <1>2, <1>3 DEF MessagesTyped, RowsHaveLast

LEMMA MessagesStep == MessagesTyped /\ [ChatNext]_chatVars => MessagesTyped'
<1> SUFFICES ASSUME MessagesTyped, [ChatNext]_chatVars PROVE MessagesTyped'
  OBVIOUS
<1>1. CASE UNCHANGED <<base, messages>>
  BY <1>1 DEF MessagesTyped, RowsHaveLast, MessagesOf
<1>2. ASSUME NEW t \in Turns, ReadHistory(t) PROVE MessagesTyped'
  <2> DEFINE ordinals == {m.ordinal : m \in messages}
             last     == CHOOSE n \in ordinals : \A m \in messages : m.ordinal <= n
  <2>1. CASE messages = {}
    <3>1. base' = [base EXCEPT ![t] = 0] /\ messages' = messages
      BY <1>2, <2>1 DEF ReadHistory
    <3> QED
      BY <3>1 DEF MessagesTyped, RowsHaveLast, MessagesOf
  <2>2. CASE messages # {}
    <3>1. MessagesOf(Turns) = messages
      BY DEF MessagesOf, MessagesTyped
    <3>2. PICK m \in messages : \A k \in messages : k.ordinal <= m.ordinal
      BY <2>2, <3>1 DEF MessagesTyped, RowsHaveLast
    <3>3. \E n \in ordinals : \A k \in messages : k.ordinal <= n
      BY <3>2
    <3>4. last \in ordinals
      BY <3>3
    <3>5. last \in Nat
      BY <3>4 DEF MessagesTyped
    <3>6. base' = [base EXCEPT ![t] = 1 + last] /\ messages' = messages
      BY <1>2, <2>2 DEF ReadHistory
    <3> HIDE DEF last
    <3>7. 1 + last \in Nat
      BY <3>5
    <3> QED
      BY <3>6, <3>7 DEF MessagesTyped, RowsHaveLast, MessagesOf
  <2> QED
    BY <2>1, <2>2
<1>3. ASSUME NEW t \in Turns, InsertUserMessage(t) PROVE MessagesTyped'
  BY <1>3, NewRow DEF InsertUserMessage, MessagesTyped
<1>4. ASSUME NEW t \in Turns, PersistAnswer(t) PROVE MessagesTyped'
  <2>1. base[t] + 1 \in Nat
    BY DEF MessagesTyped
  <2> QED
    BY <1>4, <2>1, NewRow DEF PersistAnswer
<1>5. ASSUME NEW t \in Turns, ProviderFails(t) PROVE MessagesTyped'
  <2>1. CASE messages' = messages
    BY <1>5, <2>1 DEF ProviderFails, MessagesTyped, RowsHaveLast, MessagesOf
  <2>2. CASE messages' = {m \in messages : m.turn # t}
    <3>1. \A T \in SUBSET Turns : MessagesOf(T)' = MessagesOf(T \ {t})
      BY <2>2 DEF MessagesOf
    <3>2. RowsHaveLast'
      <4> SUFFICES ASSUME NEW T \in SUBSET Turns
                   PROVE  MessagesOf(T)' = {} \/ \E m \in MessagesOf(T)' : \A k \in MessagesOf(T)' : k.ordinal <= m.ordinal
        BY DEF RowsHaveLast
      <4>1. T \ {t} \in SUBSET Turns
        OBVIOUS
      <4> QED
        BY <3>1, <4>1 DEF MessagesTyped, RowsHaveLast
    <3> QED
      BY <1>5, <2>2, <3>2 DEF ProviderFails, MessagesTyped
  <2> QED
    BY <1>5, <2>1, <2>2 DEF ProviderFails
<1>6. CASE Panel
  BY <1>1, <1>6 DEF Panel, Send, Stop, Decide, PostFails, PostTooLate
<1>7. ASSUME NEW t \in Turns, TurnStep(t) \/ Approve(t) \/ Decline(t) PROVE MessagesTyped'
  BY <1>1, <1>2, <1>3, <1>4, <1>5, <1>7
     DEF TurnStep, Approve, Decline, ReplyTo, CallModel, ModelAnswers, ToolsDone, RunRead, RunGranted, Ask, AskTimesOut
<1> QED
  BY <1>1, <1>6, <1>7 DEF ChatNext, chatVars

ChatInv == LoopTyped /\ PanelTyped /\ ConsentTyped /\ ConsentKept /\ MessagesTyped

LEMMA ChatInvInit == ChatInit => ChatInv
<1> SUFFICES ASSUME ChatInit PROVE ChatInv
  OBVIOUS
<1>1. \A t \in Turns : NoCard(t) \in Card /\ NoCard(t).turn = t
  BY NewCard DEF NoCard, Meta, Card
<1>2. LoopTyped
  BY <1>1, ChatAssumption DEF ChatInit, LoopTyped, Use
<1>3. PanelTyped
  BY DEF ChatInit, PanelTyped
<1>4. ConsentTyped
  BY DEF ChatInit, ConsentTyped
<1>5. ConsentKept
  BY DEF ChatInit, ConsentKept, Owed, Due
<1>6. MessagesTyped
  BY DEF ChatInit, MessagesTyped, RowsHaveLast, MessagesOf
<1> QED
  BY <1>2, <1>3, <1>4, <1>5, <1>6 DEF ChatInv

LEMMA ChatInvStep == ChatInv /\ [ChatNext]_chatVars => ChatInv'
BY LoopStep, PanelStep, ConsentStep, MessagesStep DEF ChatInv

LEMMA ChatIsTyped == ChatInv => ChatTypeOK
<1> SUFFICES ASSUME ChatInv PROVE ChatTypeOK
  OBVIOUS
<1>1. \A t \in Turns : round[t] \in 0..budget[t] /\ budget[t] \in MaxTurns..PlanTurnCap
  BY ChatAssumption DEF ChatInv, LoopTyped
<1>2. \A m \in messages : m.turn \in Turns /\ m.role \in {"user", "assistant"} /\ m.ordinal \in Nat
  BY DEF ChatInv, MessagesTyped
<1> QED
  BY <1>1, <1>2 DEF ChatInv, LoopTyped, PanelTyped, ConsentTyped, ChatTypeOK

\* The panel, the loop of every turn and the rows of the conversation.
THEOREM ChatTypeCorrect == ChatSpec => []ChatTypeOK
BY ChatIsTyped, ChatInvInit, ChatInvStep, PTL DEF ChatSpec

\* In every turn a tool that writes or destroys runs no more often than the cards that the
\* user said yes to stand for, each tool by its own name, although the loop only counts
\* grants, cards outlive their resolvers, and answers are late, fail and are given again:
\* a card's id is what keeps a late yes from the next question (loop.ts:167-172, 297-299;
\* routes/chat.ts:194-207).
THEOREM BoundedConsent == ChatSpec => []OnlyWithConsent
<1>1. ChatInv => OnlyWithConsent
  <2> SUFFICES ASSUME ChatInv, NEW t \in Turns, NEW x \in Risky PROVE ran[t][x] <= agreed[t][x]
    BY DEF OnlyWithConsent
  <2>1. ran[t][x] + Owed(t, x) + Due(t, x) <= agreed[t][x]
    BY DEF ChatInv, ConsentKept
  <2>2. parked[t] \in Card
    BY DEF ChatInv, LoopTyped
  <2>3. Owed(t, x) \in Nat /\ Due(t, x) \in Nat /\ ran[t][x] \in Nat /\ agreed[t][x] \in Nat
    BY <2>2, ConsentsCount DEF ChatInv, ConsentTyped, Owed, Due
  <2> QED
    BY <2>1, <2>3
<1> QED
  BY <1>1, ChatInvInit, ChatInvStep, PTL DEF ChatSpec
=============================================================================
