------------------------------- MODULE Servers -------------------------------
(***************************************************************************)
(* One worker server: the pooled SSH connection that every remote caller   *)
(* of its host shares, the bootstrap that installs docker over it, the     *)
(* five-minute health sweep, and the status that both write.               *)
(*                                                                         *)
(* A command ends with code 0, with another code, or it throws; a          *)
(* connection that is closed under a command gives any of them.  Deploys   *)
(* and an operator's checks use the pool as the sweep does.                *)
(***************************************************************************)
EXTENDS Naturals, FiniteSets

CONSTANTS
  Boots,          \* bound: requests to bootstrap the server
  Conns, NoConn,  \* SSH connections; one that is closed and unused is used again
  MaxCrashes      \* bound: crashes of the control plane

Sweep   == "sweep"
Callers == Boots \cup {Sweep}

ASSUME ServersAssumption ==
  /\ NoConn \notin Conns /\ Sweep \notin Boots
  /\ IsFiniteSet(Conns) /\ IsFiniteSet(Callers) /\ Cardinality(Conns) > Cardinality(Callers)
  /\ MaxCrashes \in Nat

VARIABLES
  pooled,   \* the connection in the pool's map
  conn,     \* the state of every connection
  evictedConns,   \* connections that an evict closes as soon as they are open
  newLogin, \* connections that logged in after the user joined the docker group
  via,      \* the connection that each caller uses
  call,     \* each caller's command
  granted,  \* bootstraps whose installer has put the user into the docker group
  status,   \* servers.status
  boot,     \* where each bootstrap is
  saw,      \* the status that the sweep read, "none" without a sweep
  probed,   \* what its probe of docker said
  proven,   \* some bootstrap has succeeded
  crashes

poolVars   == <<pooled, conn, evictedConns, newLogin, via, call>>
rowVars    == <<granted, status, boot, saw, probed, proven, crashes>>
serverVars == <<poolVars, rowVars>>

Phases == {"docker probe", "docker apply", "docker verify",
           "compose probe", "compose apply", "compose verify"}
Settlements == {"ok", "nonzero", "threw"}

\* Rows of servers.
ServerStatus == {"adding", "bootstrapping", "ready", "error", "unreachable", "gone"}

ServersTypeOK ==
  /\ pooled \in Conns \cup {NoConn}
  /\ conn \in [Conns -> {"closed", "connecting", "open"}]
  /\ evictedConns \subseteq Conns /\ newLogin \subseteq Conns
  /\ via \in [Callers -> Conns \cup {NoConn}]
  /\ call \in [Callers -> Settlements \cup {"idle", "waiting", "running"}]
  /\ granted \subseteq Boots /\ proven \in BOOLEAN
  /\ status \in ServerStatus
  /\ boot \in [Boots -> Phases \cup {"none", "checked", "succeeded", "failed", "done", "recorded"}]
  /\ saw \in {"none", "ready", "error", "unreachable"}
  /\ probed \in {"none", "up", "down", "unreachable"}
  /\ crashes \in 0..MaxCrashes

ServersInit ==
  /\ pooled = NoConn /\ conn = [k \in Conns |-> "closed"]
  /\ evictedConns = {} /\ newLogin = {}
  /\ via = [c \in Callers |-> NoConn] /\ call = [c \in Callers |-> "idle"]
  /\ granted = {} /\ status = "adding" /\ proven = FALSE
  /\ boot = [b \in Boots |-> "none"]
  /\ saw = "none" /\ probed = "none" /\ crashes = 0

(***************************************************************************)
(* The pool.                                                               *)
(***************************************************************************)
FreshConn == CHOOSE k \in Conns : conn[k] = "closed" /\ \A c \in Callers : via[c] # k

\* exec: the connection in the map, or a new one that everybody will wait for.
SshExec(c) ==
  LET k == IF pooled = NoConn THEN FreshConn ELSE pooled IN
    /\ call[c] = "idle"
    /\ pooled' = k
    /\ conn' = [conn EXCEPT ![k] = IF pooled = NoConn THEN "connecting" ELSE @]
    /\ via' = [via EXCEPT ![c] = k]
    /\ call' = [call EXCEPT ![c] = IF conn[k] = "open" THEN "running" ELSE "waiting"]
    /\ UNCHANGED <<evictedConns, newLogin>>

\* k closes: each command under way on it ends somehow, the waiting ones throw.
Closes(k, outcome) ==
  /\ conn' = [conn EXCEPT ![k] = "closed"]
  /\ pooled' = IF pooled = k THEN NoConn ELSE pooled
  /\ evictedConns' = evictedConns \ {k} /\ newLogin' = newLogin \ {k}
  /\ call' = [c \in Callers |-> IF via[c] # k THEN call[c] ELSE
                                IF call[c] = "waiting" THEN "threw" ELSE outcome[c]]
  /\ via' = [c \in Callers |-> IF via[c] = k THEN NoConn ELSE via[c]]

\* One choice of what happens to the commands on k; the others do not count.
CutOff(k) == {o \in [Callers -> Settlements] :
                \A c \in Callers : via[c] # k \/ call[c] # "running" => o[c] = "ok"}

Connected(k) ==
  /\ conn[k] = "connecting" /\ k \notin evictedConns
  /\ conn' = [conn EXCEPT ![k] = "open"]
  /\ newLogin' = IF granted # {} THEN newLogin \cup {k} ELSE newLogin
  /\ call' = [c \in Callers |-> IF via[c] = k THEN "running" ELSE call[c]]
  /\ UNCHANGED <<pooled, evictedConns, via>>

\* An evicted connection opens, and is closed under those that waited for it.
DoomedOpens(k) ==
  /\ conn[k] = "connecting" /\ k \in evictedConns
  /\ \E o \in CutOff(k) : Closes(k, o)

ConnectFails(k) ==
  /\ conn[k] = "connecting"
  /\ \E o \in CutOff(k) : Closes(k, o)

TransportCloses(k) ==
  /\ conn[k] = "open"
  /\ \E o \in CutOff(k) : Closes(k, o)

CommandEnds(c) ==
  /\ call[c] = "running"
  /\ \E o \in {"ok", "nonzero"} :
       /\ (c \in Boots /\ o = "ok" /\ boot[c] = "docker apply") => c \in granted
       /\ call' = [call EXCEPT ![c] = o]
  /\ via' = [via EXCEPT ![c] = NoConn]
  /\ UNCHANGED <<pooled, conn, evictedConns, newLogin>>

\* The channel of one command fails: the connection goes with it.
ExecThrows(c) ==
  /\ call[c] = "running"
  /\ \E o \in CutOff(via[c]) : o[c] = "threw" /\ Closes(via[c], o)

\* evict: out of the map at once, closed at once or when it opens.
Evict ==
  IF pooled = NoConn THEN UNCHANGED poolVars
  ELSE IF conn[pooled] = "connecting"
  THEN /\ pooled' = NoConn /\ evictedConns' = evictedConns \cup {pooled}
       /\ UNCHANGED <<conn, newLogin, via, call>>
  ELSE \E o \in CutOff(pooled) : Closes(pooled, o)

Settles(k) == (Connected(k) \/ DoomedOpens(k) \/ ConnectFails(k)) /\ UNCHANGED rowVars

Transport ==
  \/ \E k \in Conns : Settles(k) \/ (TransportCloses(k) /\ UNCHANGED rowVars)
  \/ \E c \in Callers : (CommandEnds(c) \/ ExecThrows(c)) /\ UNCHANGED rowVars

(***************************************************************************)
(* The bootstrap.                                                          *)
(***************************************************************************)
BootTo(b, phase) == boot' = [boot EXCEPT ![b] = phase]
Row(new)       == status' = IF status = "gone" THEN "gone" ELSE new

\* startServerBootstrap: canTransition, on the row that was read ...
BootRead(b) ==
  /\ boot[b] = "none" /\ status \notin {"gone", "bootstrapping"}
  /\ BootTo(b, "checked")
  /\ UNCHANGED <<poolVars, granted, status, saw, probed, proven, crashes>>

\* ... then the write, whatever the row is by now.
BootStart(b) ==
  /\ boot[b] = "checked"
  /\ Row("bootstrapping") /\ BootTo(b, "docker probe")
  /\ UNCHANGED <<poolVars, granted, saw, probed, proven, crashes>>

BootExec(b) ==
  /\ boot[b] \in Phases /\ SshExec(b)
  /\ UNCHANGED rowVars

\* The installer's last command, on the host.
Usermod(b) ==
  /\ boot[b] = "docker apply" /\ call[b] = "running"
  /\ granted' = granted \cup {b}
  /\ UNCHANGED <<poolVars, status, boot, saw, probed, proven, crashes>>

\* runBootstrap: a probe that succeeds skips the step, the first failure halts.
AfterPhase == [p \in Phases |-> [r \in Settlements |->
  IF r = "threw" THEN "failed" ELSE
  CASE p = "docker probe"   -> IF r = "ok" THEN "compose probe" ELSE "docker apply"
    [] p = "docker apply"   -> IF r = "ok" THEN "docker verify" ELSE "failed"
    [] p = "docker verify"  -> IF r = "ok" THEN "compose probe" ELSE "failed"
    [] p = "compose probe"  -> IF r = "ok" THEN "succeeded" ELSE "compose apply"
    [] p = "compose apply"  -> IF r = "ok" THEN "compose verify" ELSE "failed"
    [] p = "compose verify" -> IF r = "ok" THEN "succeeded" ELSE "failed"]]

BootResult(b) ==
  /\ boot[b] \in Phases /\ call[b] \in Settlements
  /\ AfterPhase[boot[b]][call[b]] # "succeeded"
  /\ BootTo(b, AfterPhase[boot[b]][call[b]])
  /\ call' = [call EXCEPT ![b] = "idle"]
  /\ UNCHANGED <<pooled, conn, evictedConns, newLogin, via, granted, status, saw, probed, proven, crashes>>

\* Faulty: the connection of the old login stays.
BootSucceedsUnevicted(b) ==
  /\ boot[b] \in Phases /\ call[b] \in Settlements
  /\ AfterPhase[boot[b]][call[b]] = "succeeded"
  /\ BootTo(b, "succeeded")
  /\ call' = [call EXCEPT ![b] = "idle"]
  /\ UNCHANGED <<pooled, conn, evictedConns, newLogin, via, granted, status, saw, probed, proven, crashes>>

\* The last step went well: evict.  The bootstrap's own call has ended, so that
\* an eviction settles only the calls of others.
BootSucceeds(b) ==
  /\ boot[b] \in Phases /\ call[b] \in Settlements
  /\ AfterPhase[boot[b]][call[b]] = "succeeded"
  /\ BootTo(b, "succeeded")
  /\ Evict
  /\ UNCHANGED <<granted, status, saw, probed, proven, crashes>>

\* The outcome, written to the row that is there by now, if one is.
BootWrite(b) ==
  /\ boot[b] \in {"succeeded", "failed"}
  /\ Row(IF boot[b] = "succeeded" THEN "ready" ELSE "error")
  /\ proven' = (proven \/ boot[b] = "succeeded")
  /\ BootTo(b, IF boot[b] = "succeeded" THEN "recorded" ELSE "done") /\ call' = [call EXCEPT ![b] = "idle"]
  /\ UNCHANGED <<pooled, conn, evictedConns, newLogin, via, granted, saw, probed, crashes>>

(***************************************************************************)
(* The health sweep, the deletion of the server, and a crash.              *)
(***************************************************************************)
SweepStart ==
  /\ saw = "none" /\ status \in {"ready", "error", "unreachable"}
  /\ saw' = status /\ probed' = "none"
  /\ UNCHANGED <<poolVars, granted, status, boot, proven, crashes>>

\* Two commands: the version of docker, then the disk.
SweepExec ==
  /\ saw # "none" /\ probed # "unreachable"
  /\ ~(probed # "none" /\ call[Sweep] \in Settlements)
  /\ SshExec(Sweep)
  /\ UNCHANGED rowVars

DockerProbed ==
  /\ saw # "none" /\ probed = "none" /\ call[Sweep] \in Settlements
  /\ probed' = CASE call[Sweep] = "threw"   -> "unreachable"
                 [] call[Sweep] = "nonzero" -> "down"
                 [] OTHER                   -> "up"
  /\ call' = [call EXCEPT ![Sweep] = "idle"]
  /\ UNCHANGED <<pooled, conn, evictedConns, newLogin, via, granted, status, boot, saw, proven, crashes>>

Probe == IF call[Sweep] = "threw" THEN "unreachable" ELSE probed

DecideServerStatus(old, probe) ==
  CASE probe = "unreachable" /\ old = "ready"                -> "unreachable"
    [] probe = "down" /\ old \in {"ready", "unreachable"}    -> "error"
    [] probe = "up" /\ old = "unreachable"                   -> "ready"
    [] OTHER                                                 -> status

\* Decided on the status that was read, written over whatever is there.
SweepWrite ==
  /\ saw # "none"
  /\ probed = "unreachable" \/ (probed # "none" /\ call[Sweep] \in Settlements)
  /\ Row(DecideServerStatus(saw, Probe))
  /\ saw' = "none" /\ probed' = "none" /\ call' = [call EXCEPT ![Sweep] = "idle"]
  /\ UNCHANGED <<pooled, conn, evictedConns, newLogin, via, granted, boot, proven, crashes>>

DeleteServer ==
  /\ status # "gone" /\ status' = "gone"
  /\ UNCHANGED <<poolVars, granted, boot, saw, probed, proven, crashes>>

\* The control plane dies; what runs on the host may have reached its end.
ServersCrash ==
  /\ crashes < MaxCrashes /\ crashes' = crashes + 1
  /\ pooled' = NoConn /\ conn' = [k \in Conns |-> "closed"]
  /\ evictedConns' = {} /\ newLogin' = {}
  /\ via' = [c \in Callers |-> NoConn] /\ call' = [c \in Callers |-> "idle"]
  /\ boot' = [b \in Boots |-> IF boot[b] \in {"none", "recorded"} THEN boot[b] ELSE "done"]
  /\ saw' = "none" /\ probed' = "none"
  /\ UNCHANGED <<granted, status, proven>>

BootStep(b) == BootStart(b) \/ BootExec(b) \/ BootResult(b) \/ BootSucceeds(b) \/ BootWrite(b)
SweepStep   == SweepExec \/ DockerProbed \/ SweepWrite

ServersNext ==
  \/ Transport
  \/ \E b \in Boots : BootRead(b) \/ BootStep(b) \/ Usermod(b)
  \/ SweepStart \/ SweepStep \/ DeleteServer \/ ServersCrash

\* A connect has a deadline of ten seconds, and each command of the bootstrap and
\* of the sweep has one of its own.
ServersFairness ==
  /\ \A k \in Conns : WF_serverVars(Settles(k))
  /\ \A c \in Callers : WF_serverVars(CommandEnds(c) /\ UNCHANGED rowVars)
  /\ \A b \in Boots : WF_serverVars(BootStep(b)) /\ WF_serverVars(Usermod(b))

ServersSpec == ServersInit /\ [][ServersNext]_serverVars /\ ServersFairness

(***************************************************************************)
(* Properties.                                                             *)
(***************************************************************************)

\* What the pool hands out is alive or on its way and nobody has evicted it, and
\* no connection stays open behind the pool's back (ssh/pool.ts: exec, evict).
PoolIsSound ==
  /\ pooled # NoConn => conn[pooled] # "closed" /\ pooled \notin evictedConns
  /\ \A k \in Conns : conn[k] = "open" => k = pooled

\* Once a bootstrap that put the user into the docker group has succeeded, every
\* command runs in a login that knows of the group (servers.service.ts:216-219).
FreshLogin ==
  (\E b \in granted : boot[b] \in {"succeeded", "recorded"}) =>
    \A c \in Callers : call[c] = "running" => via[c] \in newLogin

\* A server is never reported ready before some bootstrap of it has succeeded,
\* whatever the sweep writes over it (server-health.service.ts, decideServerStatus).
ReadyWasBootstrapped == status \in {"ready", "unreachable"} => proven

\* A bootstrap ends as ready or error unless the process dies under it
\* (servers.service.ts, "never throws - failures land in the row").
BootstrapSettles == status = "bootstrapping" ~> status # "bootstrapping" \/ crashes > 0

\* The connections and the status of a worker server can be trusted.
ServerIsSound == PoolIsSound /\ FreshLogin /\ ReadyWasBootstrapped
=============================================================================
