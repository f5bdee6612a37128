-------------------------------- MODULE Console --------------------------------
(***************************************************************************)
(* The interactive console of one container: the sockets of its viewers,   *)
(* the registry that gives them one shared terminal, the process behind    *)
(* it, and what the page of each viewer shows.                             *)
(*                                                                         *)
(* Frames reach the server in the order they were sent, and the server's   *)
(* answers the page at once.  A chunk of output is its number.  Whether    *)
(* the optional native build is there is decided once, at boot.            *)
(***************************************************************************)
EXTENDS Naturals, Sequences, FiniteSets

CONSTANTS
  Viewers,      \* open consoles, each of one socket
  Scrollback,   \* chunks that are replayed to a late joiner
  MaxChunks,    \* bound: chunks that a process puts out
  MaxFrames     \* bound: frames that viewers send after the first two

ASSUME ConsoleAssumption == Scrollback \in Nat \ {0} /\ MaxChunks \in Nat /\ MaxFrames \in Nat

NoTerminal == 0

VARIABLES
  native,       \* node-pty could be loaded: a true terminal, else plain pipes
  ws,           \* each socket: "new", "open", "leaving" (closed by its page), "closing" (by the server), "closed"
  sent,         \* frames on their way to the server
  framesSent,   \* how many the viewers have sent of their own choice
  checking,     \* the flag opening: the ownership of the target is being read
  joined,       \* the socket's terminal
  shows,        \* what the page says
  tail,         \* the chunks that its terminal has been given
  terminal,   \* the entry of the target in the registry
  execs         \* the terminals in the order of their creation

consoleVars == <<native, ws, sent, framesSent, checking, joined, shows, tail, terminal, execs>>

Frames     == {"open", "input", "resize", "bad"}
Terminals  == 1 .. Len(execs)
Answerable(s) == ws[s] \in {"open", "leaving"}

ConsoleTypeOK ==
  /\ native \in BOOLEAN
  /\ ws \in [Viewers -> {"new", "open", "leaving", "closing", "closed"}]
  /\ \A s \in Viewers : /\ \A i \in DOMAIN sent[s] : sent[s][i] \in Frames
                        /\ \A i \in DOMAIN tail[s] : tail[s][i] \in 1 .. MaxChunks
  /\ framesSent \in 0 .. MaxFrames /\ checking \in [Viewers -> BOOLEAN]
  /\ joined \in [Viewers -> {NoTerminal} \cup Terminals] /\ terminal \in {NoTerminal} \cup Terminals
  /\ shows \in [Viewers -> {"connecting", "open", "closed", "error"}]
  /\ \A t \in Terminals :
       /\ execs[t].process \in {"running", "unborn", "errored", "gone"}
       /\ execs[t].spawned \in BOOLEAN /\ execs[t].killed \in BOOLEAN
       /\ execs[t].clients \subseteq Viewers
       /\ execs[t].made \in 0 .. MaxChunks /\ Len(execs[t].buffer) <= Scrollback

ConsoleInit ==
  /\ native \in BOOLEAN
  /\ ws = [s \in Viewers |-> "new"] /\ sent = [s \in Viewers |-> <<>>] /\ framesSent = 0
  /\ checking = [s \in Viewers |-> FALSE] /\ joined = [s \in Viewers |-> NoTerminal]
  /\ shows = [s \in Viewers |-> "connecting"] /\ tail = [s \in Viewers |-> <<>>]
  /\ terminal = NoTerminal /\ execs = <<>>

(* The pages. *)

\* The socket is accepted, and its page asks at once for a shell and tells its size; or the
\* actor may not write and is told so.
Connect(s, allowed) ==
  /\ ws[s] = "new"
  /\ ws' = [ws EXCEPT ![s] = IF allowed THEN "open" ELSE "closing"]
  /\ sent' = [sent EXCEPT ![s] = IF allowed THEN <<"open", "resize">> ELSE <<>>]
  /\ shows' = [shows EXCEPT ![s] = IF allowed THEN @ ELSE "error"]
  /\ UNCHANGED <<native, framesSent, checking, joined, tail, terminal, execs>>

\* Keys, a window of another size, a paste that is too long; or a client that opens twice.
SendFrame(s, f) ==
  /\ ws[s] = "open" /\ framesSent < MaxFrames
  /\ framesSent' = framesSent + 1
  /\ sent' = [sent EXCEPT ![s] = Append(@, f)]
  /\ UNCHANGED <<native, ws, checking, joined, shows, tail, terminal, execs>>

\* The page is left.
Unmount(s) ==
  /\ ws[s] = "open" /\ ws' = [ws EXCEPT ![s] = "leaving"]
  /\ UNCHANGED <<native, sent, framesSent, checking, joined, shows, tail, terminal, execs>>

\* What a page shows of the answers to the sockets in S.
Shown(S, what) == [s \in Viewers |-> IF s \in S /\ Answerable(s) THEN what ELSE shows[s]]

(* The server. *)

\* The next frame.  A second open is refused even while the first is being checked, and a
\* frame for a terminal that is not there yet is an error: the size that a page sends right
\* after its open is lost unless the check was quicker.  Keys and sizes go to the process, which
\* does with them what it likes.
NextFrame(s) ==
  /\ ws[s] \in {"open", "leaving", "closing"} /\ sent[s] # <<>>
  /\ sent' = [sent EXCEPT ![s] = Tail(@)]
  /\ LET f == Head(sent[s])
         refused == \/ f = "bad"
                    \/ f = "open" /\ (joined[s] # NoTerminal \/ checking[s])
                    \/ f \in {"input", "resize"} /\ joined[s] = NoTerminal
     IN  /\ shows' = IF refused THEN Shown({s}, "error") ELSE shows
         /\ checking' = [checking EXCEPT ![s] = @ \/ (f = "open" /\ ~refused)]
  /\ UNCHANGED <<native, ws, framesSent, joined, tail, terminal, execs>>

Forbidden(s) ==
  /\ checking[s]
  /\ checking' = [checking EXCEPT ![s] = FALSE] /\ shows' = Shown({s}, "error")
  /\ UNCHANGED <<native, ws, sent, framesSent, joined, tail, terminal, execs>>

\* The terminal of the target, or a new one.  Without a true terminal the process may be one
\* that could not be started, which is learnt later.
NewExec(spawned) ==
  [process |-> IF spawned THEN "running" ELSE "unborn", spawned |-> spawned, killed |-> FALSE,
   clients |-> {}, made |-> 0, buffer |-> <<>>]

WithTerminal(spawned) == IF terminal # NoTerminal THEN execs ELSE Append(execs, NewExec(spawned))
TerminalOf == IF terminal # NoTerminal THEN terminal ELSE Len(execs) + 1

\* The socket may have closed during the check; otherwise it joins, is given the scrollback
\* and is told that it is open, all in one go.
MayJoin(s) == Answerable(s) /\ joined[s] = NoTerminal

JoinTerminal(s, spawned) ==
  /\ checking[s] /\ (~spawned => ~native /\ terminal = NoTerminal /\ MayJoin(s))
  /\ checking' = [checking EXCEPT ![s] = FALSE]
  /\ IF MayJoin(s)
     THEN LET t == TerminalOf IN
          /\ terminal' = t /\ joined' = [joined EXCEPT ![s] = t]
          /\ execs' = [WithTerminal(spawned) EXCEPT ![t].clients = @ \cup {s}]
          /\ tail' = [tail EXCEPT ![s] = @ \o WithTerminal(spawned)[t].buffer]
          /\ shows' = Shown({s}, "open")
     ELSE UNCHANGED <<terminal, joined, execs, tail, shows>>
  /\ UNCHANGED <<native, ws, sent, framesSent>>

\* A queue of bounded length, and the broadcast.
Pushed(buffer, chunk) ==
  LET longer == Append(buffer, chunk) IN IF Len(longer) > Scrollback THEN Tail(longer) ELSE longer

Emit(t) ==
  /\ execs[t].process = "running" /\ execs[t].made < MaxChunks
  /\ LET chunk == execs[t].made + 1 IN
     /\ execs' = [execs EXCEPT ![t].made = chunk, ![t].buffer = Pushed(@, chunk)]
     /\ tail' = [s \in Viewers |->
                   IF s \in execs[t].clients /\ Answerable(s) THEN Append(tail[s], chunk) ELSE tail[s]]
  /\ UNCHANGED <<native, ws, sent, framesSent, checking, joined, shows, terminal>>

\* The handler of the process's end: it tells every client, closes their sockets, and takes
\* the name out of the registry, whichever terminal has it.
OnExit(t, process) ==
  /\ shows' = Shown(execs[t].clients, "closed")
  /\ ws' = [s \in Viewers |-> IF s \in execs[t].clients /\ Answerable(s) THEN "closing" ELSE ws[s]]
  /\ execs' = [execs EXCEPT ![t].process = process, ![t].clients = {}]
  /\ terminal' = NoTerminal
  /\ UNCHANGED <<native, sent, framesSent, checking, joined, tail>>

\* The shell ends by itself or is dead of the kill.
ProcessEnds(t) == execs[t].process = "running" /\ OnExit(t, "gone")

\* A process that could not be started reports its error, and then that it is closed.
SpawnErrors(t) == execs[t].process = "unborn" /\ OnExit(t, "errored")
SpawnCloses(t) == execs[t].process = "errored" /\ OnExit(t, "gone")

\* The socket is closed: the last client takes the process with it.
Kills(t, s) == execs[t].clients \ {s} = {}

SocketClosed(s) ==
  /\ ws' = [ws EXCEPT ![s] = "closed"] /\ sent' = [sent EXCEPT ![s] = <<>>] /\ tail' = [tail EXCEPT ![s] = <<>>]
  /\ shows' = [shows EXCEPT ![s] = IF @ = "error" THEN @ ELSE "closed"]
  /\ execs' = IF joined[s] = NoTerminal THEN execs
              ELSE [execs EXCEPT ![joined[s]].clients = @ \ {s},
                                 ![joined[s]].killed = @ \/ Kills(joined[s], s)]
  /\ UNCHANGED <<native, framesSent, checking, joined, terminal>>

\* In order, after the frames that were sent before; or because the connection breaks.
ClosesInOrder(s) == ws[s] \in {"leaving", "closing"} /\ sent[s] = <<>> /\ SocketClosed(s)
Breaks(s) == ws[s] \in {"open", "leaving", "closing"} /\ SocketClosed(s)

\* The check rejects and nobody handles it: the control plane ends and takes sockets and
\* processes with it.
CheckThrows(s) ==
  /\ checking[s]
  /\ ws' = [v \in Viewers |-> IF ws[v] = "new" THEN "new" ELSE "closed"]
  /\ sent' = [v \in Viewers |-> <<>>] /\ checking' = [v \in Viewers |-> FALSE]
  /\ shows' = [v \in Viewers |-> IF ws[v] # "new" /\ shows[v] # "error" THEN "closed" ELSE shows[v]]
  /\ execs' = [t \in Terminals |-> [execs[t] EXCEPT !.process = "gone", !.clients = {}]]
  /\ terminal' = NoTerminal
  /\ UNCHANGED <<native, framesSent, joined, tail>>

ConsoleNext ==
  \/ \E s \in Viewers :
       \/ \E allowed \in BOOLEAN : Connect(s, allowed)
       \/ \E f \in Frames : SendFrame(s, f)
       \/ \E spawned \in BOOLEAN : JoinTerminal(s, spawned)
       \/ Unmount(s) \/ NextFrame(s) \/ Forbidden(s) \/ ClosesInOrder(s) \/ Breaks(s) \/ CheckThrows(s)
  \/ \E t \in Terminals : Emit(t) \/ ProcessEnds(t) \/ SpawnErrors(t) \/ SpawnCloses(t)

ConsoleSpec == ConsoleInit /\ [][ConsoleNext]_consoleVars

(* Properties. *)

Living(t) == execs[t].process = "running" /\ ~execs[t].killed

\* The process dies with its last client, and there is none without one: also when a viewer
\* leaves while the ownership of the target is read.
ExecIsWatched ==
  \A t \in Terminals : Living(t) => \E s \in execs[t].clients : ws[s] # "closed"

\* One shared terminal per target: nobody is given a second process while one lives.  It
\* holds where every process could be started: the second report of one that could not takes
\* a newer terminal out of the registry.
SharedPerTarget ==
  (\A t \in Terminals : execs[t].spawned) =>
    \A t \in Terminals : execs[t].process = "running" => terminal = t

\* Who joined late has the end of what was put out before, then all that came since: without
\* a gap, without a chunk twice, up to the last one.
TailIsWhole ==
  \A t \in Terminals : \A s \in {c \in execs[t].clients : ws[c] = "open"} :
    /\ \A i \in DOMAIN tail[s] : tail[s][i] = execs[t].made - (Len(tail[s]) - i)
    /\ Len(tail[s]) >= (IF execs[t].made < Scrollback THEN execs[t].made ELSE Scrollback)

\* A page that says it is open has a process behind it that has not ended, and that will tell
\* it of its end: the name of a terminal that has ended leads nobody to it.
OpenIsJoined ==
  \A s \in Viewers : shows[s] = "open" /\ ws[s] = "open" =>
    s \in execs[joined[s]].clients /\ execs[joined[s]].process \in {"running", "unborn"}

\* The console of a container as its file describes it: shared, replayed to who comes late,
\* gone with the last client.
ConsoleIsSound == ExecIsWatched /\ SharedPerTarget /\ TailIsWhole /\ OpenIsJoined
=============================================================================
