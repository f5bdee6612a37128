--------------------------- MODULE RolloutProofs ---------------------------
(***************************************************************************)
(* Proofs about Rollout, for every set of deployments, containers, ports,  *)
(* converging callers and lifecycle requests.                              *)
(***************************************************************************)
EXTENDS Rollout, TLAPS

(***************************************************************************)
(* Types.                                                                  *)
(***************************************************************************)

\* Whatever deployments are looked at, one of them ended last: the write that ends a
\* row gives it a later time than any.
EveryHasLast ==
  \A T \in SUBSET Deployments : T = {} \/ \E d \in T : \A e \in T : finishedAt[e] <= finishedAt[d]

TypeInv == RolloutTypeOK /\ EveryHasLast

\* The time of a row that ends is later than those of all others, and its own.
LEMMA EndsLast ==
  ASSUME TypeInv, NEW d \in Deployments, NEW outcome \in {"succeeded", "failed"}, Ends(d, outcome)
  PROVE  /\ row' \in [Deployments -> {"absent", "active", "succeeded", "failed"}]
         /\ finishedAt' \in [Deployments -> Nat] /\ EveryHasLast'
         /\ row'[d] = outcome /\ \A e \in Deployments \ {d} : row'[e] = row[e]
         /\ \A e \in Deployments \ {d} : finishedAt'[e] = finishedAt[e] /\ finishedAt[e] < finishedAt'[d]
<1>0. /\ row \in [Deployments -> {"absent", "active", "succeeded", "failed"}]
      /\ finishedAt \in [Deployments -> Nat] /\ EveryHasLast
  BY DEF TypeInv, RolloutTypeOK
<1> USE <1>0
<1> DEFINE times == {finishedAt[e] : e \in Deployments}
<1>1. \E n \in times : \A m \in times : n >= m
  <2>1. PICK l \in Deployments : \A e \in Deployments : finishedAt[e] <= finishedAt[l]
    BY DEF EveryHasLast
  <2> QED
    BY <2>1 DEF times
<1>2. Max(times) \in Nat /\ \A e \in Deployments : finishedAt[e] <= Max(times)
  BY <1>1 DEF Max
<1>3. finishedAt' = [finishedAt EXCEPT ![d] = Max(times) + 1] /\ row' = [row EXCEPT ![d] = outcome]
  BY DEF Ends
<1> HIDE DEF times
<1>4. /\ finishedAt' \in [Deployments -> Nat]
      /\ \A e \in Deployments \ {d} : finishedAt'[e] = finishedAt[e] /\ finishedAt[e] < finishedAt'[d]
  BY <1>2, <1>3
<1>5. ASSUME NEW T \in SUBSET Deployments PROVE T = {} \/ \E l \in T : \A e \in T : finishedAt'[e] <= finishedAt'[l]
  <2>1. CASE d \in T
    <3>1. \A e \in T : finishedAt'[e] <= finishedAt'[d]
      BY <1>4
    <3> QED
      BY <2>1, <3>1
  <2>2. CASE d \notin T
    BY <1>4, <2>2 DEF EveryHasLast
  <2> QED
    BY <2>1, <2>2
<1> QED
  BY <1>3, <1>4, <1>5 DEF EveryHasLast

\* The latest of the succeeded rows is one of them.
LEMMA LatestIs ==
  ASSUME TypeInv, Succeeded # {}
  PROVE  Latest \in Succeeded /\ \A e \in Succeeded : finishedAt[e] <= finishedAt[Latest]
<1> DEFINE f == [d \in Succeeded |-> finishedAt[d]]
<1>1. \E d \in DOMAIN f : \A e \in DOMAIN f : f[e] <= f[d]
  BY DEF TypeInv, EveryHasLast, Succeeded
<1>2. LastOf(f) \in DOMAIN f /\ \A e \in DOMAIN f : f[e] <= f[LastOf(f)]
  BY <1>1 DEF LastOf
<1> QED
  BY <1>2 DEF Latest

LEMMA UpstreamTyped == TypeInv => Upstream \in Ports \cup {NoPort}
BY LatestIs DEF Upstream, TypeInv, RolloutTypeOK, Succeeded

\* Docker gives the containers that start ports of their own.
LEMMA PortsGiven ==
  ASSUME RolloutTypeOK, NEW S \in SUBSET Names, port' \in PortsFor(S), up' = up \cup S
  PROVE  /\ port' \in [Names -> Ports \cup {NoPort}]
         /\ \A n \in Names : port'[n] # NoPort <=> n \in up'
         /\ \A m, n \in up' : port'[m] = port'[n] => m = n
BY DEF RolloutTypeOK, PortsFor

LEMMA Removed ==
  ASSUME RolloutTypeOK, NEW S \in SUBSET Names, Remove(S)
  PROVE  /\ ctr' \in [Names -> {"absent", "good", "bad"}] /\ up' \subseteq {n \in Names : ctr'[n] # "absent"}
         /\ port' \in [Names -> Ports \cup {NoPort}]
         /\ \A n \in Names : port'[n] # NoPort <=> n \in up'
         /\ \A m, n \in up' : port'[m] = port'[n] => m = n
BY DEF RolloutTypeOK, Remove

LEMMA TypeInit == RolloutInit => TypeInv
BY RolloutAssumption DEF RolloutInit, TypeInv, RolloutTypeOK, EveryHasLast, Callers, Phases

\* What docker may leave of the containers that are stopped.
LEMMA Stopped ==
  ASSUME RolloutTypeOK, NEW S \in SUBSET Names, up' = up \ S,
         port' = [n \in Names |-> IF n \in S THEN NoPort ELSE port[n]]
  PROVE  /\ port' \in [Names -> Ports \cup {NoPort}]
         /\ \A n \in Names : port'[n] # NoPort <=> n \in up'
         /\ \A m, n \in up' : port'[m] = port'[n] => m = n
BY DEF RolloutTypeOK

LEMMA ReachedIs == ASSUME NEW T \in SUBSET Names, NEW S \in Reached(T) PROVE S \in SUBSET Names /\ S \subseteq T
BY DEF Reached

LEMMA TypeRemoval ==
  ASSUME TypeInv, NEW d \in Deployments, Removal(d)
  PROVE  TypeInv'
<1> USE RolloutAssumption DEF TypeInv, RolloutTypeOK, Goto, At, rowVars, dockerVars
<1>0. d \in Callers /\ NameOf[d] \in Names
  BY DEF Callers
<1>1. CASE ListOld(d)
  <2>1. Existing \in SUBSET Names
    BY DEF Existing
  <2> QED
    BY <1>0, <1>1, <2>1 DEF ListOld, Phases, Removing, EveryHasLast
<1>2. CASE InspectNew(d)
  <2>1. todo' \in [Callers -> SUBSET Names] /\ keep' \in [Deployments -> Names \cup {NoPort}]
    BY <1>0, <1>2 DEF InspectNew
  <2>2. pc' \in [Callers -> Phases]
    BY <1>0, <1>2 DEF InspectNew, Phases, Removing
  <2> QED
    BY <1>2, <2>1, <2>2 DEF InspectNew, EveryHasLast
<1>3. CASE RemoveOld(d)
  <2>1. PICK n \in todo[d] : \/ Remove({n}) /\ UNCHANGED spared
                             \/ spared' = [spared EXCEPT ![d] = @ \cup {n}] /\ UNCHANGED dockerVars
    BY <1>3 DEF RemoveOld
  <2>2. n \in Names /\ {n} \in SUBSET Names /\ todo' \in [Callers -> SUBSET Names]
    BY <1>0, <1>3, <2>1 DEF RemoveOld
  <2>3. spared' \in [Deployments -> SUBSET Names]
    BY <2>1, <2>2
  <2>4. /\ ctr' \in [Names -> {"absent", "good", "bad"}] /\ up' \subseteq {m \in Names : ctr'[m] # "absent"}
        /\ port' \in [Names -> Ports \cup {NoPort}] /\ \A m \in Names : port'[m] # NoPort <=> m \in up'
        /\ \A k, m \in up' : port'[k] = port'[m] => k = m
    BY <2>1, <2>2, Removed
  <2> QED
    BY <1>3, <2>2, <2>3, <2>4 DEF RemoveOld, EveryHasLast
<1>4. CASE RemovalDone(d)
  BY <1>0, <1>4 DEF RemovalDone, Phases, opVars, EveryHasLast
<1>5. CASE RemoveThrows(d)
  <2>1. TypeInv /\ Ends(d, "failed")
    BY <1>5 DEF RemoveThrows
  <2> QED
    BY <1>0, <1>5, <2>1, EndsLast DEF RemoveThrows, Phases, opVars
<1> QED
  BY <1>1, <1>2, <1>3, <1>4, <1>5 DEF Removal

LEMMA TypePipeline ==
  ASSUME TypeInv, NEW d \in Deployments, Pipeline(d)
  PROVE  TypeInv'
<1> USE RolloutAssumption DEF TypeInv, RolloutTypeOK, Goto, At, rowVars, dockerVars, opVars
<1>0. d \in Callers /\ NameOf[d] \in Names
  BY DEF Callers
<1>1. CASE Create(d)
  BY <1>1 DEF Create, EveryHasLast
<1>2. CASE Begin(d) \/ HealthOk(d)
  BY <1>0, <1>2 DEF Begin, HealthOk, Phases, EveryHasLast
<1>3. CASE UpFails(d)
  <2>1. TypeInv /\ Ends(d, "failed")
    BY <1>3 DEF UpFails
  <2>2. pc' = [pc EXCEPT ![d] = "done"]
    BY <1>3 DEF UpFails
  <2>3. /\ ctr' \in [Names -> {"absent", "good", "bad"}] /\ up' \subseteq {n \in Names : ctr'[n] # "absent"}
        /\ port' \in [Names -> Ports \cup {NoPort}] /\ \A n \in Names : port'[n] # NoPort <=> n \in up'
        /\ \A m, n \in up' : port'[m] = port'[n] => m = n
    BY <1>3 DEF UpFails
  <2> QED
    BY <1>0, <1>3, <2>1, <2>2, <2>3, EndsLast DEF UpFails, Phases
<1>4. CASE Run(d)
  <2> DEFINE n == NameOf[d]
  <2>1. n \in Names /\ up' = up \cup {n} /\ port' \in PortsFor({n})
    BY <1>4 DEF Run
  <2>2. /\ port' \in [Names -> Ports \cup {NoPort}] /\ \A k \in Names : port'[k] # NoPort <=> k \in up'
        /\ \A k, m \in up' : port'[k] = port'[m] => k = m
    BY <2>1, PortsGiven
  <2>3. ctr' \in [Names -> {"absent", "good", "bad"}] /\ up' \subseteq {k \in Names : ctr'[k] # "absent"}
    BY <1>4, <2>1 DEF Run
  <2>4. got' \in [Callers -> Ports \cup {NoPort}] /\ pc' \in [Callers -> Phases]
    BY <1>0, <1>4, <2>1, <2>2 DEF Run, Phases
  <2> QED
    BY <1>4, <2>2, <2>3, <2>4 DEF Run, EveryHasLast
<1>5. CASE Discard(d)
  <2>1. PICK S \in Reached({NameOf[d]}) : Remove(S)
    BY <1>5 DEF Discard
  <2>2. TypeInv /\ Ends(d, "failed") /\ S \in SUBSET Names
    BY <1>0, <1>5, ReachedIs DEF Discard
  <2> QED
    BY <1>0, <1>5, <2>1, <2>2, EndsLast, Removed DEF Discard, Phases
<1>6. CASE WriteSucceeded(d)
  <2>1. TypeInv /\ Ends(d, "succeeded")
    BY <1>6 DEF WriteSucceeded
  <2>2. meta' \in [Deployments -> Ports \cup {NoPort}] /\ pc' \in [Callers -> Phases]
    BY <1>0, <1>6 DEF WriteSucceeded, Phases
  <2> QED
    BY <1>6, <2>1, <2>2, EndsLast DEF WriteSucceeded
<1> QED
  BY <1>1, <1>2, <1>3, <1>4, <1>5, <1>6, TypeRemoval DEF Pipeline

LEMMA TypeLifecycle ==
  ASSUME TypeInv, NEW o \in Requests, Lifecycle(o)
  PROVE  TypeInv'
<1> USE RolloutAssumption DEF TypeInv, RolloutTypeOK, Goto, At, rowVars, dockerVars, opVars
<1>0. o \in Callers /\ todo[o] \in SUBSET Names
  BY DEF Callers
<1>1. CASE ListsForOp(o) \/ ListsForPort(o)
  <2>1. PICK phase \in Phases, S \in {up, Existing} :
             /\ pc' = [pc EXCEPT ![o] = phase] /\ todo' = [todo EXCEPT ![o] = S]
             /\ UNCHANGED <<rowVars, dockerVars, route, got, snap, keep, spared, dep>>
    BY <1>1 DEF ListsForOp, ListsForPort, ListUp, Phases
  <2>2. up \in SUBSET Names /\ Existing \in SUBSET Names
    BY DEF Existing
  <2> QED
    BY <1>0, <2>1, <2>2 DEF EveryHasLast
<1>2. CASE StopApp(o)
  <2>1. PICK S \in Reached(todo[o]) : /\ up' = up \ S
                                      /\ port' = [n \in Names |-> IF n \in S THEN NoPort ELSE port[n]]
    BY <1>2 DEF StopApp
  <2>2. S \in SUBSET Names
    BY <1>0, ReachedIs
  <2>3. /\ port' \in [Names -> Ports \cup {NoPort}] /\ \A n \in Names : port'[n] # NoPort <=> n \in up'
        /\ \A m, n \in up' : port'[m] = port'[n] => m = n
    BY <2>1, <2>2, Stopped
  <2> QED
    BY <1>0, <1>2, <2>1, <2>3 DEF StopApp, Forgets, Phases, EveryHasLast
<1>3. CASE StartApp(o) \/ RestartApp(o)
  <2>1. PICK S \in Reached(todo[o] \cap Existing), T \in SUBSET Names :
               up' = up \cup S /\ up' = up \cup T /\ port' \in PortsFor(T)
    <3>1. PICK S \in Reached(todo[o] \cap Existing) : up' = up \cup S /\ (port' \in PortsFor(S) \/ port' \in PortsFor(S \ up))
      BY <1>3 DEF StartApp, RestartApp
    <3>2. S \in SUBSET Names /\ up \cup S = up \cup (S \ up) /\ S \ up \in SUBSET Names
      BY <1>0, ReachedIs
    <3> QED
      BY <3>1, <3>2
  <2>2. S \subseteq Existing
    BY <1>0, ReachedIs
  <2>3. /\ port' \in [Names -> Ports \cup {NoPort}] /\ \A n \in Names : port'[n] # NoPort <=> n \in up'
        /\ \A m, n \in up' : port'[m] = port'[n] => m = n
    BY <2>1, PortsGiven
  <2>4. up' \subseteq {n \in Names : ctr[n] # "absent"}
    BY <2>1, <2>2 DEF Existing
  <2>5. todo' \in [Callers -> SUBSET Names] /\ pc' \in [Callers -> Phases]
    BY <1>0, <1>3 DEF StartApp, RestartApp, Forgets, Phases
  <2> QED
    BY <1>3, <2>3, <2>4, <2>5 DEF StartApp, RestartApp, EveryHasLast
<1>4. CASE ReadLivePort(o)
  BY <1>0, <1>4 DEF ReadLivePort, Forgets, Phases, EveryHasLast
<1>5. CASE SelectRow(o)
  <2>1. TypeInv
    OBVIOUS
  <2>2. Succeeded # {} => Latest \in Deployments
    BY <2>1, LatestIs DEF Succeeded
  <2>3. dep' \in [Requests -> Deployments \cup {NoPort}] /\ pc' \in [Callers -> Phases]
    BY <1>0, <1>5, <2>2 DEF SelectRow, Phases
  <2> QED
    BY <1>5, <2>3 DEF SelectRow, EveryHasLast
<1>6. CASE StampLivePort(o)
  BY <1>0, <1>6 DEF StampLivePort, Phases, EveryHasLast
<1> QED
  BY <1>1, <1>2, <1>3, <1>4, <1>5, <1>6 DEF Lifecycle

LEMMA TypeStep == TypeInv /\ [RolloutNext]_rolloutVars => TypeInv'
<1> SUFFICES ASSUME TypeInv, [RolloutNext]_rolloutVars PROVE TypeInv'
  OBVIOUS
<1>1. CASE UNCHANGED rolloutVars
  BY <1>1 DEF rolloutVars, rowVars, dockerVars, opVars, TypeInv, RolloutTypeOK, EveryHasLast
<1>2. ASSUME NEW c \in Callers, Converge(c) PROVE TypeInv'
  BY <1>2, UpstreamTyped DEF Converge, ConvergeElsewhere, ConvergeRead, ConvergeLoad, ConvergeFails, AfterConverge,
                             Phases, Removing, TypeInv, RolloutTypeOK, EveryHasLast, Goto, At, rowVars, dockerVars, opVars
<1> QED
  BY <1>1, <1>2, TypePipeline, TypeLifecycle DEF RolloutNext

\* The type invariant, whatever fails and whoever runs beside whom: no two containers
\* publish one port, and only what runs publishes one.
THEOREM RolloutTypeCorrect == RolloutSpec => []RolloutTypeOK
<1>1. TypeInv => RolloutTypeOK
  BY DEF TypeInv
<1> QED
  BY <1>1, TypeInit, TypeStep, PTL DEF RolloutSpec

(***************************************************************************)
(* The configuration that Caddy is left with.                              *)
(***************************************************************************)

\* The part of the type invariant that the proofs below need.
Typed == /\ row \in [Deployments -> {"absent", "active", "succeeded", "failed"}]
         /\ DOMAIN finishedAt = Deployments
         /\ pc \in [Callers -> Phases]
         /\ DOMAIN snap = Callers

\* A pipeline that has not written its outcome has an active row.
BeforeOutcome == \A d \in Deployments : pc[d] \in {"up", "health", "write"} => row[d] = "active"

\* One caller at a time is between its reads and its load, and unless another
\* converge waits behind it, it holds, or has loaded, what the rows say.
OneLoads == \A c, e \in Callers : At(c, "convLoad") /\ At(e, "convLoad") => c = e
Fresh    ==
  (\A c \in Callers : ~At(c, "convWait")) =>
    IF \E c \in Callers : At(c, "convLoad")
    THEN \A c \in Callers : At(c, "convLoad") => snap[c] = Upstream
    ELSE route = Upstream

FreshInv == Typed /\ BeforeOutcome /\ OneLoads /\ Fresh

LEMMA FreshInit == RolloutInit => FreshInv
BY RolloutAssumption DEF RolloutInit, FreshInv, Typed, BeforeOutcome, OneLoads, Fresh, Callers,
                         Phases, At, Upstream, Succeeded

\* The upstream depends on the succeeded rows only.
LEMMA SameUpstream ==
  ASSUME Succeeded' = Succeeded, meta' = meta,
         \A d \in Succeeded : finishedAt'[d] = finishedAt[d]
  PROVE  Upstream' = Upstream
<1>1. [d \in Succeeded |-> finishedAt[d]]' = [d \in Succeeded |-> finishedAt[d]]
  OBVIOUS
<1>2. Latest' = Latest
  BY <1>1 DEF Latest
<1> QED
  BY <1>2 DEF Upstream

\* A step that leaves the upstream, the proxy and the converging callers alone.
SameConvergers ==
  \A c \in Callers : \/ pc'[c] = pc[c]
                     \/ pc[c] \notin {"convWait", "convLoad"} /\ pc'[c] \notin {"convWait", "convLoad"}

LEMMA OtherStep ==
  ASSUME FreshInv, Upstream' = Upstream, route' = route, snap' = snap, SameConvergers
  PROVE  OneLoads' /\ Fresh'
BY DEF FreshInv, OneLoads, Fresh, SameConvergers, At

\* A step that sends a caller to the converge, whatever it does to the rows.
LEMMA QueuesUp ==
  ASSUME FreshInv, NEW c \in Callers, Goto(c, "convWait"), ~At(c, "convLoad")
  PROVE  OneLoads' /\ Fresh'
<1>1. pc' = [pc EXCEPT ![c] = "convWait"] /\ c \in DOMAIN pc
  BY DEF Goto, FreshInv, Typed
<1>2. At(c, "convWait")'
  BY <1>1 DEF At
<1>3. \A e \in Callers : At(e, "convLoad")' => At(e, "convLoad")
  BY <1>1 DEF At, FreshInv, Typed
<1> QED
  BY <1>2, <1>3 DEF FreshInv, OneLoads, Fresh

LEMMA ConvergeStep ==
  ASSUME FreshInv, NEW c \in Callers, Converge(c), ~CaddyFails
  PROVE  FreshInv'
<1> USE DEF FreshInv, Typed, BeforeOutcome, rowVars, dockerVars
<1>0. c \in DOMAIN pc /\ pc[c] \in Phases
  OBVIOUS
<1>1. CASE ConvergeElsewhere(c)
  <2>1. Goto(c, "convWait") /\ ~At(c, "convLoad")
    BY <1>1 DEF ConvergeElsewhere, At
  <2>2. OneLoads' /\ Fresh'
    BY <2>1, QueuesUp
  <2> QED
    BY <1>1, <2>2 DEF ConvergeElsewhere, Goto, Phases
<1>2. CASE ConvergeRead(c)
  <2>1. Upstream' = Upstream
    BY <1>2, SameUpstream DEF ConvergeRead, Succeeded
  <2>2. pc' = [pc EXCEPT ![c] = "convLoad"] /\ snap' = [snap EXCEPT ![c] = Upstream]
    BY <1>2 DEF ConvergeRead, Goto
  <2>3. \A e \in Callers : At(e, "convLoad")' <=> e = c
    BY <1>2, <2>2 DEF ConvergeRead, At
  <2>4. snap'[c] = Upstream'
    BY <2>1, <2>2
  <2> QED
    BY <1>2, <2>2, <2>3, <2>4 DEF ConvergeRead, OneLoads, Fresh, Phases
<1>3. CASE ConvergeLoad(c)
  <2>1. Upstream' = Upstream
    BY <1>3, SameUpstream DEF ConvergeLoad, Succeeded
  <2>2. pc' = [pc EXCEPT ![c] = AfterConverge(c)] /\ AfterConverge(c) \in {"remove", "done", "idle"}
    BY <1>3 DEF ConvergeLoad, Goto, AfterConverge
  <2>3. \A e \in Callers : At(e, "convWait")' <=> At(e, "convWait")
    BY <1>3, <2>2 DEF ConvergeLoad, At
  <2>4. \A e \in Callers : ~At(e, "convLoad")'
    BY <1>3, <2>2 DEF ConvergeLoad, At, OneLoads
  <2>5. OneLoads' /\ Fresh'
    BY <1>3, <2>1, <2>3, <2>4 DEF ConvergeLoad, OneLoads, Fresh
  <2> QED
    BY <1>3, <2>2, <2>5 DEF ConvergeLoad, Phases, Removing
<1> QED
  BY <1>1, <1>2, <1>3 DEF Converge, ConvergeFails

LEMMA PipelineStep ==
  ASSUME FreshInv, NEW d \in Deployments, Pipeline(d), ~RemoteExec
  PROVE  FreshInv'
<1>0. /\ d \in Callers /\ Deployments \subseteq Callers /\ pc \in [Callers -> Phases]
      /\ row \in [Deployments -> {"absent", "active", "succeeded", "failed"}]
  BY DEF FreshInv, Typed, Callers
<1> SUFFICES Typed' /\ BeforeOutcome' /\ OneLoads' /\ Fresh'
  BY DEF FreshInv
<1> USE <1>0 DEF rowVars, dockerVars, Goto
<1>1. CASE Create(d) \/ Begin(d) \/ Run(d) \/ HealthOk(d) \/ Removal(d)
  <2> USE DEF Create, Begin, Run, HealthOk, Removal, ListOld, InspectNew, RemoveOld, RemovalDone, RemoveThrows
  <2>1. Succeeded' = Succeeded /\ UNCHANGED <<meta, finishedAt, route, snap>>
    BY <1>1 DEF Succeeded
  <2>2. Upstream' = Upstream
    BY <2>1, SameUpstream
  <2>3. SameConvergers
    BY <1>1 DEF At, SameConvergers
  <2>4. OneLoads' /\ Fresh'
    BY <2>1, <2>2, <2>3, OtherStep
  <2>5. Typed'
    BY <1>1, <2>1 DEF Typed, FreshInv, Phases, Removing
  <2>6. BeforeOutcome'
    BY <1>1, <2>1 DEF Typed, BeforeOutcome, FreshInv, At
  <2> QED
    BY <2>4, <2>5, <2>6
<1>2. CASE UpFails(d) \/ Discard(d)
  <2>1. row[d] = "active" /\ Ends(d, "failed") /\ UNCHANGED <<meta, route, snap>>
    BY <1>2 DEF UpFails, Discard, At, FreshInv, BeforeOutcome
  <2>2. Succeeded' = Succeeded /\ \A e \in Succeeded : finishedAt'[e] = finishedAt[e]
    BY <2>1 DEF Ends, Succeeded, FreshInv, Typed
  <2>3. Upstream' = Upstream
    BY <2>1, <2>2, SameUpstream
  <2>4. SameConvergers
    BY <1>2 DEF UpFails, Discard, At, SameConvergers
  <2>5. OneLoads' /\ Fresh'
    BY <2>1, <2>3, <2>4, OtherStep
  <2>6. Typed'
    BY <1>2, <2>1 DEF UpFails, Discard, Ends, Typed, FreshInv, Phases
  <2>7. BeforeOutcome'
    BY <1>2, <2>1 DEF UpFails, Discard, Ends, Typed, BeforeOutcome, FreshInv
  <2> QED
    BY <2>5, <2>6, <2>7
<1>3. CASE WriteSucceeded(d)
  <2>1. OneLoads' /\ Fresh'
    BY <1>3, QueuesUp DEF WriteSucceeded, At
  <2> QED
    BY <1>3, <2>1 DEF WriteSucceeded, Ends, Typed, BeforeOutcome, FreshInv, Phases
<1> QED
  BY <1>1, <1>2, <1>3 DEF Pipeline

LEMMA LifecycleStep ==
  ASSUME FreshInv, NEW o \in Requests, Lifecycle(o)
  PROVE  FreshInv'
<1>0. o \in Callers \ Deployments /\ Deployments \subseteq Callers /\ pc \in [Callers -> Phases]
  BY RolloutAssumption DEF FreshInv, Typed, Callers
<1> SUFFICES Typed' /\ BeforeOutcome' /\ OneLoads' /\ Fresh'
  BY DEF FreshInv
<1> USE <1>0 DEF rowVars, dockerVars, Goto
<1>1. ASSUME NEW phase \in Phases \ {"convWait", "convLoad"}, Goto(o, phase), pc[o] \notin {"convWait", "convLoad"},
             UNCHANGED <<row, meta, finishedAt, route, snap>>
      PROVE  Typed' /\ BeforeOutcome' /\ OneLoads' /\ Fresh'
  <2>1. Upstream' = Upstream
    BY <1>1, SameUpstream DEF Succeeded
  <2>2. SameConvergers
    BY <1>1 DEF SameConvergers
  <2>3. OneLoads' /\ Fresh'
    BY <1>1, <2>1, <2>2, OtherStep
  <2>4. Typed' /\ BeforeOutcome'
    BY <1>1 DEF Typed, BeforeOutcome, FreshInv
  <2> QED
    BY <2>3, <2>4
<1>2. ASSUME Goto(o, "convWait"), ~At(o, "convLoad"), UNCHANGED <<row, finishedAt, snap>>
      PROVE  Typed' /\ BeforeOutcome' /\ OneLoads' /\ Fresh'
  <2>1. OneLoads' /\ Fresh'
    BY <1>2, QueuesUp
  <2> QED
    BY <1>2, <2>1 DEF Typed, BeforeOutcome, FreshInv, Phases
<1>3. CASE ListsForOp(o) \/ StopApp(o) \/ StartApp(o) \/ RestartApp(o) \/ ListsForPort(o)
  <2> USE DEF ListsForOp, StopApp, StartApp, RestartApp, ListsForPort, ListUp, At
  <2>1. PICK phase \in {"stop", "start", "restart", "refresh", "read", "done"} : Goto(o, phase)
    BY <1>3
  <2> QED
    BY <1>1, <1>3, <2>1 DEF Phases
<1>4. CASE ReadLivePort(o) \/ SelectRow(o)
  BY <1>1, <1>2, <1>4 DEF ReadLivePort, SelectRow, At, Phases
<1>5. CASE StampLivePort(o)
  BY <1>2, <1>5 DEF StampLivePort, At
<1> QED
  BY <1>3, <1>4, <1>5 DEF Lifecycle

LEMMA StutterStep == ASSUME FreshInv, UNCHANGED rolloutVars PROVE FreshInv'
<1>1. Upstream' = Upstream
  BY SameUpstream DEF rolloutVars, rowVars, Succeeded
<1> QED
  BY <1>1 DEF FreshInv, Typed, BeforeOutcome, OneLoads, Fresh, At, rolloutVars, rowVars

\* While no command throws and the proxy answers, the configuration that stays in
\* Caddy is never a stale snapshot, whoever converges beside whom and however many
\* stop, start and restart requests overlap.
THEOREM LastLoadFresh ==
  ASSUME ~RemoteExec, ~CaddyFails
  PROVE  RolloutSpec => []LastLoadIsFresh
<1>1. FreshInv /\ [RolloutNext]_rolloutVars => FreshInv'
  BY ConvergeStep, PipelineStep, LifecycleStep, StutterStep DEF RolloutNext
<1>2. FreshInv => LastLoadIsFresh
  BY DEF FreshInv, Fresh, LastLoadIsFresh, Converging
<1> QED
  BY <1>1, <1>2, FreshInit, PTL DEF RolloutSpec

(***************************************************************************)
(* The queue: one pipeline at a time, and what its row says meanwhile.     *)
(***************************************************************************)

Busy(d) == pc[d] \notin {"idle", "done"}

\* One pipeline at a time works on the application.
OneBusy == \A d, e \in Deployments : Busy(d) /\ Busy(e) => d = e

\* What the row of a deployment says at each await of its pipeline; from the write of
\* its success to the end of the removal no other row has ended later.
RowTells(d) ==
  /\ pc[d] = "idle" => row[d] \in {"absent", "active"}
  /\ pc[d] \in {"up", "health", "write"} => row[d] = "active"
  /\ pc[d] \in {"convWait", "convLoad"} \cup Removing =>
       row[d] = "succeeded" /\ \A e \in Deployments \ {d} : finishedAt[e] < finishedAt[d]
  /\ pc[d] = "done" => row[d] \in {"succeeded", "failed"}
  /\ pc[d] \notin {"stop", "start", "restart", "refresh", "read", "select", "stamp"}

\* From the list on, what the removal has left to do and what docker did not do for it
\* are all the containers there are beside its own.
Covers(d) == pc[d] \in {"inspect", "rm"} => Existing \subseteq {NameOf[d]} \cup todo[d] \cup spared[d]

QueueInv == TypeInv /\ OneBusy /\ (\A d \in Deployments : RowTells(d) /\ Covers(d)) /\ SwapReaps

\* A step of somebody else.
LEMMA QueueElsewhere ==
  ASSUME QueueInv, TypeInv', row' = row, finishedAt' = finishedAt, ctr' = ctr, spared' = spared,
         \A d \in Deployments : pc'[d] = pc[d] /\ todo'[d] = todo[d]
  PROVE  QueueInv'
<1>1. OneBusy' /\ \A d \in Deployments : RowTells(d)' /\ Covers(d)'
  BY DEF QueueInv, OneBusy, Busy, RowTells, Covers, Existing
<1>2. SwapReaps'
  BY DEF QueueInv, SwapReaps, Quiet, Succeeded, Existing
<1> QED
  BY <1>1, <1>2 DEF QueueInv

\* A step of a pipeline that goes on afterwards.
LEMMA QueueGoesOn ==
  ASSUME QueueInv, TypeInv', NEW d \in Deployments, NEW phase, pc' = [pc EXCEPT ![d] = phase],
         phase \notin {"idle", "done"}, \A e \in Deployments : Busy(e) => e = d,
         \A e \in Deployments \ {d} : row'[e] = row[e], RowTells(d)', Covers(d)'
  PROVE  QueueInv'
<1>0. d \in Callers /\ pc \in [Callers -> Phases] /\ Deployments \subseteq Callers
  BY DEF QueueInv, TypeInv, RolloutTypeOK, Callers
<1>1. \A e \in Deployments \ {d} : pc'[e] = pc[e] /\ pc[e] \in {"idle", "done"}
  BY <1>0 DEF Busy
<1>2. pc'[d] = phase
  BY <1>0
<1>3. OneBusy'
  BY <1>1 DEF OneBusy, Busy
<1>4. ASSUME NEW e \in Deployments PROVE RowTells(e)' /\ Covers(e)'
  <2>1. CASE e = d
    BY <2>1
  <2>2. CASE e # d
    BY <1>1, <2>2 DEF RowTells, Covers, Removing, QueueInv
  <2> QED
    BY <2>1, <2>2
<1>5. SwapReaps'
  BY <1>2 DEF SwapReaps, Quiet
<1> QED
  BY <1>3, <1>4, <1>5 DEF QueueInv

\* A pipeline ends with a failure: nothing that succeeded ended last.
LEMMA QueueFails ==
  ASSUME QueueInv, TypeInv', NEW d \in Deployments, pc' = [pc EXCEPT ![d] = "done"], Busy(d),
         Ends(d, "failed")
  PROVE  QueueInv'
<1>0. /\ d \in Callers /\ pc \in [Callers -> Phases] /\ Deployments \subseteq Callers
      /\ finishedAt \in [Deployments -> Nat] /\ finishedAt' \in [Deployments -> Nat]
  BY DEF QueueInv, TypeInv, RolloutTypeOK, Callers
<1>1. /\ row'[d] = "failed" /\ \A e \in Deployments \ {d} : row'[e] = row[e]
      /\ \A e \in Deployments \ {d} : finishedAt'[e] = finishedAt[e] /\ finishedAt[e] < finishedAt'[d]
  BY EndsLast DEF QueueInv
<1>2. \A e \in Deployments \ {d} : pc'[e] = pc[e] /\ pc[e] \in {"idle", "done"}
  BY <1>0 DEF QueueInv, OneBusy, Busy
<1>3. pc'[d] = "done"
  BY <1>0
<1>4. OneBusy'
  BY <1>2, <1>3 DEF OneBusy, Busy
<1>5. ASSUME NEW e \in Deployments PROVE RowTells(e)' /\ Covers(e)'
  BY <1>1, <1>2, <1>3 DEF RowTells, Covers, Removing, QueueInv
<1>6. ASSUME NEW e \in Succeeded' PROVE ~(\A f \in Deployments : finishedAt'[f] <= finishedAt'[e])
  <2>1. e \in Deployments \ {d}
    BY <1>1 DEF Succeeded
  <2> QED
    BY <1>0, <1>1, <2>1
<1>7. SwapReaps'
  BY <1>6 DEF SwapReaps
<1> QED
  BY <1>4, <1>5, <1>7 DEF QueueInv

LEMMA QueueInit == RolloutInit => QueueInv
<1> SUFFICES ASSUME RolloutInit PROVE QueueInv
  OBVIOUS
<1>1. TypeInv /\ Deployments \subseteq Callers /\ Succeeded = {} /\ \A d \in Deployments : pc[d] = "idle" /\ row[d] = "absent"
  BY TypeInit DEF RolloutInit, Succeeded, Callers
<1> QED
  BY <1>1 DEF QueueInv, OneBusy, Busy, RowTells, Covers, Removing, SwapReaps

LEMMA QueueRemoval ==
  ASSUME QueueInv, TypeInv', NEW d \in Deployments, Removal(d)
  PROVE  QueueInv'
<1>0. /\ d \in Callers /\ pc \in [Callers -> Phases] /\ Deployments \subseteq Callers
      /\ todo \in [Callers -> SUBSET Names] /\ spared \in [Deployments -> SUBSET Names]
      /\ finishedAt \in [Deployments -> Nat] /\ RowTells(d) /\ Covers(d)
  BY DEF QueueInv, TypeInv, RolloutTypeOK, Callers
<1>1. pc[d] \in Removing /\ Busy(d) /\ \A e \in Deployments : Busy(e) => e = d
  BY DEF Removal, ListOld, InspectNew, RemoveOld, RemovalDone, RemoveThrows, At, Removing, QueueInv, OneBusy, Busy
<1>2. row[d] = "succeeded" /\ \A e \in Deployments \ {d} : finishedAt[e] < finishedAt[d]
  BY <1>0, <1>1 DEF RowTells
<1>3. ASSUME NEW phase \in {"inspect", "rm"}, pc' = [pc EXCEPT ![d] = phase], UNCHANGED <<row, finishedAt>>, Covers(d)'
      PROVE  QueueInv'
  <2>1. RowTells(d)'
    BY <1>0, <1>2, <1>3 DEF RowTells
  <2>2. phase \notin {"idle", "done"} /\ \A e \in Deployments \ {d} : row'[e] = row[e]
    BY <1>3
  <2> QED
    BY <1>1, <1>3, <2>1, <2>2, QueueGoesOn
<1>4. CASE ListOld(d)
  <2>1. pc' = [pc EXCEPT ![d] = "inspect"] /\ UNCHANGED <<row, finishedAt, ctr>>
    BY <1>4 DEF ListOld, Goto, rowVars, dockerVars
  <2>2. Existing \subseteq todo'[d] \/ Existing \subseteq {NameOf[d]} \cup spared'[d]
    BY <1>0, <1>4 DEF ListOld
  <2>3. Existing' = Existing
    BY <2>1 DEF Existing
  <2> QED
    BY <1>3, <2>1, <2>2, <2>3 DEF Covers
<1>5. CASE InspectNew(d)
  <2>1. pc' = [pc EXCEPT ![d] = "rm"] /\ pc[d] = "inspect" /\ UNCHANGED <<row, finishedAt, ctr, spared>>
    BY <1>5 DEF InspectNew, Goto, At, rowVars, dockerVars
  <2>2. todo[d] \subseteq {NameOf[d]} \cup todo'[d]
    BY <1>0, <1>5 DEF InspectNew
  <2>3. Covers(d)'
    BY <1>0, <2>1, <2>2 DEF Covers, Existing
  <2> QED
    BY <1>3, <2>1, <2>3
<1>6. CASE RemoveOld(d)
  <2>1. pc' = [pc EXCEPT ![d] = "rm"] /\ pc[d] = "rm" /\ UNCHANGED <<row, finishedAt, pc>>
    BY <1>0, <1>6 DEF RemoveOld, At, rowVars
  <2>2. PICK n \in todo[d] : /\ todo' = [todo EXCEPT ![d] = @ \ {n}]
                             /\ \/ Remove({n}) /\ UNCHANGED spared
                                \/ spared' = [spared EXCEPT ![d] = @ \cup {n}] /\ UNCHANGED dockerVars
    BY <1>6 DEF RemoveOld
  <2>3. todo'[d] = todo[d] \ {n} /\ Existing \subseteq {NameOf[d]} \cup todo[d] \cup spared[d]
    BY <1>0, <2>1, <2>2 DEF Covers
  <2>4. CASE Remove({n}) /\ UNCHANGED spared
    <3>1. Existing' = Existing \ {n}
      BY <2>4 DEF Remove, Existing
    <3> QED
      BY <1>3, <2>1, <2>3, <2>4, <3>1 DEF Covers
  <2>5. CASE spared' = [spared EXCEPT ![d] = @ \cup {n}] /\ UNCHANGED dockerVars
    <3>1. Existing' = Existing /\ spared'[d] = spared[d] \cup {n}
      BY <1>0, <2>5 DEF Existing, dockerVars
    <3> QED
      BY <1>3, <2>1, <2>3, <3>1 DEF Covers
  <2> QED
    BY <2>2, <2>4, <2>5
<1>7. CASE RemovalDone(d)
  <2>1. /\ pc[d] = "rm" /\ pc' = [pc EXCEPT ![d] = "done"] /\ todo[d] = {}
        /\ UNCHANGED <<row, finishedAt, ctr, spared>>
    BY <1>7 DEF RemovalDone, Goto, At, rowVars, dockerVars, opVars
  <2>2. pc'[d] = "done" /\ \A e \in Deployments \ {d} : pc'[e] = pc[e] /\ ~Busy(e)
    BY <1>0, <1>1, <2>1
  <2>3. OneBusy'
    BY <2>2 DEF OneBusy, Busy
  <2>4. ASSUME NEW e \in Deployments PROVE RowTells(e)' /\ Covers(e)'
    BY <1>2, <2>1, <2>2 DEF RowTells, Covers, Removing, QueueInv, Busy
  <2>5. ASSUME NEW e \in Deployments, \A f \in Deployments : finishedAt'[f] <= finishedAt'[e] PROVE e = d
    BY <1>0, <1>2, <2>1, <2>5
  <2>6. Existing' \subseteq {NameOf[d]} \cup spared'[d]
    BY <1>0, <2>1 DEF Covers, Existing
  <2>7. SwapReaps'
    BY <2>5, <2>6 DEF SwapReaps, Succeeded
  <2> QED
    BY <2>3, <2>4, <2>7 DEF QueueInv
<1>8. CASE RemoveThrows(d)
  BY <1>1, <1>8, QueueFails DEF RemoveThrows, Goto
<1> QED
  BY <1>4, <1>5, <1>6, <1>7, <1>8 DEF Removal

LEMMA QueuePipeline ==
  ASSUME QueueInv, TypeInv', NEW d \in Deployments, Pipeline(d), InlineDeployments = {}
  PROVE  QueueInv'
<1>0. /\ d \in Callers /\ pc \in [Callers -> Phases] /\ Deployments \subseteq Callers
      /\ row \in [Deployments -> {"absent", "active", "succeeded", "failed"}] /\ finishedAt \in [Deployments -> Nat]
      /\ RowTells(d) /\ NameOf[d] \in Names
  BY RolloutAssumption DEF QueueInv, TypeInv, RolloutTypeOK, Callers
<1>a. Busy(d) => \A e \in Deployments : Busy(e) => e = d
  BY DEF QueueInv, OneBusy
<1>1. CASE Create(d)
  <2>1. /\ row[d] = "absent" /\ row' = [row EXCEPT ![d] = "active"] /\ UNCHANGED <<finishedAt, ctr, pc, todo, spared>>
    BY <1>1 DEF Create, dockerVars, opVars
  <2>2. pc[d] = "idle"
    BY <1>0, <2>1 DEF RowTells, Phases
  <2>3. OneBusy' /\ \A e \in Deployments : RowTells(e)' /\ Covers(e)'
    BY <1>0, <2>1, <2>2 DEF QueueInv, OneBusy, Busy, RowTells, Covers, Removing, Existing
  <2>4. Succeeded' = Succeeded
    BY <1>0, <2>1 DEF Succeeded
  <2>5. SwapReaps'
    BY <2>1, <2>4 DEF QueueInv, SwapReaps, Quiet, Existing
  <2> QED
    BY <2>3, <2>5 DEF QueueInv
<1>2. CASE Begin(d)
  <2>1. /\ pc' = [pc EXCEPT ![d] = "up"] /\ row[d] = "active" /\ UNCHANGED <<row, finishedAt>>
        /\ \A e \in Deployments : ~Busy(e)
    BY <1>2 DEF Begin, Goto, Busy, rowVars
  <2>2. RowTells(d)' /\ Covers(d)'
    BY <1>0, <2>1 DEF RowTells, Covers, Removing
  <2> QED
    <3>1. "up" \notin {"idle", "done"} /\ \A e \in Deployments \ {d} : row'[e] = row[e]
      BY <2>1
    <3>2. \A e \in Deployments : Busy(e) => e = d
      BY <2>1
    <3> QED
      BY <2>1, <2>2, <3>1, <3>2, QueueGoesOn
<1>3. CASE UpFails(d) \/ Discard(d)
  <2>1. pc' = [pc EXCEPT ![d] = "done"] /\ Ends(d, "failed") /\ Busy(d)
    BY <1>3 DEF UpFails, Discard, Goto, At, Busy
  <2> QED
    BY <2>1, QueueFails
<1>4. CASE Run(d) \/ HealthOk(d)
  <2>1. PICK phase \in {"health", "write"} : pc' = [pc EXCEPT ![d] = phase]
    BY <1>4 DEF Run, HealthOk, Goto
  <2>2. Busy(d) /\ row[d] = "active" /\ UNCHANGED <<row, finishedAt>>
    BY <1>0, <1>4 DEF Run, HealthOk, At, Busy, rowVars, RowTells
  <2>3. RowTells(d)' /\ Covers(d)'
    BY <1>0, <2>1, <2>2 DEF RowTells, Covers, Removing
  <2> QED
    BY <1>a, <2>1, <2>2, <2>3, QueueGoesOn
<1>5. CASE WriteSucceeded(d)
  <2>1. pc' = [pc EXCEPT ![d] = "convWait"] /\ Ends(d, "succeeded") /\ Busy(d)
    BY <1>5 DEF WriteSucceeded, Goto, At, Busy
  <2>2. /\ row'[d] = "succeeded" /\ \A e \in Deployments \ {d} : row'[e] = row[e]
        /\ \A e \in Deployments \ {d} : finishedAt'[e] = finishedAt[e] /\ finishedAt[e] < finishedAt'[d]
    BY <2>1, EndsLast DEF QueueInv
  <2>3. RowTells(d)' /\ Covers(d)'
    BY <1>0, <2>1, <2>2 DEF RowTells, Covers, Removing
  <2> QED
    <3>1. "convWait" \notin {"idle", "done"} /\ \A e \in Deployments \ {d} : row'[e] = row[e]
      BY <2>2
    <3>2. \A e \in Deployments : Busy(e) => e = d
      BY <1>a, <2>1
    <3> QED
      BY <2>1, <2>3, <3>1, <3>2, QueueGoesOn
<1> QED
  BY <1>1, <1>2, <1>3, <1>4, <1>5, QueueRemoval DEF Pipeline

LEMMA QueueConverge ==
  ASSUME QueueInv, TypeInv', NEW c \in Callers, Converge(c)
  PROVE  QueueInv'
<1>0. pc \in [Callers -> Phases] /\ Deployments \subseteq Callers
  BY DEF QueueInv, TypeInv, RolloutTypeOK, Callers
<1>1. PICK phase \in {"convWait", "convLoad", "remove", "done", "idle"} : pc' = [pc EXCEPT ![c] = phase]
  BY DEF Converge, ConvergeElsewhere, ConvergeRead, ConvergeLoad, ConvergeFails, AfterConverge, Goto
<1>2. UNCHANGED <<row, finishedAt, ctr, todo, spared>>
  BY DEF Converge, ConvergeElsewhere, ConvergeRead, ConvergeLoad, ConvergeFails, rowVars, dockerVars, opVars
<1>3. CASE c \in Deployments
  <2>1. pc[c] \in {"convWait", "convLoad"} /\ phase \in {"convLoad", "remove"}
    <3>1. ~ConvergeElsewhere(c)
      BY <1>3, RolloutAssumption DEF ConvergeElsewhere
    <3>2. pc'[c] = phase
      BY <1>0, <1>1
    <3> QED
      BY <1>0, <1>3, <3>1, <3>2 DEF Converge, ConvergeRead, ConvergeLoad, ConvergeFails, AfterConverge, Goto, At
  <2>2. RowTells(c)' /\ Covers(c)'
    BY <1>0, <1>1, <1>2, <1>3, <2>1 DEF RowTells, Covers, Removing, QueueInv
  <2>3. \A e \in Deployments : Busy(e) => e = c
    BY <1>3, <2>1 DEF QueueInv, OneBusy, Busy
  <2> QED
    BY <1>1, <1>2, <1>3, <2>1, <2>2, <2>3, QueueGoesOn
<1>4. CASE c \notin Deployments
  BY <1>0, <1>1, <1>2, <1>4, QueueElsewhere
<1> QED
  BY <1>3, <1>4

LEMMA QueueLifecycle ==
  ASSUME QueueInv, TypeInv', (\E o \in Requests : Lifecycle(o)) \/ UNCHANGED rolloutVars
  PROVE  QueueInv'
<1>0. /\ pc \in [Callers -> Phases] /\ todo \in [Callers -> SUBSET Names]
      /\ Deployments \subseteq Callers /\ Requests \cap Deployments = {}
  BY RolloutAssumption DEF QueueInv, TypeInv, RolloutTypeOK, Callers
<1>1. ASSUME NEW o \in Requests, Lifecycle(o)
      PROVE  UNCHANGED <<row, finishedAt, ctr, spared>> /\ \A d \in Deployments : pc'[d] = pc[d] /\ todo'[d] = todo[d]
  BY <1>0, <1>1 DEF Lifecycle, ListsForOp, ListUp, StopApp, StartApp, RestartApp, ListsForPort, ReadLivePort, SelectRow,
                    StampLivePort, Forgets, Goto, rowVars, dockerVars, opVars
<1>2. UNCHANGED <<row, finishedAt, ctr, spared>> /\ \A d \in Deployments : pc'[d] = pc[d] /\ todo'[d] = todo[d]
  BY <1>1 DEF rolloutVars, rowVars, dockerVars, opVars
<1> QED
  BY <1>2, QueueElsewhere

\* While the queue runs every pipeline, the swap leaves the container of the deployment
\* that just succeeded and no other but those that docker did not list or did not remove
\* for it, whatever fails and whatever lifecycle requests and other converges run beside it.
THEOREM SwapsReap ==
  ASSUME InlineDeployments = {}
  PROVE  RolloutSpec => []SwapReaps
<1>1. QueueInv /\ [RolloutNext]_rolloutVars => QueueInv'
  <2> SUFFICES ASSUME QueueInv, [RolloutNext]_rolloutVars PROVE QueueInv'
    OBVIOUS
  <2>1. TypeInv'
    BY TypeStep DEF QueueInv
  <2> QED
    BY <2>1, QueuePipeline, QueueConverge, QueueLifecycle DEF RolloutNext
<1>2. QueueInv => SwapReaps
  BY DEF QueueInv
<1> QED
  BY <1>1, <1>2, QueueInit, PTL DEF RolloutSpec

(***************************************************************************)
(* The container of the deployment that succeeded last.                    *)
(***************************************************************************)

\* Production deployments on the control plane's own docker, with names of their own
\* and nobody who stops or restarts the application.
LocalQueue == /\ InlineDeployments = {} /\ ~RemoteExec /\ Requests = {}
              /\ \A d, e \in Deployments : NameOf[d] = NameOf[e] => d = e

\* From docker run on the pipeline holds the port of its own container, and past the
\* gate that container answers.
Raised(d) == /\ pc[d] \in {"health", "write"} => NameOf[d] \in up /\ got[d] = port[NameOf[d]]
             /\ pc[d] = "write" => ctr[NameOf[d]] = "good"

\* A container that is to be kept is not among those to remove.
Keeps(d) == /\ pc[d] \notin {"rm", "done"} => keep[d] = NoPort
            /\ pc[d] = "rm" /\ keep[d] # NoPort => NameOf[d] \notin todo[d]

\* The container of a succeeded row, while it runs, answers at the port the row records.
Standing(d) == d \in Succeeded /\ NameOf[d] \in up => ctr[NameOf[d]] = "good" /\ port[NameOf[d]] = meta[d]

\* Until its removal is over no other container runs at its port.
Swapping == {"convWait", "convLoad"} \cup Removing
Alone(d) == pc[d] \in Swapping => \A n \in up : port[n] = meta[d] => n = NameOf[d]

Stands(d) == Raised(d) /\ Keeps(d) /\ Standing(d) /\ Alone(d)

LatestInv == /\ QueueInv
             /\ Succeeded # {} => NameOf[Latest] \in up \/ Latest \in Unkept
             /\ \A d \in Deployments : Stands(d)

LEMMA LastUnique ==
  ASSUME NEW f, NEW d \in DOMAIN f, \A e \in DOMAIN f : f[e] \in Nat,
         \A e \in DOMAIN f \ {d} : f[e] < f[d]
  PROVE  LastOf(f) = d
<1>1. \A e \in DOMAIN f : f[e] <= f[d]
  OBVIOUS
<1>2. LastOf(f) \in DOMAIN f /\ f[d] <= f[LastOf(f)]
  BY <1>1 DEF LastOf
<1> QED
  BY <1>2

LEMMA LatestKept ==
  ASSUME Succeeded' = Succeeded, \A d \in Succeeded : finishedAt'[d] = finishedAt[d]
  PROVE  Latest' = Latest
<1>1. [d \in Succeeded |-> finishedAt[d]]' = [d \in Succeeded |-> finishedAt[d]]
  OBVIOUS
<1> QED
  BY <1>1 DEF Latest

\* A pipeline that waits for the proxy or removes is the one that succeeded last.
LEMMA SwappingIsLatest ==
  ASSUME QueueInv, NEW d \in Deployments, pc[d] \in Swapping
  PROVE  d \in Succeeded /\ Latest = d
<1> DEFINE f == [e \in Succeeded |-> finishedAt[e]]
<1>1. d \in Succeeded /\ \A e \in Succeeded \ {d} : finishedAt[e] < finishedAt[d]
  BY DEF QueueInv, RowTells, Succeeded, Swapping
<1>2. \A e \in Succeeded : finishedAt[e] \in Nat
  BY DEF QueueInv, TypeInv, RolloutTypeOK, Succeeded
<1>3. DOMAIN f = Succeeded /\ \A e \in Succeeded : f[e] = finishedAt[e]
  OBVIOUS
<1> HIDE DEF f
<1>4. LastOf(f) = d
  BY <1>1, <1>2, <1>3, LastUnique
<1> QED
  BY <1>1, <1>4 DEF f, Latest

\* What a step of the pipeline of d leaves alone: the progress and the containers of
\* every other deployment.
OthersKept(d) ==
  \A e \in Deployments \ {d} :
    /\ row'[e] = row[e] /\ pc'[e] = pc[e] /\ got'[e] = got[e] /\ meta'[e] = meta[e]
    /\ keep'[e] = keep[e] /\ todo'[e] = todo[e]
    /\ NameOf[e] \in up' <=> NameOf[e] \in up
    /\ ctr'[NameOf[e]] = ctr[NameOf[e]] /\ port'[NameOf[e]] = port[NameOf[e]]

\* A step that adds nothing to the rows that succeeded and leaves their containers.
LEMMA LatestStays ==
  ASSUME LatestInv, QueueInv', NEW d \in Deployments, OthersKept(d), Succeeded' = Succeeded,
         \A e \in Succeeded : finishedAt'[e] = finishedAt[e], d \notin Succeeded, pc'[d] \notin Swapping,
         Raised(d)', Keeps(d)', UNCHANGED dockerVars \/ \A e \in Deployments \ {d} : ~Busy(e)
  PROVE  LatestInv'
<1>1. Latest' = Latest
  BY LatestKept
<1>2. Succeeded # {} => Latest \in Deployments \ {d}
  BY LatestIs DEF LatestInv, QueueInv, Succeeded
<1>3. Succeeded # {} => NameOf[Latest] \in up' \/ Latest \in Unkept'
  BY <1>1, <1>2 DEF LatestInv, OthersKept, Unkept, At
<1>4. \A e \in Deployments : Stands(e)'
  <2> TAKE e \in Deployments
  <2>1. CASE e = d
    BY <2>1 DEF Stands, Standing, Alone, Swapping, Removing
  <2>2. CASE e # d
    <3>1. Raised(e)' /\ Keeps(e)' /\ Standing(e)'
      BY <2>2 DEF LatestInv, Stands, Raised, Keeps, Standing, OthersKept
    <3>2. Alone(e)'
      BY <2>2 DEF LatestInv, Stands, Alone, OthersKept, Busy, dockerVars, Swapping, Removing
    <3> QED
      BY <3>1, <3>2 DEF Stands
  <2> QED
    BY <2>1, <2>2
<1> QED
  BY <1>1, <1>3, <1>4 DEF LatestInv

LEMMA LatestInit == RolloutInit => LatestInv
<1> SUFFICES ASSUME RolloutInit PROVE LatestInv
  OBVIOUS
<1>1. Succeeded = {} /\ \A d \in Deployments : pc[d] = "idle" /\ keep[d] = NoPort
  BY DEF RolloutInit, Succeeded, Callers
<1> QED
  BY <1>1, QueueInit DEF LatestInv, Stands, Raised, Keeps, Standing, Alone, Swapping, Removing

\* What each action of a pipeline up to the write leaves alone.
LEMMA PipelineKeeps ==
  ASSUME LatestInv, LocalQueue, NEW d \in Deployments, Pipeline(d), ~Removal(d)
  PROVE  OthersKept(d)
<1>0. /\ d \in Callers /\ pc \in [Callers -> Phases] /\ Deployments \subseteq Callers /\ got \in [Callers -> Ports \cup {NoPort}]
      /\ meta \in [Deployments -> Ports \cup {NoPort}] /\ NameOf \in [Deployments -> Names]
      /\ row \in [Deployments -> {"absent", "active", "succeeded", "failed"}]
      /\ port \in [Names -> Ports \cup {NoPort}] /\ ctr \in [Names -> {"absent", "good", "bad"}]
  BY RolloutAssumption DEF LatestInv, QueueInv, TypeInv, RolloutTypeOK, Callers
<1>1. \A e \in Deployments \ {d} : NameOf[e] \in Names \ {NameOf[d]}
  BY <1>0 DEF LocalQueue
<1>2. \A e \in Deployments \ {d} : pc'[e] = pc[e] /\ got'[e] = got[e] /\ keep'[e] = keep[e] /\ todo'[e] = todo[e]
  BY <1>0 DEF Pipeline, Create, Begin, UpFails, Run, HealthOk, Discard, WriteSucceeded, Goto, opVars
<1>3. \A e \in Deployments \ {d} : meta'[e] = meta[e] /\ row'[e] = row[e]
  BY <1>0 DEF Pipeline, Create, Begin, UpFails, Run, HealthOk, Discard, WriteSucceeded, Ends, rowVars
<1>4. \A n \in Names \ {NameOf[d]} : ctr'[n] = ctr[n] /\ port'[n] = port[n] /\ (n \in up' <=> n \in up)
  <2>1. CASE UNCHANGED dockerVars
    BY <2>1 DEF dockerVars
  <2>2. CASE UpFails(d) /\ ~UNCHANGED dockerVars
    BY <1>0, <2>2 DEF UpFails
  <2>3. CASE Run(d)
    BY <1>0, <2>3 DEF Run, PortsFor
  <2>4. CASE Discard(d)
    <3>1. PICK S \in Reached({NameOf[d]}) : Remove(S)
      BY <2>4 DEF Discard
    <3>2. S \subseteq {NameOf[d]}
      BY <1>0, ReachedIs
    <3> QED
      BY <1>0, <3>1, <3>2 DEF Remove
  <2> QED
    BY <2>1, <2>2, <2>3, <2>4 DEF Pipeline, Create, Begin, HealthOk, WriteSucceeded
<1> QED
  BY <1>0, <1>1, <1>2, <1>3, <1>4 DEF OthersKept

LEMMA LatestPipeline ==
  ASSUME LatestInv, QueueInv', LocalQueue, NEW d \in Deployments, Pipeline(d), ~Removal(d)
  PROVE  LatestInv'
<1>0. /\ d \in Callers /\ pc \in [Callers -> Phases] /\ Deployments \subseteq Callers
      /\ got \in [Callers -> Ports \cup {NoPort}] /\ meta \in [Deployments -> Ports \cup {NoPort}]
      /\ row \in [Deployments -> {"absent", "active", "succeeded", "failed"}]
      /\ \A m, n \in up : port[m] = port[n] => m = n
      /\ RowTells(d) /\ Raised(d) /\ Keeps(d) /\ QueueInv /\ NameOf[d] \in Names
  BY RolloutAssumption DEF LatestInv, Stands, QueueInv, TypeInv, RolloutTypeOK, Callers
<1>1. OthersKept(d)
  BY PipelineKeeps
<1>2. Busy(d) => \A e \in Deployments \ {d} : ~Busy(e)
  BY <1>0 DEF QueueInv, OneBusy
<1>3. CASE Create(d)
  <2>1. row[d] = "absent" /\ pc'[d] = pc[d] /\ pc[d] = "idle" /\ keep' = keep /\ UNCHANGED dockerVars
    BY <1>0, <1>3 DEF Create, RowTells, Phases, Removing, opVars
  <2>2. Succeeded' = Succeeded /\ finishedAt' = finishedAt /\ d \notin Succeeded
    BY <1>0, <1>3, <2>1 DEF Create, Succeeded
  <2>3. Raised(d)' /\ Keeps(d)' /\ pc'[d] \notin Swapping
    BY <1>0, <2>1 DEF Raised, Keeps, Swapping, Removing
  <2> QED
    BY <1>1, <2>1, <2>2, <2>3, LatestStays
<1>4. CASE Begin(d) \/ Run(d) \/ HealthOk(d)
  <2>1. row[d] = "active" /\ row' = row /\ finishedAt' = finishedAt /\ keep' = keep
    BY <1>0, <1>4 DEF Begin, Run, HealthOk, At, RowTells, rowVars, opVars
  <2>2. Succeeded' = Succeeded /\ d \notin Succeeded
    BY <2>1 DEF Succeeded
  <2>3. UNCHANGED dockerVars \/ \A e \in Deployments \ {d} : ~Busy(e)
    BY <1>2, <1>4 DEF Begin, Run, HealthOk, At, Busy
  <2>4. pc[d] \in {"idle", "up", "health"} /\ pc'[d] \in {"up", "health", "write"}
    BY <1>0, <1>4 DEF Begin, Run, HealthOk, At, Goto
  <2>5. Keeps(d)' /\ pc'[d] \notin Swapping
    BY <1>0, <2>1, <2>4 DEF Keeps, Swapping, Removing
  <2>6. Raised(d)'
    <3>1. CASE Begin(d)
      <4>1. pc'[d] = "up"
        BY <1>0, <3>1 DEF Begin, Goto
      <4> QED
        BY <4>1 DEF Raised
    <3>2. CASE Run(d)
      <4>1. pc'[d] = "health" /\ got'[d] = port'[NameOf[d]] /\ NameOf[d] \in up'
        BY <1>0, <3>2 DEF Run, Goto
      <4> QED
        BY <4>1 DEF Raised
    <3>3. CASE HealthOk(d)
      <4>1. /\ pc[d] = "health" /\ pc'[d] = "write"
            /\ UNCHANGED <<ctr, up, port, got>> /\ Answers(got[d])
        BY <1>0, <3>3 DEF HealthOk, Goto, At, dockerVars
      <4>2. NameOf[d] \in up /\ got[d] = port[NameOf[d]]
        BY <1>0, <4>1 DEF Raised
      <4>3. PICK n \in up : ctr[n] = "good" /\ port[n] = got[d]
        BY <4>1 DEF Answers
      <4>4. n = NameOf[d]
        BY <1>0, <4>2, <4>3
      <4> QED
        BY <4>1, <4>2, <4>3, <4>4 DEF Raised
    <3> QED
      BY <1>4, <3>1, <3>2, <3>3
  <2> QED
    BY <1>1, <2>1, <2>2, <2>3, <2>5, <2>6, LatestStays
<1>5. CASE UpFails(d) \/ Discard(d)
  <2>1. row[d] = "active" /\ Ends(d, "failed") /\ pc'[d] = "done" /\ Busy(d)
    BY <1>0, <1>5 DEF UpFails, Discard, At, RowTells, Goto, Busy
  <2>2. /\ row'[d] = "failed" /\ \A e \in Deployments \ {d} : row'[e] = row[e]
        /\ \A e \in Deployments \ {d} : finishedAt'[e] = finishedAt[e]
    BY <1>0, <2>1, EndsLast DEF QueueInv
  <2>3. Succeeded' = Succeeded /\ d \notin Succeeded /\ \A e \in Succeeded : finishedAt'[e] = finishedAt[e]
    BY <2>1, <2>2 DEF Succeeded
  <2>4. Raised(d)' /\ Keeps(d)' /\ pc'[d] \notin Swapping
    BY <2>1 DEF Raised, Keeps, Swapping, Removing
  <2> QED
    BY <1>1, <1>2, <2>1, <2>3, <2>4, LatestStays
<1>6. CASE WriteSucceeded(d)
  <2>1. /\ pc[d] = "write" /\ pc'[d] = "convWait" /\ Ends(d, "succeeded") /\ meta'[d] = got[d]
        /\ UNCHANGED <<ctr, up, port, keep>> /\ Busy(d)
    BY <1>0, <1>6 DEF WriteSucceeded, At, Goto, dockerVars, opVars, Busy
  <2>2. /\ row'[d] = "succeeded" /\ finishedAt' \in [Deployments -> Nat]
        /\ \A e \in Deployments \ {d} : finishedAt'[e] < finishedAt'[d]
    BY <1>0, <2>1, EndsLast DEF QueueInv
  <2> DEFINE f == [e \in Succeeded' |-> finishedAt'[e]]
  <2>3. d \in DOMAIN f /\ (\A e \in DOMAIN f : f[e] \in Nat) /\ \A e \in DOMAIN f \ {d} : f[e] < f[d]
    BY <2>2 DEF Succeeded
  <2> HIDE DEF f
  <2>4. LastOf(f) = d
    BY <2>3, LastUnique
  <2>5. Latest' = d
    BY <2>4 DEF f, Latest
  <2>6. NameOf[d] \in up /\ got[d] = port[NameOf[d]] /\ ctr[NameOf[d]] = "good" /\ keep[d] = NoPort
    BY <1>0, <2>1 DEF Raised, Keeps
  <2>7. Stands(d)'
    <3>1. Raised(d)' /\ Keeps(d)' /\ Standing(d)'
      BY <2>1, <2>6 DEF Raised, Keeps, Standing
    <3>2. Alone(d)'
      BY <1>0, <2>1, <2>6 DEF Alone
    <3> QED
      BY <3>1, <3>2 DEF Stands
  <2>8. ASSUME NEW e \in Deployments \ {d} PROVE Stands(e)'
    <3>1. Raised(e)' /\ Keeps(e)' /\ Standing(e)'
      BY <1>1 DEF LatestInv, Stands, Raised, Keeps, Standing, OthersKept, Succeeded
    <3>2. Alone(e)'
      BY <1>1, <2>1 DEF LatestInv, Stands, Alone, OthersKept
    <3> QED
      BY <3>1, <3>2 DEF Stands
  <2> QED
    BY <2>1, <2>5, <2>6, <2>7, <2>8 DEF LatestInv
<1> QED
  BY <1>3, <1>4, <1>5, <1>6 DEF Pipeline

\* What a removal does to the containers: at most one goes, and that of the deployment
\* only when nobody undertook to keep it.
LEMMA RemovalTakes ==
  ASSUME LatestInv, LocalQueue, NEW d \in Deployments, Removal(d)
  PROVE  /\ pc[d] \in Removing /\ UNCHANGED <<row, meta, finishedAt, route, snap, got>>
         /\ \A e \in Deployments \ {d} : pc'[e] = pc[e] /\ keep'[e] = keep[e] /\ todo'[e] = todo[e]
         /\ up' \subseteq up /\ \A n \in up' : ctr'[n] = ctr[n] /\ port'[n] = port[n]
         /\ NameOf[d] \in up' \/ (NameOf[d] \notin up /\ UNCHANGED keep) \/ (RemoveOld(d) /\ keep[d] = NoPort)
         /\ pc'[d] \in {"inspect", "rm", "done"} /\ ~RemoveThrows(d)
<1>0. /\ d \in Callers /\ pc \in [Callers -> Phases] /\ Deployments \subseteq Callers /\ up \subseteq Names
      /\ keep \in [Deployments -> Names \cup {NoPort}] /\ todo \in [Callers -> SUBSET Names]
      /\ NameOf[d] \in Names /\ NoPort \notin Names
  BY RolloutAssumption DEF LatestInv, QueueInv, TypeInv, RolloutTypeOK, Callers
<1>1. ~RemoveThrows(d)
  BY DEF RemoveThrows, LocalQueue
<1>2. CASE ListOld(d) \/ RemovalDone(d)
  BY <1>0, <1>1, <1>2 DEF ListOld, RemovalDone, Removing, At, Goto, rowVars, dockerVars, opVars
<1>3. CASE InspectNew(d)
  <2>1. NameOf[d] \in up \/ (NameOf[d] \notin up /\ NameOf[d] \in Existing) \/ (NameOf[d] \notin up /\ NameOf[d] \notin Existing)
    OBVIOUS
  <2>2. d \notin Unkept /\ d \in Succeeded /\ Latest = d
    BY <1>0, <1>3, SwappingIsLatest DEF InspectNew, At, Unkept, LatestInv, Swapping, Removing
  <2>3. NameOf[d] \in up
    BY <2>2 DEF LatestInv
  <2> QED
    BY <1>0, <1>1, <1>3, <2>3 DEF InspectNew, Removing, At, Goto, rowVars, dockerVars
<1>4. CASE RemoveOld(d)
  <2>1. PICK n \in todo[d] : /\ todo' = [todo EXCEPT ![d] = @ \ {n}]
                             /\ Remove({n}) \/ UNCHANGED dockerVars
    BY <1>4 DEF RemoveOld
  <2>2. pc[d] = "rm" /\ UNCHANGED <<row, meta, finishedAt, route, snap, got, pc, keep>>
    BY <1>4 DEF RemoveOld, At, rowVars
  <2>3. up' \subseteq up /\ (\A m \in up' : ctr'[m] = ctr[m] /\ port'[m] = port[m]) /\ up \ {n} \subseteq up'
    BY <1>0, <2>1 DEF Remove, dockerVars
  <2>4. keep[d] = NoPort \/ n # NameOf[d]
    BY <2>2 DEF LatestInv, Stands, Keeps
  <2> QED
    BY <1>0, <1>1, <1>4, <2>1, <2>2, <2>3, <2>4 DEF Removing
<1> QED
  BY <1>1, <1>2, <1>3, <1>4 DEF Removal

LEMMA LatestRemoval ==
  ASSUME LatestInv, QueueInv', LocalQueue, NEW d \in Deployments, Removal(d)
  PROVE  LatestInv'
<1>0. /\ d \in Callers /\ pc \in [Callers -> Phases] /\ Deployments \subseteq Callers /\ up \subseteq Names
      /\ keep \in [Deployments -> Names \cup {NoPort}] /\ todo \in [Callers -> SUBSET Names]
      /\ NameOf[d] \in Names /\ NoPort \notin Names /\ QueueInv /\ Keeps(d)
  BY RolloutAssumption DEF LatestInv, Stands, QueueInv, TypeInv, RolloutTypeOK, Callers
<1>1. /\ pc[d] \in Removing /\ UNCHANGED <<row, meta, finishedAt, route, snap, got>>
      /\ \A e \in Deployments \ {d} : pc'[e] = pc[e] /\ keep'[e] = keep[e] /\ todo'[e] = todo[e]
      /\ up' \subseteq up /\ \A n \in up' : ctr'[n] = ctr[n] /\ port'[n] = port[n]
      /\ NameOf[d] \in up' \/ (NameOf[d] \notin up /\ UNCHANGED keep) \/ (RemoveOld(d) /\ keep[d] = NoPort)
      /\ pc'[d] \in {"inspect", "rm", "done"}
  BY RemovalTakes
<1>2. Succeeded' = Succeeded /\ Latest = d /\ Latest' = Latest /\ d \in Succeeded
  BY <1>0, <1>1, SwappingIsLatest, LatestKept DEF Succeeded, Swapping
<1>3. \A e \in Deployments : pc[e] \notin {"health", "write"} /\ pc'[e] \notin {"health", "write"}
  BY <1>0, <1>1 DEF QueueInv, OneBusy, Busy, Removing
<1>4. NameOf[d] \in up' \/ d \in Unkept'
  <2>1. CASE NameOf[d] \notin up /\ UNCHANGED keep
    <3>1. d \in Unkept
      BY <1>2, <2>1 DEF LatestInv
    <3>2. pc[d] = "rm" /\ keep[d] = NoPort
      BY <1>1, <3>1 DEF Unkept, At, Removing
    <3>3. pc'[d] \in {"rm", "done"}
      BY <1>0, <3>2 DEF Removal, ListOld, InspectNew, RemoveOld, RemovalDone, RemoveThrows, At, Goto
    <3> QED
      BY <1>2, <2>1, <3>2, <3>3 DEF Unkept, At
  <2>2. CASE RemoveOld(d) /\ keep[d] = NoPort
    BY <1>2, <2>2 DEF RemoveOld, Unkept, At
  <2> QED
    BY <1>1, <2>1, <2>2
<1>5. Keeps(d)'
  <2>1. CASE ListOld(d)
    <3>1. keep' = keep /\ pc[d] = "remove" /\ pc'[d] = "inspect"
      BY <1>0, <2>1 DEF ListOld, Goto, At
    <3> QED
      BY <1>0, <3>1 DEF Keeps
  <2>2. CASE InspectNew(d)
    <3>1. pc[d] = "inspect" /\ pc'[d] = "rm" /\ keep[d] = NoPort
      BY <1>0, <2>2 DEF InspectNew, Goto, At, Keeps
    <3>2. NameOf[d] \notin todo'[d] \/ keep' = keep
      BY <1>0, <2>2 DEF InspectNew
    <3> QED
      BY <3>1, <3>2 DEF Keeps
  <2>3. CASE RemoveOld(d)
    <3>1. keep' = keep /\ pc'[d] = pc[d] /\ todo'[d] \subseteq todo[d]
      BY <1>0, <2>3 DEF RemoveOld
    <3> QED
      BY <1>0, <3>1 DEF Keeps
  <2>4. CASE RemovalDone(d)
    <3>1. pc'[d] = "done"
      BY <1>0, <2>4 DEF RemovalDone, Goto
    <3> QED
      BY <3>1 DEF Keeps
  <2> QED
    BY <2>1, <2>2, <2>3, <2>4, RemovalTakes DEF Removal
<1>6. ASSUME NEW e \in Deployments PROVE Stands(e)'
  <2>1. Raised(e)'
    BY <1>3 DEF Raised
  <2>2. Keeps(e)'
    BY <1>1, <1>5 DEF LatestInv, Stands, Keeps
  <2>3. Standing(e)'
    BY <1>1, <1>2 DEF LatestInv, Stands, Standing
  <2>4. Alone(e)'
    <3>1. pc'[e] \in Swapping => pc[e] \in Swapping
      BY <1>1 DEF Swapping
    <3> QED
      BY <1>1, <3>1 DEF LatestInv, Stands, Alone
  <2> QED
    BY <2>1, <2>2, <2>3, <2>4 DEF Stands
<1> QED
  BY <1>2, <1>4, <1>6 DEF LatestInv

\* A step of somebody else.
LEMMA LatestElsewhere ==
  ASSUME LatestInv, QueueInv', LocalQueue, (\E c \in Callers : Converge(c)) \/ UNCHANGED rolloutVars
  PROVE  LatestInv' /\ UNCHANGED <<row, meta, finishedAt, ctr, up, port, got, keep, todo>>
<1>0. pc \in [Callers -> Phases] /\ Deployments \subseteq Callers
  BY DEF LatestInv, QueueInv, TypeInv, RolloutTypeOK, Callers
<1>1. ASSUME NEW c \in Callers, Converge(c)
      PROVE  /\ UNCHANGED <<row, meta, finishedAt, ctr, up, port, got, keep, todo>>
             /\ \A d \in Deployments :
                  pc'[d] = pc[d] \/ (pc[d] \in {"convWait", "convLoad"} /\ pc'[d] \in {"convLoad", "remove"})
  <2>1. c \in Deployments => ~ConvergeElsewhere(c)
    BY RolloutAssumption DEF ConvergeElsewhere
  <2>2. c \in Deployments => AfterConverge(c) = "remove"
    BY DEF AfterConverge
  <2> QED
    BY <1>0, <1>1, <2>1, <2>2 DEF Converge, ConvergeElsewhere, ConvergeRead, ConvergeLoad, ConvergeFails, Goto, At,
                                  rowVars, dockerVars, opVars
<1>2. /\ UNCHANGED <<row, meta, finishedAt, ctr, up, port, got, keep, todo>>
      /\ \A d \in Deployments :
           pc'[d] = pc[d] \/ (pc[d] \in {"convWait", "convLoad"} /\ pc'[d] \in {"convLoad", "remove"})
  BY <1>1 DEF rolloutVars, rowVars, dockerVars, opVars
<1>3. Succeeded' = Succeeded /\ Latest' = Latest
  BY <1>2, LatestKept DEF Succeeded
<1>4. Succeeded # {} => NameOf[Latest] \in up' \/ Latest \in Unkept'
  BY <1>2, <1>3 DEF LatestInv, Unkept, At
<1>5. ASSUME NEW d \in Deployments PROVE Stands(d)'
  BY <1>2, <1>3 DEF LatestInv, Stands, Raised, Keeps, Standing, Alone, Swapping, Removing
<1> QED
  BY <1>2, <1>3, <1>4, <1>5 DEF LatestInv

LEMMA LatestStep == LocalQueue /\ LatestInv /\ [RolloutNext]_rolloutVars => LatestInv'
<1> SUFFICES ASSUME LocalQueue, LatestInv, [RolloutNext]_rolloutVars PROVE LatestInv'
  OBVIOUS
<1>1. QueueInv'
  <2>1. QueueInv /\ InlineDeployments = {}
    BY DEF LatestInv, LocalQueue
  <2>2. TypeInv'
    BY <2>1, TypeStep DEF QueueInv
  <2> QED
    BY <2>1, <2>2, QueuePipeline, QueueConverge, QueueLifecycle DEF RolloutNext
<1> QED
  BY <1>1, LatestPipeline, LatestRemoval, LatestElsewhere DEF RolloutNext, LocalQueue

\* With no pipeline under way the deployment that succeeded last is up and answers,
\* whatever failed after it and whether or not Caddy could be reached, unless docker did
\* not tell its own removal which container to keep.
THEOREM LatestStaysUp ==
  ASSUME LocalQueue
  PROVE  RolloutSpec => []LatestIsUp
<1>1. LatestInv => LatestIsUp
  <2> SUFFICES ASSUME LatestInv, Succeeded # {}, Latest \notin Unkept
               PROVE  NameOf[Latest] \in up /\ ctr[NameOf[Latest]] = "good"
    BY DEF LatestIsUp
  <2>1. Latest \in Deployments /\ Latest \in Succeeded
    BY LatestIs DEF LatestInv, QueueInv, Succeeded
  <2> QED
    BY <2>1 DEF LatestInv, Stands, Standing
<1> QED
  BY <1>1, LatestInit, LatestStep, PTL DEF RolloutSpec

(***************************************************************************)
(* The swap, while Caddy answers: what is being loaded and what is routed. *)
(***************************************************************************)

\* The configuration under way holds what the rows say, or a deployment succeeded
\* since it was read: then it changes nothing, and that deployment's own converge
\* waits behind it.
SnapFresh == \A c \in Callers : At(c, "convLoad") =>
               snap[c] = Upstream \/ (snap[c] = route /\ \E d \in Deployments : At(d, "convWait"))

\* The proxy has what the rows say, or the pipeline that changed them converges.
RouteFresh == route = Upstream \/ \E d \in Deployments : pc[d] \in {"convWait", "convLoad"}

\* What is routed is the container of a deployment that succeeded, and it answers, or
\* nobody undertook to keep it.
RouteAlive == \/ route = NoPort
              \/ \E e \in Deployments : Serves(e)
              \/ \E e \in Unkept : route = meta[e]

SwapInv == LatestInv /\ FreshInv /\ SnapFresh /\ RouteFresh /\ RouteAlive

\* A succeeded deployment serves when its container runs at the routed port.
LEMMA ServesIs ==
  ASSUME LatestInv, NEW d \in Succeeded, NameOf[d] \in up, route = meta[d]
  PROVE  Serves(d)
BY DEF LatestInv, Stands, Standing, Serves, Succeeded

\* The pipeline that swaps decides the upstream; until it removes its container runs.
LEMMA UpstreamIs ==
  ASSUME LatestInv, NEW d \in Deployments, pc[d] \in Swapping
  PROVE  /\ d \in Succeeded /\ Latest = d /\ Upstream = meta[d]
         /\ pc[d] # "rm" => NameOf[d] \in up
<1>1. d \in Succeeded /\ Latest = d
  BY SwappingIsLatest DEF LatestInv
<1>2. pc[d] # "rm" => d \notin Unkept
  BY DEF Unkept, At, Swapping, Removing
<1> QED
  BY <1>1, <1>2 DEF LatestInv, Upstream

\* While one pipeline removes no deployment converges.
LEMMA RemovingIsRouted ==
  ASSUME LatestInv, RouteFresh, NEW d \in Deployments, pc[d] \in Removing
  PROVE  route = meta[d] /\ \A e \in Deployments : pc[e] \notin {"convWait", "convLoad"}
<1>1. \A e \in Deployments : pc[e] \notin {"convWait", "convLoad"}
  BY DEF LatestInv, QueueInv, OneBusy, Busy, Removing
<1> QED
  BY <1>1, UpstreamIs DEF RouteFresh, Swapping

\* The steps that neither end a row with success nor touch the proxy.
LEMMA SwapKept ==
  ASSUME SwapInv, LatestInv', FreshInv', Succeeded' = Succeeded, meta' = meta, route' = route, snap' = snap,
         \A d \in Succeeded : finishedAt'[d] = finishedAt[d], SameConvergers, RouteAlive'
  PROVE  SwapInv'
<1>1. Upstream' = Upstream
  BY SameUpstream
<1>2. \A c \in Callers, phase \in {"convWait", "convLoad"} : At(c, phase)' <=> At(c, phase)
  BY DEF SameConvergers, At
<1>3. Deployments \subseteq Callers
  BY DEF Callers
<1>4. SnapFresh' /\ RouteFresh'
  BY <1>1, <1>2, <1>3 DEF SwapInv, SnapFresh, RouteFresh, At
<1> QED
  BY <1>4 DEF SwapInv

LEMMA SwapInit == RolloutInit => SwapInv
<1> SUFFICES ASSUME RolloutInit PROVE SwapInv
  OBVIOUS
<1>1. Succeeded = {} /\ route = NoPort /\ \A c \in Callers : pc[c] = "idle"
  BY DEF RolloutInit, Succeeded, Callers
<1> QED
  BY <1>1, LatestInit, FreshInit DEF SwapInv, SnapFresh, RouteFresh, RouteAlive, Upstream, At

\* What a pipeline does before its row has succeeded.
Before(d) == Create(d) \/ Begin(d) \/ Run(d) \/ HealthOk(d) \/ UpFails(d) \/ Discard(d)

LEMMA BeforeKeeps ==
  ASSUME LatestInv, LocalQueue, NEW d \in Deployments, Before(d)
  PROVE  /\ OthersKept(d) /\ d \notin Succeeded /\ Succeeded' = Succeeded
         /\ \A e \in Succeeded : finishedAt'[e] = finishedAt[e]
         /\ UNCHANGED <<meta, route, snap>> /\ SameConvergers
<1>0. /\ d \in Callers /\ pc \in [Callers -> Phases] /\ Deployments \subseteq Callers
      /\ row \in [Deployments -> {"absent", "active", "succeeded", "failed"}] /\ RowTells(d) /\ QueueInv
  BY DEF LatestInv, QueueInv, TypeInv, RolloutTypeOK, Callers
<1>1. pc[d] \in {"idle", "up", "health", "write"}
  <2>1. CASE Create(d)
    BY <1>0, <2>1 DEF Create, RowTells, Phases, Removing
  <2> QED
    BY <2>1 DEF Before, Begin, Run, HealthOk, UpFails, Discard, At
<1>2. OthersKept(d)
  BY <1>1, PipelineKeeps DEF Before, Pipeline, Removal, ListOld, InspectNew, RemoveOld, RemovalDone, RemoveThrows, At, Removing
<1>3. d \notin Succeeded
  BY <1>0, <1>1 DEF RowTells, Succeeded
<1>4. Succeeded' = Succeeded /\ \A e \in Succeeded : finishedAt'[e] = finishedAt[e]
  <2>1. CASE Create(d) \/ Begin(d) \/ Run(d) \/ HealthOk(d)
    BY <1>0, <1>3, <2>1 DEF Create, Begin, Run, HealthOk, rowVars, Succeeded
  <2>2. CASE UpFails(d) \/ Discard(d)
    <3>1. /\ row'[d] = "failed" /\ \A e \in Deployments \ {d} : row'[e] = row[e]
          /\ \A e \in Deployments \ {d} : finishedAt'[e] = finishedAt[e]
      BY <1>0, <2>2, EndsLast DEF UpFails, Discard, QueueInv
    <3> QED
      BY <1>3, <3>1 DEF Succeeded
  <2> QED
    BY <2>1, <2>2 DEF Before
<1>5. UNCHANGED <<meta, route, snap>>
  BY DEF Before, Create, Begin, Run, HealthOk, UpFails, Discard, rowVars
<1>6. SameConvergers
  BY <1>0 DEF Before, Create, Begin, Run, HealthOk, UpFails, Discard, At, Goto, SameConvergers
<1> QED
  BY <1>2, <1>3, <1>4, <1>5, <1>6

LEMMA SwapPipeline ==
  ASSUME SwapInv, LatestInv', FreshInv', LocalQueue, NEW d \in Deployments, Pipeline(d)
  PROVE  SwapInv'
<1>0. /\ d \in Callers /\ pc \in [Callers -> Phases] /\ Deployments \subseteq Callers
      /\ meta \in [Deployments -> Ports \cup {NoPort}]
      /\ row \in [Deployments -> {"absent", "active", "succeeded", "failed"}]
      /\ RowTells(d) /\ QueueInv /\ NameOf \in [Deployments -> Names] /\ LatestInv
  BY RolloutAssumption DEF SwapInv, LatestInv, QueueInv, TypeInv, RolloutTypeOK, Callers
<1>1. CASE Before(d)
  <2>1. /\ OthersKept(d) /\ d \notin Succeeded /\ Succeeded' = Succeeded
        /\ \A e \in Succeeded : finishedAt'[e] = finishedAt[e]
        /\ UNCHANGED <<meta, route, snap>> /\ SameConvergers
    BY <1>0, <1>1, BeforeKeeps
  <2>2. \A e \in Succeeded : e \in Deployments \ {d}
    BY <2>1 DEF Succeeded
  <2>3. \A e \in Deployments : Serves(e) => Serves(e)'
    BY <2>1, <2>2 DEF Serves, OthersKept
  <2>4. \A e \in Unkept : e \in Unkept'
    BY <2>1, <2>2 DEF Unkept, OthersKept, At
  <2>5. RouteAlive'
    BY <2>1, <2>3, <2>4 DEF SwapInv, RouteAlive
  <2> QED
    BY <2>1, <2>5, SwapKept
<1>2. CASE WriteSucceeded(d)
  <2>1. /\ pc[d] = "write" /\ pc' = [pc EXCEPT ![d] = "convWait"] /\ UNCHANGED <<route, snap, ctr, up, port>>
        /\ row' = [row EXCEPT ![d] = "succeeded"]
    BY <1>2 DEF WriteSucceeded, At, Goto, dockerVars, Ends
  <2>2. \A e \in Deployments : pc[e] \notin {"convWait", "convLoad"}
    BY <1>0, <2>1 DEF QueueInv, OneBusy, Busy
  <2>3. route = Upstream /\ \A c \in Callers : At(c, "convLoad") => snap[c] = route
    BY <2>2 DEF SwapInv, RouteFresh, SnapFresh, At
  <2>4. At(d, "convWait")' /\ \A c \in Callers : At(c, "convLoad")' => At(c, "convLoad")
    BY <1>0, <2>1 DEF At
  <2>5. SnapFresh' /\ RouteFresh'
    BY <2>1, <2>3, <2>4 DEF SnapFresh, RouteFresh, At
  <2>6. OthersKept(d) /\ d \notin Succeeded
    BY <1>0, <1>2, <2>1, PipelineKeeps DEF Removal, ListOld, InspectNew, RemoveOld, RemovalDone, RemoveThrows, At,
                                           Removing, RowTells, Succeeded
  <2>7. \A e \in Succeeded : e \in Deployments \ {d} /\ e \in Succeeded'
    BY <2>6 DEF Succeeded, OthersKept
  <2>8. \A e \in Deployments : Serves(e) => Serves(e)'
    BY <2>1, <2>6, <2>7 DEF Serves, OthersKept
  <2>9. \A e \in Unkept : e \in Unkept' /\ meta'[e] = meta[e]
    BY <2>6, <2>7 DEF Unkept, OthersKept, At
  <2>10. RouteAlive'
    BY <2>1, <2>8, <2>9 DEF SwapInv, RouteAlive
  <2> QED
    BY <2>5, <2>10 DEF SwapInv
<1>3. CASE Removal(d)
  <2>1. /\ pc[d] \in Removing /\ UNCHANGED <<row, meta, finishedAt, route, snap>>
        /\ pc'[d] \in {"inspect", "rm", "done"} /\ \A e \in Deployments \ {d} : pc'[e] = pc[e]
    BY <1>0, <1>3, RemovalTakes
  <2>2. Succeeded' = Succeeded /\ Latest' = Latest /\ Latest = d /\ d \in Succeeded
    BY <1>0, <2>1, LatestKept, UpstreamIs DEF Succeeded, Swapping
  <2>3. route = meta[d]
    BY <1>0, <2>1, RemovingIsRouted DEF SwapInv
  <2>4. NameOf[d] \in up' \/ d \in Unkept'
    BY <2>2 DEF LatestInv
  <2>5. RouteAlive'
    <3>1. CASE NameOf[d] \in up'
      <4>1. Stands(d)'
        BY DEF LatestInv
      <4>2. ctr'[NameOf[d]] = "good" /\ port'[NameOf[d]] = meta'[d]
        BY <2>2, <3>1, <4>1 DEF Stands, Standing
      <4>3. Serves(d)'
        BY <2>1, <2>2, <2>3, <3>1, <4>2 DEF Serves
      <4> QED
        BY <4>3 DEF RouteAlive
    <3>2. CASE d \in Unkept'
      BY <2>1, <2>3, <3>2 DEF RouteAlive
    <3> QED
      BY <2>4, <3>1, <3>2
  <2>6. SameConvergers
    <3>1. \A c \in Callers \ {d} : pc'[c] = pc[c]
      BY <1>0, <1>3 DEF Removal, ListOld, InspectNew, RemoveOld, RemovalDone, RemoveThrows, Goto
    <3> QED
      BY <2>1, <3>1 DEF SameConvergers, Removing
  <2> QED
    BY <2>1, <2>2, <2>5, <2>6, SwapKept
<1> QED
  BY <1>1, <1>2, <1>3 DEF Pipeline, Before

\* A load that moves the route moves it to the one container at the new port, that of
\* the deployment that converges.
LEMMA LoadMoves ==
  ASSUME SwapInv, NEW c \in Callers, Converge(c), route' # route
  PROVE  /\ ConvergeLoad(c) /\ route' = Upstream
         /\ \E d \in Succeeded : /\ pc[d] \in {"convWait", "convLoad"} /\ route' = meta[d] /\ NameOf[d] \in up
                                 /\ ctr[NameOf[d]] = "good" /\ port[NameOf[d]] = meta[d]
                                 /\ \A n \in up : port[n] = meta[d] => n = NameOf[d]
<1>1. ConvergeLoad(c) /\ At(c, "convLoad") /\ route' = snap[c]
  BY DEF Converge, ConvergeElsewhere, ConvergeRead, ConvergeLoad, ConvergeFails
<1>2. route' = Upstream
  BY <1>1 DEF SwapInv, SnapFresh
<1>3. PICK d \in Deployments : pc[d] \in {"convWait", "convLoad"}
  BY <1>2 DEF SwapInv, RouteFresh
<1>4. d \in Succeeded /\ Upstream = meta[d] /\ NameOf[d] \in up
  BY <1>3, UpstreamIs DEF SwapInv, Swapping
<1>5. Stands(d)
  BY DEF SwapInv, LatestInv
<1> QED
  BY <1>1, <1>2, <1>3, <1>4, <1>5 DEF Stands, Standing, Alone, Swapping

\* A converge changes neither rows nor containers, and gives no container up.
LEMMA ConvergeKeeps ==
  ASSUME LatestInv, QueueInv', LocalQueue, NEW c \in Callers, Converge(c)
  PROVE  /\ UNCHANGED <<row, meta, finishedAt, ctr, up, port, keep>>
         /\ Succeeded' = Succeeded /\ Upstream' = Upstream /\ Unkept' = Unkept
         /\ \A d \in Deployments : d # c => pc'[d] = pc[d]
<1>0. pc \in [Callers -> Phases] /\ Deployments \subseteq Callers
  BY DEF LatestInv, QueueInv, TypeInv, RolloutTypeOK, Callers
<1>1. UNCHANGED <<row, meta, finishedAt, ctr, up, port, keep>>
  BY LatestElsewhere
<1>2. Succeeded' = Succeeded /\ Upstream' = Upstream
  BY <1>1, SameUpstream DEF Succeeded
<1>3. \A d \in Deployments :
        pc'[d] = pc[d] \/ (d = c /\ pc[d] \in {"convWait", "convLoad"} /\ pc'[d] \in {"convLoad", "remove"})
  <2>1. c \in Deployments => ~ConvergeElsewhere(c)
    BY RolloutAssumption DEF ConvergeElsewhere
  <2>2. c \in Deployments => AfterConverge(c) = "remove"
    BY DEF AfterConverge
  <2> QED
    BY <1>0, <2>1, <2>2 DEF Converge, ConvergeElsewhere, ConvergeRead, ConvergeLoad, ConvergeFails, Goto, At
<1>4. Unkept' = Unkept
  BY <1>1, <1>2, <1>3 DEF Unkept, At
<1> QED
  BY <1>1, <1>2, <1>3, <1>4

LEMMA SwapConverge ==
  ASSUME SwapInv, LatestInv', FreshInv', LocalQueue, ~CaddyFails, NEW c \in Callers, Converge(c)
  PROVE  SwapInv'
<1>0. /\ pc \in [Callers -> Phases] /\ Deployments \subseteq Callers /\ snap \in [Callers -> Ports \cup {NoPort}]
      /\ LatestInv /\ QueueInv'
  BY DEF SwapInv, LatestInv, QueueInv, TypeInv, RolloutTypeOK, Callers
<1>1. /\ UNCHANGED <<row, meta, finishedAt, ctr, up, port, keep>>
      /\ Succeeded' = Succeeded /\ Upstream' = Upstream /\ Unkept' = Unkept
  BY <1>0, ConvergeKeeps
<1>2. RouteAlive'
  <2>1. CASE route' = route
    BY <1>1, <2>1 DEF SwapInv, RouteAlive, Serves
  <2>2. CASE route' # route
    <3>1. PICK d \in Succeeded : /\ route' = meta[d] /\ NameOf[d] \in up
                                 /\ ctr[NameOf[d]] = "good" /\ port[NameOf[d]] = meta[d]
      BY <2>2, LoadMoves
    <3>2. d \in Deployments /\ Serves(d)'
      BY <1>1, <3>1 DEF Serves, Succeeded
    <3> QED
      BY <3>2 DEF RouteAlive
  <2> QED
    BY <2>1, <2>2
<1>3. CASE ConvergeElsewhere(c)
  <2>1. c \notin Deployments /\ pc' = [pc EXCEPT ![c] = "convWait"] /\ UNCHANGED <<route, snap>>
    BY <1>3, RolloutAssumption DEF ConvergeElsewhere, Goto
  <2>2. SnapFresh' /\ RouteFresh'
    BY <1>0, <1>1, <2>1 DEF SwapInv, SnapFresh, RouteFresh, At
  <2> QED
    BY <1>2, <2>2 DEF SwapInv
<1>4. CASE ConvergeRead(c)
  <2>1. /\ pc[c] = "convWait" /\ pc' = [pc EXCEPT ![c] = "convLoad"] /\ snap' = [snap EXCEPT ![c] = Upstream]
        /\ route' = route /\ \A e \in Callers : ~At(e, "convLoad")
    BY <1>4 DEF ConvergeRead, Goto, At
  <2>2. \A e \in Callers : At(e, "convLoad")' => e = c
    BY <1>0, <2>1 DEF At
  <2>3. snap'[c] = Upstream'
    BY <1>0, <1>1, <2>1
  <2>4. SnapFresh'
    BY <2>2, <2>3 DEF SnapFresh
  <2>5. RouteFresh'
    BY <1>0, <1>1, <2>1 DEF SwapInv, RouteFresh
  <2> QED
    BY <1>2, <2>4, <2>5 DEF SwapInv
<1>5. CASE ConvergeLoad(c)
  <2>1. At(c, "convLoad") /\ pc' = [pc EXCEPT ![c] = AfterConverge(c)] /\ route' = snap[c]
    BY <1>5 DEF ConvergeLoad, Goto
  <2>2. AfterConverge(c) \in {"remove", "done", "idle"}
    BY DEF AfterConverge
  <2>3. \A e \in Callers : ~At(e, "convLoad")'
    BY <1>0, <2>1, <2>2 DEF SwapInv, FreshInv, OneLoads, At
  <2>4. SnapFresh'
    BY <2>3 DEF SnapFresh
  <2>5. snap[c] = Upstream \/ (snap[c] = route /\ \E d \in Deployments : At(d, "convWait"))
    BY <2>1 DEF SwapInv, SnapFresh
  <2>6. \A d \in Deployments : At(d, "convWait") => pc'[d] = "convWait"
    BY <1>0, <2>1 DEF At
  <2>7. RouteFresh'
    BY <1>1, <2>1, <2>5, <2>6 DEF RouteFresh
  <2> QED
    BY <1>2, <2>4, <2>7 DEF SwapInv
<1> QED
  BY <1>3, <1>4, <1>5 DEF Converge, ConvergeFails

LEMMA SwapStep == LocalQueue /\ ~CaddyFails /\ SwapInv /\ [RolloutNext]_rolloutVars => SwapInv'
<1> SUFFICES ASSUME LocalQueue, ~CaddyFails, SwapInv, [RolloutNext]_rolloutVars PROVE SwapInv'
  OBVIOUS
<1>1. LatestInv' /\ FreshInv'
  BY LatestStep, ConvergeStep, PipelineStep, StutterStep DEF SwapInv, RolloutNext, LocalQueue
<1>2. CASE UNCHANGED rolloutVars
  <2>1. RouteAlive'
    BY <1>2 DEF SwapInv, RouteAlive, rolloutVars, rowVars, dockerVars, opVars, Serves, Succeeded, Unkept, At
  <2> QED
    BY <1>1, <1>2, <2>1, SwapKept DEF rolloutVars, rowVars, Succeeded, SameConvergers
<1> QED
  BY <1>1, <1>2, SwapPipeline, SwapConverge DEF RolloutNext, LocalQueue

LEMMA SwapIsSafe == SwapInv => ZeroDowntime /\ RoutedBeforeRemoval
<1> SUFFICES ASSUME SwapInv PROVE ZeroDowntime /\ RoutedBeforeRemoval
  OBVIOUS
<1>1. ZeroDowntime
  BY DEF SwapInv, RouteAlive, Serves, ZeroDowntime, Answers
<1>2. RoutedBeforeRemoval
  BY RemovingIsRouted DEF SwapInv, RoutedBeforeRemoval
<1> QED
  BY <1>1, <1>2

\* The gate: only a load moves the route.
LEMMA SwapGate == LocalQueue /\ SwapInv /\ SwapInv' /\ [RolloutNext]_rolloutVars => GateHolds
<1> SUFFICES ASSUME LocalQueue, SwapInv, SwapInv', [RolloutNext]_rolloutVars, route' # route,
                    NEW n \in up', port'[n] = route'
             PROVE  ctr'[n] = "good"
  BY DEF GateHolds
<1>1. PICK c \in Callers : Converge(c)
  BY DEF RolloutNext, LocalQueue, Pipeline, Create, Begin, UpFails, Run, HealthOk, Discard, WriteSucceeded, Removal,
         ListOld, InspectNew, RemoveOld, RemovalDone, RemoveThrows, rolloutVars
<1>2. UNCHANGED <<ctr, up, port>>
  BY <1>1, ConvergeKeeps DEF SwapInv, LatestInv
<1> QED
  BY <1>1, <1>2, LoadMoves

\* While Caddy answers, a deployment through the queue never leaves the domain without
\* a container that answers, never switches to one that does not, and removes nothing
\* before the switch, whoever else converges beside it; but for a deployment whose
\* removal docker did not tell which container to keep.
THEOREM SwapSeamless ==
  ASSUME LocalQueue, ~CaddyFails
  PROVE  RolloutSpec => SeamlessSwap
<1>1. SwapInv => ZeroDowntime /\ RoutedBeforeRemoval
  BY SwapIsSafe
<1>2. SwapInv /\ SwapInv' /\ [RolloutNext]_rolloutVars => GateHolds
  BY SwapGate
<1>3. RolloutSpec => []SwapInv
  BY SwapInit, SwapStep, PTL DEF RolloutSpec
<1> QED
  BY <1>1, <1>2, <1>3, PTL DEF SeamlessSwap, RolloutSpec

(***************************************************************************)
(* The rollout implements Serving.                                         *)
(***************************************************************************)

\* One deployment at most serves, and the mapping gives it.
OneServes == /\ \A e \in Deployments : Serves(e) => ServingNow = e
             /\ ServingNow # NoPort => ServingNow \in Deployments /\ Serves(ServingNow)

LEMMA ServingIs == LocalQueue /\ SwapInv => OneServes
<1> SUFFICES ASSUME LocalQueue, SwapInv PROVE OneServes
  OBVIOUS
<1>1. ASSUME NEW d \in Deployments, NEW e \in Deployments, Serves(d), Serves(e) PROVE d = e
  <2>1. NameOf[d] = NameOf[e]
    BY <1>1 DEF Serves, SwapInv, LatestInv, QueueInv, TypeInv, RolloutTypeOK
  <2> QED
    BY <2>1 DEF LocalQueue
<1>2. CASE \E d \in Deployments : Serves(d)
  <2>1. PICK d \in Deployments : Serves(d)
    BY <1>2
  <2>2. ServingNow \in Deployments /\ Serves(ServingNow)
    BY <2>1 DEF ServingNow
  <2> QED
    BY <1>1, <2>2 DEF OneServes
<1>3. CASE ~\E d \in Deployments : Serves(d)
  BY <1>3 DEF ServingNow, OneServes
<1> QED
  BY <1>2, <1>3

\* The deployments that have swapped: those that serve or were replaced.
Past == {d \in Succeeded : pc[d] \in Removing \cup {"done"}}

LEMMA ReplacedIs == ReplacedNow = Past \ {ServingNow}
BY DEF ReplacedNow, Past

LEMMA ServingStart == RolloutInit => Abstract!ServingInit
<1> SUFFICES ASSUME RolloutInit PROVE ServingNow = NoPort /\ ReplacedNow = {} /\ Unkept = {}
  BY DEF Abstract!ServingInit
<1>1. Succeeded = {}
  BY DEF RolloutInit, Succeeded
<1> QED
  BY <1>1 DEF ServingNow, ReplacedNow, Unkept, Serves

Same == ServingNow' = ServingNow /\ ReplacedNow' = ReplacedNow

\* A step that makes nobody serve or stop serving, and ends no pipeline but that of the
\* deployment that serves.
LEMMA ServingKept ==
  ASSUME OneServes, OneServes', \A e \in Deployments : Serves(e)' <=> Serves(e),
         \A e \in Deployments : Serves(e) \/ (e \in Past <=> e \in Past')
  PROVE  Same
<1>0. NoPort \notin Deployments /\ Past \subseteq Deployments /\ Past' \subseteq Deployments
  BY RolloutAssumption DEF Past, Succeeded
<1>1. CASE \E e \in Deployments : Serves(e)
  <2>1. PICK e \in Deployments : Serves(e)
    BY <1>1
  <2>2. ServingNow = e /\ ServingNow' = e
    BY <2>1 DEF OneServes
  <2>3. \A d \in Deployments \ {e} : ~Serves(d)
    BY <2>2 DEF OneServes
  <2>4. Past' \ {e} = Past \ {e}
    BY <1>0, <2>3
  <2>5. ReplacedNow' = Past' \ {ServingNow'}
    BY ReplacedIs DEF ReplacedNow, Past
  <2> QED
    BY <2>2, <2>4, <2>5, ReplacedIs DEF Same
<1>2. CASE ~\E e \in Deployments : Serves(e)
  <2>1. ServingNow = NoPort /\ ServingNow' = NoPort
    BY <1>2 DEF OneServes
  <2>2. Past' = Past
    BY <1>0, <1>2
  <2>3. ReplacedNow' = Past' \ {ServingNow'}
    BY DEF ReplacedNow, Past
  <2> QED
    BY <2>1, <2>2, <2>3, ReplacedIs DEF Same
<1> QED
  BY <1>1, <1>2

\* Up to the write of the success nothing happens to what serves; with the write the new
\* deployment takes over at once when docker gave it the port of one that is gone.
LEMMA ServingBefore ==
  ASSUME SwapInv, SwapInv', OneServes, OneServes', LocalQueue, NEW d \in Deployments, Before(d) \/ WriteSucceeded(d)
  PROVE  Unkept' = Unkept /\ (Same \/ Abstract!TakeOver(d))
<1>0. /\ d \in Callers /\ pc \in [Callers -> Phases] /\ Deployments \subseteq Callers /\ LatestInv /\ RowTells(d)
      /\ row \in [Deployments -> {"absent", "active", "succeeded", "failed"}] /\ NoPort \notin Deployments
  BY RolloutAssumption DEF SwapInv, LatestInv, QueueInv, TypeInv, RolloutTypeOK, Callers
<1>1. OthersKept(d) /\ d \notin Succeeded /\ route' = route
  <2>1. CASE Before(d)
    BY <1>0, <2>1, BeforeKeeps
  <2>2. CASE WriteSucceeded(d)
    BY <1>0, <2>2, PipelineKeeps DEF Pipeline, WriteSucceeded, Removal, ListOld, InspectNew, RemoveOld, RemovalDone,
                                     RemoveThrows, At, Removing, RowTells, Succeeded
  <2> QED
    BY <2>1, <2>2
<1>2. \A e \in Deployments \ {d} : /\ Serves(e)' <=> Serves(e)
                                   /\ e \in Past <=> e \in Past'
                                   /\ e \in Unkept <=> e \in Unkept'
  BY <1>1 DEF OthersKept, Serves, Past, Unkept, Succeeded, At
<1>3. d \notin Past' /\ d \notin Unkept'
  <2>1. CASE Before(d)
    <3>1. d \notin Succeeded'
      BY <1>0, <2>1, BeforeKeeps
    <3> QED
      BY <3>1 DEF Past, Unkept
  <2>2. CASE WriteSucceeded(d)
    <3>1. pc'[d] = "convWait"
      BY <1>0, <2>2 DEF WriteSucceeded, Goto
    <3> QED
      BY <3>1 DEF Past, Unkept, Removing, At
  <2> QED
    BY <2>1, <2>2
<1>4. d \notin Past /\ d \notin Unkept /\ ~Serves(d)
  BY <1>1 DEF Past, Unkept, Serves
<1>5. Unkept' = Unkept /\ Past' = Past
  <2>1. Unkept \subseteq Deployments /\ Unkept' \subseteq Deployments /\ Past \subseteq Deployments /\ Past' \subseteq Deployments
    BY DEF Unkept, Past, Succeeded
  <2> QED
    BY <1>2, <1>3, <1>4, <2>1
<1>6. CASE Serves(d)'
  <2>1. ServingNow' = d
    BY <1>6 DEF OneServes
  <2>2. \A e \in Deployments \ {d} : ~Serves(e)'
    BY <2>1 DEF OneServes
  <2>3. ServingNow = NoPort
    BY <1>2, <1>4, <2>2 DEF OneServes
  <2>4. ReplacedNow' = Past' \ {ServingNow'}
    BY DEF ReplacedNow, Past
  <2>5. NoPort \notin Past
    BY <1>0 DEF Past, Succeeded
  <2>6. ReplacedNow = Past /\ ReplacedNow' = Past
    BY <1>4, <1>5, <2>1, <2>3, <2>4, <2>5, ReplacedIs
  <2> QED
    BY <1>0, <1>4, <1>5, <2>1, <2>3, <2>6 DEF Abstract!TakeOver
<1>7. CASE ~Serves(d)'
  <2>1. \A e \in Deployments : Serves(e)' <=> Serves(e)
    BY <1>2, <1>4, <1>7
  <2> QED
    BY <1>5, <2>1, ServingKept
<1> QED
  BY <1>6, <1>7

\* A removal that knows what to keep changes nothing; one that does not gives its own
\* deployment up first, and may take its container afterwards.
LEMMA ServingRemoval ==
  ASSUME SwapInv, SwapInv', OneServes, OneServes', LocalQueue, NEW d \in Deployments, Removal(d)
  PROVE  (Same /\ Unkept' = Unkept) \/ Abstract!GiveUp \/ Abstract!Vanish
<1>0. /\ d \in Callers /\ pc \in [Callers -> Phases] /\ Deployments \subseteq Callers /\ LatestInv
      /\ keep \in [Deployments -> Names \cup {NoPort}] /\ NoPort \notin Deployments \cup Names /\ NameOf[d] \in Names
  BY RolloutAssumption DEF SwapInv, LatestInv, QueueInv, TypeInv, RolloutTypeOK, Callers
<1>1. /\ pc[d] \in Removing /\ UNCHANGED <<row, meta, route>>
      /\ \A e \in Deployments \ {d} : pc'[e] = pc[e] /\ keep'[e] = keep[e]
      /\ up' \subseteq up /\ \A n \in up' : ctr'[n] = ctr[n] /\ port'[n] = port[n]
      /\ NameOf[d] \in up' \/ (NameOf[d] \notin up /\ UNCHANGED keep) \/ (RemoveOld(d) /\ keep[d] = NoPort)
      /\ pc'[d] \in {"inspect", "rm", "done"} /\ ~RemoveThrows(d)
  BY <1>0, RemovalTakes
<1>2. d \in Succeeded /\ route = meta[d]
  BY <1>0, <1>1, UpstreamIs, RemovingIsRouted DEF SwapInv, Swapping
<1>3. Succeeded' = Succeeded /\ Past' = Past /\ d \in Past
  <2>1. Succeeded' = Succeeded
    BY <1>1 DEF Succeeded
  <2> QED
    BY <1>1, <1>2, <2>1 DEF Past, Succeeded, Removing
<1>4. \A e \in Deployments : Serves(e) \/ Serves(e)' => e = d
  <2>1. \A n \in up : port[n] = route => n = NameOf[d]
    BY <1>0, <1>1, <1>2 DEF LatestInv, Stands, Alone, Swapping
  <2>2. \A e \in Deployments : Serves(e) \/ Serves(e)' => NameOf[e] = NameOf[d]
    BY <1>1, <2>1 DEF Serves
  <2> QED
    BY <2>2 DEF LocalQueue
<1>5. (Serves(d) <=> NameOf[d] \in up) /\ (Serves(d)' <=> NameOf[d] \in up')
  <2>1. NameOf[d] \in up => Serves(d)
    BY <1>0, <1>2, ServesIs
  <2>2. NameOf[d] \in up' /\ Serves(d) => Serves(d)'
    BY <1>1, <1>3 DEF Serves
  <2> QED
    BY <1>1, <2>1, <2>2 DEF Serves
<1>6. ASSUME NameOf[d] \in up <=> NameOf[d] \in up' PROVE Same
  <2>1. \A e \in Deployments : Serves(e)' <=> Serves(e)
    BY <1>4, <1>5, <1>6
  <2> QED
    BY <1>3, <2>1, ServingKept
<1>7. \A e \in Deployments \ {d} : e \in Unkept' <=> e \in Unkept
  BY <1>1, <1>3 DEF Unkept, At
<1>8. Unkept \subseteq Deployments /\ Unkept' \subseteq Deployments
  BY DEF Unkept
<1>9. CASE ListOld(d) \/ RemovalDone(d)
  <2>1. keep' = keep /\ up' = up
    BY <1>9 DEF ListOld, RemovalDone, dockerVars, opVars
  <2>2. d \in Unkept' <=> d \in Unkept
    BY <1>0, <1>3, <1>9, <2>1 DEF ListOld, RemovalDone, Unkept, At, Goto
  <2> QED
    BY <1>6, <1>7, <1>8, <2>1, <2>2
<1>10. CASE InspectNew(d)
  <2>1. pc[d] = "inspect" /\ pc'[d] = "rm" /\ up' = up
    BY <1>0, <1>10 DEF InspectNew, At, Goto, dockerVars
  <2>2. d \notin Unkept /\ NameOf[d] \in up
    BY <1>0, <1>2, <2>1, UpstreamIs DEF Unkept, At, Swapping, Removing
  <2>3. ServingNow = d /\ Same
    BY <1>5, <1>6, <2>1, <2>2 DEF OneServes
  <2>4. CASE keep'[d] = NoPort
    <3>1. d \in Unkept'
      BY <1>2, <1>3, <2>1, <2>4 DEF Unkept, At
    <3>2. Unkept' = Unkept \cup {d}
      BY <1>7, <1>8, <3>1
    <3> QED
      BY <1>0, <2>3, <3>2 DEF Abstract!GiveUp, Same
  <2>5. CASE keep'[d] # NoPort
    <3>1. d \notin Unkept'
      BY <2>5 DEF Unkept
    <3> QED
      BY <1>7, <1>8, <2>2, <2>3, <3>1
  <2> QED
    BY <2>4, <2>5
<1>11. CASE RemoveOld(d)
  <2>1. pc[d] = "rm" /\ pc' = pc /\ keep' = keep
    BY <1>11 DEF RemoveOld, At
  <2>2. Unkept' = Unkept
    BY <1>3, <2>1 DEF Unkept, At
  <2>3. CASE NameOf[d] \in up <=> NameOf[d] \in up'
    BY <1>6, <2>2, <2>3
  <2>4. CASE NameOf[d] \in up /\ NameOf[d] \notin up'
    <3>1. d \in Unkept
      BY <1>1, <1>2, <2>1, <2>4 DEF Unkept, At
    <3>2. ServingNow = d /\ ServingNow' = NoPort
      BY <1>4, <1>5, <2>4 DEF OneServes
    <3>3. ReplacedNow' = Past' \ {ServingNow'} /\ NoPort \notin Past
      BY <1>0 DEF ReplacedNow, Past, Succeeded
    <3>4. ReplacedNow' = ReplacedNow \cup {d}
      BY <1>3, <3>2, <3>3, ReplacedIs
    <3> QED
      BY <2>2, <3>1, <3>2, <3>4 DEF Abstract!Vanish
  <2> QED
    BY <1>1, <2>3, <2>4
<1> QED
  BY <1>1, <1>9, <1>10, <1>11 DEF Removal

\* A load that moves the route is the deployment that converges taking over.
LEMMA ServingConverge ==
  ASSUME SwapInv, SwapInv', OneServes, OneServes', LocalQueue, ~CaddyFails, NEW c \in Callers, Converge(c)
  PROVE  Unkept' = Unkept /\ (Same \/ \E d \in Deployments : Abstract!TakeOver(d))
<1>0. /\ pc \in [Callers -> Phases] /\ Deployments \subseteq Callers /\ LatestInv /\ QueueInv'
      /\ NoPort \notin Deployments
  BY RolloutAssumption DEF SwapInv, LatestInv, QueueInv, TypeInv, RolloutTypeOK, Callers
<1>1. /\ UNCHANGED <<row, meta, finishedAt, ctr, up, port, keep>>
      /\ Succeeded' = Succeeded /\ Upstream' = Upstream /\ Unkept' = Unkept
      /\ \A d \in Deployments : d # c => pc'[d] = pc[d]
  BY <1>0, ConvergeKeeps
<1>2. \A d \in Deployments : d # c => (d \in Past <=> d \in Past')
  BY <1>1 DEF Past
<1>3. c \notin Past
  BY <1>0 DEF Converge, ConvergeElsewhere, ConvergeRead, ConvergeLoad, ConvergeFails, At, Past, Removing
<1>4. CASE route' = route
  <2>1. \A e \in Deployments : Serves(e)' <=> Serves(e)
    BY <1>1, <1>4 DEF Serves
  <2>2. ASSUME NEW e \in Deployments PROVE Serves(e) \/ (e \in Past <=> e \in Past')
    <3>1. CASE e # c
      BY <1>2, <3>1
    <3>2. CASE e = c /\ e \notin Past'
      BY <1>3, <3>2
    <3>3. CASE e = c /\ e \in Past'
      <4>1. pc'[e] \in Removing \cup {"done"} /\ e \in Succeeded
        BY <1>1, <3>3 DEF Past
      <4>2. ConvergeLoad(e) /\ pc'[e] = "remove"
        <5>1. ~ConvergeElsewhere(e)
          BY RolloutAssumption DEF ConvergeElsewhere
        <5>2. ~ConvergeRead(e)
          BY <1>0, <4>1 DEF ConvergeRead, Goto, Removing
        <5>3. ConvergeLoad(e)
          BY <3>3, <5>1, <5>2 DEF Converge, ConvergeFails
        <5> QED
          BY <1>0, <5>3 DEF ConvergeLoad, Goto, AfterConverge
      <4>3. pc[e] = "convLoad"
        BY <4>2 DEF ConvergeLoad, At
      <4>4. meta[e] = Upstream /\ NameOf[e] \in up
        BY <1>0, <4>3, UpstreamIs DEF Swapping
      <4>5. \A d \in Deployments : d # e => pc'[d] \notin {"convWait", "convLoad"}
        BY <1>0, <1>1, <3>3, <4>3 DEF LatestInv, QueueInv, OneBusy, Busy
      <4>6. route' = Upstream'
        BY <4>2, <4>5 DEF SwapInv, RouteFresh
      <4> QED
        BY <1>0, <1>1, <1>4, <4>1, <4>4, <4>6, ServesIs
    <3> QED
      BY <3>1, <3>2, <3>3
  <2> QED
    BY <1>1, <2>1, <2>2, ServingKept
<1>5. CASE route' # route
  <2>1. PICK d \in Succeeded : /\ pc[d] \in {"convWait", "convLoad"} /\ route' = meta[d] /\ NameOf[d] \in up
                               /\ ctr[NameOf[d]] = "good" /\ port[NameOf[d]] = meta[d]
    BY <1>5, LoadMoves
  <2>2. d \in Deployments /\ Serves(d)' /\ ~Serves(d)
    BY <1>1, <1>5, <2>1 DEF Serves, Succeeded
  <2>3. ServingNow' = d /\ ServingNow # d
    BY <1>0, <2>2 DEF OneServes
  <2>4. d \notin Past /\ (\A e \in Deployments \ {d} : e \in Past <=> e \in Past')
    <3>1. d \notin Past
      BY <2>1 DEF Past, Removing
    <3>2. c \in Deployments => c = d
      BY <1>0, <1>5, <2>1, <2>2, LoadMoves DEF ConvergeLoad, At, LatestInv, QueueInv, OneBusy, Busy
    <3> QED
      BY <1>2, <3>1, <3>2
  <2>5. Past \subseteq Deployments /\ Past' \subseteq Deployments
    BY DEF Past, Succeeded
  <2>6. ReplacedNow' = Past' \ {d}
    BY <2>3 DEF ReplacedNow, Past
  <2>7. ReplacedNow' = Past
    BY <2>4, <2>5, <2>6
  <2>8. ServingNow = NoPort \/ ServingNow \in Past
    <3> SUFFICES ASSUME NEW s \in Deployments, s = ServingNow, Serves(s) PROVE s \in Past
      BY DEF OneServes
    <3>1. s \in Succeeded /\ RowTells(s)
      BY <1>0 DEF Serves, LatestInv, QueueInv
    <3>2. ~Busy(s)
      BY <1>0, <2>1, <2>2, <2>3 DEF LatestInv, QueueInv, OneBusy, Busy
    <3> QED
      BY <3>1, <3>2 DEF Busy, RowTells, Past, Succeeded
  <2>9. ReplacedNow' = ReplacedNow \cup ({ServingNow} \ {NoPort})
    BY <1>0, <2>5, <2>7, <2>8, ReplacedIs
  <2>10. d \notin ReplacedNow \cup {ServingNow}
    BY <2>3, <2>4, ReplacedIs
  <2> QED
    BY <1>1, <2>2, <2>3, <2>9, <2>10 DEF Abstract!TakeOver
<1> QED
  BY <1>4, <1>5

LEMMA ServingStep ==
  LocalQueue /\ ~CaddyFails /\ SwapInv /\ SwapInv' /\ OneServes /\ OneServes' /\ [RolloutNext]_rolloutVars
    => [Abstract!ServingNext]_(Abstract!servingVars)
<1> SUFFICES ASSUME LocalQueue, ~CaddyFails, SwapInv, SwapInv', OneServes, OneServes', [RolloutNext]_rolloutVars
             PROVE  \/ Same /\ Unkept' = Unkept
                    \/ \E d \in Deployments : Abstract!TakeOver(d)
                    \/ Abstract!GiveUp \/ Abstract!Vanish
  BY DEF Abstract!ServingNext, Abstract!servingVars, Same
<1>1. CASE UNCHANGED rolloutVars
  <2>1. \A e \in Deployments : (Serves(e)' <=> Serves(e)) /\ (e \in Past <=> e \in Past')
    BY <1>1 DEF rolloutVars, rowVars, dockerVars, opVars, Serves, Past, Succeeded
  <2>2. Unkept' = Unkept
    BY <1>1 DEF rolloutVars, rowVars, opVars, Unkept, Succeeded, At
  <2> QED
    BY <2>1, <2>2, ServingKept
<1>2. ASSUME NEW d \in Deployments, Pipeline(d)
      PROVE  \/ Same /\ Unkept' = Unkept
             \/ \E e \in Deployments : Abstract!TakeOver(e)
             \/ Abstract!GiveUp \/ Abstract!Vanish
  <2>1. Before(d) \/ WriteSucceeded(d) \/ Removal(d)
    BY <1>2 DEF Pipeline, Before
  <2> QED
    BY <2>1, ServingBefore, ServingRemoval
<1> QED
  BY <1>1, <1>2, ServingConverge DEF RolloutNext, LocalQueue

\* Through the queue, while Caddy answers, a deployment that serves the domain serves it
\* until the next one that succeeded takes over, and none comes back; a deployment that
\* docker did not keep may leave the domain to nobody.
THEOREM RolloutImplementsServing ==
  ASSUME LocalQueue, ~CaddyFails
  PROVE  RolloutSpec => ServingSpec
<1>1. SwapInv => OneServes
  BY ServingIs
<1>2. RolloutSpec => []SwapInv
  BY SwapInit, SwapStep, PTL DEF RolloutSpec
<1>3. SwapInv /\ SwapInv' /\ OneServes /\ OneServes' /\ [RolloutNext]_rolloutVars
        => [Abstract!ServingNext]_(Abstract!servingVars)
  BY ServingStep
<1> QED
  BY <1>1, <1>2, <1>3, ServingStart, PTL DEF RolloutSpec, ServingSpec, Abstract!ServingSpec
=============================================================================
