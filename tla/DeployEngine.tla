---------------------------- MODULE DeployEngine ----------------------------
(***************************************************************************)
(* The deploy engine of the control plane: the rows of the deployments     *)
(* table, the pg-boss "deploy" queue and its one worker, the executor's    *)
(* pipelines, the registry of abort controllers, the cancel endpoint, and  *)
(* the death and the boot of the control-plane process.                    *)
(*                                                                         *)
(* The rows, the jobs and the queue live in Postgres and survive a crash;  *)
(* everything else is memory of the process.  A step of a pipeline is what the        *)
(* executor does between two awaits that another actor can observe.        *)
(***************************************************************************)
EXTENDS Naturals

CONSTANTS Apps, Deployments, AppOf, Free,
          RemoteApps,     \* the applications deployed over SSH on a worker server
          Cancellable,    \* bound: the deployments that somebody tries to cancel
          MaxCrashes      \* bound: how often the process may die

ASSUME EngineAssumption ==
  /\ AppOf \in [Deployments -> Apps]
  /\ Free \notin Deployments
  /\ RemoteApps \subseteq Apps
  /\ Cancellable \subseteq Deployments
  /\ MaxCrashes \in Nat

VARIABLES
  row,       \* Postgres: status of each deployment row, "absent" before the insert
  job,       \* Postgres: pg-boss's job for the deployment
  queue,     \* Postgres: whether pg-boss knows the "deploy" queue
  boot,      \* how far index.ts got
  handler,   \* requests that inserted a row and have not dispatched it yet
  called,    \* calls of executeDeploy that have not reached the claim
  pc,        \* where the pipeline that claimed the deployment is
  ctl,       \* cancel-registry: the deployment's AbortController
  worker,    \* the deployment whose job the queue worker is awaiting
  seen,      \* cancel requests: whether their first read found the row running
  crashes,   \* deaths of the process so far
  lost       \* history: the deployments whose request died before it had stored a job,
             \* and those whose send found no queue

dbVars      == <<row, job, queue>>
requestVars == <<handler, seen>>
runVars     == <<called, pc, ctl, worker>>
procVars    == <<boot, crashes, lost>>
vars        == <<dbVars, requestVars, runVars, procVars>>

Status   == {"queued", "running", "succeeded", "failed", "cancelled"}
Active   == {"queued", "running"}
Terminal == {"succeeded", "failed", "cancelled"}
Boots    == {"down", "listening", "working", "up"}
Via      == {"inline", "job"}
Phases   == {"idle", "claimed", "registered", "fetch", "pull", "build", "up", "compose",
             "swap", "composeSwap", "failing", "cancelling", "finally", "ended"}

\* The commands of these phases get the abort signal; the others do not.
Signalled == {"fetch", "build"}
\* A pipeline that has claimed its row and has not settled it.
Working   == {"claimed", "registered", "fetch", "pull", "build", "up", "compose"}

TypeOK ==
  /\ row \in [Deployments -> Status \cup {"absent"}]
  /\ job \in [Deployments -> {"none", "ready", "active", "done"}]
  /\ queue \in {"missing", "made"}
  /\ boot \in Boots
  /\ handler \subseteq Deployments
  /\ called \in [Deployments -> SUBSET Via]
  /\ pc \in [Deployments -> Phases]
  /\ ctl \in [Deployments -> {"none", "live", "aborted"}]
  /\ worker \in Deployments \cup {Free}
  /\ seen \in [Deployments -> {"none", "running", "other"}]
  /\ crashes \in 0..MaxCrashes
  /\ lost \subseteq Deployments

\* Every deployment is still to be created.
EmptyMemory ==
  /\ handler = {}
  /\ called = [d \in Deployments |-> {}]
  /\ pc = [d \in Deployments |-> "idle"]
  /\ ctl = [d \in Deployments |-> "none"]
  /\ worker = Free
  /\ seen = [d \in Deployments |-> "none"]

\* At most one deployment of an application is queued or running
\* (deployments.service.ts:65-69).
OneActivePerApp ==
  \A d, e \in Deployments :
    (AppOf[d] = AppOf[e] /\ row[d] \in Active /\ row[e] \in Active) => d = e

ActiveOf(a) == {d \in Deployments : AppOf[d] = a /\ row[d] \in Active}

\* An empty database and a process that has not started.
InitCold ==
  /\ EmptyMemory
  /\ row = [d \in Deployments |-> "absent"]
  /\ job = [d \in Deployments |-> "none"]
  /\ queue = "missing"
  /\ boot = "down"
  /\ crashes = 0
  /\ lost = {}

\* A process that has just finished booting: nothing runs, and some rows may be
\* waiting on the queue with the job that an earlier process sent.
InitBooted ==
  /\ EmptyMemory
  /\ row \in [Deployments -> {"absent", "queued"}]
  /\ OneActivePerApp
  /\ job = [d \in Deployments |-> IF row[d] = "queued" THEN "ready" ELSE "none"]
  /\ queue = "made"
  /\ boot = "up"
  /\ crashes = 0
  /\ lost = {}

(***************************************************************************)
(* Requests.                                                               *)
(***************************************************************************)

\* Faulty: the index covers queued rows only.
CreateWhileRunning(d) ==
  /\ boot # "down"
  /\ row[d] = "absent"
  /\ \A e \in ActiveOf(AppOf[d]) : row[e] # "queued"
  /\ row' = [row EXCEPT ![d] = "queued"]
  /\ handler' = handler \cup {d}
  /\ UNCHANGED <<job, queue, seen, runVars, procVars>>

\* createDeployment: the unique index refuses the row while the application
\* has an active one.  (The select before it answers the same 409 earlier.)
CreateDeployment(d) ==
  /\ boot # "down"
  /\ row[d] = "absent"
  /\ ActiveOf(AppOf[d]) = {}
  /\ row' = [row EXCEPT ![d] = "queued"]
  /\ handler' = handler \cup {d}
  /\ UNCHANGED <<job, queue, seen, runVars, procVars>>

\* Faulty: nothing is stored before the worker is registered.
EnqueueDropped(d) ==
  /\ d \in handler
  /\ handler' = handler \ {d}
  /\ job' = [job EXCEPT ![d] = IF boot = "listening" THEN "none" ELSE "ready"]
  /\ lost' = IF queue = "made" THEN lost ELSE lost \cup {d}
  /\ UNCHANGED <<row, queue, seen, runVars, boot, crashes>>

\* dispatchDeploy: queue.send stores the job.  Before index.ts has made the queue for the
\* first time a send drops it and does not throw.
Enqueue(d) ==
  /\ d \in handler
  /\ handler' = handler \ {d}
  /\ job' = [job EXCEPT ![d] = IF queue = "made" THEN "ready" ELSE "none"]
  /\ lost' = IF queue = "made" THEN lost ELSE lost \cup {d}
  /\ UNCHANGED <<row, queue, seen, runVars, boot, crashes>>

\* The push webhook calls the executor itself; the other callers do so when
\* queue.send throws, and a send that throws may have stored the job.
RunInline(d) ==
  /\ d \in handler
  /\ handler' = handler \ {d}
  /\ called' = [called EXCEPT ![d] = @ \cup {"inline"}]
  /\ \E j \in IF queue = "made" THEN {"none", "ready"} ELSE {"none"} : job' = [job EXCEPT ![d] = j]
  /\ UNCHANGED <<row, queue, seen, pc, ctl, worker, procVars>>

\* cancelDeployment reads the row ...
CancelRead(d) ==
  /\ boot # "down"
  /\ d \in Cancellable
  /\ row[d] # "absent"
  /\ seen[d] = "none"
  /\ seen' = [seen EXCEPT ![d] = IF row[d] = "running" THEN "running" ELSE "other"]
  /\ UNCHANGED <<dbVars, handler, runVars, procVars>>

\* ... and then cancels a row that is queued,
CancelQueued(d) ==
  /\ seen[d] # "none"
  /\ row[d] = "queued"
  /\ row' = [row EXCEPT ![d] = "cancelled"]
  /\ seen' = [seen EXCEPT ![d] = "none"]
  /\ UNCHANGED <<job, queue, handler, runVars, procVars>>

\* aborts the controller of a row that was running when it was read,
CancelRunning(d) ==
  /\ seen[d] = "running"
  /\ row[d] # "queued"
  /\ ctl[d] # "none"
  /\ ctl' = [ctl EXCEPT ![d] = "aborted"]
  /\ seen' = [seen EXCEPT ![d] = "none"]
  /\ UNCHANGED <<dbVars, handler, called, pc, worker, procVars>>

\* or answers 409.
CancelRefused(d) ==
  /\ seen[d] # "none"
  /\ row[d] # "queued"
  /\ seen[d] # "running" \/ ctl[d] = "none"
  /\ seen' = [seen EXCEPT ![d] = "none"]
  /\ UNCHANGED <<dbVars, handler, runVars, procVars>>

(***************************************************************************)
(* The queue.  Its worker awaits one job at a time.                        *)
(***************************************************************************)
\* Faulty: the job is completed when it is fetched.
FetchAndComplete(d) ==
  /\ boot \in {"working", "up"}
  /\ worker = Free
  /\ job[d] = "ready"
  /\ job' = [job EXCEPT ![d] = "done"]
  /\ worker' = d
  /\ called' = [called EXCEPT ![d] = @ \cup {"job"}]
  /\ UNCHANGED <<row, queue, requestVars, pc, ctl, procVars>>

FetchJob(d) ==
  /\ boot \in {"working", "up"}
  /\ worker = Free
  /\ job[d] = "ready"
  /\ job' = [job EXCEPT ![d] = "active"]
  /\ worker' = d
  /\ called' = [called EXCEPT ![d] = @ \cup {"job"}]
  /\ UNCHANGED <<row, queue, requestVars, pc, ctl, procVars>>

\* Faulty: an expired job is given up.
ExpireForGood(d) ==
  /\ boot # "down"
  /\ job[d] = "active"
  /\ "job" \notin called[d]
  /\ job' = [job EXCEPT ![d] = "done"]
  /\ worker' = IF worker = d THEN Free ELSE worker
  /\ UNCHANGED <<row, queue, requestVars, called, pc, ctl, procVars>>

\* An active job that outlives its expiration is retried; a worker that still
\* awaits it gives up, and the pipeline it called goes on.
ExpireJob(d) ==
  /\ boot # "down"
  /\ job[d] = "active"
  /\ "job" \notin called[d]
  /\ job' = [job EXCEPT ![d] = "ready"]
  /\ worker' = IF worker = d THEN Free ELSE worker
  /\ UNCHANGED <<row, queue, requestVars, called, pc, ctl, procVars>>

\* The call that the worker awaits on behalf of d's job has returned.
JobReturns(d, outcome) ==
  IF worker = d
  THEN job' = [job EXCEPT ![d] = outcome] /\ worker' = Free
  ELSE UNCHANGED <<job, worker>>

(***************************************************************************)
(* The executor.                                                           *)
(***************************************************************************)

\* Faulty: the claim is not conditional on the status.
ClaimUnguarded(d, via) ==
  /\ via \in called[d]
  /\ called' = [called EXCEPT ![d] = @ \ {via}]
  /\ row' = [row EXCEPT ![d] = "running"]
  /\ pc' = [pc EXCEPT ![d] = "claimed"]
  /\ UNCHANGED <<job, queue, requestVars, ctl, worker, procVars>>

\* The atomic claim: only a queued row starts.
Claim(d, via) ==
  /\ via \in called[d]
  /\ row[d] = "queued"
  /\ called' = [called EXCEPT ![d] = @ \ {via}]
  /\ row' = [row EXCEPT ![d] = "running"]
  /\ pc' = [pc EXCEPT ![d] = "claimed"]
  /\ UNCHANGED <<job, queue, requestVars, ctl, worker, procVars>>

\* A call that does not get the claim returns.
ClaimLost(d, via) ==
  /\ via \in called[d]
  /\ row[d] # "queued"
  /\ called' = [called EXCEPT ![d] = @ \ {via}]
  /\ IF via = "job" THEN JobReturns(d, "done") ELSE UNCHANGED <<job, worker>>
  /\ UNCHANGED <<row, queue, requestVars, pc, ctl, procVars>>

Goto(d, phase) == pc' = [pc EXCEPT ![d] = phase]

\* registerDeploy, in the turn in which the claim's answer arrives.
Register(d) ==
  /\ pc[d] = "claimed"
  /\ Goto(d, "registered")
  /\ ctl' = [ctl EXCEPT ![d] = "live"]
  /\ UNCHANGED <<dbVars, requestVars, called, worker, procVars>>

\* The target of the deploy is resolved, and the pipeline enters its try block:
\* a repository is cloned, an image pulled, a rollback starts its image.
ResolveTarget(d) ==
  /\ pc[d] = "registered"
  /\ \E phase \in {"fetch", "pull", "up"} : Goto(d, phase)
  /\ UNCHANGED <<dbVars, requestVars, called, ctl, worker, procVars>>

\* Faulty: the queue never hears of the rejection.
ResolveHangs(d) ==
  /\ pc[d] = "registered"
  /\ AppOf[d] \in RemoteApps
  /\ Goto(d, "ended")
  /\ UNCHANGED <<dbVars, requestVars, called, ctl, worker, procVars>>

\* The worker server's row or key cannot be read: the call throws before the
\* try block, so neither the catch nor the finally block runs.
ResolveThrows(d) ==
  /\ pc[d] = "registered"
  /\ AppOf[d] \in RemoteApps
  /\ Goto(d, "ended")
  /\ IF "job" \in called[d] THEN UNCHANGED <<job, worker>> ELSE JobReturns(d, "ready")
  /\ UNCHANGED <<row, queue, requestVars, called, ctl, procVars>>

\* A command that gets the signal is killed by it; over SSH no command gets it.
Killed(d) == ctl[d] = "aborted" /\ pc[d] \in Signalled /\ AppOf[d] \notin RemoteApps

FollowedBy == [fetch |-> {"build", "compose"}, pull |-> {"up"}, build |-> {"up"}]

PhaseDone(d) ==
  /\ pc[d] \in DOMAIN FollowedBy
  /\ ~Killed(d)
  /\ \E phase \in FollowedBy[pc[d]] : Goto(d, phase)
  /\ UNCHANGED <<dbVars, requestVars, called, ctl, worker, procVars>>

\* Faulty: the failure is swallowed.
PhaseSwallows(d) ==
  /\ pc[d] \in {"fetch", "pull", "build", "up", "compose", "swap"}
  /\ Goto(d, "finally")
  /\ UNCHANGED <<dbVars, requestVars, called, ctl, worker, procVars>>

\* A command fails, times out or is killed, or the removal of the old containers
\* throws: the catch block looks at the controller first.
PhaseThrows(d) ==
  /\ pc[d] \in {"fetch", "pull", "build", "up", "compose", "swap"}
  /\ Goto(d, IF ctl[d] = "aborted" THEN "cancelling" ELSE "failing")
  /\ UNCHANGED <<dbVars, requestVars, called, ctl, worker, procVars>>

\* The new container is healthy: the row is set whatever it holds by now.
WriteSucceeded(d) ==
  /\ pc[d] \in {"up", "compose"}
  /\ row' = [row EXCEPT ![d] = "succeeded"]
  /\ Goto(d, IF pc[d] = "up" THEN "swap" ELSE "composeSwap")
  /\ UNCHANGED <<job, queue, requestVars, called, ctl, worker, procVars>>

\* Converge, removal of the old containers, image pruning.
SwapDone(d) ==
  /\ pc[d] \in {"swap", "composeSwap"}
  /\ Goto(d, "finally")
  /\ UNCHANGED <<dbVars, requestVars, called, ctl, worker, procVars>>

\* Faulty: the status written is the pipeline's phase.
WritePhase(d) ==
  /\ pc[d] \in {"failing", "cancelling"}
  /\ row' = [row EXCEPT ![d] = pc[d]]
  /\ Goto(d, "finally")
  /\ UNCHANGED <<job, queue, requestVars, called, ctl, worker, procVars>>

\* The catch block.
WriteOutcome(d) ==
  /\ pc[d] \in {"failing", "cancelling"}
  /\ row' = [row EXCEPT ![d] = IF pc[d] = "failing" THEN "failed" ELSE "cancelled"]
  /\ Goto(d, "finally")
  /\ UNCHANGED <<job, queue, requestVars, called, ctl, worker, procVars>>

\* Faulty: the worker goes on awaiting a pipeline that has ended.
EndSilently(d) ==
  /\ pc[d] = "finally"
  /\ Goto(d, "ended")
  /\ ctl' = [ctl EXCEPT ![d] = "none"]
  /\ UNCHANGED <<dbVars, requestVars, called, worker, procVars>>

\* The finally block; the worker's await ends if it was the caller's.
EndRun(d) ==
  /\ pc[d] = "finally"
  /\ Goto(d, "ended")
  /\ ctl' = [ctl EXCEPT ![d] = "none"]
  /\ IF "job" \in called[d] THEN UNCHANGED <<job, worker>> ELSE JobReturns(d, "done")
  /\ UNCHANGED <<row, queue, requestVars, called, procVars>>

(***************************************************************************)
(* The process.                                                            *)
(***************************************************************************)

\* SIGKILL, or a SIGTERM, which awaits no pipeline.
Crash ==
  /\ boot # "down"
  /\ crashes < MaxCrashes
  /\ crashes' = crashes + 1
  /\ boot' = "down"
  /\ lost' = lost \cup {d \in Deployments : job[d] = "none" /\ (d \in handler \/ called[d] # {})}
  /\ handler' = {}
  /\ called' = [d \in Deployments |-> {}]
  /\ pc' = [d \in Deployments |-> "idle"]
  /\ ctl' = [d \in Deployments |-> "none"]
  /\ worker' = Free
  /\ seen' = [d \in Deployments |-> "none"]
  /\ UNCHANGED dbVars

\* The API answers before the queue's worker is registered,
Listen ==
  /\ boot = "down"
  /\ boot' = "listening"
  /\ UNCHANGED <<dbVars, requestVars, runVars, crashes, lost>>

\* and, the first time, before there is a queue;
CreateQueue ==
  /\ boot = "listening"
  /\ queue = "missing"
  /\ queue' = "made"
  /\ UNCHANGED <<row, job, requestVars, runVars, procVars>>

\* the worker is registered before the sweep,
StartWorker ==
  /\ boot = "listening"
  /\ queue = "made"
  /\ boot' = "working"
  /\ UNCHANGED <<dbVars, requestVars, runVars, crashes, lost>>

\* and sweepStaleDeployments fails every running row, whoever runs it.
Sweep ==
  /\ boot = "working"
  /\ boot' = "up"
  /\ row' = [d \in Deployments |-> IF row[d] = "running" THEN "failed" ELSE row[d]]
  /\ UNCHANGED <<job, queue, requestVars, runVars, crashes, lost>>

Request(d)  == \/ CreateDeployment(d)
               \/ CancelRead(d) \/ CancelQueued(d) \/ CancelRunning(d) \/ CancelRefused(d)
Dispatch(d) == Enqueue(d) \/ RunInline(d)
Start(d)    == \E via \in Via : Claim(d, via) \/ ClaimLost(d, via)
Pipeline(d) == \/ Register(d) \/ ResolveTarget(d) \/ ResolveThrows(d) \/ PhaseDone(d)
               \/ PhaseThrows(d) \/ WriteSucceeded(d) \/ SwapDone(d) \/ WriteOutcome(d)
               \/ EndRun(d)
Boot        == Listen \/ CreateQueue \/ StartWorker \/ Sweep

Next == \/ \E d \in Deployments : \/ Request(d) \/ Dispatch(d) \/ FetchJob(d) \/ ExpireJob(d)
                                  \/ Start(d) \/ Pipeline(d)
        \/ Boot
        \/ Crash

\* The event loop runs what is ready, the queue polls and expires the jobs no
\* worker awaits, every command ends, and the service manager restarts us.
Fairness ==
  /\ WF_vars(Boot)
  /\ WF_vars(\E d \in Deployments : FetchJob(d))
  /\ \A d \in Deployments : /\ WF_vars(Dispatch(d))
                            /\ WF_vars(worker # d /\ ExpireJob(d))
                            /\ WF_vars(Start(d))
                            /\ WF_vars(Pipeline(d))

ColdSpec   == InitCold /\ [][Next]_vars
BootedSpec == InitBooted /\ [][Next]_vars
FairColdSpec   == ColdSpec /\ Fairness
FairBootedSpec == BootedSpec /\ Fairness

(***************************************************************************)
(* Properties.                                                             *)
(***************************************************************************)

\* Per-app serialization keeps two pipelines from working on the containers and
\* the image tag of one application (deployments.service.ts:65-66).
OnePipelinePerApp ==
  \A d, e \in Deployments :
    (AppOf[d] = AppOf[e] /\ pc[d] \in Working /\ pc[e] \in Working) => d = e

\* Once the boot is over, a running row has a pipeline in this process that will
\* settle it: nothing is left to block the application (sweep.ts:6-8).
RunningIsOwned ==
  boot = "up" => \A d \in Deployments :
                   row[d] = "running" => pc[d] \in Working \cup {"failing", "cancelling"}

\* The executor never throws: when a pipeline has ended its failure or success
\* is in the row (executor.ts:196).
EndedIsSettled == \A d \in Deployments : pc[d] = "ended" => row[d] \in Terminal

\* A cancelled deployment is never worked on by a pipeline, whatever the queue
\* delivers and the inline fallback calls (executor.ts:212-214).
CancelledHasNoPipeline ==
  \A d \in Deployments : row[d] = "cancelled" => pc[d] \notin Working \cup {"swap"}

\* The queue forgets the job of a deployment only when its row is not queued.
JobOutlivesQueuedRow == \A d \in Deployments : job[d] = "done" => row[d] # "queued"

\* Through boots and deaths a queued row is on its way to a pipeline: it is being
\* dispatched or called, or its job lives on the queue (sweep.ts:8-9), unless its request
\* died first, or its send found no queue (index.ts:53-56): those two no boot delivers.
QueuedIsDelivered ==
  \A d \in Deployments :
    row[d] = "queued" => d \in handler \/ called[d] # {} \/ job[d] \in {"ready", "active"} \/ d \in lost

\* Pipelines and rows agree, whatever is delivered twice, cancelled or fails: no two
\* pipelines on an application, none on a cancelled deployment, one behind every
\* running row, and an outcome behind every pipeline that ended.
PipelinesMatchRows == OnePipelinePerApp /\ RunningIsOwned /\ EndedIsSettled /\ CancelledHasNoPipeline

\* What restarts keep: an application's one active row, and the job of a queued row.
RestartKeeps == OneActivePerApp /\ JobOutlivesQueuedRow

\* A cancelled row is never changed again.
CancelledIsFinal ==
  [][\A d \in Deployments : row[d] = "cancelled" => row'[d] = "cancelled"]_vars

\* A failed row is never changed again, by the pipeline or by a cancel.
FailedIsFinal ==
  [][\A d \in Deployments : row[d] = "failed" => row'[d] = "failed"]_vars

\* A published success is taken back by nobody but the pipeline that wrote it, in its
\* catch block, when the swap throws after the write (executor.ts:613-668, 691-714), and
\* as cancelled only after a cancel was acknowledged.
SuccessRetracted ==
  [][\A d \in Deployments :
       row[d] = "succeeded" /\ row'[d] # "succeeded" =>
         \/ pc[d] = "failing" /\ row'[d] = "failed"
         \/ pc[d] = "cancelling" /\ row'[d] = "cancelled" /\ ctl[d] = "aborted"]_vars

\* What users were told: the terminal writes do not look at the row, and still no failure
\* and no cancel is ever taken back, and a success at most once, by its own pipeline.
ToldIsFinal == CancelledIsFinal /\ FailedIsFinal /\ SuccessRetracted

\* A deployment settles whatever happens to the remote deployments that share
\* the queue's worker with it.
LocalSettles ==
  \A d \in Deployments :
    AppOf[d] \notin RemoteApps => (row[d] \in Active ~> row[d] \in Terminal)

\* A deployment that is running or whose job is on the queue settles, crashes or
\* not: the job is delivered again, or the sweep fails the row.
OutlivesRestart ==
  \A d \in Deployments :
    row[d] = "running" \/ (row[d] = "queued" /\ job[d] # "none") ~> row[d] \in Terminal

\* The engine implements AppSlot: the slot is held by the active row.
SlotOf(a) == IF ActiveOf(a) = {} THEN Free ELSE CHOOSE d \in ActiveOf(a) : TRUE
Slot == INSTANCE AppSlot WITH
          slot  <- [a \in Apps |-> SlotOf(a)],
          taken <- {d \in Deployments : row[d] # "absent"}
SlotSafety == Slot!SlotSafety
SlotSpec   == Slot!SlotSpec
=============================================================================
