------------------------- MODULE DeployEngineProofs -------------------------
(***************************************************************************)
(* Proofs about DeployEngine, for every set of applications and            *)
(* deployments and every number of crashes.                                *)
(***************************************************************************)
EXTENDS DeployEngine, TLAPS

\* Every variable keeps its type: a step of the engine never writes a status,
\* a phase or a registry entry that the code does not know.
LEMMA TypeStep == TypeOK /\ [Next]_vars => TypeOK'
<1> SUFFICES ASSUME TypeOK, [Next]_vars PROVE TypeOK'
  OBVIOUS
<1> USE EngineAssumption DEF TypeOK
<1>1. CASE UNCHANGED vars
  BY <1>1 DEF vars, dbVars, requestVars, runVars, procVars
<1>2. ASSUME NEW d \in Deployments, Request(d) PROVE TypeOK'
  BY <1>2 DEF Request, CreateDeployment, CancelRead, CancelQueued, CancelRunning, CancelRefused,
              Status, dbVars, requestVars, runVars, procVars
<1>3. ASSUME NEW d \in Deployments, Dispatch(d) PROVE TypeOK'
  BY <1>3 DEF Dispatch, Enqueue, RunInline, Via, dbVars, requestVars, runVars, procVars
<1>4. ASSUME NEW d \in Deployments, FetchJob(d) \/ ExpireJob(d) PROVE TypeOK'
  BY <1>4 DEF FetchJob, ExpireJob, Via, dbVars, requestVars, runVars, procVars
<1>5. ASSUME NEW d \in Deployments, Start(d) PROVE TypeOK'
  <2>1. PICK via \in Via : Claim(d, via) \/ ClaimLost(d, via)
    BY <1>5 DEF Start
  <2>2. CASE Claim(d, via)
    BY <2>1, <2>2 DEF Claim, Status, Phases, dbVars, requestVars, runVars, procVars
  <2>3. CASE ClaimLost(d, via)
    BY <2>1, <2>3 DEF ClaimLost, JobReturns, dbVars, requestVars, runVars, procVars
  <2> QED
    BY <2>1, <2>2, <2>3
<1>6. ASSUME NEW d \in Deployments, Pipeline(d) PROVE TypeOK'
  <2> USE DEF Goto, Phases, dbVars, requestVars, runVars, procVars
  <2>1. CASE Register(d)
    BY <2>1 DEF Register
  <2>2. CASE ResolveTarget(d)
    BY <2>2 DEF ResolveTarget
  <2>3. CASE ResolveThrows(d)
    BY <2>3 DEF ResolveThrows, JobReturns
  <2>4. CASE PhaseDone(d)
    BY <2>4 DEF PhaseDone, FollowedBy
  <2>5. CASE PhaseThrows(d)
    BY <2>5 DEF PhaseThrows
  <2>6. CASE WriteSucceeded(d)
    BY <2>6 DEF WriteSucceeded, Status
  <2>7. CASE SwapDone(d)
    BY <2>7 DEF SwapDone
  <2>8. CASE WriteOutcome(d)
    BY <2>8 DEF WriteOutcome, Status
  <2>9. CASE EndRun(d)
    BY <2>9 DEF EndRun, JobReturns
  <2> QED
    BY <1>6, <2>1, <2>2, <2>3, <2>4, <2>5, <2>6, <2>7, <2>8, <2>9 DEF Pipeline
<1>7. CASE Boot
  BY <1>7 DEF Boot, Listen, CreateQueue, StartWorker, Sweep, Boots, Status, dbVars, requestVars, runVars, procVars
<1>8. CASE Crash
  BY <1>8 DEF Crash, Boots, Phases, dbVars
<1> QED
  BY <1>1, <1>2, <1>3, <1>4, <1>5, <1>6, <1>7, <1>8 DEF Next

LEMMA TypeInit == InitCold \/ InitBooted => TypeOK
BY EngineAssumption DEF InitCold, InitBooted, EmptyMemory, TypeOK, Status, Boots, Phases

\* The type invariant, from either initial condition.
THEOREM TypeCorrect == (ColdSpec => []TypeOK) /\ (BootedSpec => []TypeOK)
<1>1. ColdSpec => []TypeOK
  BY TypeInit, TypeStep, PTL DEF ColdSpec
<1>2. BootedSpec => []TypeOK
  BY TypeInit, TypeStep, PTL DEF BootedSpec
<1> QED
  BY <1>1, <1>2

(***************************************************************************)
(* What holds at every moment, crashes or not.                             *)
(***************************************************************************)

\* What a row tells of the queue and of its pipeline: nobody knows of a row that
\* is not there, a row that is queued was not claimed, its job is not done, and somebody
\* will deliver it or it is noted as lost, a cancelled row has no pipeline that could still
\* write it, and a pipeline that will write "cancelled" was aborted.
RowTells(d) ==
  /\ row[d] = "absent" => d \notin handler /\ called[d] = {} /\ job[d] = "none"
  /\ row[d] \in {"absent", "queued"} => pc[d] = "idle" /\ job[d] # "done"
  /\ row[d] = "cancelled" => pc[d] \in {"idle", "finally", "ended"}
  /\ pc[d] = "cancelling" => ctl[d] = "aborted"
  /\ row[d] = "queued" => d \in handler \/ called[d] # {} \/ job[d] \in {"ready", "active"} \/ d \in lost

EngineInv == TypeOK /\ OneActivePerApp /\ \A d \in Deployments : RowTells(d)

LEMMA EngineInit == InitCold \/ InitBooted => EngineInv
BY TypeInit DEF InitCold, InitBooted, EmptyMemory, OneActivePerApp, RowTells, Active, EngineInv

\* No step but createDeployment gives an application an active row.
LEMMA UniqueStep == EngineInv /\ [Next]_vars => OneActivePerApp'
<1> SUFFICES ASSUME EngineInv, [Next]_vars PROVE OneActivePerApp'
  OBVIOUS
<1> USE EngineAssumption DEF EngineInv, TypeOK, OneActivePerApp, Active
<1>1. CASE UNCHANGED vars
  BY <1>1 DEF vars, dbVars
<1>2. ASSUME NEW d \in Deployments, Request(d) PROVE OneActivePerApp'
  <2>1. CASE CreateDeployment(d)
    BY <2>1 DEF CreateDeployment, ActiveOf
  <2>2. CASE CancelQueued(d)
    BY <2>2 DEF CancelQueued
  <2>3. CASE CancelRead(d) \/ CancelRunning(d) \/ CancelRefused(d)
    BY <2>3 DEF CancelRead, CancelRunning, CancelRefused, dbVars
  <2> QED
    BY <1>2, <2>1, <2>2, <2>3 DEF Request
<1>3. ASSUME NEW d \in Deployments, Dispatch(d) \/ FetchJob(d) \/ ExpireJob(d) PROVE OneActivePerApp'
  BY <1>3 DEF Dispatch, Enqueue, RunInline, FetchJob, ExpireJob
<1>4. ASSUME NEW d \in Deployments, Start(d) PROVE OneActivePerApp'
  BY <1>4 DEF Start, Claim, ClaimLost
<1>5. ASSUME NEW d \in Deployments, Pipeline(d) PROVE OneActivePerApp'
  <2>1. CASE WriteSucceeded(d) \/ WriteOutcome(d)
    BY <2>1 DEF WriteSucceeded, WriteOutcome
  <2>2. CASE ~(WriteSucceeded(d) \/ WriteOutcome(d))
    BY <1>5, <2>2 DEF Pipeline, Register, ResolveTarget, ResolveThrows, PhaseDone, PhaseThrows,
                      SwapDone, EndRun, dbVars
  <2> QED
    BY <2>1, <2>2
<1>6. CASE Boot
  BY <1>6 DEF Boot, Listen, CreateQueue, StartWorker, Sweep, dbVars
<1>7. CASE Crash
  BY <1>7 DEF Crash, dbVars
<1> QED
  BY <1>1, <1>2, <1>3, <1>4, <1>5, <1>6, <1>7 DEF Next

LEMMA RowTellsStep == EngineInv /\ [Next]_vars => \A e \in Deployments : RowTells(e)'
<1> SUFFICES ASSUME EngineInv, [Next]_vars, NEW e \in Deployments PROVE RowTells(e)'
  OBVIOUS
<1> USE EngineAssumption DEF EngineInv, TypeOK, RowTells, dbVars, requestVars, runVars, procVars
<1>1. CASE UNCHANGED vars
  BY <1>1 DEF vars
<1>2. ASSUME NEW d \in Deployments, Request(d) PROVE RowTells(e)'
  BY <1>2 DEF Request, CreateDeployment, CancelRead, CancelQueued, CancelRunning, CancelRefused
<1>3. ASSUME NEW d \in Deployments, Dispatch(d) PROVE RowTells(e)'
  <2>1. CASE Enqueue(d)
    BY <2>1 DEF Enqueue
  <2>2. CASE RunInline(d)
    <3>1. "inline" \in called'[d] /\ job'[d] \in {"none", "ready"}
      BY <2>2 DEF RunInline
    <3> QED
      BY <2>2, <3>1 DEF RunInline
  <2> QED
    BY <1>3, <2>1, <2>2 DEF Dispatch
<1>4. ASSUME NEW d \in Deployments, FetchJob(d) \/ ExpireJob(d) PROVE RowTells(e)'
  BY <1>4 DEF FetchJob, ExpireJob
<1>5. ASSUME NEW d \in Deployments, Start(d) PROVE RowTells(e)'
  BY <1>5 DEF Start, Claim, ClaimLost, JobReturns
<1>6. ASSUME NEW d \in Deployments, Pipeline(d) PROVE RowTells(e)'
  <2> USE DEF Goto
  <2>1. CASE Register(d) \/ ResolveTarget(d) \/ PhaseDone(d) \/ PhaseThrows(d) \/ SwapDone(d)
    BY <2>1 DEF Register, ResolveTarget, PhaseDone, PhaseThrows, SwapDone, FollowedBy
  <2>2. CASE WriteSucceeded(d) \/ WriteOutcome(d)
    BY <2>2 DEF WriteSucceeded, WriteOutcome
  <2>3. CASE ResolveThrows(d) \/ EndRun(d)
    BY <2>3 DEF ResolveThrows, EndRun, JobReturns
  <2> QED
    BY <1>6, <2>1, <2>2, <2>3 DEF Pipeline
<1>7. CASE Boot
  BY <1>7 DEF Boot, Listen, CreateQueue, StartWorker, Sweep
<1>8. CASE Crash
  BY <1>8 DEF Crash
<1> QED
  BY <1>1, <1>2, <1>3, <1>4, <1>5, <1>6, <1>7, <1>8 DEF Next

LEMMA EngineStep == EngineInv /\ [Next]_vars => EngineInv'
BY TypeStep, UniqueStep, RowTellsStep DEF EngineInv

LEMMA EngineInvariant == (ColdSpec => []EngineInv) /\ (BootedSpec => []EngineInv)
<1>1. ColdSpec => []EngineInv
  BY EngineInit, EngineStep, PTL DEF ColdSpec
<1>2. BootedSpec => []EngineInv
  BY EngineInit, EngineStep, PTL DEF BootedSpec
<1> QED
  BY <1>1, <1>2

\* However requests, retries, restarts and the sweep interleave, an application
\* has at most one deployment that is queued or running.
THEOREM ActiveUnique == (ColdSpec => []OneActivePerApp) /\ (BootedSpec => []OneActivePerApp)
<1>1. EngineInv => OneActivePerApp
  BY DEF EngineInv
<1> QED
  BY <1>1, EngineInvariant, PTL

\* No pipeline works on a deployment whose row is cancelled.
THEOREM CancelledIdle ==
  (ColdSpec => []CancelledHasNoPipeline) /\ (BootedSpec => []CancelledHasNoPipeline)
<1>1. EngineInv => CancelledHasNoPipeline
  BY DEF EngineInv, RowTells, CancelledHasNoPipeline, Working
<1> QED
  BY <1>1, EngineInvariant, PTL

\* The queue does not lose a queued deployment by completing its job.
THEOREM JobOutlives ==
  (ColdSpec => []JobOutlivesQueuedRow) /\ (BootedSpec => []JobOutlivesQueuedRow)
<1>1. EngineInv => JobOutlivesQueuedRow
  BY DEF EngineInv, RowTells, JobOutlivesQueuedRow
<1> QED
  BY <1>1, EngineInvariant, PTL

\* Through boots, the window before the queue is made, expiries and deaths, a queued row
\* is delivered, unless its request died first or its send found no queue.
THEOREM QueuedDelivered ==
  (ColdSpec => []QueuedIsDelivered) /\ (BootedSpec => []QueuedIsDelivered)
<1>1. EngineInv => QueuedIsDelivered
  BY DEF EngineInv, RowTells, QueuedIsDelivered
<1> QED
  BY <1>1, EngineInvariant, PTL

\* Nothing changes a cancelled row.
LEMMA CancelledStep ==
  EngineInv /\ [Next]_vars =>
    \A e \in Deployments : row[e] = "cancelled" => row'[e] = "cancelled"
<1> SUFFICES ASSUME EngineInv, [Next]_vars, NEW e \in Deployments, row[e] = "cancelled"
             PROVE  row'[e] = "cancelled"
  OBVIOUS
<1> USE DEF EngineInv, TypeOK, RowTells, dbVars
<1>1. CASE UNCHANGED vars
  BY <1>1 DEF vars
<1>2. ASSUME NEW d \in Deployments,
             Request(d) \/ Dispatch(d) \/ FetchJob(d) \/ ExpireJob(d) \/ Start(d)
      PROVE  row'[e] = "cancelled"
  BY <1>2 DEF Request, CreateDeployment, CancelRead, CancelQueued, CancelRunning, CancelRefused,
              Dispatch, Enqueue, RunInline, FetchJob, ExpireJob, Start, Claim, ClaimLost
<1>3. ASSUME NEW d \in Deployments, Pipeline(d) PROVE row'[e] = "cancelled"
  BY <1>3 DEF Pipeline, Register, ResolveTarget, ResolveThrows, PhaseDone, PhaseThrows,
              WriteSucceeded, SwapDone, WriteOutcome, EndRun
<1>4. CASE Boot \/ Crash
  BY <1>4 DEF Boot, Listen, CreateQueue, StartWorker, Sweep, Crash
<1> QED
  BY <1>1, <1>2, <1>3, <1>4 DEF Next

\* Once cancelled, a deployment stays cancelled, although the executor's writes
\* do not look at the row.
THEOREM CancelledForGood == (ColdSpec => CancelledIsFinal) /\ (BootedSpec => CancelledIsFinal)
<1>1. EngineInv /\ [Next]_vars =>
        [\A d \in Deployments : row[d] = "cancelled" => row'[d] = "cancelled"]_vars
  BY CancelledStep
<1>2. ColdSpec => CancelledIsFinal
  BY <1>1, EngineInvariant, PTL DEF ColdSpec, CancelledIsFinal
<1>3. BootedSpec => CancelledIsFinal
  BY <1>1, EngineInvariant, PTL DEF BootedSpec, CancelledIsFinal
<1> QED
  BY <1>2, <1>3

\* A success is written over by its own pipeline only.
LEMMA RetractStep ==
  ASSUME EngineInv, [Next]_vars, NEW e \in Deployments, row[e] = "succeeded", row'[e] # "succeeded"
  PROVE  \/ pc[e] = "failing" /\ row'[e] = "failed"
         \/ pc[e] = "cancelling" /\ row'[e] = "cancelled" /\ ctl[e] = "aborted"
<1> USE DEF EngineInv, TypeOK, RowTells, dbVars
<1>1. ~UNCHANGED vars
  BY DEF vars
<1>2. ~\E d \in Deployments : Request(d) \/ Dispatch(d) \/ FetchJob(d) \/ ExpireJob(d) \/ Start(d)
  BY DEF Request, CreateDeployment, CancelRead, CancelQueued, CancelRunning, CancelRefused,
         Dispatch, Enqueue, RunInline, FetchJob, ExpireJob, Start, Claim, ClaimLost
<1>3. ~(Boot \/ Crash)
  BY DEF Boot, Listen, CreateQueue, StartWorker, Sweep, Crash
<1>4. PICK d \in Deployments : Pipeline(d)
  BY <1>1, <1>2, <1>3 DEF Next
<1>5. WriteOutcome(d) /\ d = e
  BY <1>4 DEF Pipeline, Register, ResolveTarget, ResolveThrows, PhaseDone, PhaseThrows,
              WriteSucceeded, SwapDone, WriteOutcome, EndRun
<1> QED
  BY <1>5 DEF WriteOutcome

\* A published success is taken back by nobody but the pipeline that wrote it, whatever
\* dies, is redelivered or is cancelled.
THEOREM RetractedByItself == (ColdSpec => SuccessRetracted) /\ (BootedSpec => SuccessRetracted)
<1>1. EngineInv /\ [Next]_vars =>
        [\A d \in Deployments :
           row[d] = "succeeded" /\ row'[d] # "succeeded" =>
             \/ pc[d] = "failing" /\ row'[d] = "failed"
             \/ pc[d] = "cancelling" /\ row'[d] = "cancelled" /\ ctl[d] = "aborted"]_vars
  BY RetractStep
<1>2. ColdSpec => SuccessRetracted
  BY <1>1, EngineInvariant, PTL DEF ColdSpec, SuccessRetracted
<1>3. BootedSpec => SuccessRetracted
  BY <1>1, EngineInvariant, PTL DEF BootedSpec, SuccessRetracted
<1> QED
  BY <1>2, <1>3

(***************************************************************************)
(* The engine implements AppSlot.                                          *)
(***************************************************************************)

SlotMap == [a \in Apps |-> SlotOf(a)]
Taken   == {d \in Deployments : row[d] # "absent"}

\* An application's active row is its slot's holder.
LEMMA Holder ==
  ASSUME OneActivePerApp, NEW a \in Apps
  PROVE  /\ ActiveOf(a) = {} => SlotOf(a) = Free
         /\ \A d \in ActiveOf(a) : SlotOf(a) = d /\ SlotOf(a) # Free
BY EngineAssumption DEF SlotOf, ActiveOf, OneActivePerApp

\* A step that activates no row and creates none leaves slots, or stutters.
LEMMA Leaving ==
  ASSUME OneActivePerApp, OneActivePerApp', Taken' = Taken,
         \A a \in Apps : ActiveOf(a)' \subseteq ActiveOf(a)
  PROVE  Slot!SlotNext
<1> DEFINE S == {a \in Apps : ActiveOf(a) # {} /\ ActiveOf(a)' = {}}
<1>1. \A a \in S : SlotMap[a] # Free
  BY Holder DEF SlotMap
<1>2. ASSUME NEW a \in Apps PROVE SlotOf(a)' = IF a \in S THEN Free ELSE SlotOf(a)
  <2>1. (OneActivePerApp => (ActiveOf(a) = {} => SlotOf(a) = Free))'
    BY EngineAssumption DEF SlotOf, ActiveOf, OneActivePerApp
  <2>2. CASE ActiveOf(a)' = {}
    <3>1. SlotOf(a)' = Free
      BY <2>1, <2>2
    <3> QED
      BY <3>1, <2>2, Holder
  <2>3. CASE ActiveOf(a)' # {}
    <3>1. PICK d \in ActiveOf(a)' : d \in ActiveOf(a)
      BY <2>3
    <3>2. ActiveOf(a) = {d}
      BY <3>1 DEF ActiveOf, OneActivePerApp
    <3>3. ActiveOf(a)' = ActiveOf(a)
      BY <3>1, <3>2
    <3> QED
      BY <3>3, <2>3 DEF SlotOf
  <2> QED
    BY <2>2, <2>3
<1>3. SlotMap' = [a \in Apps |-> IF a \in S THEN Free ELSE SlotMap[a]]
  BY <1>2 DEF SlotMap
<1>4. Slot!Leave(S)
  BY <1>1, <1>3 DEF Slot!Leave, SlotMap, Taken
<1>5. S \in SUBSET Apps
  OBVIOUS
<1> QED
  BY <1>4, <1>5 DEF Slot!SlotNext

LEMMA SlotStart == EngineInv /\ (InitCold \/ InitBooted) => Slot!SlotInit
<1> SUFFICES ASSUME EngineInv, InitCold \/ InitBooted PROVE Slot!SlotInit
  OBVIOUS
<1>0. OneActivePerApp /\ \A d \in Deployments : row[d] = "absent" \/ row[d] = "queued"
  BY DEF EngineInv, InitCold, InitBooted
<1>1. ASSUME NEW a \in Apps
      PROVE  /\ SlotOf(a) \in Deployments \cup {Free}
             /\ SlotOf(a) # Free => AppOf[SlotOf(a)] = a /\ SlotOf(a) \in Taken
  <2>1. CASE ActiveOf(a) = {}
    BY <2>1, <1>0, Holder
  <2>2. CASE ActiveOf(a) # {}
    <3>1. PICK d \in ActiveOf(a) : SlotOf(a) = d
      BY <2>2, <1>0, Holder
    <3> QED
      BY <3>1 DEF ActiveOf, Active, Taken
  <2> QED
    BY <2>1, <2>2
<1>2. ASSUME NEW d \in Taken PROVE SlotOf(AppOf[d]) = d /\ d # Free /\ AppOf[d] \in Apps
  <2>1. d \in ActiveOf(AppOf[d]) /\ AppOf[d] \in Apps
    BY <1>0, EngineAssumption DEF Taken, ActiveOf, Active
  <2> QED
    BY <2>1, <1>0, Holder, EngineAssumption DEF Taken
<1>3. Taken = {SlotMap[a] : a \in Apps} \ {Free}
  BY <1>1, <1>2 DEF SlotMap
<1>4. SlotMap \in [Apps -> Deployments \cup {Free}]
  BY <1>1 DEF SlotMap
<1> QED
  BY <1>1, <1>3, <1>4 DEF Slot!SlotInit, SlotMap, Taken

LEMMA SlotStep == EngineInv /\ EngineInv' /\ [Next]_vars => [Slot!SlotNext]_(Slot!slotVars)
<1> SUFFICES ASSUME EngineInv, EngineInv', [Next]_vars PROVE Slot!SlotNext
  OBVIOUS
<1> USE EngineAssumption DEF EngineInv, TypeOK
<1>1. CASE \E d \in Deployments : CreateDeployment(d)
  <2>1. PICK d \in Deployments : CreateDeployment(d)
    BY <1>1
  <2>2. d \notin Taken /\ Taken' = Taken \cup {d}
    BY <2>1 DEF CreateDeployment, Taken
  <2>3. SlotOf(AppOf[d]) = Free /\ AppOf[d] \in Apps
    BY <2>1, Holder DEF CreateDeployment
  <2>4. d \in ActiveOf(AppOf[d])'
    BY <2>1 DEF CreateDeployment, ActiveOf, Active
  <2>5. ActiveOf(AppOf[d])' = {d}
    BY <2>4 DEF ActiveOf, OneActivePerApp
  <2>6. SlotOf(AppOf[d])' = d
    BY <2>5 DEF SlotOf
  <2>7. ASSUME NEW a \in Apps, a # AppOf[d] PROVE SlotOf(a)' = SlotOf(a)
    <3>1. ActiveOf(a)' = ActiveOf(a)
      BY <2>1, <2>7 DEF CreateDeployment, ActiveOf, Active
    <3> QED
      BY <3>1 DEF SlotOf
  <2>8. SlotMap' = [SlotMap EXCEPT ![AppOf[d]] = d]
    BY <2>3, <2>6, <2>7 DEF SlotMap
  <2> QED
    BY <2>2, <2>3, <2>8 DEF Slot!SlotNext, Slot!Take, SlotMap, Taken
<1>2. CASE ~\E d \in Deployments : CreateDeployment(d)
  <2>1. ASSUME NEW e \in Deployments
        PROVE  /\ row'[e] = "absent" <=> row[e] = "absent"
               /\ row'[e] \in Active => row[e] \in Active
    <3> USE DEF RowTells, Active, dbVars
    <3>1. CASE UNCHANGED vars
      BY <3>1 DEF vars
    <3>2. ASSUME NEW d \in Deployments,
                 Request(d) \/ Dispatch(d) \/ FetchJob(d) \/ ExpireJob(d) \/ Start(d)
          PROVE  /\ row'[e] = "absent" <=> row[e] = "absent"
                 /\ row'[e] \in Active => row[e] \in Active
      BY <1>2, <3>2 DEF Request, CancelRead, CancelQueued, CancelRunning, CancelRefused,
                        Dispatch, Enqueue, RunInline, FetchJob, ExpireJob, Start, Claim, ClaimLost
    <3>3. ASSUME NEW d \in Deployments, Pipeline(d)
          PROVE  /\ row'[e] = "absent" <=> row[e] = "absent"
                 /\ row'[e] \in Active => row[e] \in Active
      BY <3>3 DEF Pipeline, Register, ResolveTarget, ResolveThrows, PhaseDone, PhaseThrows,
                  WriteSucceeded, SwapDone, WriteOutcome, EndRun
    <3>4. CASE Boot \/ Crash
      BY <3>4 DEF Boot, Listen, CreateQueue, StartWorker, Sweep, Crash
    <3> QED
      BY <3>1, <3>2, <3>3, <3>4 DEF Next
  <2>2. Taken' = Taken /\ \A a \in Apps : ActiveOf(a)' \subseteq ActiveOf(a)
    BY <2>1 DEF Taken, ActiveOf
  <2> QED
    BY <2>2, Leaving
<1> QED
  BY <1>1, <1>2

\* The engine, restarts included, implements the slot: a deployment takes it
\* when it is created, keeps it while it is active and never takes it again.
THEOREM EngineImplementsSlot == (ColdSpec => SlotSafety) /\ (BootedSpec => SlotSafety)
<1>1. ColdSpec => SlotSafety
  BY EngineInit, SlotStart, SlotStep, EngineInvariant, PTL DEF ColdSpec, SlotSafety, Slot!SlotSafety
<1>2. BootedSpec => SlotSafety
  BY EngineInit, SlotStart, SlotStep, EngineInvariant, PTL DEF BootedSpec, SlotSafety, Slot!SlotSafety
<1> QED
  BY <1>1, <1>2

(***************************************************************************)
(* A process that has finished its boot and does not die.                  *)
(***************************************************************************)

\* What ties a row to its pipeline and to the queue.
Owned(d) ==
  /\ pc[d] \in Working => row[d] = "running"
  /\ row[d] = "running" => pc[d] \in Working \cup {"failing", "cancelling", "ended"}
  /\ row[d] = "failed" => pc[d] \in {"idle", "finally", "ended"}
  /\ pc[d] \in {"swap", "composeSwap", "finally"} => row[d] \in Terminal
  /\ pc[d] = "ended" => row[d] \in Terminal \/ AppOf[d] \in RemoteApps

SteadyInv == EngineInv /\ boot = "up" /\ \A d \in Deployments : Owned(d)

LEMMA SteadyInit == InitBooted => SteadyInv
BY EngineInit DEF SteadyInv, Owned, InitBooted, EmptyMemory, Working

LEMMA SteadyStep ==
  ASSUME MaxCrashes = 0, SteadyInv, [Next]_vars
  PROVE  /\ SteadyInv'
         /\ \A e \in Deployments : row[e] = "failed" => row'[e] = "failed"
<1>0. boot' = "up"
  BY DEF SteadyInv, EngineInv, TypeOK, Next, Request, CreateDeployment, CancelRead, CancelQueued,
         CancelRunning, CancelRefused, Dispatch, Enqueue, RunInline, FetchJob, ExpireJob, Start,
         Claim, ClaimLost, Pipeline, Register, ResolveTarget, ResolveThrows, PhaseDone,
         PhaseThrows, WriteSucceeded, SwapDone, WriteOutcome, EndRun, Boot, Listen, CreateQueue,
         StartWorker, Sweep, Crash, vars, procVars
<1> SUFFICES ASSUME NEW e \in Deployments
             PROVE  Owned(e)' /\ (row[e] = "failed" => row'[e] = "failed")
  BY <1>0, EngineStep DEF SteadyInv
<1> USE EngineAssumption DEF SteadyInv, EngineInv, TypeOK, RowTells, Owned, Working, Terminal,
                             dbVars, requestVars, runVars, procVars
<1> DEFINE Kept == Owned(e)' /\ (row[e] = "failed" => row'[e] = "failed")
<1>1. CASE UNCHANGED vars
  BY <1>1 DEF vars
<1>2. ASSUME NEW d \in Deployments, Request(d) PROVE Kept
  BY <1>2 DEF Request, CreateDeployment, CancelRead, CancelQueued, CancelRunning, CancelRefused
<1>3. ASSUME NEW d \in Deployments, Dispatch(d) PROVE Kept
  BY <1>3 DEF Dispatch, Enqueue, RunInline
<1>4. ASSUME NEW d \in Deployments, FetchJob(d) \/ ExpireJob(d) PROVE Kept
  BY <1>4 DEF FetchJob, ExpireJob
<1>5. ASSUME NEW d \in Deployments, Start(d) PROVE Kept
  BY <1>5 DEF Start, Claim, ClaimLost, JobReturns
<1>6. ASSUME NEW d \in Deployments, Pipeline(d) PROVE Kept
  <2> USE DEF Goto
  <2>1. CASE Register(d) \/ ResolveTarget(d) \/ PhaseDone(d) \/ PhaseThrows(d) \/ SwapDone(d)
    BY <2>1 DEF Register, ResolveTarget, PhaseDone, PhaseThrows, SwapDone, FollowedBy
  <2>2. CASE WriteSucceeded(d)
    BY <2>2 DEF WriteSucceeded
  <2>3. CASE WriteOutcome(d)
    BY <2>3 DEF WriteOutcome
  <2>4. CASE ResolveThrows(d) \/ EndRun(d)
    BY <2>4 DEF ResolveThrows, EndRun, JobReturns
  <2> QED
    BY <1>6, <2>1, <2>2, <2>3, <2>4 DEF Pipeline
<1>7. CASE Boot \/ Crash
  BY <1>7 DEF Boot, Listen, CreateQueue, StartWorker, Sweep, Crash
<1> QED
  BY <1>1, <1>2, <1>3, <1>4, <1>5, <1>6, <1>7 DEF Next

LEMMA SteadyInvariant == ASSUME MaxCrashes = 0 PROVE BootedSpec => []SteadyInv
BY SteadyInit, SteadyStep, PTL DEF BootedSpec

\* Per-app serialization does what it is for as long as the process lives: two
\* pipelines never work on one application.
THEOREM OnePipeline == ASSUME MaxCrashes = 0 PROVE BootedSpec => []OnePipelinePerApp
<1>1. SteadyInv => OnePipelinePerApp
  BY DEF SteadyInv, EngineInv, OneActivePerApp, OnePipelinePerApp, Owned, Active
<1> QED
  BY <1>1, SteadyInvariant, PTL

\* A failure is recorded for good while the process lives.
THEOREM FailedForGood == ASSUME MaxCrashes = 0 PROVE BootedSpec => FailedIsFinal
<1>1. SteadyInv /\ [Next]_vars =>
        [\A d \in Deployments : row[d] = "failed" => row'[d] = "failed"]_vars
  BY SteadyStep
<1> QED
  BY <1>1, SteadyInvariant, PTL DEF BootedSpec, FailedIsFinal

\* What users were told while the process lives: a failure and a cancel stay, and only
\* its own pipeline takes a success back.
THEOREM ToldForGood == ASSUME MaxCrashes = 0 PROVE BootedSpec => ToldIsFinal
BY CancelledForGood, FailedForGood, RetractedByItself DEF ToldIsFinal

\* Pipelines and rows agree while the process lives and nothing is remote.
THEOREM RowsMatch ==
  ASSUME MaxCrashes = 0, RemoteApps = {}
  PROVE  BootedSpec => []PipelinesMatchRows
<1>1. SteadyInv => PipelinesMatchRows
  <2>1. SteadyInv => OnePipelinePerApp
    BY DEF SteadyInv, EngineInv, OneActivePerApp, OnePipelinePerApp, Owned, Active
  <2>2. SteadyInv => RunningIsOwned /\ EndedIsSettled
    BY DEF SteadyInv, Owned, EndedIsSettled, RunningIsOwned, Terminal, Working
  <2>3. SteadyInv => CancelledHasNoPipeline
    BY DEF SteadyInv, EngineInv, RowTells, CancelledHasNoPipeline, Working
  <2> QED
    BY <2>1, <2>2, <2>3 DEF PipelinesMatchRows
<1> QED
  BY <1>1, SteadyInvariant, PTL

\* What the slot and the queue keep through crashes and the sweep.
THEOREM Restarts == (ColdSpec => []RestartKeeps) /\ (BootedSpec => []RestartKeeps)
<1>1. EngineInv => RestartKeeps
  BY DEF EngineInv, RowTells, JobOutlivesQueuedRow, RestartKeeps
<1> QED
  BY <1>1, EngineInvariant, PTL
=============================================================================
