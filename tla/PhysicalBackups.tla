--------------------------- MODULE PhysicalBackups ---------------------------
(***************************************************************************)
(* A physical backup configuration: the archive of the server's WAL, and the *)
(* restores into fresh containers from base backup and archive.  The two   *)
(* share no variable: a restore reads the archive as it stands then.       *)
(***************************************************************************)
EXTENDS Naturals, FiniteSets

(***************************************************************************)
(* The WAL archive: a replication slot on the server, drains that receive  *)
(* what it retains into a local spool and move the completed segments to   *)
(* the bucket.  Cron starts one every minute, the creation of the          *)
(* configuration and operators start others.                               *)
(***************************************************************************)

CONSTANTS
  Drains,          \* bound: drains at one time
  MaxSegments,     \* bound: WAL segments that the server writes
  DrainCrashes     \* bound: crashes of the control plane

ASSUME WalAssumption == IsFiniteSet(Drains) /\ MaxSegments \in Nat /\ DrainCrashes \in Nat

VARIABLES
  written,   \* segments that the server has completed
  slotFrom,  \* the first segment ever retained, or NoSlot
  slot,      \* the first segment retained now, or NoSlot
  spool,     \* completed segments in the local directory
  archived,  \* segments in the bucket
  drainAt,   \* where each drain is
  endpos,    \* the position that it reads up to
  whole,     \* the drains whose every command has succeeded, until they end
  lastWal,   \* last_wal_lsn of the configuration
  stampedBy, \* how the drain that stamped it went
  walConfig, \* TRUE while the configuration exists
  drainCrashes

walVars == <<written, slotFrom, slot, spool, archived, drainAt, endpos, whole, lastWal, stampedBy,
             walConfig, drainCrashes>>
results == <<whole, lastWal, stampedBy>>

NoSlot   == MaxSegments + 1
Segments == 0..(MaxSegments - 1)
DrainSteps == {"idle", "slot", "position", "receive", "sync", "stamp"}

WalTypeOK ==
  /\ written \in 0..MaxSegments /\ slotFrom \in 0..NoSlot /\ slot \in 0..NoSlot
  /\ spool \subseteq Segments /\ archived \subseteq Segments
  /\ drainAt \in [Drains -> DrainSteps]
  /\ endpos \in [Drains -> 0..MaxSegments] /\ lastWal \in 0..MaxSegments
  /\ whole \subseteq Drains /\ stampedBy \in {"none", "whole", "cut"}
  /\ walConfig \in BOOLEAN /\ drainCrashes \in 0..DrainCrashes

WalInit ==
  /\ written = 0 /\ slotFrom = NoSlot /\ slot = NoSlot /\ spool = {} /\ archived = {}
  /\ drainAt = [d \in Drains |-> "idle"] /\ endpos = [d \in Drains |-> 0]
  /\ whole = {} /\ lastWal = 0 /\ stampedBy = "none" /\ walConfig = TRUE /\ drainCrashes = 0

DrainTo(d, step) == drainAt' = [drainAt EXCEPT ![d] = step]

\* The managed server completes a segment; what no slot retains, it recycles.
WriteSegment ==
  /\ written < MaxSegments /\ written' = written + 1
  /\ UNCHANGED <<slotFrom, slot, spool, archived, drainAt, endpos, results, walConfig, drainCrashes>>

\* The configuration is read, the spool directory is there or is made.
MkSpool(d) ==
  /\ walConfig /\ drainAt[d] = "idle" /\ DrainTo(d, "slot")
  /\ UNCHANGED <<written, slotFrom, slot, spool, archived, endpos, results, walConfig, drainCrashes>>

\* The slot is created if there is none; a failure is stamped too.
CreateSlot(d) ==
  /\ drainAt[d] = "slot"
  /\ \/ /\ DrainTo(d, "position")
        /\ slot' = IF slot = NoSlot THEN written ELSE slot
        /\ slotFrom' = IF slot = NoSlot THEN written ELSE slotFrom
     \/ DrainTo(d, "idle") /\ UNCHANGED <<slot, slotFrom>>
  /\ UNCHANGED <<written, spool, archived, endpos, results, walConfig, drainCrashes>>

ReadPosition(d) ==
  /\ drainAt[d] = "position"
  /\ \/ DrainTo(d, "receive") /\ endpos' = [endpos EXCEPT ![d] = written]
     \/ DrainTo(d, "idle") /\ UNCHANGED endpos
  /\ UNCHANGED <<written, slotFrom, slot, spool, archived, results, walConfig, drainCrashes>>

\* Faulty: a stream that broke counts as one that has reached the position.
ReceiveAnyhow(d) ==
  /\ drainAt[d] = "receive"
  /\ \E upto \in slot..endpos[d] \cup {slot} :
       /\ spool' = spool \cup slot..(upto - 1) /\ slot' = upto
       /\ DrainTo(d, "sync")
  /\ UNCHANGED <<written, slotFrom, archived, endpos, results, walConfig, drainCrashes>>

\* pg_receivewal from the slot: to the end, or to where the stream breaks (at once
\* when another drain is using the slot).
Receive(d) ==
  /\ drainAt[d] = "receive"
  /\ \E upto \in slot..endpos[d] \cup {slot} :
       /\ spool' = spool \cup slot..(upto - 1) /\ slot' = upto
       /\ DrainTo(d, "stamp") \/ (upto >= endpos[d] /\ DrainTo(d, "sync"))
  /\ UNCHANGED <<written, slotFrom, archived, endpos, results, walConfig, drainCrashes>>

\* rclone move: each segment is in the bucket before it leaves the spool, and it fails
\* when it has not moved them all.
WalSync(d) ==
  /\ drainAt[d] = "sync" /\ DrainTo(d, "stamp")
  /\ \E moved \in SUBSET spool :
       /\ spool' = spool \ moved /\ archived' = archived \cup moved
       /\ whole' = IF moved = spool THEN whole \cup {d} ELSE whole
  /\ UNCHANGED <<written, slotFrom, slot, endpos, lastWal, stampedBy, walConfig, drainCrashes>>

\* The position that was aimed at, however far the drain came.
StampWal(d) ==
  /\ drainAt[d] = "stamp" /\ DrainTo(d, "idle")
  /\ lastWal' = IF walConfig THEN endpos[d] ELSE lastWal
  /\ stampedBy' = IF ~walConfig THEN stampedBy ELSE IF d \in whole THEN "whole" ELSE "cut"
  /\ whole' = whole \ {d}
  /\ UNCHANGED <<written, slotFrom, slot, spool, archived, endpos, walConfig, drainCrashes>>

\* The row and the cron go; the slot stays on the server.
DeletePitrConfig ==
  /\ walConfig /\ walConfig' = FALSE
  /\ UNCHANGED <<written, slotFrom, slot, spool, archived, drainAt, endpos, results, drainCrashes>>

DrainsCrash ==
  /\ drainCrashes < DrainCrashes /\ drainCrashes' = drainCrashes + 1
  /\ drainAt' = [d \in Drains |-> "idle"] /\ whole' = {}
  /\ UNCHANGED <<written, slotFrom, slot, spool, archived, endpos, lastWal, stampedBy, walConfig>>

WalNext ==
  \/ WriteSegment \/ DeletePitrConfig \/ DrainsCrash
  \/ \E d \in Drains :
       MkSpool(d) \/ CreateSlot(d) \/ ReadPosition(d) \/ Receive(d) \/ WalSync(d) \/ StampWal(d)

WalSpec == WalInit /\ [][WalNext]_walVars

\* Of all that was written since the slot was made nothing is lost: it is in the
\* bucket, in the spool, or the server still retains it, whatever failed or died on
\* the way (services/backups.service.ts:434: "the slot guarantees no gap between runs").
NoWalGap ==
  \A s \in Segments : slotFrom <= s /\ s < written => s >= slot \/ s \in spool \cup archived

\* The LSN that a row records is one the archive reaches: every segment before it since the
\* slot was made is in the bucket, whatever drains ran beside the one that recorded it.  A
\* drain that fails after it has read the position records it too (wal.ts:72, 75), and the
\* row does not tell the two apart, although it is the "reached LSN" (backups.service.ts:435).
LsnIsArchived ==
  stampedBy = "whole" => \A s \in Segments : slotFrom <= s /\ s < lastWal => s \in archived

(***************************************************************************)
(* The restores: base and archived WAL are staged, the directory is handed *)
(* to the image's user, postgres replays and promotes, and the request polls *)
(* for that.  The staging directory and the container are the              *)
(* configuration's, not the restore's.  A base is the WAL position that it *)
(* was taken at.                                                           *)
(***************************************************************************)

CONSTANTS
  Restores,         \* bound: restores
  MaxWal,           \* bound: WAL positions
  MaxRestoreFaults  \* bound: commands that fail, deaths of the process

ASSUME PitrRestoreAssumption == MaxWal \in Nat \ {0} /\ MaxRestoreFaults \in Nat

VARIABLES
  asRoot,     \* the control plane runs as root, not as the unit's user
  walEnd,     \* the archive ends here
  bases,      \* base backups with a successful run
  restores,   \* the restores: where, base and target (0: the end of the archive), and the
              \* container that the answer was about
  staged,     \* what is in the staging directory, and whose files they are
  instance,   \* the container: what it was started with, and what became of it
  overlapped, \* restores beside which another one was under way
  restoreFaults

pitrVars == <<asRoot, walEnd, bases, restores, staged, instance, overlapped, restoreFaults>>

Positions  == 0..MaxWal
NoInstance == [state |-> "none", base |-> 0, reached |-> 0]
NoRestore  == [at |-> "none", base |-> 0, target |-> 0, got |-> NoInstance]
NoStaging  == [base |-> 0, wal |-> 0, target |-> 0, owner |-> "plane"]
Steps == {"base", "wal", "config", "chown", "remove", "run", "poll"}
Instance == [state : {"none", "replaying", "promoted", "exited"}, base : Positions, reached : Positions]

PitrTypeOK ==
  /\ asRoot \in BOOLEAN /\ walEnd \in Positions /\ bases \subseteq Positions \ {0}
  /\ restores \in [Restores -> [at : Steps \cup {"none", "stage", "ok", "failed"},
                                base : Positions, target : Positions, got : Instance]]
  /\ staged \in [base : Positions, wal : Positions, target : Positions, owner : {"plane", "postgres"}]
  /\ instance \in Instance
  /\ overlapped \subseteq Restores /\ restoreFaults \in 0..MaxRestoreFaults

PitrInit ==
  /\ asRoot \in BOOLEAN /\ walEnd = 1 /\ bases = {1}
  /\ restores = [r \in Restores |-> NoRestore] /\ staged = NoStaging /\ instance = NoInstance
  /\ overlapped = {} /\ restoreFaults = 0

InProgress(r) == restores[r].at \in Steps \cup {"stage"}
RestoreAt(r, at) == restores[r].at = at
RestoreTo(r, at) == restores' = [restores EXCEPT ![r].at = at]

\* Drains archive WAL, base backups are taken.
ArchiveGrows ==
  /\ walEnd < MaxWal /\ walEnd' = walEnd + 1
  /\ UNCHANGED <<asRoot, bases, restores, staged, instance, overlapped, restoreFaults>>

BaseBackupTaken ==
  /\ walEnd \notin bases /\ bases' = bases \cup {walEnd}
  /\ UNCHANGED <<asRoot, walEnd, restores, staged, instance, overlapped, restoreFaults>>

\* The run that is named, else the latest successful one, whatever the target.
PickBase(b, named) == b \in bases /\ (named \/ \A c \in bases : c <= b)

RestoreToInstance(r) ==
  /\ restores[r] = NoRestore
  /\ \E b \in bases, t \in Positions, named \in BOOLEAN :
       /\ PickBase(b, named)
       /\ restores' = [restores EXCEPT ![r] = [NoRestore EXCEPT !.at = "stage", !.base = b, !.target = t]]
  /\ overlapped' = IF \E s \in Restores : InProgress(s) THEN overlapped \cup {r} \cup {s \in Restores : InProgress(s)}
                   ELSE overlapped
  /\ UNCHANGED <<asRoot, walEnd, bases, staged, instance, restoreFaults>>

\* rm -rf: what an earlier restore handed to the image's user only root can remove.
StageFresh(r) ==
  /\ RestoreAt(r, "stage")
  /\ IF staged.owner = "plane" \/ asRoot
     THEN RestoreTo(r, "base") /\ staged' = NoStaging
     ELSE RestoreTo(r, "failed") /\ UNCHANGED staged
  /\ UNCHANGED <<asRoot, walEnd, bases, instance, overlapped, restoreFaults>>

\* The bundle, its version; the WAL; the settings and the signal; the owner.
RestoreBundle(r) ==
  /\ RestoreAt(r, "base") /\ RestoreTo(r, "wal") /\ staged' = [staged EXCEPT !.base = restores[r].base]
  /\ UNCHANGED <<asRoot, walEnd, bases, instance, overlapped, restoreFaults>>

StageWal(r) ==
  /\ RestoreAt(r, "wal") /\ RestoreTo(r, "config") /\ staged' = [staged EXCEPT !.wal = walEnd]
  /\ UNCHANGED <<asRoot, walEnd, bases, instance, overlapped, restoreFaults>>

WriteRecovery(r) ==
  /\ RestoreAt(r, "config") /\ RestoreTo(r, "chown") /\ staged' = [staged EXCEPT !.target = restores[r].target]
  /\ UNCHANGED <<asRoot, walEnd, bases, instance, overlapped, restoreFaults>>

ChownDir(r) ==
  /\ RestoreAt(r, "chown") /\ RestoreTo(r, "remove") /\ staged' = [staged EXCEPT !.owner = "postgres"]
  /\ UNCHANGED <<asRoot, walEnd, bases, instance, overlapped, restoreFaults>>

\* docker rm -f, whose result is not looked at ...
RemoveStale(r) ==
  /\ RestoreAt(r, "remove") /\ RestoreTo(r, "run")
  /\ \/ instance' = NoInstance /\ UNCHANGED restoreFaults
     \/ /\ restoreFaults < MaxRestoreFaults /\ restoreFaults' = restoreFaults + 1
        /\ UNCHANGED instance
  /\ UNCHANGED <<asRoot, walEnd, bases, staged, overlapped>>

\* ... since a name that is taken fails docker run.
RunInstance(r) ==
  /\ RestoreAt(r, "run")
  /\ IF instance # NoInstance THEN RestoreTo(r, "failed") /\ UNCHANGED instance
     ELSE RestoreTo(r, "poll") /\ instance' = [state |-> "replaying", base |-> staged.base, reached |-> staged.base]
  /\ UNCHANGED <<asRoot, walEnd, bases, staged, overlapped, restoreFaults>>

\* Outside: postgres promotes at its target or at the end of the WAL; a target before
\* the base or past the WAL, or a directory without a base, ends it.
PostgresReplays ==
  /\ instance.state = "replaying"
  /\ LET goal == IF staged.target = 0 THEN staged.wal ELSE staged.target IN
       instance' = IF staged.base = instance.base /\ instance.base # 0 /\ goal \in instance.base..staged.wal
                   THEN [instance EXCEPT !.state = "promoted", !.reached = goal]
                   ELSE [instance EXCEPT !.state = "exited"]
  /\ UNCHANGED <<asRoot, walEnd, bases, restores, staged, overlapped, restoreFaults>>

\* Two minutes of probes of whatever container has the name.
PollRecovered(r) ==
  /\ RestoreAt(r, "poll")
  /\ \/ /\ instance.state = "promoted"
        /\ restores' = [restores EXCEPT ![r].at = "ok", ![r].got = instance]
     \/ RestoreTo(r, "failed")
  /\ UNCHANGED <<asRoot, walEnd, bases, staged, instance, overlapped, restoreFaults>>

CommandFails(r) ==
  /\ restoreFaults < MaxRestoreFaults /\ restoreFaults' = restoreFaults + 1
  /\ InProgress(r) /\ ~RestoreAt(r, "remove") /\ RestoreTo(r, "failed")
  /\ UNCHANGED <<asRoot, walEnd, bases, staged, instance, overlapped>>

\* The command that is running dies with the control group of the unit.
PlaneDiesRestoring ==
  /\ restoreFaults < MaxRestoreFaults /\ restoreFaults' = restoreFaults + 1
  /\ restores' = [r \in Restores |-> IF InProgress(r) THEN [restores[r] EXCEPT !.at = "failed"] ELSE restores[r]]
  /\ UNCHANGED <<asRoot, walEnd, bases, staged, instance, overlapped>>

PitrNext ==
  \/ ArchiveGrows \/ BaseBackupTaken \/ PostgresReplays \/ PlaneDiesRestoring
  \/ \E r \in Restores :
       \/ RestoreToInstance(r) \/ StageFresh(r) \/ RestoreBundle(r) \/ StageWal(r) \/ WriteRecovery(r)
       \/ ChownDir(r) \/ RemoveStale(r) \/ RunInstance(r) \/ PollRecovered(r) \/ CommandFails(r)

PitrSpec == PitrInit /\ [][PitrNext]_pitrVars

(***************************************************************************)
(* Properties.                                                             *)
(***************************************************************************)

\* A restore that answers that it recovered answers of its own base and target, whatever
\* an earlier one left behind, while no other runs beside it ("a re-run replaces them",
\* backups.service.ts:642).
RecoveredAsAsked ==
  \A r \in Restores : RestoreAt(r, "ok") /\ r \notin overlapped =>
    /\ restores[r].got.base = restores[r].base
    /\ restores[r].target \in {0, restores[r].got.reached}
=============================================================================
