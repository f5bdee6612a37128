------------------------------ MODULE Backups -------------------------------
(***************************************************************************)
(* One backup configuration: a logical one dumps a database, a physical    *)
(* one takes base backups through a staging directory.  Cron and operators *)
(* start runs, which overlap; each uploads an object and prunes the        *)
(* prefix.  Runs are numbered as they begin; an object is the run that     *)
(* made it, since its name carries the time at which that run began.       *)
(***************************************************************************)
EXTENDS Naturals, FiniteSets

CONSTANTS
  MaxRuns,         \* bound: executions of the configuration
  KeepNewest,      \* keep_newest, the floor of the retention
  BackupCrashes    \* bound: crashes of the control plane

ASSUME BackupsAssumption == MaxRuns \in Nat /\ KeepNewest \in Nat \ {0} /\ BackupCrashes \in Nat

Runs  == 1..MaxRuns
NoRun == 0

VARIABLES
  runKind,      \* db_backup_configs.type
  config,    \* TRUE while its row exists
  begun,     \* the number of runs that have begun
  runRow,    \* db_backups.status of each run
  runAt,     \* where its executor is
  pruning,   \* the names that it still has to delete
  bucket,    \* the objects under the prefix
  truncated, \* runs whose dump or archive ended early, whatever the upload said
  aged,      \* runs that have left the calendar window
  dirOf,     \* the base backup whose files are in the staging directory
  unwritten, \* history: runs whose outcome was not written: the update of the row threw, or the
             \* process died under them
  restoring, \* the last answer to a restore into the live database: <<end, run>>
  backupCrashes

dataVars   == <<bucket, truncated, aged, dirOf>>
backupVars == <<runKind, config, begun, runRow, runAt, pruning, dataVars, unwritten, restoring, backupCrashes>>

RunSteps     == {"idle", "dump", "upload", "size", "list", "prune", "succeed", "fail"}
RestoreEnds  == {"idle", "recovered", "failed"}

\* db_backup_configs.type.
ConfigTypes == {"logical", "physical"}

BackupsTypeOK ==
  /\ runKind \in ConfigTypes /\ config \in BOOLEAN
  /\ begun \in 0..MaxRuns
  /\ runRow \in [Runs -> {"none", "running", "success", "failed", "gone"}]
  /\ runAt \in [Runs -> RunSteps] /\ pruning \in [Runs -> SUBSET Runs]
  /\ bucket \subseteq Runs /\ truncated \subseteq Runs /\ aged \subseteq Runs
  /\ dirOf \in Runs \cup {NoRun} /\ unwritten \subseteq Runs
  /\ restoring \in RestoreEnds \X (Runs \cup {NoRun})
  /\ backupCrashes \in 0..BackupCrashes

BackupsInit ==
  /\ runKind \in ConfigTypes /\ config = TRUE
  /\ begun = 0 /\ runRow = [r \in Runs |-> "none"] /\ runAt = [r \in Runs |-> "idle"]
  /\ pruning = [r \in Runs |-> {}] /\ bucket = {} /\ truncated = {} /\ aged = {}
  /\ dirOf = NoRun /\ unwritten = {} /\ restoring = <<"idle", NoRun>> /\ backupCrashes = 0

RunTo(r, step) == runAt' = [runAt EXCEPT ![r] = step]
Newer(r, set)  == {q \in set : q > r}

(***************************************************************************)
(* One run: runBackup.                                                     *)
(***************************************************************************)

\* The row; the command of a base backup begins by emptying the directory.
BeginRun(r) ==
  /\ config /\ r = begun + 1
  /\ begun' = r
  /\ runRow' = [runRow EXCEPT ![r] = "running"] /\ RunTo(r, "dump")
  /\ dirOf' = IF runKind = "physical" THEN r ELSE dirOf
  /\ UNCHANGED <<runKind, config, pruning, bucket, truncated, aged, unwritten, restoring, backupCrashes>>

\* pg_dump | gzip | rclone: the exit code is rclone's, so that a dump that dies
\* is uploaded as far as it came.
LogicalDump(r) ==
  /\ runKind = "logical" /\ runAt[r] = "dump" /\ RunTo(r, "upload")
  /\ truncated' \in {truncated, truncated \cup {r}}
  /\ UNCHANGED <<runKind, config, begun, runRow, pruning, bucket, aged, dirOf, unwritten, restoring, backupCrashes>>

\* pg_basebackup && tar | rclone: here a failure of the first does end the chain.
BaseBackup(r) ==
  /\ runKind = "physical" /\ runAt[r] = "dump"
  /\ RunTo(r, "upload") \/ RunTo(r, "fail")
  /\ UNCHANGED <<runKind, config, begun, runRow, pruning, dataVars, unwritten, restoring, backupCrashes>>

\* What tar finds in a directory that is another run's, or nobody's, is no backup.
Upload(r) ==
  /\ runAt[r] = "upload"
  /\ \/ /\ RunTo(r, "size") /\ bucket' = bucket \cup {r}
        /\ truncated' = IF runKind = "physical" /\ dirOf # r THEN truncated \cup {r} ELSE truncated
     \/ RunTo(r, "fail") /\ UNCHANGED <<bucket, truncated>>
  /\ UNCHANGED <<runKind, config, begun, runRow, pruning, aged, dirOf, unwritten, restoring, backupCrashes>>

\* The size is noted if it can be had.
ProbeSize(r) ==
  /\ runAt[r] = "size" /\ RunTo(r, "list")
  /\ UNCHANGED <<runKind, config, begun, runRow, pruning, dataVars, unwritten, restoring, backupCrashes>>

\* Faulty: one too few.
SelectBackupsToPruneOneMore(names) ==
  {r \in names : Cardinality(Newer(r, names)) + 1 >= KeepNewest /\ r \in aged}

\* The newest KeepNewest names are kept, and what is inside the window.
SelectBackupsToPrune(names) ==
  {r \in names : Cardinality(Newer(r, names)) >= KeepNewest /\ r \in aged}

\* A listing that fails leaves everything.
ListPrefix(r) ==
  /\ runAt[r] = "list" /\ RunTo(r, "prune")
  /\ pruning' \in {[pruning EXCEPT ![r] = SelectBackupsToPrune(bucket)], pruning}
  /\ UNCHANGED <<runKind, config, begun, runRow, dataVars, unwritten, restoring, backupCrashes>>

\* One object at a time, newest first; a deletion may fail.
Prune(r) ==
  /\ runAt[r] = "prune"
  /\ IF pruning[r] = {} THEN RunTo(r, "succeed") /\ UNCHANGED <<pruning, bucket>>
     ELSE \E n \in pruning[r] :
       /\ Newer(n, pruning[r]) = {}
       /\ bucket' \in {bucket \ {n}, bucket}
       /\ pruning' = [pruning EXCEPT ![r] = @ \ {n}]
       /\ UNCHANGED runAt
  /\ UNCHANGED <<runKind, config, begun, runRow, truncated, aged, dirOf, unwritten, restoring, backupCrashes>>


\* record.finish: no row if the configuration has taken it along; what the update throws is
\* swallowed, and the row stays "running".
RecordFinish(r) ==
  \/ /\ runRow' = [runRow EXCEPT ![r] =
          IF @ # "running" THEN @ ELSE IF runAt[r] = "succeed" THEN "success" ELSE "failed"]
     /\ UNCHANGED unwritten
  \/ UNCHANGED runRow /\ unwritten' = unwritten \cup {r}

\* Then the staging directory goes, whoever uses it by now.
FinishRun(r) ==
  /\ runAt[r] \in {"succeed", "fail"} /\ RunTo(r, "idle")
  /\ RecordFinish(r)
  /\ dirOf' = IF runKind = "physical" THEN NoRun ELSE dirOf
  /\ UNCHANGED <<runKind, config, begun, pruning, bucket, truncated, aged, restoring, backupCrashes>>

\* Time passes: the window is at least a day, a run at most half an hour.
Age(r) ==
  /\ r <= begun /\ runAt[r] = "idle" /\ r \notin aged
  /\ \A q \in Runs : q < r => q \in aged
  /\ aged' = aged \cup {r}
  /\ UNCHANGED <<runKind, config, begun, runRow, runAt, pruning, bucket, truncated, dirOf, unwritten, restoring, backupCrashes>>

(***************************************************************************)
(* Restores into the database, and what happens to the configuration.      *)
(***************************************************************************)

\* pg_restore --clean into the live database, of a run that succeeded.
RestoreBackupRun(r) ==
  /\ runKind = "logical" /\ config /\ runRow[r] = "success"
  /\ restoring' \in {<<"failed", r>>} \cup (IF r \in bucket \ truncated THEN {<<"recovered", r>>} ELSE {})
  /\ UNCHANGED <<runKind, config, begun, runRow, runAt, pruning, dataVars, unwritten, backupCrashes>>

\* The rows of the runs go with it, the runs themselves go on.
DeleteBackupConfig ==
  /\ config /\ config' = FALSE
  /\ runRow' = [r \in Runs |-> IF runRow[r] = "none" THEN "none" ELSE "gone"]
  /\ UNCHANGED <<runKind, begun, runAt, pruning, dataVars, unwritten, restoring, backupCrashes>>

BackupsCrash ==
  /\ backupCrashes < BackupCrashes /\ backupCrashes' = backupCrashes + 1
  /\ runAt' = [r \in Runs |-> "idle"] /\ pruning' = [r \in Runs |-> {}]
  /\ unwritten' = unwritten \cup {r \in Runs : runAt[r] # "idle"} /\ restoring' = <<"idle", NoRun>>
  /\ UNCHANGED <<runKind, config, begun, runRow, dataVars>>

RunStep(r) ==
  LogicalDump(r) \/ BaseBackup(r) \/ Upload(r) \/ ProbeSize(r) \/ ListPrefix(r) \/ Prune(r) \/ FinishRun(r)

BackupsNext ==
  \/ \E r \in Runs : BeginRun(r) \/ RunStep(r) \/ Age(r) \/ RestoreBackupRun(r)
  \/ DeleteBackupConfig \/ BackupsCrash

\* Each command of a run has a timeout.
BackupsFairness == \A r \in Runs : WF_backupVars(RunStep(r))

BackupsSpec == BackupsInit /\ [][BackupsNext]_backupVars /\ BackupsFairness

(***************************************************************************)
(* Properties.                                                             *)
(***************************************************************************)
Uploaded == {r \in Runs : runRow[r] = "success" \/ runAt[r] \in {"size", "list", "prune", "succeed"}}

\* However runs overlap, no prune takes one of the newest KeepNewest backups, nor
\* the one whose run is about to be recorded (backups/runner.ts:127-129: "the
\* just-uploaded file ... always survives").
RetentionKeeps == \A r \in Uploaded :
  Cardinality(Newer(r, Uploaded \cup bucket)) < KeepNewest \/ runAt[r] # "idle" => r \in bucket

\* A run that has begun is recorded as success or failed unless the process dies under it or
\* the database refuses the record (backups/runner.ts:20-21: "Never throws - failures land in
\* the row"; lines 75-79).
RunsEnd == \A r \in Runs : runRow[r] = "running" ~> runRow[r] # "running" \/ r \in unwritten
=============================================================================
