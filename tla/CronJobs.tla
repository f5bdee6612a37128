------------------------------ MODULE CronJobs -------------------------------
(***************************************************************************)
(* Scheduled jobs: the rows with their queues, cron entries and workers, and *)
(* the expressions that say when they are due.  The two share no variable. *)
(***************************************************************************)
EXTENDS Naturals, FiniteSets, Sequences

(***************************************************************************)
(* User cron on pg-boss: the schedules of an organization and the backup   *)
(* configurations, each with a queue, a cron entry and a worker of its own. *)
(* The rows, the entries and the jobs survive a restart; the workers are   *)
(* registered again at boot, while the API already answers.                *)
(***************************************************************************)

CONSTANTS
  Schedules,     \* scheduled jobs
  Configs,       \* backup configurations
  Busy,          \* bound: rows on which requests act and whose cron fires
  MaxRestarts    \* bound: deaths of the process from outside

ASSUME CronAssumption == Schedules \cap Configs = {} /\ Busy \subseteq Schedules \cup Configs /\ MaxRestarts \in Nat

Cron == Schedules \cup Configs

VARIABLES
  cronRow,     \* the row: absent, enabled, gone
  entry,       \* the cron entries of pg-boss
  worker,      \* queues that a worker of this process serves
  marked,      \* workersRegistered of this process
  syncAt,      \* the registration by the request that creates the row
  bootAt,      \* the boot: reading, or the rest of the rows it read
  bootRows,    \* rows that it has still to register
  bootJob,     \* the one it is registering, at most one
  refused,     \* rows whose registration has failed since this boot
  due,         \* jobs on the queues
  jobAt,       \* the job that a worker of the queue is running
  manualAt,    \* "run now"
  restarts

cronVars == <<cronRow, entry, worker, marked, syncAt, bootAt, bootRows, bootJob, refused, due, jobAt, manualAt, restarts>>

SyncSteps == {"none", "unschedule", "schedule", "work"}
CronRunSteps  == {"idle", "insert", "exec"}

\* Rows of scheduled_jobs and of db_backup_configs.
CronRow == {"absent", "enabled", "gone"}

CronTypeOK ==
  /\ cronRow \in [Cron -> CronRow]
  /\ entry \subseteq Cron /\ worker \subseteq marked /\ marked \subseteq Cron
  /\ syncAt \in [Cron -> SyncSteps]
  /\ bootAt \in {"reading", "unschedule", "schedule", "work", "next", "booted"}
  /\ bootRows \subseteq Cron /\ bootJob \subseteq Cron /\ refused \subseteq Cron /\ due \subseteq Cron
  /\ jobAt \in [Cron -> CronRunSteps] /\ manualAt \in [Cron -> CronRunSteps]
  /\ restarts \in 0..MaxRestarts

Volatile ==
  /\ worker' = {} /\ marked' = {} /\ refused' = {}
  /\ bootAt' = "reading" /\ bootRows' = {} /\ bootJob' = {}
  /\ syncAt' = [j \in Cron |-> "none"] /\ manualAt' = [j \in Cron |-> "idle"]
  /\ jobAt' = [j \in Cron |-> "idle"]

\* A process starts, with the rows and entries that earlier ones have left.
CronInit ==
  /\ cronRow \in [Cron -> {"absent", "enabled"}]
  /\ entry = {j \in Cron : cronRow[j] = "enabled"} /\ worker = {} /\ marked = {} /\ refused = {}
  /\ syncAt = [j \in Cron |-> "none"] /\ bootAt = "reading" /\ bootRows = {} /\ bootJob = {}
  /\ due = {} /\ jobAt = [j \in Cron |-> "idle"] /\ manualAt = [j \in Cron |-> "idle"]
  /\ restarts = 0

(***************************************************************************)
(* syncSchedule and syncBackupConfig: unschedule, schedule, register the   *)
(* worker once.  Each call of pg-boss may throw, also for a cron or a time *)
(* zone that a row has from before they were checked.                      *)
(***************************************************************************)
Unscheduled(j)  == entry' = entry \ {j} \/ UNCHANGED entry
Scheduled(j)    == entry' = entry \cup {j}
WorkerMarked(j) == marked' = marked \cup {j}
Working(j)      == worker' = worker \cup {j}

\* The request inserts the row and reads it again.
CreateCron(j) ==
  /\ cronRow[j] = "absent" /\ cronRow' = [cronRow EXCEPT ![j] = "enabled"]
  /\ syncAt' = [syncAt EXCEPT ![j] = "unschedule"]
  /\ UNCHANGED <<entry, worker, marked, bootAt, bootRows, bootJob, refused, due, jobAt, manualAt, restarts>>

SyncTo(j, from, to) == syncAt[j] = from /\ syncAt' = [syncAt EXCEPT ![j] = to]

SyncStep(j) ==
  /\ \/ SyncTo(j, "unschedule", "schedule") /\ Unscheduled(j) /\ UNCHANGED <<marked, worker>>
     \/ SyncTo(j, "schedule", "work") /\ Scheduled(j) /\ UNCHANGED <<marked, worker>>
     \/ /\ SyncTo(j, "work", "none") /\ UNCHANGED entry
        /\ WorkerMarked(j) /\ IF j \in marked THEN UNCHANGED worker ELSE Working(j)
  /\ UNCHANGED <<cronRow, bootAt, bootRows, bootJob, refused, due, jobAt, manualAt, restarts>>

\* The request logs what its registration threw, and answers 201.
SyncFails(j) ==
  /\ syncAt[j] \in {"schedule", "work"} /\ syncAt' = [syncAt EXCEPT ![j] = "none"]
  /\ refused' = refused \cup {j}
  /\ marked' = IF syncAt[j] = "work" THEN marked \cup {j} ELSE marked
  /\ UNCHANGED <<cronRow, entry, worker, bootAt, bootRows, bootJob, due, jobAt, manualAt, restarts>>

(***************************************************************************)
(* Boot.                                                                   *)
(***************************************************************************)
BootReads ==
  /\ bootAt = "reading" /\ bootAt' = "next"
  /\ bootRows' = {j \in Cron : cronRow[j] = "enabled"}
  /\ UNCHANGED <<cronRow, entry, worker, marked, syncAt, bootJob, refused, due, jobAt, manualAt, restarts>>

\* The schedules first, one after the other, then the configurations.
BootNext ==
  /\ bootAt = "next"
  /\ \/ bootRows = {} /\ bootAt' = "booted" /\ bootJob' = {} /\ UNCHANGED bootRows
     \/ \E j \in bootRows :
          /\ j \in Configs => bootRows \subseteq Configs
          /\ bootAt' = "unschedule" /\ bootJob' = {j} /\ bootRows' = bootRows \ {j}
  /\ UNCHANGED <<cronRow, entry, worker, marked, syncAt, refused, due, jobAt, manualAt, restarts>>

CronBootStep ==
  /\ \E j \in bootJob :
       \/ bootAt = "unschedule" /\ bootAt' = "schedule" /\ Unscheduled(j) /\ UNCHANGED <<marked, worker>>
       \/ bootAt = "schedule" /\ bootAt' = "work" /\ Scheduled(j) /\ UNCHANGED <<marked, worker>>
       \/ /\ bootAt = "work" /\ bootAt' = "next" /\ UNCHANGED entry
          /\ WorkerMarked(j) /\ IF j \in marked THEN UNCHANGED worker ELSE Working(j)
  /\ UNCHANGED <<cronRow, syncAt, bootRows, bootJob, refused, due, jobAt, manualAt, restarts>>

\* A schedule that throws is skipped; a configuration ends the loop.
BootFails ==
  /\ bootAt \in {"schedule", "work"} /\ bootAt' = "next"
  /\ bootRows' = IF bootJob \subseteq Schedules THEN bootRows ELSE {}
  /\ refused' = refused \cup bootJob
  /\ marked' = IF bootAt = "work" THEN marked \cup bootJob ELSE marked
  /\ UNCHANGED <<cronRow, entry, worker, syncAt, bootJob, due, jobAt, manualAt, restarts>>

(***************************************************************************)
(* Runs.                                                                   *)
(***************************************************************************)
CronFires(j) ==
  /\ j \in entry \ due /\ due' = due \cup {j}
  /\ UNCHANGED <<cronRow, entry, worker, marked, syncAt, bootAt, bootRows, bootJob, refused, jobAt, manualAt, restarts>>

JobTo(j, from, to) == jobAt[j] = from /\ jobAt' = [jobAt EXCEPT ![j] = to]

\* The worker of the queue takes the job and reads the row again.
WorkerRuns(j) ==
  /\ j \in worker \cap due /\ due' = due \ {j}
  /\ JobTo(j, "idle", IF cronRow[j] = "enabled" THEN "insert" ELSE "idle")
  /\ UNCHANGED <<cronRow, entry, worker, marked, syncAt, bootAt, bootRows, bootJob, refused, manualAt, restarts>>

\* The run's row; without its parent's the insert throws and the job is retried.
InsertRun(j) ==
  /\ IF cronRow[j] = "enabled"
     THEN /\ JobTo(j, "insert", "exec") /\ UNCHANGED due
     ELSE /\ JobTo(j, "insert", "idle") /\ due' = due \cup {j} 
  /\ UNCHANGED <<cronRow, entry, worker, marked, syncAt, bootAt, bootRows, bootJob, refused, manualAt, restarts>>

\* The command ends, or is stopped after ten minutes, and the run's row is settled;
\* a write that fails is swallowed.
RecordRun(j) ==
  /\ JobTo(j, "exec", "idle")
  /\ UNCHANGED <<cronRow, entry, worker, marked, syncAt, bootAt, bootRows, bootJob, refused, due, manualAt, restarts>>

RunNow(j) ==
  /\ cronRow[j] = "enabled" /\ manualAt[j] = "idle"
  /\ manualAt' = [manualAt EXCEPT ![j] = "insert"]
  /\ UNCHANGED <<cronRow, entry, worker, marked, syncAt, bootAt, bootRows, bootJob, refused, due, jobAt, restarts>>

\* The same run outside the queue.  Nobody awaits it: without the row its insert
\* is a rejection that nobody handles, and the process dies.
ManualStep(j) ==
  \/ /\ manualAt[j] = "insert" /\ cronRow[j] = "enabled"
     /\ manualAt' = [manualAt EXCEPT ![j] = "exec"]
     /\ UNCHANGED <<cronRow, entry, worker, marked, syncAt, bootAt, bootRows, bootJob, refused, due, jobAt, restarts>>
  \/ /\ manualAt[j] = "exec"
     /\ manualAt' = [manualAt EXCEPT ![j] = "idle"]
     /\ UNCHANGED <<cronRow, entry, worker, marked, syncAt, bootAt, bootRows, bootJob, refused, due, jobAt, restarts>>
  \/ /\ manualAt[j] = "insert" /\ cronRow[j] = "gone"
     /\ Volatile /\ due' = due \cup {k \in Cron : jobAt[k] # "idle"}
     /\ UNCHANGED <<cronRow, entry, restarts>>

\* The row goes, and its runs with it; the entry is removed afterwards.
DeleteCron(j) ==
  /\ cronRow[j] = "enabled" /\ cronRow' = [cronRow EXCEPT ![j] = "gone"]
  /\ Unscheduled(j)
  /\ UNCHANGED <<worker, marked, syncAt, bootAt, bootRows, bootJob, refused, due, jobAt, manualAt, restarts>>

\* The process dies and starts again; pg-boss retries what was under way.
CronRestart ==
  /\ restarts < MaxRestarts /\ restarts' = restarts + 1
  /\ Volatile /\ due' = due \cup {k \in Cron : jobAt[k] # "idle"}
  /\ UNCHANGED <<cronRow, entry>>

CronProgress == BootReads \/ BootNext \/ CronBootStep \/ BootFails

CronNext ==
  \/ CronProgress \/ CronRestart
  \/ \E j \in Busy : \/ CreateCron(j) \/ SyncStep(j) \/ SyncFails(j) \/ DeleteCron(j)
                     \/ CronFires(j) \/ WorkerRuns(j) \/ InsertRun(j) \/ RecordRun(j)
                     \/ RunNow(j) \/ ManualStep(j)

CronSpec == CronInit /\ [][CronNext]_cronVars

(***************************************************************************)
(* Properties.                                                             *)
(***************************************************************************)

\* Each row is isolated: when the boot is over, every schedule that exists, whose own
\* registration has not failed and is not under way, has its cron entry and its
\* worker, whatever the other rows threw and whatever requests did meanwhile
\* (schedules.service.ts:212-214).
BootIsolatesRows ==
  bootAt = "booted" =>
    \A j \in Schedules : cronRow[j] = "enabled" /\ j \notin refused /\ syncAt[j] = "none" =>
                           j \in entry /\ j \in worker

(***************************************************************************)
(* Cron expressions: which of them a schedule may be created with, and the *)
(* next minute one fires at, found minute by minute.  The calendar is a    *)
(* small one of the same shape: minutes, hours, days of months of several  *)
(* lengths, and a week whose first day has two numbers.                    *)
(***************************************************************************)

CONSTANTS
  MinutesPerHour, HoursPerDay, DaysPerWeek,
  MonthDays, \* the days of each month of the years between two that are leap; the cycle repeats
  MonthsPerYear,
  Year,      \* minutes that are looked at, 366 days in the code
  Horizon    \* bound: minutes that are asked about

ASSUME CronExprAssumption ==
  /\ {MinutesPerHour, HoursPerDay, DaysPerWeek, MonthsPerYear, Year} \subseteq Nat \ {0} /\ Horizon \in Nat
  /\ MonthDays \in Seq(Nat \ {0}) /\ MonthDays # <<>>

VARIABLES
  expr,  \* the fields of the expression: minute, hour, day of month, month, day of week
  after, \* the minute that is asked about
  cursor, \* the minute that is looked at
  nextRun \* searching, the minute that was found, none within the year, or malformed

cronExprVars == <<expr, after, cursor, nextRun>>

(***************************************************************************)
(* The calendar.  Minute 0 is the start of a month and of a week.          *)
(***************************************************************************)
DayOf(t)     == t \div (MinutesPerHour * HoursPerDay)
MinuteIn(t)  == t % MinutesPerHour
HourIn(t)    == (t \div MinutesPerHour) % HoursPerDay
Weekday(t)   == DayOf(t) % DaysPerWeek
MonthStart[i \in 1..Len(MonthDays) + 1] == IF i = 1 THEN 0 ELSE MonthStart[i - 1] + MonthDays[i - 1]
DayInCycle(t) == DayOf(t) % MonthStart[Len(MonthDays) + 1]
MonthInCycle(t) ==
  CHOOSE i \in 1..Len(MonthDays) : MonthStart[i] <= DayInCycle(t) /\ DayInCycle(t) < MonthStart[i + 1]
MonthDay(t)  == DayInCycle(t) - MonthStart[MonthInCycle(t)] + 1
Month(t)     == ((MonthInCycle(t) - 1) % MonthsPerYear) + 1

LongestMonth == CHOOSE d \in {MonthDays[i] : i \in DOMAIN MonthDays} : \A i \in DOMAIN MonthDays : MonthDays[i] <= d
FieldRange == << <<0, MinutesPerHour - 1>>, <<0, HoursPerDay - 1>>, <<1, LongestMonth>>,
                 <<1, MonthsPerYear>>, <<0, DaysPerWeek>> >>

(***************************************************************************)
(* Expressions: a field is a list of parts, "*", a number or a range, each *)
(* with a step.                                                            *)
(***************************************************************************)
Star == [kind |-> "star", lo |-> 0, hi |-> 0, step |-> 1]
EveryNth(n)    == [kind |-> "star", lo |-> 0, hi |-> 0, step |-> n]
Span(lo, hi, n) == [kind |-> "span", lo |-> lo, hi |-> hi, step |-> n]

\* Bound: the fields that are tried, some of them malformed.
FieldForms == <<
  {<<Star>>, <<EveryNth(2)>>, <<Span(1, 1, 1)>>},
  {<<Star>>, <<Span(HoursPerDay, HoursPerDay, 1)>>, <<Span(1, 1, 1)>>},
  {<<Star>>, <<EveryNth(1)>>, <<Span(2, 2, 1)>>, <<Span(1, 1, 1), Span(3, 3, 1)>>, <<Span(3, 3, 1)>>},
  {<<Star>>, <<Span(2, 2, 1)>>, <<Span(2, 1, 1)>>},
  {<<Star>>, <<Span(DaysPerWeek, DaysPerWeek, 1)>>, <<Span(0, 1, 1)>>, <<EveryNth(0)>>, <<Span(1, 1, 1)>>} >>

Exprs == {e \in [1..5 -> UNION {FieldForms[i] : i \in 1..5}] : \A i \in 1..5 : e[i] \in FieldForms[i]}

Low(p, range)  == IF p.kind = "star" THEN range[1] ELSE p.lo
High(p, range) == IF p.kind = "star" THEN range[2] ELSE p.hi
WellFormed(p, range) ==
  p.step >= 1 /\ Low(p, range) >= range[1] /\ High(p, range) <= range[2] /\ Low(p, range) <= High(p, range)

\* The values of a field, none when it is malformed.
CronField(f, range) ==
  IF \E i \in DOMAIN f : ~WellFormed(f[i], range) THEN {}
  ELSE UNION {{v \in Low(f[i], range)..High(f[i], range) : (v - Low(f[i], range)) % f[i].step = 0} : i \in DOMAIN f}

IsValidCron(e) == \A i \in 1..5 : CronField(e[i], FieldRange[i]) # {}

CronExprInit ==
  /\ expr \in Exprs /\ after \in 0..Horizon /\ cursor = after + 1
  /\ nextRun = IF IsValidCron(expr) THEN [at |-> "searching", t |-> 0] ELSE [at |-> "malformed", t |-> 0]

\* A day matches either of day-of-month and day-of-week when both are restricted.
DayMatches(e, t) ==
  LET days     == CronField(e[3], FieldRange[3])
      weekdays == CronField(e[5], FieldRange[5])
      dowMatch == Weekday(t) \in weekdays \/ (Weekday(t) = 0 /\ DaysPerWeek \in weekdays) IN
  IF e[3] # <<Star>> /\ e[5] # <<Star>> THEN MonthDay(t) \in days \/ dowMatch
  ELSE MonthDay(t) \in days /\ dowMatch

\* One turn of the loop.
LookAtMinute ==
  /\ nextRun.at = "searching" /\ cursor <= after + Year
  /\ IF /\ MinuteIn(cursor) \in CronField(expr[1], FieldRange[1])
        /\ HourIn(cursor) \in CronField(expr[2], FieldRange[2])
        /\ Month(cursor) \in CronField(expr[4], FieldRange[4])
        /\ DayMatches(expr, cursor)
     THEN nextRun' = [at |-> "found", t |-> cursor] /\ cursor' = cursor
     ELSE cursor' = cursor + 1 /\ nextRun' = nextRun
  /\ UNCHANGED <<expr, after>>

GiveUp ==
  /\ nextRun.at = "searching" /\ cursor > after + Year /\ nextRun' = [at |-> "none", t |-> 0]
  /\ UNCHANGED <<expr, after, cursor>>

CronExprNext == LookAtMinute \/ GiveUp

\* What the list of configurations says of the next run.
NextRunShown == {"searching", "found", "none", "malformed"}

CronExprTypeOK ==
  /\ after \in 0..Horizon /\ cursor \in after + 1..after + Year + 1
  /\ nextRun.at \in NextRunShown /\ nextRun.t \in 0..Horizon + Year

(***************************************************************************)
(* What the fields say, part by part (crontab).                            *)
(***************************************************************************)
Says(f, range, v) ==
  \E i \in DOMAIN f : \E k \in 0..range[2] :
    v = Low(f[i], range) + k * f[i].step /\ v <= High(f[i], range)

Fires(e, t) ==
  LET dom == Says(e[3], FieldRange[3], MonthDay(t))
      dow == \E w \in 0..DaysPerWeek : w % DaysPerWeek = Weekday(t) /\ Says(e[5], FieldRange[5], w) IN
  /\ Says(e[1], FieldRange[1], MinuteIn(t)) /\ Says(e[2], FieldRange[2], HourIn(t))
  /\ Says(e[4], FieldRange[4], Month(t))
  /\ IF e[3] = <<Star>> THEN dow ELSE IF e[5] = <<Star>> THEN dom ELSE dom \/ dow

\* The minute that is shown as the next run is the first after the one asked about at which
\* the expression fires, and none is shown only if the year that follows has none
\* (schedules/core.ts:72-75): so it is for a day that is in leap years only, most of the
\* time, although the expression is accepted and fires in the end.
NextRunIsFirst ==
  /\ nextRun.at = "found" => nextRun.t > after /\ Fires(expr, nextRun.t)
  /\ nextRun.at # "malformed" => \A t \in after + 1..cursor - 1 : ~Fires(expr, t)
  /\ nextRun.at = "none" => cursor = after + Year + 1
=============================================================================
