---------------------------- MODULE WritesProofs ----------------------------
(***************************************************************************)
(* Proofs about writes that belong together: the variables of a PUT, a     *)
(* batch of edits in the studio and on its page, the rows of a             *)
(* conversation; for every set of requests, profiles, tables and turns.    *)
(***************************************************************************)
EXTENDS MCTenants, TLAPS, FiniteSetTheorems, SequenceTheorems, WellFoundedInduction

(***************************************************************************)
(* The configuration of an application: what is committed, what a deletion *)
(* saw or removes, and what a deploy reads has of every PUT all or none.   *)
(***************************************************************************)
WriteState ==
  [op : {"none", "put", "patch"}, keys : SUBSET EnvKeys, keep : BOOLEAN, field : Fields \cup {"none"},
   at : {"none", "read", "delete", "removing", "insert", "commit", "update", "done", "refused"},
   prev : SUBSET EnvRow, saw : SUBSET EnvRow, gone : SUBSET EnvRow, merged : BuildConfig]

ConfigTyped ==
  /\ appRow \in BOOLEAN /\ container \in BOOLEAN
  /\ env \in SUBSET EnvRow /\ build \in BuildConfig
  /\ deploying \in [at : {"idle", "resolve", "run", "row"}, env : SUBSET EnvRow]
  /\ writes \in [Writes -> WriteState]

\* A secret that is kept has been read.
KeptIsRead ==
  \A w \in Writes : writes[w].keep /\ writes[w].at \in {"delete", "removing", "insert", "commit"} => writes[w].prev # {}

AllOrNone(S) ==
  \A w \in Writes : (\A r \in S : r.by # w) \/ (writes[w].at = "done" /\ {r \in S : r.by = w} = RowsOf(w))

ConfigInv ==
  /\ ConfigTyped /\ KeptIsRead
  /\ AllOrNone(env) /\ AllOrNone(deploying.env)
  /\ \A w \in Writes : AllOrNone(writes[w].saw) /\ AllOrNone(writes[w].gone)

LEMMA NothingIsWhole == AllOrNone({})
BY DEF AllOrNone

LEMMA WholeSets ==
  ASSUME NEW S, NEW T, AllOrNone(S), AllOrNone(T) PROVE AllOrNone(S \cap T) /\ AllOrNone(S \ T)
<1> SUFFICES ASSUME NEW w \in Writes
             PROVE  /\ (\A r \in S \cap T : r.by # w) \/ (writes[w].at = "done" /\ {r \in S \cap T : r.by = w} = RowsOf(w))
                    /\ (\A r \in S \ T : r.by # w) \/ (writes[w].at = "done" /\ {r \in S \ T : r.by = w} = RowsOf(w))
  BY DEF AllOrNone
<1>1. /\ (\A r \in S : r.by # w) \/ (writes[w].at = "done" /\ {r \in S : r.by = w} = RowsOf(w))
      /\ (\A r \in T : r.by # w) \/ (writes[w].at = "done" /\ {r \in T : r.by = w} = RowsOf(w))
  BY DEF AllOrNone
<1> DEFINE R == RowsOf(w)
<1> HIDE DEF R
<1>2. /\ (\A r \in S : r.by # w) \/ (writes[w].at = "done" /\ {r \in S : r.by = w} = R)
      /\ (\A r \in T : r.by # w) \/ (writes[w].at = "done" /\ {r \in T : r.by = w} = R)
  BY <1>1 DEF R
<1>3. (\A r \in S \cap T : r.by # w) \/ (writes[w].at = "done" /\ {r \in S \cap T : r.by = w} = R)
  BY <1>2
<1>4. (\A r \in S \ T : r.by # w) \/ (writes[w].at = "done" /\ {r \in S \ T : r.by = w} = R)
  BY <1>2
<1> QED
  BY <1>3, <1>4 DEF R

\* A write that is done is over: nothing about it changes.
LEMMA WholeStays ==
  ASSUME NEW S, AllOrNone(S), \A w \in Writes : writes[w].at = "done" => writes'[w] = writes[w]
  PROVE  AllOrNone(S)'
BY DEF AllOrNone, RowsOf

LEMMA ConfigStarts == AppConfigInit => ConfigInv
<1> SUFFICES ASSUME AppConfigInit PROVE ConfigInv
  OBVIOUS
<1>1. NotBegun \in WriteState
  BY DEF NotBegun, WriteState, BuildConfig
<1> QED
  BY <1>1, NothingIsWhole DEF AppConfigInit, ConfigInv, ConfigTyped, KeptIsRead, BuildConfig, NotBegun

\* The deploy and the deletion of the application.
LEMMA ConfigRead ==
  ASSUME ConfigInv, UNCHANGED writes, build' = build, appRow' \in BOOLEAN, container' \in BOOLEAN, env' = env \/ env' = {},
         deploying' \in [at : {"idle", "resolve", "run", "row"}, env : {deploying.env, env, {}}]
  PROVE  ConfigInv'
<1>1. /\ ConfigTyped /\ AllOrNone(env) /\ AllOrNone(deploying.env)
      /\ deploying'.env = deploying.env \/ deploying'.env = env \/ deploying'.env = {}
  BY DEF ConfigInv
<1>2. ConfigTyped'
  BY <1>1 DEF ConfigTyped
<1>3. AllOrNone(env)' /\ AllOrNone(deploying.env)'
  <2>1. AllOrNone(env') /\ AllOrNone(deploying'.env)
    BY <1>1, NothingIsWhole
  <2> QED
    BY <2>1 DEF AllOrNone, RowsOf
<1>4. ASSUME NEW w \in Writes PROVE AllOrNone(writes[w].saw)' /\ AllOrNone(writes[w].gone)'
  BY DEF ConfigInv, AllOrNone, RowsOf
<1> QED
  BY <1>2, <1>3, <1>4 DEF ConfigInv, KeptIsRead

\* A write goes on.
LEMMA WriteGoesOn ==
  ASSUME ConfigInv, NEW w \in Writes, writes[w].at # "done", NEW next \in WriteState,
         writes' = [writes EXCEPT ![w] = next], UNCHANGED <<appRow, env, deploying, container>>, build' \in BuildConfig,
         AllOrNone(next.saw), AllOrNone(next.gone),
         next.keep /\ next.at \in {"delete", "removing", "insert", "commit"} => next.prev # {}
  PROVE  ConfigInv'
<1>1. ConfigTyped /\ ConfigTyped'
  BY DEF ConfigInv, ConfigTyped
<1>2. writes'[w] = next /\ \A v \in Writes \ {w} : writes'[v] = writes[v]
  BY <1>1 DEF ConfigTyped
<1>3. \A v \in Writes : writes[v].at = "done" => writes'[v] = writes[v]
  BY <1>2
<1>4. AllOrNone(env)' /\ AllOrNone(deploying.env)'
  <2>1. AllOrNone(env) /\ AllOrNone(deploying.env)
    BY DEF ConfigInv
  <2> QED
    BY <1>3, <2>1 DEF AllOrNone, RowsOf
<1>5. ASSUME NEW v \in Writes PROVE AllOrNone(writes[v].saw)' /\ AllOrNone(writes[v].gone)'
  <2>1. AllOrNone(writes'[v].saw) /\ AllOrNone(writes'[v].gone)
    BY <1>2 DEF ConfigInv
  <2> QED
    BY <1>3, <2>1 DEF AllOrNone, RowsOf
<1> QED
  BY <1>1, <1>2, <1>4, <1>5 DEF ConfigInv, KeptIsRead

LEMMA RowsOfTyped ==
  ASSUME ConfigInv, NEW w \in Writes, writes[w].at = "commit" PROVE RowsOf(w) \in SUBSET EnvRow
<1> SUFFICES ASSUME NEW k \in writes[w].keys
             PROVE  [key |-> k, by |-> w, of |-> IF k = Secret /\ writes[w].keep
                                                 THEN (CHOOSE r \in writes[w].prev : TRUE).of ELSE w] \in EnvRow
  BY DEF RowsOf
<1>1. k \in EnvKeys /\ writes[w].prev \subseteq EnvRow
  BY DEF ConfigInv, ConfigTyped, WriteState
<1>2. CASE k = Secret /\ writes[w].keep
  <2>1. \E r \in writes[w].prev : TRUE
    BY <1>2 DEF ConfigInv, KeptIsRead
  <2>2. (CHOOSE r \in writes[w].prev : TRUE) \in EnvRow
    BY <1>1, <2>1
  <2> QED
    BY <1>1, <1>2, <2>2 DEF EnvRow
<1>3. CASE ~(k = Secret /\ writes[w].keep)
  BY <1>1, <1>3 DEF EnvRow
<1> QED
  BY <1>2, <1>3

LEMMA PutCommits == ASSUME ConfigInv, NEW w \in Writes, CommitEnv(w) PROVE ConfigInv'
<1>1. /\ writes[w].at = "commit" /\ writes' = [writes EXCEPT ![w].at = "done"] /\ env' = (env \ writes[w].gone) \cup RowsOf(w)
      /\ UNCHANGED <<appRow, build, deploying, container>>
  BY DEF CommitEnv, WriteAt, WriteTo
<1>2. ConfigTyped'
  <2>1. writes' \in [Writes -> WriteState]
    BY <1>1 DEF ConfigInv, ConfigTyped, WriteState
  <2>2. env' \in SUBSET EnvRow
    BY <1>1, RowsOfTyped DEF ConfigInv, ConfigTyped
  <2> QED
    BY <1>1, <2>1, <2>2 DEF ConfigInv, ConfigTyped
<1>3. /\ \A v \in Writes : writes[v].at = "done" => writes'[v] = writes[v] /\ v # w
      /\ writes'[w].at = "done" /\ RowsOf(w)' = RowsOf(w)
      /\ \A v \in Writes : /\ writes'[v].saw = writes[v].saw /\ writes'[v].gone = writes[v].gone
                           /\ writes'[v].keep = writes[v].keep /\ writes'[v].prev = writes[v].prev
                           /\ v # w => writes'[v].at = writes[v].at
  <2>1. writes \in [Writes -> WriteState]
    BY DEF ConfigInv, ConfigTyped
  <2>2. /\ writes'[w].keys = writes[w].keys /\ writes'[w].keep = writes[w].keep /\ writes'[w].prev = writes[w].prev
        /\ writes'[w].at = "done"
    BY <1>1, <2>1 DEF WriteState
  <2>3. RowsOf(w)' = RowsOf(w)
    BY <2>2 DEF RowsOf
  <2> QED
    BY <1>1, <2>1, <2>2, <2>3 DEF WriteState
<1>4. AllOrNone(env)'
  <2>1. AllOrNone(env \ writes[w].gone)
    BY WholeSets DEF ConfigInv
  <2> SUFFICES ASSUME NEW v \in Writes
               PROVE  (\A r \in env' : r.by # v) \/ (writes'[v].at = "done" /\ {r \in env' : r.by = v} = RowsOf(v)')
    BY DEF AllOrNone
  <2> DEFINE left == env \ writes[w].gone
  <2>2. \A r \in RowsOf(w) : r.by = w
    BY DEF RowsOf
  <2>3. (\A r \in left : r.by # v) \/ (writes[v].at = "done" /\ {r \in left : r.by = v} = RowsOf(v))
    BY <2>1 DEF AllOrNone
  <2>4. env' = left \cup RowsOf(w)
    BY <1>1
  <2> HIDE DEF left
  <2>5. CASE v = w
    <3>1. \A r \in left : r.by # w
      BY <1>1, <2>3, <2>5
    <3> DEFINE R == RowsOf(w)
    <3>2. R = RowsOf(w)' /\ env' = left \cup R /\ \A r \in R : r.by = w
      BY <1>3, <2>2, <2>4
    <3> HIDE DEF R
    <3>3. {r \in env' : r.by = w} = R
      BY <3>1, <3>2
    <3> QED
      BY <1>3, <2>5, <3>2, <3>3
  <2>6. CASE v # w
    <3>1. {r \in env' : r.by = v} = {r \in left : r.by = v}
      BY <2>2, <2>4, <2>6
    <3>2. writes[v].at = "done" => writes'[v] = writes[v] /\ RowsOf(v)' = RowsOf(v)
      BY <1>3 DEF RowsOf
    <3>3. CASE \A r \in left : r.by # v
      BY <2>2, <2>4, <2>6, <3>3
    <3>4. CASE writes[v].at = "done" /\ {r \in left : r.by = v} = RowsOf(v)
      BY <3>1, <3>2, <3>4
    <3> QED
      BY <2>3, <3>3, <3>4
  <2> QED
    BY <2>5, <2>6
<1>5. AllOrNone(deploying.env)'
  <2>1. AllOrNone(deploying.env)
    BY DEF ConfigInv
  <2> QED
    BY <1>1, <1>3, <2>1 DEF AllOrNone, RowsOf
<1>6. ASSUME NEW v \in Writes PROVE AllOrNone(writes[v].saw)' /\ AllOrNone(writes[v].gone)'
  <2>1. AllOrNone(writes'[v].saw) /\ AllOrNone(writes'[v].gone)
    BY <1>3 DEF ConfigInv
  <2> QED
    BY <1>3, <2>1 DEF AllOrNone, RowsOf
<1>7. KeptIsRead'
  BY <1>3 DEF ConfigInv, KeptIsRead
<1> QED
  BY <1>2, <1>4, <1>5, <1>6, <1>7 DEF ConfigInv

LEMMA ConfigHolds == ASSUME ConfigInv, [AppConfigNext]_appConfigVars PROVE ConfigInv'
<1>0. /\ ConfigTyped /\ writes \in [Writes -> WriteState] /\ AllOrNone(env)
      /\ \A w \in Writes : /\ AllOrNone(writes[w].saw) /\ AllOrNone(writes[w].gone) /\ writes[w] \in WriteState
                           /\ writes[w].keep /\ writes[w].at \in {"delete", "removing", "insert", "commit"} => writes[w].prev # {}
  BY DEF ConfigInv, ConfigTyped, KeptIsRead
<1>1. ASSUME NEW w \in Writes, SetEnv(w) \/ UpdateApp(w) PROVE ConfigInv'
  <2>1. NotBegun \in WriteState /\ writes[w] = NotBegun /\ writes[w].at # "done"
    <3>1. NotBegun \in WriteState /\ NotBegun.at = "none"
      BY DEF NotBegun, WriteState, BuildConfig
    <3>2. writes[w] = NotBegun
      BY <1>1 DEF SetEnv, UpdateApp
    <3> QED
      BY <3>1, <3>2
  <2>2. CASE SetEnv(w)
    <3>1. PICK ks \in SUBSET EnvKeys, keep \in BOOLEAN :
            writes' = [writes EXCEPT ![w] = [NotBegun EXCEPT !.op = "put", !.at = "read", !.keys = ks, !.keep = keep]]
      BY <2>2 DEF SetEnv
    <3> DEFINE next == [NotBegun EXCEPT !.op = "put", !.at = "read", !.keys = ks, !.keep = keep]
    <3>2. next \in WriteState /\ next.saw = {} /\ next.gone = {} /\ next.at = "read"
      BY <2>1 DEF NotBegun, WriteState
    <3>3. /\ writes' = [writes EXCEPT ![w] = next] /\ UNCHANGED <<appRow, env, deploying, container>> /\ build' \in BuildConfig
      BY <1>0, <2>2, <3>1 DEF SetEnv, ConfigTyped
    <3> HIDE DEF next
    <3> QED
      BY <2>1, <3>2, <3>3, NothingIsWhole, WriteGoesOn
  <2>3. CASE UpdateApp(w)
    <3>1. PICK f \in Fields :
            writes' = [writes EXCEPT ![w] = [NotBegun EXCEPT !.op = "patch", !.at = "update", !.field = f,
                                                             !.merged = [build EXCEPT ![f] = w]]]
      BY <2>3 DEF UpdateApp
    <3> DEFINE next == [NotBegun EXCEPT !.op = "patch", !.at = "update", !.field = f, !.merged = [build EXCEPT ![f] = w]]
    <3>2. next \in WriteState /\ next.saw = {} /\ next.gone = {} /\ next.at = "update"
      BY <1>0, <2>1 DEF NotBegun, WriteState, ConfigTyped, BuildConfig
    <3>3. /\ writes' = [writes EXCEPT ![w] = next] /\ UNCHANGED <<appRow, env, deploying, container>> /\ build' \in BuildConfig
      BY <1>0, <2>3, <3>1 DEF UpdateApp, ConfigTyped
    <3> HIDE DEF next
    <3> QED
      BY <2>1, <3>2, <3>3, NothingIsWhole, WriteGoesOn
  <2> QED
    BY <1>1, <2>2, <2>3
<1>2. ASSUME NEW w \in Writes, ReadExisting(w) PROVE ConfigInv'
  <2> DEFINE next == [writes[w] EXCEPT !.prev = {r \in env : r.key = Secret},
                        !.at = IF writes[w].keep /\ ~\E r \in env : r.key = Secret THEN "refused" ELSE "delete"]
  <2>1. next \in WriteState /\ next.saw = writes[w].saw /\ next.gone = writes[w].gone
        /\ (next.keep /\ next.at \in {"delete", "removing", "insert", "commit"} => next.prev # {})
    BY <1>0 DEF ConfigTyped, WriteState
  <2>2. /\ writes[w].at # "done" /\ writes' = [writes EXCEPT ![w] = next]
        /\ UNCHANGED <<appRow, env, deploying, container>> /\ build' \in BuildConfig
    BY <1>0, <1>2 DEF ReadExisting, WriteAt, ConfigTyped
  <2> HIDE DEF next
  <2> QED
    BY <1>0, <2>1, <2>2, WriteGoesOn
<1>3. ASSUME NEW w \in Writes, DeleteBegins(w) PROVE ConfigInv'
  <2> DEFINE next == [writes[w] EXCEPT !.at = "removing", !.saw = env]
  <2>1. next \in WriteState /\ next.saw = env /\ next.gone = writes[w].gone /\ next.prev = writes[w].prev /\ next.keep = writes[w].keep
    BY <1>0 DEF ConfigTyped, WriteState
  <2>2. /\ writes[w].at = "delete" /\ writes' = [writes EXCEPT ![w] = next]
        /\ UNCHANGED <<appRow, env, deploying, container>> /\ build' \in BuildConfig
    BY <1>0, <1>3 DEF DeleteBegins, WriteAt, ConfigTyped
  <2> HIDE DEF next
  <2> QED
    BY <1>0, <2>1, <2>2, WriteGoesOn
<1>4. ASSUME NEW w \in Writes, DeleteEnds(w) PROVE ConfigInv'
  <2> DEFINE next == [writes[w] EXCEPT !.at = "insert", !.gone = writes[w].saw \cap env]
  <2>1. next \in WriteState /\ next.saw = writes[w].saw /\ next.gone = writes[w].saw \cap env /\ next.prev = writes[w].prev /\ next.keep = writes[w].keep
    BY <1>0 DEF ConfigTyped, WriteState
  <2>2. /\ writes[w].at = "removing" /\ writes' = [writes EXCEPT ![w] = next]
        /\ UNCHANGED <<appRow, env, deploying, container>> /\ build' \in BuildConfig
    BY <1>0, <1>4 DEF DeleteEnds, WriteAt, ConfigTyped
  <2>3. AllOrNone(writes[w].saw \cap env)
    BY <1>0, WholeSets
  <2> HIDE DEF next
  <2> QED
    BY <1>0, <2>1, <2>2, <2>3, WriteGoesOn
<1>5. ASSUME NEW w \in Writes, InsertEnv(w) \/ WriteDies(w) \/ UpdateRow(w) PROVE ConfigInv'
  <2>1. PICK at \in {"refused", "commit", "done"} :
          /\ writes' = [writes EXCEPT ![w].at = at]
          /\ at = "commit" => writes[w].at = "insert"
    BY <1>5 DEF InsertEnv, WriteDies, UpdateRow, WriteTo, WriteAt
  <2> DEFINE next == [writes[w] EXCEPT !.at = at]
  <2>2. /\ next \in WriteState /\ next.saw = writes[w].saw /\ next.gone = writes[w].gone /\ next.prev = writes[w].prev
        /\ next.keep = writes[w].keep /\ next.at = at
    BY <1>0 DEF WriteState
  <2>3. /\ writes[w].at # "done" /\ writes' = [writes EXCEPT ![w] = next]
        /\ UNCHANGED <<appRow, env, deploying, container>> /\ build' \in BuildConfig
    <3>1. writes[w].merged \in BuildConfig /\ build \in BuildConfig
      BY <1>0 DEF WriteState, ConfigTyped
    <3> QED
      BY <1>5, <2>1, <3>1 DEF InsertEnv, WriteDies, UpdateRow, WriteAt
  <2> HIDE DEF next
  <2> QED
    BY <1>0, <2>1, <2>2, <2>3, WriteGoesOn
<1>6. CASE DeployBegins \/ ResolveDeployEnv \/ RunContainer \/ ConfigDeployEnds \/ DeleteApp \/ RemoveAppContainers
  <2>1. /\ UNCHANGED writes /\ build' = build /\ appRow' \in BOOLEAN /\ container' \in BOOLEAN /\ (env' = env \/ env' = {})
        /\ deploying' \in [at : {"idle", "resolve", "run", "row"}, env : {deploying.env, env, {}}]
    <3> DEFINE next == [at : {"idle", "resolve", "run", "row"}, env : {deploying.env, env, {}}]
    <3>1. deploying \in next /\ deploying \in [at : {"idle", "resolve", "run", "row"}, env : SUBSET EnvRow]
      BY <1>0 DEF ConfigTyped
    <3>2. [at |-> "resolve", env |-> {}] \in next /\ [at |-> "run", env |-> env] \in next
      OBVIOUS
    <3>3. \A at \in {"idle", "row"} : [deploying EXCEPT !.at = at] \in next
      BY <3>1
    <3>4. deploying' \in {deploying, [at |-> "resolve", env |-> {}], [at |-> "run", env |-> env],
                         [deploying EXCEPT !.at = "idle"], [deploying EXCEPT !.at = "row"]}
      BY <1>6 DEF DeployBegins, ResolveDeployEnv, RunContainer, ConfigDeployEnds, DeleteApp, RemoveAppContainers
    <3>5. deploying' \in next
      BY <3>1, <3>2, <3>3, <3>4
    <3>6. UNCHANGED writes /\ build' = build /\ appRow' \in BOOLEAN /\ container' \in BOOLEAN /\ (env' = env \/ env' = {})
      BY <1>0, <1>6 DEF DeployBegins, ResolveDeployEnv, RunContainer, ConfigDeployEnds, DeleteApp, RemoveAppContainers, ConfigTyped
    <3> QED
      BY <3>5, <3>6
  <2> QED
    BY <2>1, ConfigRead
<1>7. CASE UNCHANGED appConfigVars
  <2>1. /\ UNCHANGED writes /\ build' = build /\ appRow' \in BOOLEAN /\ container' \in BOOLEAN /\ (env' = env \/ env' = {})
        /\ deploying' \in [at : {"idle", "resolve", "run", "row"}, env : {deploying.env, env, {}}]
    BY <1>0, <1>7 DEF appConfigVars, ConfigTyped
  <2> QED
    BY <2>1, ConfigRead
<1> QED
  BY <1>1, <1>2, <1>3, <1>4, <1>5, <1>6, <1>7, PutCommits DEF AppConfigNext

LEMMA ConfigShown == ConfigInv => AppConfigTypeOK /\ EnvWhole
<1> SUFFICES ASSUME ConfigInv PROVE AppConfigTypeOK /\ EnvWhole
  OBVIOUS
<1>1. AppConfigTypeOK
  BY DEF ConfigInv, ConfigTyped, WriteState, AppConfigTypeOK
<1>2. EnvWhole
  <2> SUFFICES ASSUME NEW w \in Writes, {r \in deploying.env : r.by = w} # {}
               PROVE  {r.key : r \in {r \in deploying.env : r.by = w}} = writes[w].keys
    BY DEF EnvWhole
  <2>1. {r \in deploying.env : r.by = w} = RowsOf(w)
    BY DEF ConfigInv, AllOrNone
  <2>2. {r.key : r \in RowsOf(w)} = writes[w].keys
    <3>1. \A r \in RowsOf(w) : r.key \in writes[w].keys
      BY DEF RowsOf
    <3>2. ASSUME NEW k \in writes[w].keys PROVE \E r \in RowsOf(w) : r.key = k
      <4> DEFINE row == [key |-> k, by |-> w,
                         of |-> IF k = Secret /\ writes[w].keep THEN (CHOOSE r \in writes[w].prev : TRUE).of ELSE w]
      <4>1. row \in RowsOf(w)
        BY DEF RowsOf
      <4>2. row.key = k
        OBVIOUS
      <4> HIDE DEF row
      <4> QED
        BY <4>1, <4>2
    <3> QED
      BY <3>1, <3>2
  <2> DEFINE mine == {r \in deploying.env : r.by = w}
  <2>3. mine = RowsOf(w)
    BY <2>1
  <2> HIDE DEF mine
  <2>4. {r.key : r \in mine} = writes[w].keys
    BY <2>2, <2>3
  <2> QED
    BY <2>4 DEF mine
<1> QED
  BY <1>1, <1>2

(***************************************************************************)
(* The database studio: what a request has committed.                      *)
(***************************************************************************)
StudioCall ==
  [op : {"none", "edits", "write"}, at : {"none", "acquire", "begin", "run", "commit", "rollback", "ok", "failed"},
   on : Profiles \cup {"none"}, next : 1..3, mine : SUBSET (StudioCalls \X {1, 2}), gone : BOOLEAN]

StudioTyped ==
  /\ committed \in SUBSET (StudioCalls \X {1, 2})
  /\ session \in [Profiles -> [dial : {"idle", "open", "refused"}, inTx : BOOLEAN, tx : SUBSET (StudioCalls \X {1, 2})]]
  /\ studio \in [StudioCalls -> StudioCall] /\ unheard \in SUBSET StudioCalls

PoolTyped == profiles \in [Profiles -> ProfileRow] /\ drivers \in Seq(Profiles) /\ Len(drivers) <= PoolMax

Before(c, n) == {<<c, i>> : i \in 1..n - 1}

\* How far a request is; a batch of a Postgres driver holds what it has run.
InShape(c) ==
  /\ studio[c].at = "none" => studio[c] = NewCall
  /\ studio[c].at # "none" => studio[c].op \in {"edits", "write"} /\ studio[c].on \in Profiles
  /\ studio[c].at \in {"acquire", "begin"} => studio[c].next = 1 /\ studio[c].mine = {}
  /\ studio[c].at = "run" => studio[c].next \in {1, 2} /\ (studio[c].op = "write" => studio[c].next = 1)
  /\ studio[c].at = "commit" => studio[c].op = "edits" /\ studio[c].next = 3
  /\ studio[c].at = "rollback" => studio[c].op = "edits"
  /\ studio[c].mine \subseteq {c} \X {1, 2}
  /\ ~Mine(c) /\ studio[c].op = "edits" /\ studio[c].at \in {"run", "commit"} => studio[c].mine = Before(c, studio[c].next)

\* An open transaction is of requests to MySQL.
TxOfMysql == \A x \in Profiles : \A s \in session[x].tx : studio[s[1]].at # "none" /\ Mine(s[1])

Alone(c) == \A k \in StudioCalls \ {c} : studio[k] = NewCall

\* While one request runs, the session's transaction is its own.
OwnTx(c) ==
  /\ studio[c].at \in {"none", "acquire", "begin"} => \A x \in Profiles : ~session[x].inTx /\ session[x].tx = {}
  /\ Mine(c) /\ studio[c].at = "run" /\ studio[c].op = "write" => ~session[studio[c].on].inTx
  /\ Mine(c) /\ studio[c].op = "edits" /\ studio[c].at \in {"run", "commit"} /\ ~studio[c].gone /\ session[studio[c].on].dial = "open" =>
       session[studio[c].on].inTx /\ session[studio[c].on].tx = Before(c, studio[c].next)

\* Nothing of it is committed before it has ended.
Truly(c) ==
  /\ studio[c].at = "ok" => AllIn(c)
  /\ studio[c].at \notin {"ok", "failed"} => NoneIn(c)
  /\ studio[c].at = "failed" => NoneIn(c) \/ (c \in unheard /\ AllIn(c))

StudioInv ==
  /\ StudioTyped /\ TxOfMysql
  /\ \A c \in StudioCalls : /\ InShape(c)
                            /\ ~Mine(c) \/ Alone(c) => Truly(c)
                            /\ Alone(c) => OwnTx(c)

LEMMA NewCallTyped ==
  NewCall \in StudioCall /\ NewCall.at = "none" /\ NewCall.next = 1 /\ NewCall.mine = {} /\ NewCall.on = "none" /\ NewCall.op = "none"
BY DEF NewCall, StudioCall

LEMMA StudioStarts == StudioInit => StudioInv
<1> SUFFICES ASSUME StudioInit PROVE StudioInv
  OBVIOUS
<1>1. /\ committed = {} /\ unheard = {} /\ \A x \in Profiles : session[x] = NoSession /\ ~session[x].inTx /\ session[x].tx = {}
      /\ \A c \in StudioCalls : studio[c] = NewCall /\ studio[c].at = "none"
  BY NewCallTyped DEF StudioInit, NoSession
<1>2. StudioTyped
  BY NewCallTyped DEF StudioInit, StudioTyped, NoSession
<1>3. \A c \in StudioCalls : InShape(c)
  BY <1>1, NewCallTyped DEF InShape
<1>4. \A c \in StudioCalls : Truly(c) /\ OwnTx(c)
  BY <1>1 DEF Truly, OwnTx, NoneIn
<1> QED
  BY <1>1, <1>2, <1>3, <1>4 DEF StudioInv, TxOfMysql

\* A session that is closed ends a call of it, and nothing else.
OnlyEnded(k) == studio'[k] = studio[k] \/ (studio'[k] = [studio[k] EXCEPT !.gone = TRUE] /\ studio[k].at # "none")

LEMMA SameTyped ==
  ASSUME NEW k, studio[k] \in StudioCall, OnlyEnded(k) PROVE studio'[k] \in StudioCall
<1>1. CASE studio'[k] = studio[k]
  BY <1>1
<1>2. CASE studio'[k] = [studio[k] EXCEPT !.gone = TRUE]
  BY <1>2 DEF StudioCall
<1> QED
  BY <1>1, <1>2 DEF OnlyEnded

LEMMA SameCall ==
  ASSUME StudioInv, NEW k \in StudioCalls, OnlyEnded(k)
  PROVE  /\ studio'[k].op = studio[k].op /\ studio'[k].at = studio[k].at /\ studio'[k].on = studio[k].on
         /\ studio'[k].next = studio[k].next /\ studio'[k].mine = studio[k].mine
         /\ studio[k].gone => studio'[k].gone
         /\ studio'[k] = NewCall <=> studio[k] = NewCall
         /\ InShape(k)' /\ Mine(k)' = Mine(k) /\ StatementsOf(k)' = StatementsOf(k)
<1>1. studio[k] \in StudioCall
  BY DEF StudioInv, StudioTyped
<1>2. /\ studio'[k].op = studio[k].op /\ studio'[k].at = studio[k].at /\ studio'[k].on = studio[k].on
      /\ studio'[k].next = studio[k].next /\ studio'[k].mine = studio[k].mine
      /\ studio[k].gone => studio'[k].gone
  BY <1>1 DEF OnlyEnded, StudioCall
<1>3. studio'[k] = NewCall <=> studio[k] = NewCall
  BY <1>2, NewCallTyped DEF OnlyEnded
<1>4. Mine(k)' = Mine(k) /\ StatementsOf(k)' = StatementsOf(k)
  BY <1>2 DEF Mine, StatementsOf
<1>5. InShape(k)'
  <2>1. InShape(k)
    BY DEF StudioInv
  <2> QED
    BY <1>2, <1>3, <1>4, <2>1 DEF InShape
<1> QED
  BY <1>2, <1>3, <1>4, <1>5

\* One request moves.
LEMMA OneMoves ==
  ASSUME StudioInv, NEW c \in StudioCalls, StudioTyped', \A k \in StudioCalls \ {c} : OnlyEnded(k),
         studio'[c].at # "none", studio[c].at # "none" => studio'[c].on = studio[c].on,
         \A x \in Profiles : \A s \in session'[x].tx : s \in session[x].tx \/ (s[1] = c /\ Mine(c)'),
         \A k \in StudioCalls \ {c} : ~Mine(k) => \A i \in {1, 2} : <<k, i>> \in committed' <=> <<k, i>> \in committed,
         unheard \subseteq unheard', InShape(c)', ~Mine(c)' \/ Alone(c) => Truly(c)', Alone(c) => OwnTx(c)'
  PROVE  StudioInv'
<1>1. \A k \in StudioCalls \ {c} : InShape(k)' /\ ~Alone(k)'
  <2> SUFFICES ASSUME NEW k \in StudioCalls \ {c} PROVE InShape(k)' /\ ~Alone(k)'
    OBVIOUS
  <2>1. studio'[c] # NewCall
    BY NewCallTyped
  <2> QED
    BY <2>1, SameCall DEF Alone
<1>2. Alone(c)' => Alone(c)
  BY SameCall DEF Alone
<1>3. \A k \in StudioCalls \ {c} : ~Mine(k)' => Truly(k)'
  <2> SUFFICES ASSUME NEW k \in StudioCalls \ {c}, ~Mine(k)' PROVE Truly(k)'
    OBVIOUS
  <2>1. /\ studio'[k].at = studio[k].at /\ Mine(k)' = Mine(k) /\ StatementsOf(k)' = StatementsOf(k)
    BY SameCall
  <2>2. Truly(k)
    BY <2>1 DEF StudioInv
  <2>3. StatementsOf(k) \subseteq {1, 2}
    BY DEF StatementsOf
  <2> QED
    BY <2>1, <2>2, <2>3 DEF Truly, AllIn, NoneIn
<1>4. TxOfMysql'
  <2> SUFFICES ASSUME NEW x \in Profiles, NEW s \in session'[x].tx PROVE studio'[s[1]].at # "none" /\ Mine(s[1])'
    BY DEF TxOfMysql
  <2>1. CASE s[1] = c /\ Mine(c)'
    BY <2>1
  <2>2. CASE s \in session[x].tx
    <3>1. s[1] \in StudioCalls /\ studio[s[1]].at # "none" /\ Mine(s[1])
      BY <2>2 DEF StudioInv, TxOfMysql, StudioTyped
    <3>2. CASE s[1] = c
      BY <3>1, <3>2 DEF Mine
    <3>3. CASE s[1] # c
      BY <3>1, <3>3, SameCall
    <3> QED
      BY <3>2, <3>3
  <2> QED
    BY <2>1, <2>2
<1> QED
  BY <1>1, <1>2, <1>3, <1>4 DEF StudioInv

LEMMA ClosedAreSame ==
  ASSUME StudioInv, NEW xs \in SUBSET Profiles, NEW k \in StudioCalls
  PROVE  /\ Closed(studio, xs)[k] \in {studio[k], [studio[k] EXCEPT !.gone = TRUE]}
         /\ Closed(studio, xs)[k] # studio[k] => studio[k].at # "none"
         /\ studio[k].on \in xs /\ studio[k].at \notin {"acquire", "ok", "failed"} => Closed(studio, xs)[k].gone
         /\ studio[k].at = "acquire" => Closed(studio, xs)[k] = studio[k]
<1>1. studio[k] \in StudioCall /\ (studio[k].at = "none" => studio[k].on \notin xs)
  BY StudioAssumption, NewCallTyped DEF StudioInv, StudioTyped, InShape
<1> QED
  BY <1>1 DEF Closed, StudioCall

\* A profile comes and goes; with it its driver.
LEMMA ProfileMoves ==
  ASSUME StudioInv, NEW x \in Profiles, CreateExternal(x) \/ DeleteExternal(x) \/ EvictExternal(x) \/ SessionDrops(x) PROVE StudioInv'
<1>0. StudioTyped /\ committed' = committed /\ unheard' = unheard
  BY DEF StudioInv, CreateExternal, DeleteExternal, EvictExternal, SessionDrops
<1>1. /\ \A k \in StudioCalls : OnlyEnded(k)
      /\ studio' \in [StudioCalls -> StudioCall] /\ StudioTyped'
      /\ \A y \in Profiles : session'[y] = session[y]
                             \/ (~session'[y].inTx /\ session'[y].tx = {} /\ session'[y].dial # "open")
  <2>1. CASE CreateExternal(x) \/ DeleteExternal(x)
    BY <1>0, <2>1 DEF CreateExternal, DeleteExternal, OnlyEnded, StudioTyped
  <2>2. CASE EvictExternal(x)
    <3>1. studio' = Closed(studio, {x}) /\ session' = ClosedSessions({x})
      BY <2>2 DEF EvictExternal
    <3>a. \A k \in StudioCalls : OnlyEnded(k)
      BY <3>1, ClosedAreSame DEF OnlyEnded
    <3>2. \A k \in StudioCalls : OnlyEnded(k) /\ studio'[k] \in StudioCall
      BY <1>0, <3>a, SameTyped DEF StudioTyped
    <3>3. studio' \in [StudioCalls -> StudioCall]
      BY <3>1, <3>2 DEF Closed
    <3>4. NoSession \in [dial : {"idle", "open", "refused"}, inTx : BOOLEAN, tx : SUBSET (StudioCalls \X {1, 2})]
          /\ ~NoSession.inTx /\ NoSession.tx = {} /\ NoSession.dial # "open"
      BY DEF NoSession
    <3>5. session' \in [Profiles -> [dial : {"idle", "open", "refused"}, inTx : BOOLEAN, tx : SUBSET (StudioCalls \X {1, 2})]]
          /\ \A y \in Profiles : session'[y] = IF y = x THEN NoSession ELSE session[y]
      BY <1>0, <3>1, <3>4 DEF ClosedSessions, StudioTyped
    <3> QED
      BY <1>0, <3>2, <3>3, <3>4, <3>5 DEF StudioTyped
  <2>3. CASE SessionDrops(x)
    <3>1. studio' = studio /\ session' = [session EXCEPT ![x] = Broken]
      BY <2>3 DEF SessionDrops
    <3>2. Broken \in [dial : {"idle", "open", "refused"}, inTx : BOOLEAN, tx : SUBSET (StudioCalls \X {1, 2})]
          /\ ~Broken.inTx /\ Broken.tx = {} /\ Broken.dial # "open"
      BY DEF Broken
    <3>3. session' \in [Profiles -> [dial : {"idle", "open", "refused"}, inTx : BOOLEAN, tx : SUBSET (StudioCalls \X {1, 2})]]
          /\ \A y \in Profiles : session'[y] = IF y = x THEN Broken ELSE session[y]
      BY <1>0, <3>1, <3>2 DEF StudioTyped
    <3> QED
      BY <1>0, <3>1, <3>2, <3>3 DEF StudioTyped, OnlyEnded
  <2> QED
    BY <2>1, <2>2, <2>3
<1>2. TxOfMysql'
  <2> SUFFICES ASSUME NEW y \in Profiles, NEW s \in session'[y].tx PROVE studio'[s[1]].at # "none" /\ Mine(s[1])'
    BY DEF TxOfMysql
  <2>1. s \in session[y].tx
    BY <1>1
  <2>2. s[1] \in StudioCalls /\ studio[s[1]].at # "none" /\ Mine(s[1])
    BY <2>1 DEF StudioInv, TxOfMysql, StudioTyped
  <2> QED
    BY <1>1, <2>2, SameCall
<1>3. ASSUME NEW c \in StudioCalls PROVE InShape(c)' /\ (~Mine(c)' \/ Alone(c)' => Truly(c)') /\ (Alone(c)' => OwnTx(c)')
  <2>1. /\ InShape(c)' /\ Mine(c)' = Mine(c) /\ StatementsOf(c)' = StatementsOf(c)
        /\ studio'[c].at = studio[c].at /\ studio'[c].op = studio[c].op /\ studio'[c].on = studio[c].on
        /\ studio'[c].next = studio[c].next /\ (studio[c].gone => studio'[c].gone)
    BY <1>1, SameCall
  <2>2. Alone(c)' => Alone(c)
    BY <1>1, SameCall DEF Alone
  <2>3. Truly(c) => Truly(c)'
    BY <1>0, <2>1 DEF Truly, AllIn, NoneIn
  <2>4. OwnTx(c) => OwnTx(c)'
    <3> SUFFICES ASSUME OwnTx(c) PROVE OwnTx(c)'
      OBVIOUS
    <3>1. studio[c].at \in {"none", "acquire", "begin"} => \A y \in Profiles : ~session'[y].inTx /\ session'[y].tx = {}
      BY <1>1 DEF OwnTx
    <3>2. ASSUME Mine(c), studio[c].at = "run", studio[c].op = "write" PROVE ~session'[studio[c].on].inTx
      <4>1. studio[c].on \in Profiles
        BY <3>2 DEF StudioInv, InShape
      <4> QED
        BY <1>1, <3>2, <4>1 DEF OwnTx
    <3>3. ASSUME Mine(c), studio[c].op = "edits", studio[c].at \in {"run", "commit"}, ~studio'[c].gone,
                 session'[studio[c].on].dial = "open"
          PROVE  session'[studio[c].on].inTx /\ session'[studio[c].on].tx = Before(c, studio[c].next)
      <4>1. studio[c].on \in Profiles /\ ~studio[c].gone
        BY <2>1, <3>3 DEF StudioInv, InShape
      <4>2. session'[studio[c].on] = session[studio[c].on]
        BY <1>1, <3>3, <4>1
      <4> QED
        BY <3>3, <4>1, <4>2 DEF OwnTx
    <3> QED
      BY <2>1, <3>1, <3>2, <3>3 DEF OwnTx
  <2> QED
    BY <2>1, <2>2, <2>3, <2>4 DEF StudioInv
<1> QED
  BY <1>1, <1>2, <1>3 DEF StudioInv

\* The call of a request, once it has moved to r.
LEMMA CallMoves ==
  ASSUME StudioInv, NEW c \in StudioCalls, NEW r \in StudioCall, studio' = [studio EXCEPT ![c] = r]
  PROVE  /\ studio' \in [StudioCalls -> StudioCall] /\ studio'[c] = r
         /\ \A k \in StudioCalls \ {c} : OnlyEnded(k)
BY DEF StudioInv, StudioTyped, OnlyEnded

\* A request moves and leaves the sessions and the database alone.
LEMMA QuietMoves ==
  ASSUME StudioInv, NEW c \in StudioCalls, NEW r \in StudioCall, studio' = [studio EXCEPT ![c] = r],
         UNCHANGED <<session, committed, unheard>>, r.at \notin {"none", "ok"},
         studio[c].at # "none" => r.on = studio[c].on, studio[c].at \notin {"ok", "failed"},
         InShape(c)', Alone(c) => OwnTx(c)', Mine(c)' => Mine(c) \/ studio[c].at = "none"
  PROVE  StudioInv'
<1>1. studio'[c] = r /\ StudioTyped' /\ \A k \in StudioCalls \ {c} : OnlyEnded(k)
  BY CallMoves DEF StudioInv, StudioTyped
<1>2. ~Mine(c)' \/ Alone(c) => Truly(c)'
  <2> SUFFICES ASSUME ~Mine(c)' \/ Alone(c) PROVE Truly(c)'
    OBVIOUS
  <2>1. \A i \in {1, 2} : <<c, i>> \notin committed
    <3>1. studio[c].at = "none" => ~Mine(c)
      BY StudioAssumption, NewCallTyped DEF StudioInv, InShape, Mine
    <3>2. ~Mine(c) \/ Alone(c)
      BY <1>1, <3>1 DEF Mine
    <3> QED
      BY <3>2 DEF StudioInv, Truly, NoneIn
  <2> QED
    BY <1>1, <2>1 DEF Truly, NoneIn
<1> QED
  BY <1>1, <1>2, OneMoves

LEMMA Resolves ==
  ASSUME StudioInv, NEW c \in StudioCalls, ResolveExternal(c) PROVE StudioInv'
<1>1. studio[c] = NewCall /\ UNCHANGED <<session, committed, unheard>>
  BY DEF ResolveExternal
<1>2. PICK x \in Profiles, op \in {"edits", "write"}, at \in {"acquire", "failed"} :
        studio' = [studio EXCEPT ![c].op = op, ![c].on = x, ![c].at = at]
  BY DEF ResolveExternal
<1> DEFINE r == [op |-> op, at |-> at, on |-> x, next |-> 1, mine |-> {}, gone |-> FALSE]
<1>3. r \in StudioCall
  BY DEF StudioCall
<1>4. studio' = [studio EXCEPT ![c] = r]
  BY <1>1, <1>2 DEF NewCall, StudioInv, StudioTyped
<1>5. studio'[c] = r
  BY <1>3, <1>4, CallMoves
<1>6. InShape(c)'
  BY <1>5 DEF InShape
<1>7. Alone(c) => OwnTx(c)'
  BY <1>1, <1>5, NewCallTyped DEF OwnTx, StudioInv
<1> HIDE DEF r
<1>8. r.at \in {"acquire", "failed"}
  BY DEF r
<1> QED
  BY <1>1, <1>3, <1>4, <1>6, <1>7, <1>8, NewCallTyped, QuietMoves

\* A driver that is found, or a new one, for which the oldest may have to go.
LEMMA PoolStarts == StudioInit => PoolTyped
BY StudioAssumption DEF StudioInit, PoolTyped, ProfileRow

LEMMA WithoutTyped ==
  ASSUME drivers \in Seq(Profiles), NEW x \in Profiles, Pooled(x)
  PROVE  Without(x) \in Seq(Profiles) /\ Len(Without(x)) <= Len(drivers)
<1> DEFINE i == CHOOSE i \in 1..Len(drivers) : drivers[i] = x
           s == SubSeq(drivers, 1, i - 1)
           t == SubSeq(drivers, i + 1, Len(drivers))
<1>1. i \in 1..Len(drivers) /\ Len(drivers) \in Nat /\ \A j \in 1..Len(drivers) : drivers[j] \in Profiles
  BY DEF Pooled
<1> HIDE DEF i
<1>2. s \in Seq(Profiles) /\ Len(s) = i - 1
  BY <1>1, SubSeqProperties
<1>3. t \in Seq(Profiles) /\ Len(t) = Len(drivers) - i
  BY <1>1, SubSeqProperties
<1>4. Without(x) = s \o t
  BY DEF Without, i
<1> HIDE DEF s, t
<1>5. s \o t \in Seq(Profiles) /\ Len(s \o t) = Len(s) + Len(t)
  BY <1>2, <1>3, ConcatProperties
<1> QED
  BY <1>1, <1>2, <1>3, <1>4, <1>5

LEMMA PoolHolds ==
  ASSUME PoolTyped, StudioInv, [StudioNext]_studioVars PROVE PoolTyped'
<1>1. ASSUME NEW x \in Profiles, CreateExternal(x) \/ DeleteExternal(x) \/ SessionDrops(x) PROVE PoolTyped'
  BY <1>1 DEF PoolTyped, ProfileRow, CreateExternal, DeleteExternal, SessionDrops
<1>2. ASSUME NEW x \in Profiles, EvictExternal(x) PROVE PoolTyped'
  <2>1. profiles' \in [Profiles -> ProfileRow]
    BY <1>2 DEF PoolTyped, ProfileRow, EvictExternal
  <2>2. drivers' \in Seq(Profiles) /\ Len(drivers') <= PoolMax
    BY <1>2, WithoutTyped, StudioAssumption DEF PoolTyped, EvictExternal
  <2> QED
    BY <2>1, <2>2 DEF PoolTyped
<1>3. ASSUME NEW c \in StudioCalls, Acquire(c) PROVE PoolTyped'
  <2>1. studio[c].on \in Profiles
    BY <1>3 DEF Acquire, StudioAt, StudioInv, InShape
  <2>2. profiles' = profiles
    BY <1>3 DEF Acquire
  <2>3. CASE drivers' = drivers
    BY <2>2, <2>3 DEF PoolTyped
  <2>4. CASE Len(drivers) >= PoolMax /\ drivers' = Append(Tail(drivers), studio[c].on)
    BY <2>1, <2>2, <2>4, StudioAssumption DEF PoolTyped
  <2>5. CASE ~(Len(drivers) >= PoolMax) /\ drivers' = Append(drivers, studio[c].on)
    BY <2>1, <2>2, <2>5, StudioAssumption DEF PoolTyped
  <2> QED
    BY <1>3, <2>3, <2>4, <2>5 DEF Acquire
<1>4. ASSUME UNCHANGED <<profiles, drivers>> PROVE PoolTyped'
  BY <1>4 DEF PoolTyped
<1>5. CASE UNCHANGED studioVars
  BY <1>4, <1>5 DEF studioVars
<1>6. CASE \E x \in Profiles : CreateExternal(x) \/ DeleteExternal(x) \/ EvictExternal(x) \/ SessionDrops(x)
  BY <1>1, <1>2, <1>6
<1>7. ASSUME NEW c \in StudioCalls,
             \/ ResolveExternal(c) \/ DialMysql(c) \/ DialFailed(c) \/ BeginStatement(c)
             \/ BeginMysql(c) \/ BeginPostgres(c) \/ RunMysql(c) \/ RunPostgres(c) \/ StatementFails(c)
             \/ CommitMysql(c) \/ RollbackMysql(c) \/ CommitPostgres(c) \/ RollbackPostgres(c)
             \/ MysqlTimesOut(c) \/ WriteUnheard(c) \/ PostgresCommitUnheard(c) \/ MysqlCommitUnheard(c)
      PROVE  UNCHANGED <<profiles, drivers>>
  BY <1>7 DEF ResolveExternal, DialMysql, DialFailed, BeginStatement, BeginMysql, BeginPostgres, RunMysql,
     RunPostgres, StatementFails, CommitMysql, RollbackMysql, CommitPostgres, RollbackPostgres, LandsMysql,
     MysqlTimesOut, WriteUnheard, PostgresCommitUnheard, MysqlCommitUnheard
<1> QED
  BY <1>3, <1>4, <1>5, <1>6, <1>7 DEF StudioNext

LEMMA Acquires ==
  ASSUME StudioInv, PoolTyped, NEW c \in StudioCalls, Acquire(c) PROVE StudioInv'
<1> DEFINE x == studio[c].on
           r == [studio[c] EXCEPT !.at = "begin"]
<1>1. /\ studio[c].at = "acquire" /\ committed' = committed /\ unheard' = unheard /\ studio[c] \in StudioCall
      /\ studio[c].next = 1 /\ studio[c].mine = {} /\ x \in Profiles
  BY DEF Acquire, StudioAt, StudioInv, InShape, StudioTyped
<1>2. r \in StudioCall /\ r.at = "begin" /\ r.on = x /\ r.next = 1 /\ r.mine = {} /\ r.op = studio[c].op
  BY <1>1 DEF StudioCall
<1> HIDE DEF r
<1>3. PICK xs \in SUBSET Profiles, ys \in SUBSET Profiles :
        /\ studio' = [Closed(studio, xs) EXCEPT ![c].at = "begin"]
        /\ session' = ClosedSessions(ys)
  <2>1. CASE Pooled(x)
    <3>1. studio' = [studio EXCEPT ![c].at = "begin"] /\ session' = session
      BY <2>1 DEF Acquire, StudioTo
    <3>2. Closed(studio, {}) = studio /\ ClosedSessions({}) = session
      BY DEF Closed, ClosedSessions, StudioInv, StudioTyped
    <3> QED
      BY <3>1, <3>2
  <2>2. CASE ~Pooled(x) /\ Len(drivers) >= PoolMax
    <3>1. Head(drivers) \in Profiles
      BY <2>2, StudioAssumption DEF PoolTyped
    <3>2. studio' = [Closed(studio, {Head(drivers)}) EXCEPT ![c].at = "begin"] /\ session' = ClosedSessions({Head(drivers)} \cup {x})
      BY <2>2 DEF Acquire
    <3> QED
      BY <1>1, <3>1, <3>2
  <2>3. CASE ~Pooled(x) /\ ~(Len(drivers) >= PoolMax)
    <3>2. studio' = [Closed(studio, {}) EXCEPT ![c].at = "begin"] /\ session' = ClosedSessions({} \cup {x})
      BY <2>3 DEF Acquire
    <3> QED
      BY <1>1, <3>2
  <2> QED
    BY <2>1, <2>2, <2>3
<1>4. studio'[c] = r /\ \A k \in StudioCalls \ {c} : OnlyEnded(k) /\ studio'[k] = Closed(studio, xs)[k]
  <2>1. Closed(studio, xs)[c] = studio[c]
    BY <1>1, ClosedAreSame
  <2>2. DOMAIN Closed(studio, xs) = StudioCalls
    BY DEF Closed
  <2>3. studio'[c] = r /\ \A k \in StudioCalls \ {c} : studio'[k] = Closed(studio, xs)[k]
    BY <1>3, <2>1, <2>2 DEF r
  <2> QED
    BY <2>3, ClosedAreSame DEF OnlyEnded
<1>5. StudioTyped'
  <2>1. \A k \in StudioCalls : studio'[k] \in StudioCall
    BY <1>2, <1>4, SameTyped DEF StudioInv, StudioTyped
  <2>2. studio' \in [StudioCalls -> StudioCall]
    BY <1>3, <2>1 DEF Closed
  <2>3. session' \in [Profiles -> [dial : {"idle", "open", "refused"}, inTx : BOOLEAN, tx : SUBSET (StudioCalls \X {1, 2})]]
    <3>1. NoSession \in [dial : {"idle", "open", "refused"}, inTx : BOOLEAN, tx : SUBSET (StudioCalls \X {1, 2})]
      BY DEF NoSession
    <3> QED
      BY <1>3, <3>1 DEF ClosedSessions, StudioInv, StudioTyped
  <2> QED
    BY <1>1, <2>2, <2>3 DEF StudioInv, StudioTyped
<1>6. \A y \in Profiles : session'[y] = session[y] \/ (~session'[y].inTx /\ session'[y].tx = {})
  BY <1>3 DEF ClosedSessions, NoSession
<1>7. InShape(c)'
  BY <1>1, <1>2, <1>4 DEF InShape, StudioInv
<1>8. ~Mine(c)' \/ Alone(c) => Truly(c)'
  BY <1>1, <1>2, <1>4 DEF StudioInv, Truly, Mine, NoneIn
<1>9. Alone(c) => OwnTx(c)'
  BY <1>1, <1>2, <1>4, <1>6 DEF StudioInv, OwnTx
<1> QED
  BY <1>1, <1>2, <1>4, <1>5, <1>6, <1>7, <1>8, <1>9, OneMoves

LEMMA ToMoves ==
  ASSUME StudioInv, NEW c \in StudioCalls, studio[c].at # "none",
         NEW at \in {"begin", "run", "rollback", "ok", "failed"}, StudioTo(c, at)
  PROVE  /\ [studio[c] EXCEPT !.at = at] \in StudioCall /\ studio' = [studio EXCEPT ![c] = [studio[c] EXCEPT !.at = at]]
         /\ studio'[c].at = at /\ studio'[c].op = studio[c].op /\ studio'[c].on = studio[c].on
         /\ studio'[c].next = studio[c].next /\ studio'[c].mine = studio[c].mine /\ studio'[c].gone = studio[c].gone
BY DEF StudioInv, StudioTyped, StudioCall, StudioTo

\* An answer without a commit, and a beginning that commits nothing.
LEMMA QuietTo ==
  ASSUME StudioInv, NEW c \in StudioCalls, studio[c].at \notin {"none", "ok", "failed"},
         UNCHANGED <<session, committed, unheard>>,
         NEW at \in {"run", "rollback", "failed"}, StudioTo(c, at),
         at = "run" => studio[c].at = "begin" /\ (studio[c].op = "write" \/ (studio[c].op = "edits" /\ ~Mine(c))),
         at = "rollback" => studio[c].op = "edits"
  PROVE  StudioInv'
<1> DEFINE r == [studio[c] EXCEPT !.at = at]
<1>1. r \in StudioCall /\ studio' = [studio EXCEPT ![c] = r]
  BY ToMoves
<1>2. /\ studio'[c].at = at /\ studio'[c].op = studio[c].op /\ studio'[c].on = studio[c].on
      /\ studio'[c].next = studio[c].next /\ studio'[c].mine = studio[c].mine /\ studio'[c].gone = studio[c].gone
  BY ToMoves
<1>3. studio'[c] = r
  BY <1>1, CallMoves
<1> HIDE DEF r
<1>4. r.at = at /\ r.on = studio[c].on
  BY <1>2, <1>3
<1>5. InShape(c)'
  <2>1. InShape(c) /\ Before(c, 1) = {}
    BY DEF StudioInv, Before
  <2> QED
    BY <1>2, <2>1 DEF InShape, Mine
<1>6. Alone(c) => OwnTx(c)'
  <2> SUFFICES ASSUME Alone(c) PROVE OwnTx(c)'
    OBVIOUS
  <2>1. OwnTx(c) /\ (studio[c].at = "begin" => studio[c].on \in Profiles)
    BY DEF StudioInv, InShape
  <2> QED
    BY <1>2, <2>1 DEF OwnTx, Mine
<1>7. Mine(c)' => Mine(c)
  BY <1>2 DEF Mine
<1> QED
  BY <1>1, <1>4, <1>5, <1>6, <1>7, QuietMoves

LEMMA QuietSteps ==
  ASSUME StudioInv, NEW c \in StudioCalls, DialFailed(c) \/ BeginStatement(c) \/ BeginPostgres(c) \/ StatementFails(c)
  PROVE  StudioInv'
<1>1. CASE DialFailed(c)
  <2>1. studio[c].at = "begin" /\ StudioTo(c, "failed") /\ UNCHANGED <<session, committed, unheard>>
    BY <1>1 DEF DialFailed, StudioAt
  <2> QED
    BY <2>1, QuietTo
<1>2. CASE BeginStatement(c)
  <2>1. studio[c].at = "begin" /\ studio[c].op = "write" /\ StudioTo(c, "run") /\ UNCHANGED <<session, committed, unheard>>
    BY <1>2 DEF BeginStatement, StudioAt
  <2> QED
    BY <2>1, QuietTo
<1>3. CASE BeginPostgres(c)
  <2>1. studio[c].at = "begin" /\ studio[c].op = "edits" /\ ~Mine(c) /\ StudioTo(c, "run") /\ UNCHANGED <<session, committed, unheard>>
    BY <1>3 DEF BeginPostgres, StudioAt
  <2> QED
    BY <2>1, QuietTo
<1>4. CASE StatementFails(c)
  <2>1. studio[c].at = "run" /\ UNCHANGED <<session, committed, unheard>>
        /\ StudioTo(c, IF studio[c].op = "edits" THEN "rollback" ELSE "failed")
    BY <1>4 DEF StatementFails, StudioAt, Failing
  <2>2. CASE studio[c].op = "edits"
    BY <2>1, <2>2, QuietTo
  <2>3. CASE studio[c].op # "edits"
    BY <2>1, <2>3, QuietTo
  <2> QED
    BY <2>2, <2>3
<1> QED
  BY <1>1, <1>2, <1>3, <1>4

LEMMA SessionTyped ==
  ASSUME StudioTyped, NEW x \in Profiles,
         NEW s \in [dial : {"idle", "open", "refused"}, inTx : BOOLEAN, tx : SUBSET (StudioCalls \X {1, 2})],
         session' = [session EXCEPT ![x] = s]
  PROVE  /\ session' \in [Profiles -> [dial : {"idle", "open", "refused"}, inTx : BOOLEAN, tx : SUBSET (StudioCalls \X {1, 2})]]
         /\ session'[x] = s /\ \A y \in Profiles \ {x} : session'[y] = session[y]
BY DEF StudioTyped

LEMMA Dials ==
  ASSUME StudioInv, NEW c \in StudioCalls, DialMysql(c) PROVE StudioInv'
<1> DEFINE x == studio[c].on
<1>1. studio[c].at = "begin" /\ studio[c] # NewCall /\ x \in Profiles /\ UNCHANGED <<studio, committed, unheard>>
  BY NewCallTyped DEF DialMysql, StudioAt, StudioInv, InShape
<1>2. PICK d \in {"open", "refused"} : session' = [session EXCEPT ![x].dial = d]
  BY DEF DialMysql
<1>3. session' = [session EXCEPT ![x] = [session[x] EXCEPT !.dial = d]]
  BY <1>1, <1>2 DEF StudioInv, StudioTyped
<1>4. [session[x] EXCEPT !.dial = d] \in [dial : {"idle", "open", "refused"}, inTx : BOOLEAN, tx : SUBSET (StudioCalls \X {1, 2})]
  BY <1>1 DEF StudioInv, StudioTyped
<1>5. \A y \in Profiles : session'[y].tx = session[y].tx /\ session'[y].inTx = session[y].inTx
  BY <1>1, <1>3 DEF StudioInv, StudioTyped
<1>6. StudioTyped'
  BY <1>1, <1>3, <1>4, SessionTyped DEF StudioInv, StudioTyped
<1>7. TxOfMysql'
  BY <1>1, <1>5 DEF StudioInv, TxOfMysql, Mine
<1>8. \A k \in StudioCalls : InShape(k)' = InShape(k) /\ Truly(k)' = Truly(k) /\ Alone(k)' = Alone(k) /\ Mine(k)' = Mine(k)
  BY <1>1 DEF InShape, Truly, Alone, Mine, StatementsOf, NewCall, AllIn, NoneIn
<1>9. \A k \in StudioCalls : Alone(k) => OwnTx(k)'
  <2> SUFFICES ASSUME NEW k \in StudioCalls, Alone(k) PROVE OwnTx(k)'
    OBVIOUS
  <2>1. k = c
    BY <1>1 DEF Alone
  <2> QED
    BY <1>1, <1>5, <2>1 DEF StudioInv, OwnTx
<1> QED
  BY <1>6, <1>7, <1>8, <1>9 DEF StudioInv

\* A batch that begins on a session with a transaction open commits that one.
LEMMA BeginsMysql ==
  ASSUME StudioInv, NEW c \in StudioCalls, BeginMysql(c) PROVE StudioInv'
<1> DEFINE x == studio[c].on
           z == [session[x] EXCEPT !.inTx = TRUE, !.tx = {}]
<1>1. /\ studio[c].at = "begin" /\ studio[c].op = "edits" /\ Mine(c) /\ StudioTo(c, "run")
      /\ committed' = committed \cup session[x].tx /\ session' = [session EXCEPT ![x].inTx = TRUE, ![x].tx = {}]
      /\ x \in Profiles /\ InShape(c) /\ unheard' = unheard
  BY DEF BeginMysql, StudioAt, StudioInv, InShape
<1>2. /\ studio' \in [StudioCalls -> StudioCall] /\ \A k \in StudioCalls \ {c} : OnlyEnded(k)
      /\ studio'[c].at = "run" /\ studio'[c].op = studio[c].op /\ studio'[c].on = studio[c].on
      /\ studio'[c].next = studio[c].next /\ studio'[c].mine = studio[c].mine /\ studio'[c].gone = studio[c].gone
  BY <1>1, ToMoves, CallMoves
<1>3. z \in [dial : {"idle", "open", "refused"}, inTx : BOOLEAN, tx : SUBSET (StudioCalls \X {1, 2})] /\ z.inTx /\ z.tx = {}
  BY <1>1 DEF StudioInv, StudioTyped
<1>4. session' = [session EXCEPT ![x] = z]
  BY <1>1 DEF StudioInv, StudioTyped
<1>5. session'[x].inTx /\ session'[x].tx = {} /\ \A y \in Profiles \ {x} : session'[y] = session[y]
  BY <1>1, <1>3, <1>4, SessionTyped DEF StudioInv
<1>6. StudioTyped'
  BY <1>1, <1>2, <1>3, <1>4, SessionTyped, SMTT(30) DEF StudioInv, StudioTyped
<1> HIDE DEF z
<1>7. \A k \in StudioCalls \ {c} : ~Mine(k) => \A i \in {1, 2} : <<k, i>> \in committed' <=> <<k, i>> \in committed
  <2> SUFFICES ASSUME NEW k \in StudioCalls \ {c}, ~Mine(k), NEW i \in {1, 2} PROVE <<k, i>> \notin session[x].tx
    BY <1>1
  <2> QED
    BY <1>1 DEF StudioInv, TxOfMysql
<1>8. InShape(c)' /\ Mine(c)'
  <2>1. Before(c, 1) = {}
    BY DEF Before
  <2> QED
    BY <1>1, <1>2, <2>1 DEF InShape, Mine
<1>9. Alone(c) => session[x].tx = {} /\ Truly(c)
  BY <1>1 DEF StudioInv, OwnTx
<1>10. Alone(c) => Truly(c)' /\ OwnTx(c)'
  <2> SUFFICES ASSUME Alone(c) PROVE Truly(c)' /\ OwnTx(c)'
    OBVIOUS
  <2>1. Truly(c)'
    BY <1>1, <1>2, <1>9 DEF Truly, NoneIn
  <2>2. studio[c].next = 1 /\ Before(c, 1) = {}
    BY <1>1 DEF InShape, Before
  <2>3. OwnTx(c)'
    BY <1>1, <1>2, <1>5, <2>2 DEF OwnTx
  <2> QED
    BY <2>1, <2>3
<1>11. \A y \in Profiles : \A s \in session'[y].tx : s \in session[y].tx
  BY <1>5
<1> QED
  BY <1>1, <1>2, <1>6, <1>7, <1>8, <1>10, <1>11, OneMoves

\* What running a statement does to the request.
LEMMA RunsOn ==
  ASSUME StudioInv, NEW c \in StudioCalls, studio[c].at = "run", NEW mine \in SUBSET (StudioCalls \X {1, 2}),
         studio' = [studio EXCEPT ![c].at = After(c), ![c].next = @ + 1, ![c].mine = mine],
         mine \subseteq {c} \X {1, 2},
         ~Mine(c) /\ studio[c].op = "edits" => mine = studio[c].mine \cup {<<c, studio[c].next>>}
  PROVE  /\ studio' \in [StudioCalls -> StudioCall] /\ \A k \in StudioCalls \ {c} : OnlyEnded(k)
         /\ studio'[c].op = studio[c].op /\ studio'[c].on = studio[c].on /\ studio'[c].gone = studio[c].gone
         /\ studio'[c].next = studio[c].next + 1 /\ studio'[c].mine = mine /\ studio'[c].at = After(c)
         /\ (studio[c].op = "edits" /\ studio[c].next = 1 /\ After(c) = "run")
            \/ (studio[c].op = "edits" /\ studio[c].next = 2 /\ After(c) = "commit")
            \/ (studio[c].op = "write" /\ studio[c].next = 1 /\ After(c) = "ok")
         /\ Before(c, studio[c].next + 1) = Before(c, studio[c].next) \cup {<<c, studio[c].next>>}
         /\ InShape(c)' /\ Mine(c)' = Mine(c)
<1> DEFINE r == [op |-> studio[c].op, at |-> After(c), on |-> studio[c].on, next |-> studio[c].next + 1, mine |-> mine,
                 gone |-> studio[c].gone]
<1>1. studio[c] \in StudioCall /\ InShape(c)
  BY DEF StudioInv, StudioTyped
<1>2. \/ studio[c].op = "edits" /\ studio[c].next = 1 /\ After(c) = "run"
      \/ studio[c].op = "edits" /\ studio[c].next = 2 /\ After(c) = "commit"
      \/ studio[c].op = "write" /\ studio[c].next = 1 /\ After(c) = "ok"
  BY <1>1 DEF InShape, After, StatementsOf
<1>3. studio[c].next \in {1, 2}
  BY <1>2
<1>4. /\ r \in StudioCall /\ r.op = studio[c].op /\ r.on = studio[c].on /\ r.gone = studio[c].gone
      /\ r.next = studio[c].next + 1 /\ r.mine = mine /\ r.at = After(c)
  <2>1. studio[c].next + 1 \in 1..3 /\ After(c) \in {"run", "commit", "ok"}
    BY <1>2
  <2> QED
    BY <1>1, <2>1 DEF StudioCall
<1>5. studio' = [studio EXCEPT ![c] = r]
  BY <1>1 DEF StudioInv, StudioTyped, StudioCall
<1> HIDE DEF r
<1>6. studio' \in [StudioCalls -> StudioCall] /\ studio'[c] = r /\ \A k \in StudioCalls \ {c} : OnlyEnded(k)
  BY <1>4, <1>5, CallMoves
<1>7. Before(c, studio[c].next + 1) = Before(c, studio[c].next) \cup {<<c, studio[c].next>>}
  <2>1. (studio[c].next + 1) - 1 = studio[c].next /\ 1..studio[c].next = (1..studio[c].next - 1) \cup {studio[c].next}
    BY <1>3
  <2> QED
    BY <2>1 DEF Before
<1>8. Mine(c)' = Mine(c)
  BY <1>4, <1>6 DEF Mine
<1>9. InShape(c)'
  <2>1. /\ studio'[c].op = studio[c].op /\ studio'[c].on = studio[c].on /\ studio'[c].at = After(c)
        /\ studio'[c].next = studio[c].next + 1 /\ studio'[c].mine = mine
    BY <1>4, <1>6
  <2>2. studio'[c].on \in Profiles
    BY <1>1, <2>1 DEF InShape
  <2>3. ~Mine(c) /\ studio[c].op = "edits" => mine = Before(c, studio[c].next + 1)
    BY <1>1, <1>7 DEF InShape
  <2>4. /\ After(c) = "run" => studio[c].next + 1 \in {1, 2} /\ studio[c].op = "edits"
        /\ After(c) = "commit" => studio[c].op = "edits" /\ studio[c].next + 1 = 3
        /\ After(c) \in {"run", "commit", "ok"} /\ studio[c].op \in {"edits", "write"}
    BY <1>2
  <2> QED
    BY <1>8, <2>1, <2>2, <2>3, <2>4 DEF InShape
<1> QED
  BY <1>2, <1>4, <1>6, <1>7, <1>8, <1>9

\* Where a statement of a MySQL session goes.
LEMMA Lands ==
  ASSUME StudioInv, NEW c \in StudioCalls, LandsMysql(c)
  PROVE  LET x == studio[c].on  s == <<c, studio[c].next>> IN
         /\ studio[c].at = "run" /\ Mine(c) /\ ~studio[c].gone /\ studio[c] \in StudioCall /\ InShape(c)
         /\ committed' \in SUBSET (StudioCalls \X {1, 2})
         /\ session' \in [Profiles -> [dial : {"idle", "open", "refused"}, inTx : BOOLEAN, tx : SUBSET (StudioCalls \X {1, 2})]]
         /\ \A y \in Profiles : \A t \in session'[y].tx : t \in session[y].tx \/ t[1] = c
         /\ \A k \in StudioCalls \ {c} : ~Mine(k) => \A i \in {1, 2} : <<k, i>> \in committed' <=> <<k, i>> \in committed
         /\ committed' = IF session[x].inTx THEN committed ELSE committed \cup {s}
         /\ session[x].inTx => session'[x].inTx /\ session'[x].tx = session[x].tx \cup {s}
         /\ ~session[x].inTx => session' = session
         /\ OwnTx(c) => \/ studio[c].op = "write" /\ ~session[x].inTx /\ studio[c].next = 1
                        \/ studio[c].op = "edits" /\ session[x].inTx /\ session[x].tx = Before(c, studio[c].next)
<1> DEFINE x == studio[c].on
           s == <<c, studio[c].next>>
           z == [session[x] EXCEPT !.tx = @ \cup {s}]
<1>1. /\ studio[c].at = "run" /\ Mine(c) /\ ~studio[c].gone /\ studio[c] \in StudioCall /\ InShape(c) /\ x \in Profiles
      /\ \/ session[x].inTx /\ session' = [session EXCEPT ![x].tx = @ \cup {s}] /\ committed' = committed
         \/ ~session[x].inTx /\ committed' = committed \cup {s} /\ session' = session
  BY DEF LandsMysql, StudioAt, StudioInv, StudioTyped, InShape
<1>2. s \in StudioCalls \X {1, 2} /\ s[1] = c /\ studio[c].op \in {"edits", "write"}
  BY <1>1 DEF InShape
<1>3. z \in [dial : {"idle", "open", "refused"}, inTx : BOOLEAN, tx : SUBSET (StudioCalls \X {1, 2})]
      /\ z.tx = session[x].tx \cup {s} /\ z.inTx = session[x].inTx
  BY <1>1, <1>2 DEF StudioInv, StudioTyped
<1>4. session[x].inTx => session' = [session EXCEPT ![x] = z]
  BY <1>1 DEF StudioInv, StudioTyped
<1>5. StudioTyped
  BY DEF StudioInv
<1> HIDE DEF z
<1>6. /\ session' \in [Profiles -> [dial : {"idle", "open", "refused"}, inTx : BOOLEAN, tx : SUBSET (StudioCalls \X {1, 2})]]
      /\ session[x].inTx => session'[x] = z /\ \A y \in Profiles \ {x} : session'[y] = session[y]
  <2>1. CASE session[x].inTx
    BY <1>1, <1>3, <1>4, <1>5, <2>1, SessionTyped
  <2>2. CASE ~session[x].inTx
    BY <1>1, <1>5, <2>2 DEF StudioTyped
  <2> QED
    BY <2>1, <2>2
<1>7. committed' \in SUBSET (StudioCalls \X {1, 2})
  BY <1>1, <1>2, <1>5 DEF StudioTyped
<1>8. \A y \in Profiles : \A t \in session'[y].tx : t \in session[y].tx \/ t[1] = c
  BY <1>1, <1>2, <1>3, <1>6
<1>9. \A k \in StudioCalls \ {c} : ~Mine(k) => \A i \in {1, 2} : <<k, i>> \in committed' <=> <<k, i>> \in committed
  BY <1>1
<1>10. OwnTx(c) => \/ studio[c].op = "write" /\ ~session[x].inTx /\ studio[c].next = 1
                   \/ studio[c].op = "edits" /\ session[x].inTx /\ session[x].tx = Before(c, studio[c].next)
  BY <1>1, <1>2 DEF OwnTx, InShape, LandsMysql
<1> QED
  BY <1>1, <1>3, <1>6, <1>7, <1>8, <1>9, <1>10

LEMMA RunsMysql ==
  ASSUME StudioInv, NEW c \in StudioCalls, RunMysql(c) PROVE StudioInv'
<1> DEFINE x == studio[c].on
           s == <<c, studio[c].next>>
<1>1. LandsMysql(c) /\ unheard' = unheard /\ studio' = [studio EXCEPT ![c].at = After(c), ![c].next = @ + 1]
  BY DEF RunMysql
<1>2. /\ studio[c].at = "run" /\ Mine(c) /\ studio[c] \in StudioCall /\ InShape(c)
      /\ committed' \in SUBSET (StudioCalls \X {1, 2})
      /\ session' \in [Profiles -> [dial : {"idle", "open", "refused"}, inTx : BOOLEAN, tx : SUBSET (StudioCalls \X {1, 2})]]
      /\ \A y \in Profiles : \A t \in session'[y].tx : t \in session[y].tx \/ t[1] = c
      /\ \A k \in StudioCalls \ {c} : ~Mine(k) => \A i \in {1, 2} : <<k, i>> \in committed' <=> <<k, i>> \in committed
      /\ committed' = IF session[x].inTx THEN committed ELSE committed \cup {s}
      /\ session[x].inTx => session'[x].inTx /\ session'[x].tx = session[x].tx \cup {s}
      /\ OwnTx(c) => \/ studio[c].op = "write" /\ ~session[x].inTx /\ studio[c].next = 1
                     \/ studio[c].op = "edits" /\ session[x].inTx /\ session[x].tx = Before(c, studio[c].next)
  BY <1>1, Lands
<1>3. studio' = [studio EXCEPT ![c].at = After(c), ![c].next = @ + 1, ![c].mine = studio[c].mine]
  BY <1>1, <1>2 DEF StudioInv, StudioTyped, StudioCall
<1>m. studio[c].mine \in SUBSET (StudioCalls \X {1, 2}) /\ studio[c].mine \subseteq {c} \X {1, 2}
  BY <1>2 DEF StudioCall, InShape
<1>4. /\ studio' \in [StudioCalls -> StudioCall] /\ \A k \in StudioCalls \ {c} : OnlyEnded(k)
      /\ studio'[c].op = studio[c].op /\ studio'[c].on = studio[c].on /\ studio'[c].gone = studio[c].gone
      /\ studio'[c].next = studio[c].next + 1 /\ studio'[c].at = After(c)
      /\ (studio[c].op = "edits" /\ studio[c].next = 1 /\ After(c) = "run")
         \/ (studio[c].op = "edits" /\ studio[c].next = 2 /\ After(c) = "commit")
         \/ (studio[c].op = "write" /\ studio[c].next = 1 /\ After(c) = "ok")
      /\ Before(c, studio[c].next + 1) = Before(c, studio[c].next) \cup {s}
      /\ InShape(c)' /\ Mine(c)' = Mine(c)
  BY <1>2, <1>m, <1>3, RunsOn
<1>5. StudioTyped'
  BY <1>1, <1>2, <1>4 DEF StudioInv, StudioTyped
<1>6. Alone(c) => Truly(c)' /\ OwnTx(c)'
  <2> SUFFICES ASSUME Alone(c) PROVE Truly(c)' /\ OwnTx(c)'
    OBVIOUS
  <2>1. Truly(c) /\ OwnTx(c)
    BY <1>2 DEF StudioInv
  <2>2. CASE studio[c].op = "write"
    BY <1>2, <1>4, <2>1, <2>2 DEF Truly, OwnTx, StatementsOf, AllIn
  <2>3. CASE studio[c].op = "edits"
    <3>1. /\ committed' = committed /\ session'[x].inTx /\ session'[x].tx = Before(c, studio'[c].next)
          /\ After(c) \in {"run", "commit"}
      BY <1>2, <1>4, <2>1, <2>3
    <3> QED
      BY <1>2, <1>4, <2>1, <2>3, <3>1 DEF Truly, OwnTx, NoneIn
  <2> QED
    BY <1>4, <2>2, <2>3
<1>7. studio'[c].at # "none"
  BY <1>4
<1> QED
  BY <1>1, <1>2, <1>4, <1>5, <1>6, <1>7, OneMoves

\* The client gives up on a statement: one of a batch is rolled back with it, one on its
\* own is committed, and nobody hears of it.
LEMMA TimesOut ==
  ASSUME StudioInv, NEW c \in StudioCalls, MysqlTimesOut(c) PROVE StudioInv'
<1> DEFINE x == studio[c].on
           s == <<c, studio[c].next>>
<1>1. /\ LandsMysql(c) /\ StudioTo(c, Failing(c))
      /\ unheard' = IF session[x].inTx THEN unheard ELSE unheard \cup {c}
  BY DEF MysqlTimesOut
<1>2. /\ studio[c].at = "run" /\ Mine(c) /\ studio[c] \in StudioCall /\ InShape(c)
      /\ committed' \in SUBSET (StudioCalls \X {1, 2})
      /\ session' \in [Profiles -> [dial : {"idle", "open", "refused"}, inTx : BOOLEAN, tx : SUBSET (StudioCalls \X {1, 2})]]
      /\ \A y \in Profiles : \A t \in session'[y].tx : t \in session[y].tx \/ t[1] = c
      /\ \A k \in StudioCalls \ {c} : ~Mine(k) => \A i \in {1, 2} : <<k, i>> \in committed' <=> <<k, i>> \in committed
      /\ committed' = IF session[x].inTx THEN committed ELSE committed \cup {s}
      /\ OwnTx(c) => \/ studio[c].op = "write" /\ ~session[x].inTx /\ studio[c].next = 1
                     \/ studio[c].op = "edits" /\ session[x].inTx /\ session[x].tx = Before(c, studio[c].next)
  BY <1>1, Lands
<1>3. Failing(c) \in {"rollback", "failed"} /\ (Failing(c) = "rollback" <=> studio[c].op = "edits")
  BY DEF Failing
<1>4. /\ studio' \in [StudioCalls -> StudioCall] /\ \A k \in StudioCalls \ {c} : OnlyEnded(k)
      /\ studio'[c].op = studio[c].op /\ studio'[c].on = studio[c].on /\ studio'[c].at = Failing(c)
      /\ studio'[c].next = studio[c].next /\ studio'[c].mine = studio[c].mine
  <2>1. /\ [studio[c] EXCEPT !.at = Failing(c)] \in StudioCall /\ studio' = [studio EXCEPT ![c] = [studio[c] EXCEPT !.at = Failing(c)]]
        /\ studio'[c].op = studio[c].op /\ studio'[c].on = studio[c].on /\ studio'[c].at = Failing(c)
        /\ studio'[c].next = studio[c].next /\ studio'[c].mine = studio[c].mine
    BY <1>1, <1>2, <1>3, ToMoves
  <2> QED
    BY <2>1, CallMoves
<1>5. StudioTyped' /\ unheard \subseteq unheard'
  BY <1>1, <1>2, <1>4 DEF StudioInv, StudioTyped
<1>6. InShape(c)' /\ Mine(c)'
  BY <1>2, <1>3, <1>4 DEF InShape, Mine
<1>7. Alone(c) => Truly(c)' /\ OwnTx(c)'
  <2> SUFFICES ASSUME Alone(c) PROVE Truly(c)' /\ OwnTx(c)'
    OBVIOUS
  <2>1. Truly(c) /\ OwnTx(c)
    BY <1>2 DEF StudioInv
  <2>2. CASE studio[c].op = "write"
    BY <1>1, <1>2, <1>3, <1>4, <2>1, <2>2 DEF Truly, OwnTx, StatementsOf, AllIn
  <2>3. CASE studio[c].op = "edits"
    BY <1>1, <1>2, <1>3, <1>4, <2>1, <2>3 DEF Truly, OwnTx, NoneIn
  <2> QED
    BY <1>2, <2>2, <2>3 DEF InShape
<1>8. studio'[c].at # "none"
  BY <1>3, <1>4
<1> QED
  BY <1>2, <1>4, <1>5, <1>6, <1>7, <1>8, OneMoves

\* A statement on its own that is carried out and not answered.
LEMMA WritesUnheard ==
  ASSUME StudioInv, NEW c \in StudioCalls, WriteUnheard(c) PROVE StudioInv'
<1>1. /\ studio[c].at = "run" /\ studio[c].op = "write" /\ ~Mine(c) /\ StudioTo(c, "failed") /\ session' = session
      /\ committed' = committed \cup {<<c, 1>>} /\ unheard' = unheard \cup {c} /\ InShape(c)
  BY DEF WriteUnheard, StudioAt, StudioInv
<1>2. /\ studio' \in [StudioCalls -> StudioCall] /\ \A k \in StudioCalls \ {c} : OnlyEnded(k)
      /\ studio'[c].op = studio[c].op /\ studio'[c].on = studio[c].on /\ studio'[c].at = "failed"
      /\ studio'[c].next = studio[c].next /\ studio'[c].mine = studio[c].mine
  <2>1. /\ [studio[c] EXCEPT !.at = "failed"] \in StudioCall /\ studio' = [studio EXCEPT ![c] = [studio[c] EXCEPT !.at = "failed"]]
        /\ studio'[c].op = studio[c].op /\ studio'[c].on = studio[c].on /\ studio'[c].at = "failed"
        /\ studio'[c].next = studio[c].next /\ studio'[c].mine = studio[c].mine
    BY <1>1, ToMoves
  <2> QED
    BY <2>1, CallMoves
<1>3. StudioTyped'
  BY <1>1, <1>2 DEF StudioInv, StudioTyped
<1>4. InShape(c)' /\ ~Mine(c)'
  BY <1>1, <1>2 DEF InShape, Mine
<1>5. Truly(c)' /\ OwnTx(c)'
  BY <1>1, <1>2, <1>4 DEF Truly, OwnTx, StatementsOf, AllIn
<1>6. \A k \in StudioCalls \ {c} : \A i \in {1, 2} : <<k, i>> \in committed' <=> <<k, i>> \in committed
  BY <1>1
<1>7. studio'[c].at # "none"
  BY <1>2
<1> QED
  BY <1>1, <1>2, <1>3, <1>4, <1>5, <1>6, <1>7, OneMoves

LEMMA RunsPostgres ==
  ASSUME StudioInv, NEW c \in StudioCalls, RunPostgres(c) PROVE StudioInv'
<1> DEFINE s == <<c, studio[c].next>>
           batch == studio[c].op = "edits"
           mine == IF batch THEN studio[c].mine \cup {s} ELSE studio[c].mine
<1>1. /\ studio[c].at = "run" /\ ~Mine(c) /\ studio[c] \in StudioCall /\ InShape(c)
      /\ session' = session /\ unheard' = unheard /\ committed' = IF batch THEN committed ELSE committed \cup {s}
  BY DEF RunPostgres, StudioAt, StudioInv, StudioTyped
<1>2. s \in {c} \X {1, 2}
  BY <1>1 DEF InShape
<1>3. mine \in SUBSET (StudioCalls \X {1, 2}) /\ mine \subseteq {c} \X {1, 2}
  BY <1>1, <1>2 DEF StudioCall, InShape
<1>4. studio' = [studio EXCEPT ![c].at = After(c), ![c].next = @ + 1, ![c].mine = mine]
  BY <1>1 DEF RunPostgres, StudioInv, StudioTyped, StudioCall
<1>5. ~Mine(c) /\ studio[c].op = "edits" => mine = studio[c].mine \cup {s}
  OBVIOUS
<1> HIDE DEF mine
<1>6. /\ studio' \in [StudioCalls -> StudioCall] /\ \A k \in StudioCalls \ {c} : OnlyEnded(k)
      /\ studio'[c].op = studio[c].op /\ studio'[c].on = studio[c].on
      /\ studio'[c].at = After(c)
      /\ (studio[c].op = "edits" /\ studio[c].next = 1 /\ After(c) = "run")
         \/ (studio[c].op = "edits" /\ studio[c].next = 2 /\ After(c) = "commit")
         \/ (studio[c].op = "write" /\ studio[c].next = 1 /\ After(c) = "ok")
      /\ InShape(c)' /\ Mine(c)' = Mine(c)
  BY <1>1, <1>3, <1>4, <1>5, RunsOn
<1>7. StudioTyped'
  BY <1>1, <1>2, <1>6 DEF StudioInv, StudioTyped
<1>8. Truly(c)'
  <2>1. Truly(c)
    BY <1>1 DEF StudioInv
  <2>2. CASE batch
    BY <1>1, <1>6, <2>1, <2>2 DEF Truly, NoneIn
  <2>3. CASE ~batch
    BY <1>1, <1>6, <2>3 DEF Truly, StatementsOf, AllIn
  <2> QED
    BY <2>2, <2>3
<1>9. OwnTx(c)'
  BY <1>1, <1>6 DEF OwnTx
<1>10. studio'[c].at # "none"
  BY <1>6
<1> QED
  BY <1>1, <1>6, <1>7, <1>8, <1>9, <1>10, OneMoves

\* What ends a transaction of a session: the session is left without one.
LEMMA EndsTx ==
  ASSUME StudioInv, NEW x \in Profiles,
         session' = [session EXCEPT ![x].inTx = FALSE, ![x].tx = {}] \/ session' = [session EXCEPT ![x] = Broken]
  PROVE  /\ session' \in [Profiles -> [dial : {"idle", "open", "refused"}, inTx : BOOLEAN, tx : SUBSET (StudioCalls \X {1, 2})]]
         /\ \A y \in Profiles : session'[y].tx \subseteq session[y].tx
<1> DEFINE z == [session[x] EXCEPT !.inTx = FALSE, !.tx = {}]
           NoTxs == {y \in [dial : {"idle", "open", "refused"}, inTx : BOOLEAN, tx : SUBSET (StudioCalls \X {1, 2})] : y.tx = {}}
<1>1. z \in NoTxs /\ Broken \in NoTxs
  BY DEF StudioInv, StudioTyped, Broken
<1>2. session' = [session EXCEPT ![x] = z] \/ session' = [session EXCEPT ![x] = Broken]
  BY DEF StudioInv, StudioTyped
<1> HIDE DEF z
<1>3. PICK e \in NoTxs : session' = [session EXCEPT ![x] = e]
  BY <1>1, <1>2
<1> QED
  BY <1>3, SessionTyped DEF StudioInv

\* What the request's session or its connection held is committed, and its answer says so or is lost.
LEMMA CommitsMysql ==
  ASSUME StudioInv, NEW c \in StudioCalls, CommitMysql(c) \/ MysqlCommitUnheard(c) PROVE StudioInv'
<1> DEFINE x == studio[c].on
           dead == studio[c].gone \/ session[x].dial # "open"
<1>1. studio[c].at = "commit" /\ Mine(c) /\ InShape(c) /\ studio[c].op = "edits" /\ studio[c].next = 3 /\ x \in Profiles
  BY DEF CommitMysql, MysqlCommitUnheard, StudioAt, StudioInv, InShape
<1>2. CASE CommitMysql(c) /\ dead
  <2>1. StudioTo(c, "rollback") /\ UNCHANGED <<session, committed, unheard>>
    BY <1>2 DEF CommitMysql
  <2> QED
    BY <1>1, <2>1, QuietTo
<1>3. CASE ~dead
  <2>1. PICK at \in {"ok", "failed"} :
        /\ StudioTo(c, at) /\ committed' = committed \cup session[x].tx
        /\ session' = [session EXCEPT ![x].inTx = FALSE, ![x].tx = {}] \/ session' = [session EXCEPT ![x] = Broken]
        /\ unheard' = IF at = "ok" THEN unheard ELSE unheard \cup {c}
    <3>1. CASE CommitMysql(c)
      BY <1>3, <3>1 DEF CommitMysql
    <3>2. CASE MysqlCommitUnheard(c)
      BY <1>3, <3>2 DEF MysqlCommitUnheard
    <3> QED
      BY <3>1, <3>2
  <2>2. /\ studio' \in [StudioCalls -> StudioCall] /\ \A k \in StudioCalls \ {c} : OnlyEnded(k)
        /\ studio'[c].at = at /\ studio'[c].op = studio[c].op /\ studio'[c].on = studio[c].on
        /\ studio'[c].mine = studio[c].mine
    <3>1. /\ [studio[c] EXCEPT !.at = at] \in StudioCall /\ studio' = [studio EXCEPT ![c] = [studio[c] EXCEPT !.at = at]]
          /\ studio'[c].at = at /\ studio'[c].op = studio[c].op /\ studio'[c].on = studio[c].on
          /\ studio'[c].mine = studio[c].mine
      BY <1>1, <2>1, ToMoves
    <3> QED
      BY <3>1, CallMoves
  <2>3. StudioTyped' /\ unheard \subseteq unheard' /\ \A y \in Profiles : session'[y].tx \subseteq session[y].tx
    <3>1. committed' \in SUBSET (StudioCalls \X {1, 2}) /\ unheard' \in SUBSET StudioCalls /\ unheard \subseteq unheard'
      BY <1>1, <2>1 DEF StudioInv, StudioTyped
    <3> QED
      BY <1>1, <2>1, <2>2, <3>1, EndsTx DEF StudioTyped
  <2>4. \A k \in StudioCalls \ {c} : ~Mine(k) => \A i \in {1, 2} : <<k, i>> \in committed' <=> <<k, i>> \in committed
    <3> SUFFICES ASSUME NEW k \in StudioCalls \ {c}, ~Mine(k), NEW i \in {1, 2} PROVE <<k, i>> \notin session[x].tx
      BY <2>1
    <3> QED
      BY <1>1 DEF StudioInv, TxOfMysql
  <2>5. InShape(c)' /\ Mine(c)'
    BY <1>1, <2>2 DEF InShape, Mine
  <2>6. Alone(c) => Truly(c)' /\ OwnTx(c)'
    <3> SUFFICES ASSUME Alone(c) PROVE Truly(c)' /\ OwnTx(c)'
      OBVIOUS
    <3>1. session[x].tx = Before(c, 3)
      BY <1>1, <1>3 DEF StudioInv, OwnTx
    <3>2. <<c, 1>> \in Before(c, 3) /\ <<c, 2>> \in Before(c, 3)
      BY DEF Before
    <3>3. AllIn(c)'
      BY <1>1, <2>1, <2>2, <3>1, <3>2 DEF AllIn, StatementsOf
    <3>4. Truly(c)'
      BY <2>1, <2>2, <3>3 DEF Truly
    <3>5. OwnTx(c)'
      BY <2>2 DEF OwnTx
    <3> QED
      BY <3>4, <3>5
  <2>7. studio'[c].at # "none" /\ studio'[c].on = studio[c].on
    BY <2>2
  <2> QED
    BY <2>2, <2>3, <2>4, <2>5, <2>6, <2>7, OneMoves
<1> QED
  BY <1>2, <1>3 DEF MysqlCommitUnheard

LEMMA RollsBackMysql ==
  ASSUME StudioInv, NEW c \in StudioCalls, RollbackMysql(c) PROVE StudioInv'
<1> DEFINE x == studio[c].on
<1>1. /\ studio[c].at = "rollback" /\ Mine(c) /\ InShape(c) /\ x \in Profiles /\ StudioTo(c, "failed")
      /\ committed' = committed /\ unheard' = unheard
      /\ session' = session \/ session' = [session EXCEPT ![x].inTx = FALSE, ![x].tx = {}]
  BY DEF RollbackMysql, StudioAt, StudioInv, InShape
<1>2. CASE session' = session
  BY <1>1, <1>2, QuietTo
<1>3. CASE session' = [session EXCEPT ![x].inTx = FALSE, ![x].tx = {}]
  <2>1. /\ studio' \in [StudioCalls -> StudioCall] /\ \A k \in StudioCalls \ {c} : OnlyEnded(k)
        /\ studio'[c].at = "failed" /\ studio'[c].op = studio[c].op /\ studio'[c].on = studio[c].on
        /\ studio'[c].mine = studio[c].mine
    <3>1. /\ [studio[c] EXCEPT !.at = "failed"] \in StudioCall /\ studio' = [studio EXCEPT ![c] = [studio[c] EXCEPT !.at = "failed"]]
          /\ studio'[c].at = "failed" /\ studio'[c].op = studio[c].op /\ studio'[c].on = studio[c].on
          /\ studio'[c].mine = studio[c].mine
      BY <1>1, ToMoves
    <3> QED
      BY <3>1, CallMoves
  <2>2. StudioTyped' /\ \A y \in Profiles : session'[y].tx \subseteq session[y].tx
    <3>1. committed' \in SUBSET (StudioCalls \X {1, 2}) /\ unheard' \in SUBSET StudioCalls
      BY <1>1 DEF StudioInv, StudioTyped
    <3> QED
      BY <1>1, <1>3, <2>1, <3>1, EndsTx DEF StudioTyped
  <2>3. InShape(c)' /\ Mine(c)'
    BY <1>1, <2>1 DEF InShape, Mine
  <2>4. Alone(c) => Truly(c)' /\ OwnTx(c)'
    BY <1>1, <2>1 DEF StudioInv, Truly, OwnTx, NoneIn
  <2>5. studio'[c].at # "none" /\ studio'[c].on = studio[c].on
    BY <2>1
  <2> QED
    BY <1>1, <2>1, <2>2, <2>3, <2>4, <2>5, OneMoves
<1> QED
  BY <1>1, <1>2, <1>3

\* The end of a batch that has a connection of its own.
LEMMA EndsPostgres ==
  ASSUME StudioInv, NEW c \in StudioCalls, CommitPostgres(c) \/ RollbackPostgres(c) \/ PostgresCommitUnheard(c) PROVE StudioInv'
<1>1. ~Mine(c) /\ InShape(c) /\ studio[c] \in StudioCall /\ Truly(c)
  BY DEF CommitPostgres, RollbackPostgres, PostgresCommitUnheard, StudioInv, StudioTyped
<1>2. PICK at \in {"ok", "failed"}, all \in BOOLEAN :
        /\ studio' = [studio EXCEPT ![c].at = at, ![c].mine = {}] /\ session' = session
        /\ studio[c].at \in {"commit", "rollback"} /\ (at = "ok" => all)
        /\ all => studio[c].at = "commit" /\ committed' = committed \cup studio[c].mine
        /\ ~all => committed' = committed
        /\ unheard' = IF all /\ at = "failed" THEN unheard \cup {c} ELSE unheard
  <2>1. CASE CommitPostgres(c)
    BY <2>1 DEF CommitPostgres, StudioAt
  <2>2. CASE RollbackPostgres(c)
    BY <2>2 DEF RollbackPostgres, StudioAt
  <2>3. CASE PostgresCommitUnheard(c)
    BY <2>3 DEF PostgresCommitUnheard, StudioAt
  <2> QED
    BY <2>1, <2>2, <2>3
<1> DEFINE r == [studio[c] EXCEPT !.at = at, !.mine = {}]
<1>3. r \in StudioCall /\ r.at = at /\ r.op = studio[c].op /\ r.on = studio[c].on /\ r.mine = {}
  BY <1>1 DEF StudioCall
<1>4. studio' = [studio EXCEPT ![c] = r]
  BY <1>1, <1>2 DEF StudioInv, StudioTyped
<1> HIDE DEF r
<1>5. studio' \in [StudioCalls -> StudioCall] /\ studio'[c] = r /\ \A k \in StudioCalls \ {c} : OnlyEnded(k)
  BY <1>3, <1>4, CallMoves
<1>6. studio[c].mine \subseteq {c} \X {1, 2}
  BY <1>1 DEF InShape
<1>7. StudioTyped' /\ unheard \subseteq unheard'
  BY <1>2, <1>5, <1>6 DEF StudioInv, StudioTyped
<1>8. InShape(c)'
  BY <1>1, <1>2, <1>3, <1>5 DEF InShape
<1>9. Truly(c)'
  <2>1. CASE ~all
    BY <1>1, <1>2, <1>3, <1>5, <2>1 DEF Truly, NoneIn
  <2>2. CASE all
    <3>1. studio[c].mine = Before(c, 3) /\ studio[c].op = "edits"
      BY <1>1, <1>2, <2>2 DEF InShape
    <3>2. <<c, 1>> \in Before(c, 3) /\ <<c, 2>> \in Before(c, 3)
      BY DEF Before
    <3>3. AllIn(c)'
      BY <1>2, <1>3, <1>5, <2>2, <3>1, <3>2 DEF AllIn, StatementsOf
    <3> QED
      BY <1>2, <1>3, <1>5, <2>2, <3>3 DEF Truly
  <2> QED
    BY <2>1, <2>2
<1>10. OwnTx(c)'
  BY <1>1, <1>2, <1>3, <1>5 DEF OwnTx
<1>11. \A k \in StudioCalls \ {c} : \A i \in {1, 2} : <<k, i>> \in committed' <=> <<k, i>> \in committed
  BY <1>2, <1>6
<1>12. studio'[c].at # "none" /\ studio'[c].on = studio[c].on
  BY <1>2, <1>3, <1>5
<1> QED
  BY <1>2, <1>5, <1>7, <1>8, <1>9, <1>10, <1>11, <1>12, OneMoves

LEMMA StudioHolds ==
  ASSUME PoolTyped, StudioInv, [StudioNext]_studioVars PROVE PoolTyped' /\ StudioInv'
<1>1. ASSUME UNCHANGED studioVars PROVE StudioInv'
  <2>1. StudioTyped' /\ TxOfMysql'
    BY <1>1 DEF studioVars, StudioInv, StudioTyped, TxOfMysql, Mine
  <2>2. \A c \in StudioCalls : Mine(c)' = Mine(c) /\ Alone(c)' = Alone(c) /\ Truly(c)' = Truly(c)
    BY <1>1 DEF studioVars, Mine, Alone, Truly, StatementsOf, NewCall, AllIn, NoneIn
  <2>3. \A c \in StudioCalls : InShape(c)' = InShape(c)
    BY <1>1, <2>2 DEF studioVars, InShape, NewCall
  <2>4. \A c \in StudioCalls : OwnTx(c)' = OwnTx(c)
    BY <1>1, <2>2 DEF studioVars, OwnTx
  <2> QED
    BY <2>1, <2>2, <2>3, <2>4 DEF StudioInv
<1>2. ASSUME NEW x \in Profiles, CreateExternal(x) \/ DeleteExternal(x) \/ EvictExternal(x) \/ SessionDrops(x) PROVE StudioInv'
  BY <1>2, ProfileMoves
<1>3. ASSUME NEW c \in StudioCalls,
             \/ ResolveExternal(c) \/ Acquire(c) \/ DialMysql(c) \/ DialFailed(c) \/ BeginStatement(c)
             \/ BeginMysql(c) \/ BeginPostgres(c) \/ RunMysql(c) \/ RunPostgres(c) \/ StatementFails(c)
             \/ CommitMysql(c) \/ RollbackMysql(c) \/ CommitPostgres(c) \/ RollbackPostgres(c)
             \/ MysqlTimesOut(c) \/ WriteUnheard(c) \/ PostgresCommitUnheard(c) \/ MysqlCommitUnheard(c)
      PROVE  StudioInv'
  BY <1>3, Resolves, Acquires, Dials, QuietSteps, BeginsMysql, RunsMysql, RunsPostgres, CommitsMysql, RollsBackMysql,
     EndsPostgres, TimesOut, WritesUnheard
<1>4. StudioInv'
  BY <1>1, <1>2, <1>3 DEF StudioNext
<1> QED
  BY <1>4, PoolHolds

LEMMA StudioShown == PoolTyped /\ StudioInv => StudioTypeOK /\ EditsAtomic
<1> SUFFICES ASSUME PoolTyped, StudioInv PROVE StudioTypeOK /\ EditsAtomic
  OBVIOUS
<1>1. StudioTypeOK
  BY DEF PoolTyped, StudioInv, StudioTyped, StudioTypeOK, StudioCall
<1>2. EditsAtomic
  BY DEF StudioInv, Truly, Alone, EditsAtomic, AnsweredTruly, StudioAt
<1> QED
  BY <1>1, <1>2

(***************************************************************************)
(* The page of the studio.                                                 *)
(***************************************************************************)
Places == PageTables \cup {NoTable} \cup {<<c, Nothing>> : c \in PageConns}

PageRec ==
  [conn : PageConns \cup {Nothing}, table : PageTables \cup {NoTable}, schema : PageConns \cup {Nothing, "unread"},
   schemaLoading : BOOLEAN, rows : Browsed, rowsLoading : BOOLEAN, view : Views, detail : PageTables \cup {NoTable},
   tab : {"data", "structure"}, writeMode : BOOLEAN, pending : SUBSET (Edits \X PageTables), committing : BOOLEAN,
   crossed : BOOLEAN]

PageCall ==
  [kind : {"none", "schema", "rows", "detail", "commit", "remove"}, of : Places, view : Views, current : BOOLEAN,
   edits : SUBSET (Edits \X PageTables), answer : {"none", "ok", "failed"}]

PageTyped ==
  /\ page \in PageRec /\ pageCalls \in [PageCalls -> PageCall]
  /\ saved \subseteq PageConns /\ made \subseteq Edits /\ astray \subseteq made /\ applied \subseteq made
  /\ twice \subseteq applied /\ misplaced \subseteq applied
  /\ \A r \in PageCalls : /\ pageCalls[r].kind \in {"rows", "detail", "commit"} => pageCalls[r].of \in PageTables
                          /\ pageCalls[r].kind = "schema" => pageCalls[r].of[1] \in PageConns

Is(calls, r, kind) == calls[r].kind = kind
Now(calls, r, kind) == calls[r].kind = kind /\ calls[r].current

\* What is on screen and what the current request of its kind will bring.
TreeOk ==
  page.conn # Nothing => /\ page.schema \in PageConns => page.schema = page.conn
                         /\ \A r \in PageCalls : Now(pageCalls, r, "schema") => pageCalls[r].of[1] = page.conn

GridOk ==
  page.table # NoTable /\ ~page.crossed =>
    /\ page.rowsLoading \/ page.rows = NoRows \/ page.rows = <<page.table, page.view>>
    /\ \A r \in PageCalls : Now(pageCalls, r, "rows") => pageCalls[r].of = page.table /\ pageCalls[r].view = page.view

DetailOk ==
  page.table # NoTable =>
    /\ page.detail \in {NoTable, page.table}
    /\ \A r \in PageCalls : Now(pageCalls, r, "detail") => pageCalls[r].of = page.table

\* One commit at a time; what it carries, and what waits, was typed on the table that is
\* picked, or is astray, and is not carried out yet.
EditsOk ==
  /\ \A p \in page.pending : p[1] \in made /\ (page.table # NoTable => p[2] = page.table \/ p[1] \in astray)
  /\ misplaced \subseteq astray /\ (twice # {} => answerLost)
  /\ \A r \in PageCalls : Is(pageCalls, r, "commit") =>
       /\ page.committing /\ \A q \in PageCalls : Is(pageCalls, q, "commit") => q = r
       /\ \A p \in pageCalls[r].edits : p[1] \in made /\ (p[2] = pageCalls[r].of \/ p[1] \in astray)
  /\ ~answerLost =>
       /\ \A r \in PageCalls : Is(pageCalls, r, "commit") /\ pageCalls[r].answer = "none" =>
            \A p \in pageCalls[r].edits : p[1] \notin applied
       /\ \A p \in page.pending : p[1] \in applied =>
            \E r \in PageCalls : Is(pageCalls, r, "commit") /\ pageCalls[r].answer = "ok"

PageInv == PageTyped /\ TreeOk /\ GridOk /\ DetailOk /\ EditsOk

LEMMA PageStarts == StudioPageInit => PageInv
<1> SUFFICES ASSUME StudioPageInit PROVE PageInv
  OBVIOUS
<1>1. page \in PageRec
  BY StudioPageAssumption DEF StudioPageInit, PageRec, Browsed
<1>2. NoCall \in PageCall /\ NoCall.kind = "none"
  BY StudioPageAssumption DEF NoCall, PageCall, Places
<1>3. /\ page.conn = Nothing /\ page.table = NoTable /\ page.pending = {}
      /\ \A r \in PageCalls : pageCalls[r] = NoCall
  BY DEF StudioPageInit
<1>4. PageTyped
  BY <1>1, <1>2, <1>3 DEF StudioPageInit, PageTyped
<1>5. TreeOk /\ GridOk /\ DetailOk
  BY <1>3 DEF TreeOk, GridOk, DetailOk
<1>6. EditsOk
  BY <1>2, <1>3 DEF StudioPageInit, EditsOk, Is
<1> QED
  BY <1>4, <1>5, <1>6 DEF PageInv

\* A request that is not the one that moves.
Fades(q) ==
  /\ pageCalls'[q].kind = pageCalls[q].kind /\ pageCalls'[q].of = pageCalls[q].of /\ pageCalls'[q].view = pageCalls[q].view
  /\ pageCalls'[q].edits = pageCalls[q].edits /\ pageCalls'[q].answer = pageCalls[q].answer
  /\ pageCalls'[q].current => pageCalls[q].current

LEMMA OvertakenTyped ==
  ASSUME NEW calls \in [PageCalls -> PageCall], NEW kind
  PROVE  /\ Overtaken(calls, kind) \in [PageCalls -> PageCall]
         /\ \A q \in PageCalls :
              /\ Overtaken(calls, kind)[q].kind = calls[q].kind /\ Overtaken(calls, kind)[q].of = calls[q].of
              /\ Overtaken(calls, kind)[q].view = calls[q].view /\ Overtaken(calls, kind)[q].edits = calls[q].edits
              /\ Overtaken(calls, kind)[q].answer = calls[q].answer
              /\ Overtaken(calls, kind)[q].current => calls[q].current
              /\ ~Now(Overtaken(calls, kind), q, kind)
<1>1. ASSUME NEW q \in PageCalls
      PROVE  /\ Overtaken(calls, kind)[q] \in PageCall
             /\ Overtaken(calls, kind)[q].kind = calls[q].kind /\ Overtaken(calls, kind)[q].of = calls[q].of
             /\ Overtaken(calls, kind)[q].view = calls[q].view /\ Overtaken(calls, kind)[q].edits = calls[q].edits
             /\ Overtaken(calls, kind)[q].answer = calls[q].answer
             /\ Overtaken(calls, kind)[q].current => calls[q].current
             /\ ~Now(Overtaken(calls, kind), q, kind)
  <2>1. calls[q] \in PageCall
    OBVIOUS
  <2>2. CASE calls[q].kind = kind
    <3>1. Overtaken(calls, kind)[q] = [calls[q] EXCEPT !.current = FALSE]
      BY <2>2 DEF Overtaken
    <3> QED
      BY <2>1, <3>1 DEF PageCall, Now
  <2>3. CASE calls[q].kind # kind
    <3>1. Overtaken(calls, kind)[q] = calls[q]
      BY <2>3 DEF Overtaken
    <3> QED
      BY <2>1, <2>3, <3>1 DEF Now
  <2> QED
    BY <2>2, <2>3
<1> QED
  BY <1>1 DEF Overtaken

LEMMA Sends ==
  ASSUME PageTyped, NEW r \in PageCalls, NEW call \in PageCall, pageCalls' = SendCall(pageCalls, r, call)
  PROVE  /\ pageCalls' \in [PageCalls -> PageCall] /\ pageCalls'[r] = call
         /\ \A q \in PageCalls \ {r} : Fades(q) /\ ~Now(pageCalls', q, call.kind)
<1> DEFINE K == Overtaken(pageCalls, call.kind)
<1>1. K \in [PageCalls -> PageCall]
  BY OvertakenTyped DEF PageTyped
<1>2. pageCalls' = [K EXCEPT ![r] = call]
  BY DEF SendCall
<1>3. pageCalls' \in [PageCalls -> PageCall] /\ pageCalls'[r] = call /\ \A q \in PageCalls \ {r} : pageCalls'[q] = K[q]
  BY <1>1, <1>2
<1> QED
  BY <1>3, OvertakenTyped DEF PageTyped, Fades, Now

LEMMA CleansAndSends ==
  ASSUME PageTyped, NEW r \in PageCalls, NEW call \in PageCall, pageCalls' = SendCall(Cleanup(pageCalls), r, call)
  PROVE  /\ pageCalls' \in [PageCalls -> PageCall] /\ pageCalls'[r] = call
         /\ \A q \in PageCalls \ {r} : Fades(q) /\ ~Now(pageCalls', q, call.kind) /\ ~Now(pageCalls', q, "detail")
<1> DEFINE J == Cleanup(pageCalls)
           K == Overtaken(J, call.kind)
<1>0. pageCalls \in [PageCalls -> PageCall]
  BY DEF PageTyped
<1>1. /\ J \in [PageCalls -> PageCall]
      /\ \A q \in PageCalls :
           /\ J[q].kind = pageCalls[q].kind /\ J[q].of = pageCalls[q].of /\ J[q].view = pageCalls[q].view
           /\ J[q].edits = pageCalls[q].edits /\ J[q].answer = pageCalls[q].answer
           /\ (J[q].current => pageCalls[q].current) /\ ~Now(J, q, "detail")
  BY <1>0, OvertakenTyped DEF Cleanup
<1> HIDE DEF J
<1>2. /\ K \in [PageCalls -> PageCall]
      /\ \A q \in PageCalls :
           /\ K[q].kind = J[q].kind /\ K[q].of = J[q].of /\ K[q].view = J[q].view
           /\ K[q].edits = J[q].edits /\ K[q].answer = J[q].answer
           /\ (K[q].current => J[q].current) /\ ~Now(K, q, call.kind)
  BY <1>1, OvertakenTyped
<1>3. pageCalls' = [K EXCEPT ![r] = call]
  BY DEF SendCall, J
<1> HIDE DEF K
<1>4. pageCalls' \in [PageCalls -> PageCall] /\ pageCalls'[r] = call /\ \A q \in PageCalls \ {r} : pageCalls'[q] = K[q]
  BY <1>2, <1>3
<1> QED
  BY <1>1, <1>2, <1>4 DEF Fades, Now

\* The four parts, where nothing they are about changes.
LEMMA TreeStays ==
  ASSUME TreeOk, page'.conn \in {page.conn, Nothing}, page'.schema = page.schema,
         \A q \in PageCalls : Now(pageCalls', q, "schema") => Now(pageCalls, q, "schema") /\ pageCalls'[q].of = pageCalls[q].of
  PROVE  TreeOk'
BY DEF TreeOk

LEMMA GridStays ==
  ASSUME GridOk, page'.table = page.table, page'.view = page.view, page'.rows = page.rows,
         page'.rowsLoading = page.rowsLoading, page'.crossed = page.crossed,
         \A q \in PageCalls : Now(pageCalls', q, "rows") =>
           Now(pageCalls, q, "rows") /\ pageCalls'[q].of = pageCalls[q].of /\ pageCalls'[q].view = pageCalls[q].view
  PROVE  GridOk'
BY DEF GridOk

LEMMA DetailStays ==
  ASSUME DetailOk, page'.table = page.table, page'.detail \in {page.detail, NoTable},
         \A q \in PageCalls : Now(pageCalls', q, "detail") => Now(pageCalls, q, "detail") /\ pageCalls'[q].of = pageCalls[q].of
  PROVE  DetailOk'
BY DEF DetailOk

LEMMA EditsStay ==
  ASSUME EditsOk, page'.pending \subseteq page.pending, page'.table \in {page.table, NoTable} \/ page'.pending = {},
         page'.committing = page.committing, UNCHANGED <<made, astray, applied, misplaced, twice, answerLost>>,
         \A q \in PageCalls : Is(pageCalls', q, "commit") = Is(pageCalls, q, "commit"),
         \A q \in PageCalls : Is(pageCalls, q, "commit") =>
           pageCalls'[q].of = pageCalls[q].of /\ pageCalls'[q].edits = pageCalls[q].edits
           /\ (pageCalls[q].answer = "ok" => pageCalls'[q].answer = "ok")
           /\ (pageCalls[q].answer # "none" => pageCalls'[q].answer # "none")
  PROVE  EditsOk'
<1>1. \A p \in page'.pending : p[1] \in made' /\ (page'.table # NoTable => p[2] = page'.table \/ p[1] \in astray')
  BY DEF EditsOk
<1>2. misplaced' \subseteq astray' /\ (twice' # {} => answerLost')
  BY DEF EditsOk
<1>3. ASSUME NEW r \in PageCalls, Is(pageCalls', r, "commit")
      PROVE  /\ page'.committing /\ \A q \in PageCalls : Is(pageCalls', q, "commit") => q = r
             /\ \A p \in pageCalls'[r].edits : p[1] \in made' /\ (p[2] = pageCalls'[r].of \/ p[1] \in astray')
  BY <1>3 DEF EditsOk
<1>4. ASSUME ~answerLost'
      PROVE  /\ \A r \in PageCalls : Is(pageCalls', r, "commit") /\ pageCalls'[r].answer = "none" =>
                  \A p \in pageCalls'[r].edits : p[1] \notin applied'
             /\ \A p \in page'.pending : p[1] \in applied' =>
                  \E r \in PageCalls : Is(pageCalls', r, "commit") /\ pageCalls'[r].answer = "ok"
  BY <1>4 DEF EditsOk
<1> QED
  BY <1>1, <1>2, <1>3, <1>4 DEF EditsOk

\* One request moves: r is sent, answered or forgotten.
LEMMA PageStays ==
  ASSUME PageTyped, NEW r \in PageCalls, page' \in PageRec, pageCalls' \in [PageCalls -> PageCall],
         \A q \in PageCalls \ {r} : Fades(q),
         pageCalls'[r].kind \in {"rows", "detail", "commit"} => pageCalls'[r].of \in PageTables,
         pageCalls'[r].kind = "schema" => pageCalls'[r].of[1] \in PageConns, UNCHANGED kept
  PROVE  PageTyped'
BY DEF PageTyped, Fades, kept

LEMMA SentEdits ==
  ASSUME PageInv, NEW r \in PageCalls, ~Is(pageCalls, r, "commit"), ~Is(pageCalls', r, "commit"),
         \A q \in PageCalls \ {r} : Fades(q), UNCHANGED kept, page'.committing = page.committing,
         page'.pending \subseteq page.pending, page'.table \in {page.table, NoTable} \/ page'.pending = {}
  PROVE  EditsOk'
<1>1. \A q \in PageCalls : Is(pageCalls', q, "commit") = Is(pageCalls, q, "commit")
  BY DEF Fades, Is
<1>2. \A q \in PageCalls : Is(pageCalls, q, "commit") => Fades(q)
  OBVIOUS
<1> QED
  BY <1>1, <1>2, EditsStay DEF PageInv, Fades, kept

LEMMA Free ==
  ASSUME PageInv, NEW r \in PageCalls, Unused(r) PROVE ~Is(pageCalls, r, "commit")
BY DEF Unused, NoCall, Is

LEMMA Sent ==
  ASSUME NEW kind \in {"schema", "rows", "detail", "commit", "remove"}, NEW of \in Places, NEW view \in Views,
         NEW edits \in SUBSET (Edits \X PageTables)
  PROVE  /\ Request(kind, of, view, edits) \in PageCall
         /\ Request(kind, of, view, edits).kind = kind /\ Request(kind, of, view, edits).of = of
         /\ Request(kind, of, view, edits).view = view /\ Request(kind, of, view, edits).edits = edits
         /\ Request(kind, of, view, edits).answer = "none"
BY DEF Request, PageCall

LEMMA Selects ==
  ASSUME PageInv, NEW c \in PageConns, NEW r \in PageCalls, SelectConnection(c, r) PROVE PageInv'
<1> DEFINE call == Request("schema", <<c, Nothing>>, FirstView, {})
<1>1. call \in PageCall /\ call.kind = "schema" /\ call.of = <<c, Nothing>>
  BY StudioPageAssumption, Sent DEF Places
<1>2. pageCalls' = SendCall(Cleanup(pageCalls), r, call) /\ UNCHANGED kept /\ Unused(r)
  BY DEF SelectConnection
<1> HIDE DEF call
<1>3. /\ pageCalls' \in [PageCalls -> PageCall] /\ pageCalls'[r] = call
      /\ \A q \in PageCalls \ {r} : Fades(q) /\ ~Now(pageCalls', q, "schema") /\ ~Now(pageCalls', q, "detail")
  BY <1>1, <1>2, CleansAndSends DEF PageInv
<1>4. /\ page' \in PageRec /\ page'.conn = c /\ page'.schema = Nothing /\ page'.table = NoTable /\ page'.pending = {}
      /\ page'.committing = page.committing
  BY StudioPageAssumption DEF PageInv, PageTyped, PageRec, SelectConnection, Browsed
<1>5. PageTyped'
  BY <1>1, <1>2, <1>3, <1>4, PageStays DEF PageInv
<1>6. TreeOk'
  BY <1>1, <1>3, <1>4, StudioPageAssumption DEF TreeOk, Now, Nothing
<1>7. GridOk' /\ DetailOk'
  BY <1>4 DEF GridOk, DetailOk
<1>8. EditsOk'
  BY <1>1, <1>2, <1>3, <1>4, Free, SentEdits DEF Is
<1> QED
  BY <1>5, <1>6, <1>7, <1>8 DEF PageInv

LEMMA Picks ==
  ASSUME PageInv, NEW t \in PageTables, NEW r \in PageCalls, SelectTable(t, r) PROVE PageInv'
<1> DEFINE call == Request("rows", t, FirstView, {})
<1>1. call \in PageCall /\ call.kind = "rows" /\ call.of = t /\ call.view = FirstView
  BY StudioPageAssumption, Sent DEF Places
<1>2. pageCalls' = SendCall(Cleanup(pageCalls), r, call) /\ UNCHANGED kept /\ Unused(r)
  BY DEF SelectTable, LoadRows
<1>3. page' = [page EXCEPT !.table = t, !.view = FirstView, !.tab = "data", !.detail = NoTable, !.writeMode = FALSE,
                           !.pending = {}, !.rowsLoading = TRUE, !.crossed = FALSE]
  BY DEF SelectTable, LoadRows, PageInv, PageTyped, PageRec
<1> HIDE DEF call
<1>4. /\ pageCalls' \in [PageCalls -> PageCall] /\ pageCalls'[r] = call
      /\ \A q \in PageCalls \ {r} : Fades(q) /\ ~Now(pageCalls', q, "rows") /\ ~Now(pageCalls', q, "detail")
  BY <1>1, <1>2, CleansAndSends DEF PageInv
<1>5. /\ page' \in PageRec /\ page'.conn = page.conn /\ page'.schema = page.schema /\ page'.table = t /\ page'.pending = {}
      /\ page'.committing = page.committing /\ page'.view = FirstView /\ page'.rowsLoading /\ page'.detail = NoTable
  BY <1>3, StudioPageAssumption DEF PageInv, PageTyped, PageRec, Browsed
<1>6. PageTyped'
  BY <1>1, <1>2, <1>4, <1>5, PageStays DEF PageInv
<1>7. TreeOk'
  BY <1>1, <1>4, <1>5, TreeStays DEF PageInv, Now, Fades
<1>8. GridOk' /\ DetailOk'
  BY <1>1, <1>4, <1>5 DEF GridOk, DetailOk, Now
<1>9. EditsOk'
  BY <1>1, <1>2, <1>4, <1>5, Free, SentEdits DEF Is
<1> QED
  BY <1>6, <1>7, <1>8, <1>9 DEF PageInv

\* Another view of the picked table, or the same one again.
LEMMA Reloads ==
  ASSUME PageInv, NEW v \in Views, NEW r \in PageCalls, ChangeView(v, r) \/ (v = page.view /\ Refresh(r)) PROVE PageInv'
<1> DEFINE call == Request("rows", page.table, v, {})
<1>0. page.table \in PageTables /\ page \in PageRec
  BY DEF ChangeView, Refresh, DataShown, PageInv, PageTyped, PageRec
<1>1. call \in PageCall /\ call.kind = "rows" /\ call.of = page.table /\ call.view = v
  BY <1>0, Sent DEF Places
<1>2. pageCalls' = SendCall(pageCalls, r, call) /\ UNCHANGED kept /\ Unused(r)
  BY DEF ChangeView, Refresh, LoadRows
<1>3. page' = [page EXCEPT !.view = v, !.rowsLoading = TRUE, !.crossed = FALSE]
  BY <1>0 DEF ChangeView, Refresh, LoadRows, PageRec
<1> HIDE DEF call
<1>4. /\ pageCalls' \in [PageCalls -> PageCall] /\ pageCalls'[r] = call
      /\ \A q \in PageCalls \ {r} : Fades(q) /\ ~Now(pageCalls', q, "rows")
  BY <1>1, <1>2, Sends DEF PageInv
<1>5. /\ page' \in PageRec /\ page'.conn = page.conn /\ page'.schema = page.schema /\ page'.table = page.table
      /\ page'.pending = page.pending /\ page'.committing = page.committing /\ page'.view = v /\ page'.rowsLoading
      /\ page'.detail = page.detail
  BY <1>0, <1>3 DEF PageRec
<1>6. PageTyped'
  BY <1>0, <1>1, <1>2, <1>4, <1>5, PageStays DEF PageInv
<1>7. TreeOk' /\ DetailOk'
  BY <1>1, <1>4, <1>5, TreeStays, DetailStays DEF PageInv, Now, Fades
<1>8. GridOk'
  BY <1>1, <1>4, <1>5 DEF GridOk, Now
<1>9. EditsOk'
  BY <1>1, <1>2, <1>4, <1>5, Free, SentEdits DEF Is
<1> QED
  BY <1>6, <1>7, <1>8, <1>9 DEF PageInv

LEMMA OpensTab ==
  ASSUME PageInv, NEW r \in PageCalls, OpenStructure(r) PROVE PageInv'
<1> DEFINE call == Request("detail", page.table, FirstView, {})
<1>0. page.table \in PageTables /\ page \in PageRec
  BY DEF OpenStructure, DataShown, PageInv, PageTyped, PageRec
<1>1. call \in PageCall /\ call.kind = "detail" /\ call.of = page.table
  BY <1>0, StudioPageAssumption, Sent DEF Places
<1>2. pageCalls' = SendCall(pageCalls, r, call) /\ UNCHANGED kept /\ Unused(r)
      /\ page' = [page EXCEPT !.tab = "structure", !.detail = NoTable]
  BY DEF OpenStructure
<1> HIDE DEF call
<1>4. /\ pageCalls' \in [PageCalls -> PageCall] /\ pageCalls'[r] = call
      /\ \A q \in PageCalls \ {r} : Fades(q) /\ ~Now(pageCalls', q, "detail")
  BY <1>1, <1>2, Sends DEF PageInv
<1>5. /\ page' \in PageRec /\ page'.conn = page.conn /\ page'.schema = page.schema /\ page'.table = page.table
      /\ page'.pending = page.pending /\ page'.committing = page.committing /\ page'.view = page.view
      /\ page'.rowsLoading = page.rowsLoading /\ page'.rows = page.rows /\ page'.crossed = page.crossed
      /\ page'.detail = NoTable
  BY <1>0, <1>2 DEF PageRec
<1>6. PageTyped'
  BY <1>0, <1>1, <1>2, <1>4, <1>5, PageStays DEF PageInv
<1>7. TreeOk' /\ GridOk'
  BY <1>1, <1>4, <1>5, TreeStays, GridStays DEF PageInv, Now, Fades
<1>8. DetailOk'
  BY <1>1, <1>4, <1>5 DEF DetailOk, Now
<1>9. EditsOk'
  BY <1>1, <1>2, <1>4, <1>5, Free, SentEdits DEF Is
<1> QED
  BY <1>6, <1>7, <1>8, <1>9 DEF PageInv

LEMMA AsksRemoval ==
  ASSUME PageInv, NEW r \in PageCalls, RemoveConn(r) PROVE PageInv'
<1> DEFINE call == Request("remove", <<page.conn, Nothing>>, FirstView, {})
<1>0. UNCHANGED <<page, kept>> /\ Unused(r) /\ page.conn \in PageConns \cup {Nothing}
  BY DEF RemoveConn, PageInv, PageTyped, PageRec
<1>1. call \in PageCall /\ call.kind = "remove"
  BY <1>0, StudioPageAssumption, Sent DEF Places, NoTable
<1>2. pageCalls' = SendCall(pageCalls, r, call)
  BY DEF RemoveConn
<1> HIDE DEF call
<1>4. /\ pageCalls' \in [PageCalls -> PageCall] /\ pageCalls'[r] = call
      /\ \A q \in PageCalls \ {r} : Fades(q)
  BY <1>1, <1>2, Sends DEF PageInv
<1>6. PageTyped'
  BY <1>0, <1>1, <1>4, PageStays DEF PageInv, PageTyped
<1>7. TreeOk' /\ GridOk' /\ DetailOk'
  BY <1>0, <1>1, <1>4, TreeStays, GridStays, DetailStays DEF PageInv, Now, Fades
<1>9. EditsOk'
  BY <1>0, <1>1, <1>4, Free, SentEdits DEF Is
<1> QED
  BY <1>6, <1>7, <1>9 DEF PageInv

LEMMA Commits ==
  ASSUME PageInv, NEW r \in PageCalls, CommitEdits(r) PROVE PageInv'
<1> DEFINE call == Request("commit", page.table, page.view, page.pending)
<1>0. page.table \in PageTables /\ page \in PageRec /\ page.table # NoTable /\ ~page.committing
  BY DEF CommitEdits, DataShown, PageInv, PageTyped, PageRec
<1>1. /\ call \in PageCall /\ call.kind = "commit" /\ call.of = page.table /\ call.edits = page.pending
      /\ call.answer = "none"
  BY <1>0, Sent DEF Places, PageRec
<1>2. pageCalls' = SendCall(pageCalls, r, call) /\ UNCHANGED kept /\ Unused(r)
      /\ page' = [page EXCEPT !.committing = TRUE]
  BY DEF CommitEdits
<1> HIDE DEF call
<1>4. /\ pageCalls' \in [PageCalls -> PageCall] /\ pageCalls'[r] = call
      /\ \A q \in PageCalls \ {r} : Fades(q)
  BY <1>1, <1>2, Sends DEF PageInv
<1>5. /\ page' \in PageRec /\ page'.conn = page.conn /\ page'.schema = page.schema /\ page'.table = page.table
      /\ page'.pending = page.pending /\ page'.committing /\ page'.view = page.view
      /\ page'.rowsLoading = page.rowsLoading /\ page'.rows = page.rows /\ page'.crossed = page.crossed
      /\ page'.detail = page.detail
  BY <1>0, <1>2 DEF PageRec
<1>6. PageTyped'
  BY <1>0, <1>1, <1>2, <1>4, <1>5, PageStays DEF PageInv
<1>7. TreeOk' /\ GridOk' /\ DetailOk'
  BY <1>1, <1>4, <1>5, TreeStays, GridStays, DetailStays DEF PageInv, Now, Fades
<1>8. EditsOk'
  <2>1. UNCHANGED <<made, astray, applied, misplaced, twice, answerLost>> /\ EditsOk
    BY <1>2 DEF kept, PageInv
  <2>2. \A q \in PageCalls : ~Is(pageCalls, q, "commit")
    BY <1>0, <2>1 DEF EditsOk
  <2>3. Is(pageCalls', r, "commit") /\ \A q \in PageCalls \ {r} : ~Is(pageCalls', q, "commit")
    BY <1>1, <1>4, <2>2 DEF Is, Fades
  <2>4. \A p \in page.pending : p[1] \in made /\ (p[2] = page.table \/ p[1] \in astray)
    BY <1>0, <2>1 DEF EditsOk
  <2>5. ~answerLost => \A p \in page.pending : p[1] \notin applied
    BY <2>1, <2>2 DEF EditsOk
  <2>6. misplaced \subseteq astray /\ (twice # {} => answerLost)
    BY <2>1 DEF EditsOk
  <2> HIDE DEF Is
  <2> QED
    BY <1>1, <1>4, <1>5, <2>1, <2>3, <2>4, <2>5, <2>6 DEF EditsOk
<1> QED
  BY <1>6, <1>7, <1>8 DEF PageInv

\* A click that sends nothing.
LEMMA Clicks ==
  ASSUME PageInv, OpenData \/ ToggleWrite \/ Discard PROVE PageInv'
<1>0. page \in PageRec /\ UNCHANGED kept
  BY DEF PageInv, PageTyped, OpenData, ToggleWrite, Discard
<1>1. /\ page' \in PageRec /\ page'.conn = page.conn /\ page'.schema = page.schema /\ page'.table = page.table
      /\ page'.pending \subseteq page.pending /\ page'.committing = page.committing /\ page'.view = page.view
      /\ page'.rowsLoading = page.rowsLoading /\ page'.rows = page.rows /\ page'.crossed = page.crossed
      /\ page'.detail \in {page.detail, NoTable}
  <2>1. CASE OpenData
    BY <1>0, <2>1 DEF OpenData, PageRec
  <2>2. CASE ToggleWrite
    BY <1>0, <2>2 DEF ToggleWrite, PageRec
  <2>3. CASE Discard
    BY <1>0, <2>3 DEF Discard, PageRec
  <2> QED
    BY <2>1, <2>2, <2>3
<1>2. pageCalls' \in [PageCalls -> PageCall] /\ \A q \in PageCalls : Fades(q)
  <2>1. CASE pageCalls' = pageCalls
    BY <2>1 DEF PageInv, PageTyped, Fades
  <2>2. CASE pageCalls' = Cleanup(pageCalls)
    BY <2>2, OvertakenTyped DEF PageInv, PageTyped, Fades, Cleanup
  <2> QED
    BY <2>1, <2>2 DEF OpenData, ToggleWrite, Discard
<1>3. PageTyped'
  BY <1>0, <1>1, <1>2 DEF PageInv, PageTyped, Fades, kept
<1>4. TreeOk' /\ GridOk' /\ DetailOk'
  BY <1>1, <1>2, TreeStays, GridStays, DetailStays DEF PageInv, Now, Fades
<1>5. EditsOk'
  BY <1>0, <1>1, <1>2, EditsStay DEF PageInv, Is, Fades, kept
<1> QED
  BY <1>3, <1>4, <1>5 DEF PageInv

LEMMA TypesIn ==
  ASSUME PageInv, NEW e \in Edits, EditCell(e) PROVE PageInv'
<1>0. page \in PageRec /\ page.table \in PageTables /\ page.table # NoTable /\ e \notin made
  BY DEF PageInv, PageTyped, PageRec, EditCell, Editable, DataShown
<1>1. page.rows[1] \in PageTables
  BY <1>0 DEF EditCell, Editable, PageRec, Browsed
<1>2. /\ page' = [page EXCEPT !.pending = @ \cup {<<e, page.rows[1]>>}] /\ made' = made \cup {e}
      /\ astray' = (IF page.rows[1] = page.table THEN astray ELSE astray \cup {e})
      /\ UNCHANGED <<pageCalls, saved, applied, misplaced, twice, answerLost>>
  BY DEF EditCell
<1>3. /\ page' \in PageRec /\ page'.conn = page.conn /\ page'.schema = page.schema /\ page'.table = page.table
      /\ page'.pending = page.pending \cup {<<e, page.rows[1]>>} /\ page'.committing = page.committing
      /\ page'.view = page.view /\ page'.rowsLoading = page.rowsLoading /\ page'.rows = page.rows
      /\ page'.crossed = page.crossed /\ page'.detail = page.detail
  BY <1>0, <1>1, <1>2 DEF PageRec
<1>4. PageTyped'
  BY <1>2, <1>3 DEF PageInv, PageTyped
<1>5. TreeOk' /\ GridOk' /\ DetailOk'
  BY <1>2, <1>3, TreeStays, GridStays, DetailStays DEF PageInv, Now
<1>6. EditsOk'
  <2>1. EditsOk /\ applied \subseteq made
    BY DEF PageInv, PageTyped
  <2>2. \A p \in page'.pending : p[1] \in made' /\ (p[2] = page.table \/ p[1] \in astray')
    BY <1>0, <1>2, <1>3, <2>1 DEF EditsOk
  <2>3. ~answerLost => \A p \in page'.pending : p[1] \in applied =>
          \E r \in PageCalls : Is(pageCalls, r, "commit") /\ pageCalls[r].answer = "ok"
    BY <1>0, <1>3, <2>1 DEF EditsOk
  <2>4. \A r \in PageCalls : Is(pageCalls', r, "commit") = Is(pageCalls, r, "commit")
    BY <1>2 DEF Is
  <2>5. astray \subseteq astray' /\ made \subseteq made'
    BY <1>2
  <2> QED
    BY <1>0, <1>2, <1>3, <2>1, <2>2, <2>3, <2>4, <2>5 DEF EditsOk
<1> QED
  BY <1>4, <1>5, <1>6 DEF PageInv

\* An answer that changes nothing on the server.
LEMMA CallAnswers ==
  ASSUME PageInv, NEW r \in PageCalls, NEW how \in {"ok", "failed"}, AnswersWith(r, how)
  PROVE  /\ pageCalls' \in [PageCalls -> PageCall] /\ \A q \in PageCalls \ {r} : pageCalls'[q] = pageCalls[q]
         /\ pageCalls'[r].kind = pageCalls[r].kind /\ pageCalls'[r].of = pageCalls[r].of
         /\ pageCalls'[r].view = pageCalls[r].view /\ pageCalls'[r].current = pageCalls[r].current
         /\ pageCalls'[r].edits = pageCalls[r].edits /\ pageCalls'[r].answer = how
BY DEF PageInv, PageTyped, PageCall, AnswersWith

LEMMA AnswersKeep ==
  ASSUME PageInv, NEW r \in PageCalls, NEW how \in {"ok", "failed"}, AnswersWith(r, how), page' = page
  PROVE  TreeOk' /\ GridOk' /\ DetailOk'
BY CallAnswers, TreeStays, GridStays, DetailStays DEF PageInv, Now

LEMMA Serves ==
  ASSUME PageInv, NEW r \in PageCalls, ServeSchema(r) \/ ServeRows(r) \/ ServeDetail(r) \/ ServeRemove(r) PROVE PageInv'
<1>1. /\ page' = page /\ UNCHANGED <<made, astray, applied, misplaced, twice, answerLost>> /\ saved' \subseteq saved
      /\ ~Is(pageCalls, r, "commit")
  BY DEF ServeSchema, ServeRows, ServeDetail, ServeRemove, kept, Asks, Is
<1>2. PICK how \in {"ok", "failed"} : AnswersWith(r, how)
  BY DEF ServeSchema, ServeRows, ServeDetail, ServeRemove, Outcomes
<1>3. PageTyped'
  BY <1>1, <1>2, CallAnswers DEF PageInv, PageTyped
<1>4. EditsOk'
  BY <1>1, <1>2, CallAnswers, EditsStay DEF PageInv, Is
<1> QED
  BY <1>1, <1>2, <1>3, <1>4, AnswersKeep DEF PageInv

LEMMA ServesEdits ==
  ASSUME PageInv, NEW r \in PageCalls, ServeEdits(r) PROVE PageInv'
<1> DEFINE batch == pageCalls[r].edits
           carried == {x[1] : x \in batch}
<1>1. page' = page /\ UNCHANGED <<saved, made, astray>> /\ Is(pageCalls, r, "commit") /\ pageCalls[r].answer = "none"
  BY DEF ServeEdits, Asks, Is
<1>2. EditsOk /\ PageTyped /\ carried \subseteq made
        /\ {x[1] : x \in {y \in batch : y[2] # pageCalls[r].of}} \subseteq astray
        /\ {x[1] : x \in {y \in batch : y[2] # pageCalls[r].of}} \subseteq carried
        /\ (~answerLost => carried \cap applied = {})
  BY <1>1 DEF PageInv, EditsOk
<1>3. CASE AnswersWith(r, "failed") /\ UNCHANGED <<applied, misplaced, twice, answerLost>>
  <2>1. PageTyped'
    BY <1>1, <1>3, CallAnswers DEF PageInv, PageTyped
  <2>2. EditsOk'
    BY <1>1, <1>3, CallAnswers, EditsStay DEF PageInv, Is
  <2> QED
    BY <1>1, <1>3, <2>1, <2>2, AnswersKeep DEF PageInv
<1>4. CASE /\ applied' = applied \cup carried /\ twice' = twice \cup (carried \cap applied)
           /\ misplaced' = misplaced \cup {x[1] : x \in {y \in batch : y[2] # pageCalls[r].of}}
           /\ \/ AnswersWith(r, "ok") /\ UNCHANGED answerLost
              \/ AnswersWith(r, "failed") /\ answerLost' = TRUE
  <2>1. PICK how \in {"ok", "failed"} : AnswersWith(r, how) /\ (how = "ok" => answerLost' = answerLost)
                                        /\ (how = "failed" => answerLost')
    BY <1>4
  <2>2. /\ pageCalls' \in [PageCalls -> PageCall] /\ \A q \in PageCalls \ {r} : pageCalls'[q] = pageCalls[q]
        /\ pageCalls'[r].kind = pageCalls[r].kind /\ pageCalls'[r].of = pageCalls[r].of
        /\ pageCalls'[r].edits = pageCalls[r].edits /\ pageCalls'[r].answer = how
    BY <2>1, CallAnswers
  <2>3. PageTyped'
    BY <1>1, <1>2, <1>4, <2>2 DEF PageTyped
  <2>4. \A q \in PageCalls : Is(pageCalls', q, "commit") <=> q = r
    BY <1>1, <1>2, <2>2 DEF EditsOk, Is
  <2>5. misplaced' \subseteq astray /\ (twice' # {} => answerLost')
    BY <1>2, <1>4, <2>1 DEF EditsOk
  <2>6. ~answerLost' => how = "ok"
    BY <2>1
  <2>7. EditsOk'
    BY <1>1, <1>2, <2>2, <2>4, <2>5, <2>6 DEF EditsOk
  <2> QED
    BY <1>1, <2>1, <2>3, <2>7, AnswersKeep DEF PageInv
<1> QED
  BY <1>3, <1>4 DEF ServeEdits

LEMMA NoCallTyped == NoCall \in PageCall /\ NoCall.kind = "none"
BY StudioPageAssumption DEF NoCall, PageCall, Places

LEMMA Forgets ==
  ASSUME PageInv, NEW r \in PageCalls, pageCalls' = Forget(pageCalls, r)
  PROVE  /\ pageCalls' \in [PageCalls -> PageCall] /\ pageCalls'[r].kind = "none"
         /\ \A q \in PageCalls \ {r} : Fades(q)
BY NoCallTyped DEF PageInv, PageTyped, Forget, Fades

LEMMA SchemaCame ==
  ASSUME PageInv, NEW r \in PageCalls, SchemaArrives(r) PROVE PageInv'
<1>0. pageCalls[r].kind = "schema" /\ UNCHANGED kept /\ pageCalls' = Forget(pageCalls, r) /\ page \in PageRec
      /\ pageCalls[r].of[1] \in PageConns
  BY DEF SchemaArrives, AnswerOf, PageInv, PageTyped
<1>1. pageCalls' \in [PageCalls -> PageCall] /\ pageCalls'[r].kind = "none" /\ \A q \in PageCalls \ {r} : Fades(q)
  BY <1>0, Forgets
<1>2. /\ page' \in PageRec /\ page'.conn = page.conn /\ page'.table = page.table
      /\ page'.pending = page.pending /\ page'.committing = page.committing /\ page'.view = page.view
      /\ page'.rowsLoading = page.rowsLoading /\ page'.rows = page.rows /\ page'.crossed = page.crossed
      /\ page'.detail = page.detail
      /\ page'.schema = page.schema \/ (pageCalls[r].current /\ page'.schema \in {pageCalls[r].of[1], "unread"})
  <2>1. CASE ~pageCalls[r].current
    BY <1>0, <2>1 DEF SchemaArrives
  <2>2. CASE pageCalls[r].current
    BY <1>0, <2>2 DEF SchemaArrives, PageRec
  <2> QED
    BY <2>1, <2>2
<1>3. PageTyped'
  BY <1>0, <1>1, <1>2, PageStays DEF PageInv
<1>4. GridOk' /\ DetailOk'
  BY <1>1, <1>2, GridStays, DetailStays DEF PageInv, Now, Fades
<1>5. TreeOk'
  <2>1. Now(pageCalls, r, "schema") <=> pageCalls[r].current
    BY <1>0 DEF Now
  <2>2. \A q \in PageCalls : Now(pageCalls', q, "schema") => Now(pageCalls, q, "schema") /\ pageCalls'[q].of = pageCalls[q].of
    BY <1>1 DEF Now, Fades
  <2> QED
    BY <1>2, <2>1, <2>2, StudioPageAssumption DEF PageInv, TreeOk
<1>6. EditsOk'
  BY <1>0, <1>1, <1>2, SentEdits DEF Is
<1> QED
  BY <1>3, <1>4, <1>5, <1>6 DEF PageInv

LEMMA RowsCame ==
  ASSUME PageInv, NEW r \in PageCalls, RowsArrive(r) PROVE PageInv'
<1>0. /\ pageCalls[r].kind = "rows" /\ UNCHANGED kept /\ pageCalls' = Forget(pageCalls, r) /\ page \in PageRec
      /\ pageCalls[r].of \in PageTables /\ pageCalls[r].view \in Views
  BY DEF RowsArrive, AnswerOf, PageInv, PageTyped, PageCall
<1>1. pageCalls' \in [PageCalls -> PageCall] /\ pageCalls'[r].kind = "none" /\ \A q \in PageCalls \ {r} : Fades(q)
  BY <1>0, Forgets
<1>2. /\ page' \in PageRec /\ page'.conn = page.conn /\ page'.table = page.table /\ page'.schema = page.schema
      /\ page'.pending = page.pending /\ page'.committing = page.committing /\ page'.view = page.view
      /\ page'.crossed = page.crossed /\ page'.detail = page.detail
      /\ \/ page'.rows = page.rows /\ page'.rowsLoading = page.rowsLoading
         \/ pageCalls[r].current /\ page'.rows \in {NoRows, <<pageCalls[r].of, pageCalls[r].view>>}
  <2>1. CASE ~pageCalls[r].current
    BY <1>0, <2>1 DEF RowsArrive
  <2>2. CASE pageCalls[r].current
    BY <1>0, <2>2 DEF RowsArrive, PageRec, Browsed
  <2> QED
    BY <2>1, <2>2
<1>3. PageTyped'
  BY <1>0, <1>1, <1>2, PageStays DEF PageInv
<1>4. TreeOk' /\ DetailOk'
  BY <1>1, <1>2, TreeStays, DetailStays DEF PageInv, Now, Fades
<1>5. GridOk'
  <2>1. Now(pageCalls, r, "rows") <=> pageCalls[r].current
    BY <1>0 DEF Now
  <2>2. \A q \in PageCalls : Now(pageCalls', q, "rows") =>
          Now(pageCalls, q, "rows") /\ pageCalls'[q].of = pageCalls[q].of /\ pageCalls'[q].view = pageCalls[q].view
    BY <1>1 DEF Now, Fades
  <2> QED
    BY <1>2, <2>1, <2>2 DEF PageInv, GridOk
<1>6. EditsOk'
  BY <1>0, <1>1, <1>2, SentEdits DEF Is
<1> QED
  BY <1>3, <1>4, <1>5, <1>6 DEF PageInv

LEMMA DetailCame ==
  ASSUME PageInv, NEW r \in PageCalls, DetailArrives(r) PROVE PageInv'
<1>0. /\ pageCalls[r].kind = "detail" /\ UNCHANGED kept /\ pageCalls' = Forget(pageCalls, r) /\ page \in PageRec
      /\ pageCalls[r].of \in PageTables
  BY DEF DetailArrives, AnswerOf, PageInv, PageTyped
<1>1. pageCalls' \in [PageCalls -> PageCall] /\ pageCalls'[r].kind = "none" /\ \A q \in PageCalls \ {r} : Fades(q)
  BY <1>0, Forgets
<1>2. /\ page' \in PageRec /\ page'.conn = page.conn /\ page'.table = page.table /\ page'.schema = page.schema
      /\ page'.pending = page.pending /\ page'.committing = page.committing /\ page'.view = page.view
      /\ page'.rowsLoading = page.rowsLoading /\ page'.rows = page.rows /\ page'.crossed = page.crossed
      /\ page'.detail = page.detail \/ (pageCalls[r].current /\ page'.detail = pageCalls[r].of)
  <2>1. CASE page' = page
    BY <1>0, <2>1
  <2>2. CASE pageCalls[r].current /\ page' = [page EXCEPT !.detail = pageCalls[r].of]
    BY <1>0, <2>2 DEF PageRec
  <2> QED
    BY <2>1, <2>2 DEF DetailArrives
<1>3. PageTyped'
  BY <1>0, <1>1, <1>2, PageStays DEF PageInv
<1>4. TreeOk' /\ GridOk'
  BY <1>1, <1>2, TreeStays, GridStays DEF PageInv, Now, Fades
<1>5. DetailOk'
  <2>1. Now(pageCalls, r, "detail") <=> pageCalls[r].current
    BY <1>0 DEF Now
  <2>2. \A q \in PageCalls : Now(pageCalls', q, "detail") => Now(pageCalls, q, "detail") /\ pageCalls'[q].of = pageCalls[q].of
    BY <1>1 DEF Now, Fades
  <2> QED
    BY <1>2, <2>1, <2>2 DEF PageInv, DetailOk
<1>6. EditsOk'
  BY <1>0, <1>1, <1>2, SentEdits DEF Is
<1> QED
  BY <1>3, <1>4, <1>5, <1>6 DEF PageInv

\* The one commit is over: what waits is dropped, or it failed.
LEMMA Committed ==
  ASSUME PageInv, NEW r \in PageCalls, Is(pageCalls, r, "commit"), ~Is(pageCalls', r, "commit"),
         \A q \in PageCalls \ {r} : Fades(q), UNCHANGED kept, page'.table = page.table,
         page'.pending = {} \/ (page'.pending = page.pending /\ pageCalls[r].answer # "ok")
  PROVE  EditsOk'
<1>1. EditsOk /\ UNCHANGED <<made, astray, applied, misplaced, twice, answerLost>>
  BY DEF PageInv, kept
<1>2. \A q \in PageCalls : ~Is(pageCalls', q, "commit")
  BY <1>1 DEF EditsOk, Is, Fades
<1>3. ~answerLost => \A p \in page'.pending : p[1] \notin applied
  BY <1>1 DEF EditsOk
<1> QED
  BY <1>1, <1>2, <1>3 DEF EditsOk

LEMMA CommitCame ==
  ASSUME PageInv, NEW r \in PageCalls, CommitArrives(r) PROVE PageInv'
<1>0. /\ pageCalls[r].kind = "commit" /\ UNCHANGED kept /\ page \in PageRec
      /\ pageCalls[r].of \in PageTables /\ pageCalls[r].view \in Views /\ Is(pageCalls, r, "commit")
  BY DEF CommitArrives, AnswerOf, PageInv, PageTyped, PageCall, Is
<1>1. CASE Good(r)
  <2> DEFINE call == Request("rows", pageCalls[r].of, pageCalls[r].view, {})
  <2>1. call \in PageCall /\ call.kind = "rows" /\ call.of = pageCalls[r].of /\ call.view = pageCalls[r].view
    BY <1>0, Sent DEF Places
  <2> HIDE DEF call
  <2>2. pageCalls' = SendCall(pageCalls, r, call)
    BY <1>1, <2>1 DEF CommitArrives, SendCall, call
  <2>3. /\ pageCalls' \in [PageCalls -> PageCall] /\ pageCalls'[r] = call
        /\ \A q \in PageCalls \ {r} : Fades(q) /\ ~Now(pageCalls', q, "rows")
    BY <2>1, <2>2, Sends DEF PageInv
  <2>4. /\ page' \in PageRec /\ page'.conn = page.conn /\ page'.table = page.table /\ page'.schema = page.schema
        /\ page'.pending = {} /\ page'.view = page.view /\ page'.rowsLoading /\ page'.detail = page.detail
        /\ page'.crossed = (<<pageCalls[r].of, pageCalls[r].view>> # <<page.table, page.view>>)
    <3> DEFINE moved == <<pageCalls[r].of, pageCalls[r].view>> # <<page.table, page.view>>
    <3>1. moved \in BOOLEAN
      OBVIOUS
    <3>2. page' = [page EXCEPT !.committing = FALSE, !.pending = {}, !.rowsLoading = TRUE, !.crossed = moved]
      BY <1>1 DEF CommitArrives
    <3> HIDE DEF moved
    <3>3. /\ page' \in PageRec /\ page'.conn = page.conn /\ page'.table = page.table /\ page'.schema = page.schema
          /\ page'.pending = {} /\ page'.view = page.view /\ page'.rowsLoading /\ page'.detail = page.detail
          /\ page'.crossed = moved
      BY <1>0, <3>1, <3>2 DEF PageRec
    <3> QED
      BY <3>3 DEF moved
  <2>5. PageTyped'
    BY <1>0, <2>1, <2>3, <2>4, PageStays DEF PageInv
  <2>6. TreeOk' /\ DetailOk'
    BY <2>1, <2>3, <2>4, TreeStays, DetailStays DEF PageInv, Now, Fades
  <2>7. GridOk'
    BY <2>1, <2>3, <2>4 DEF GridOk, Now
  <2>8. EditsOk'
    BY <1>0, <2>1, <2>3, <2>4, Committed DEF Is
  <2> QED
    BY <2>5, <2>6, <2>7, <2>8 DEF PageInv
<1>2. CASE ~Good(r)
  <2>1. pageCalls' = Forget(pageCalls, r) /\ page' = [page EXCEPT !.committing = FALSE]
    BY <1>2 DEF CommitArrives
  <2>2. pageCalls' \in [PageCalls -> PageCall] /\ pageCalls'[r].kind = "none" /\ \A q \in PageCalls \ {r} : Fades(q)
    BY <2>1, Forgets
  <2>3. /\ page' \in PageRec /\ page'.conn = page.conn /\ page'.table = page.table /\ page'.schema = page.schema
        /\ page'.pending = page.pending /\ page'.view = page.view /\ page'.rowsLoading = page.rowsLoading
        /\ page'.rows = page.rows /\ page'.crossed = page.crossed /\ page'.detail = page.detail
    BY <1>0, <2>1 DEF PageRec
  <2>4. PageTyped'
    BY <1>0, <2>2, <2>3, PageStays DEF PageInv
  <2>5. TreeOk' /\ GridOk' /\ DetailOk'
    BY <2>2, <2>3, TreeStays, GridStays, DetailStays DEF PageInv, Now, Fades
  <2>6. EditsOk'
    BY <1>0, <1>2, <2>2, <2>3, Committed DEF Is, Good
  <2> QED
    BY <2>4, <2>5, <2>6 DEF PageInv
<1> QED
  BY <1>1, <1>2

LEMMA RemoveCame ==
  ASSUME PageInv, NEW r \in PageCalls, RemoveArrives(r) PROVE PageInv'
<1>0. pageCalls[r].kind = "remove" /\ UNCHANGED kept /\ page \in PageRec
  BY DEF RemoveArrives, AnswerOf, PageInv, PageTyped
<1>1. /\ pageCalls' \in [PageCalls -> PageCall] /\ pageCalls'[r].kind = "none" /\ \A q \in PageCalls \ {r} : Fades(q)
  <2>1. CASE pageCalls' = Forget(pageCalls, r)
    BY <2>1, Forgets
  <2>2. CASE pageCalls' = Forget(Cleanup(pageCalls), r)
    BY <2>2, NoCallTyped, OvertakenTyped DEF PageInv, PageTyped, Cleanup, Forget, Fades
  <2> QED
    BY <2>1, <2>2 DEF RemoveArrives
<1>2. /\ page' \in PageRec /\ page'.pending = page.pending /\ page'.committing = page.committing
      /\ page' = page \/ (page'.conn = Nothing /\ page'.table = NoTable)
  <2>1. CASE Good(r)
    BY <1>0, <2>1 DEF RemoveArrives, PageRec, Browsed
  <2>2. CASE ~Good(r)
    BY <1>0, <2>2 DEF RemoveArrives
  <2> QED
    BY <2>1, <2>2
<1>3. PageTyped'
  BY <1>0, <1>1, <1>2, PageStays DEF PageInv
<1>4. TreeOk' /\ GridOk' /\ DetailOk'
  <2>1. CASE page' = page
    BY <1>1, <2>1, TreeStays, GridStays, DetailStays DEF PageInv, Now, Fades
  <2>2. CASE page'.conn = Nothing /\ page'.table = NoTable
    BY <2>2 DEF TreeOk, GridOk, DetailOk
  <2> QED
    BY <1>2, <2>1, <2>2
<1>5. EditsOk'
  BY <1>0, <1>1, <1>2, SentEdits DEF Is
<1> QED
  BY <1>3, <1>4, <1>5 DEF PageInv

LEMMA PageHolds ==
  ASSUME PageInv, [StudioPageNext]_studioPageVars PROVE PageInv'
<1>1. CASE UNCHANGED studioPageVars
  <2>1. page' = page /\ pageCalls' = pageCalls /\ UNCHANGED kept
    BY <1>1 DEF studioPageVars, kept
  <2>2. PageTyped'
    BY <2>1 DEF PageInv, PageTyped, kept
  <2>3. TreeOk' /\ GridOk' /\ DetailOk'
    BY <2>1, TreeStays, GridStays, DetailStays DEF PageInv, Now
  <2>4. EditsOk'
    BY <2>1, EditsStay DEF PageInv, Is, kept
  <2> QED
    BY <2>2, <2>3, <2>4 DEF PageInv
<1>2. ASSUME NEW r \in PageCalls,
             \/ \E c \in PageConns : SelectConnection(c, r)
             \/ \E t \in PageTables : SelectTable(t, r)
             \/ \E v \in Views : ChangeView(v, r)
             \/ OpenStructure(r) \/ CommitEdits(r) \/ RemoveConn(r)
      PROVE  PageInv'
  BY <1>2, Selects, Picks, Reloads, OpensTab, Commits, AsksRemoval
<1>3. ASSUME NEW r \in PageCalls, Refresh(r) PROVE PageInv'
  <2>1. page.view \in Views
    BY DEF PageInv, PageTyped, PageRec
  <2> QED
    BY <1>3, <2>1, Reloads
<1>4. ASSUME NEW r \in PageCalls,
             \/ ServeSchema(r) \/ ServeRows(r) \/ ServeDetail(r) \/ ServeEdits(r) \/ ServeRemove(r)
             \/ SchemaArrives(r) \/ RowsArrive(r) \/ DetailArrives(r) \/ CommitArrives(r) \/ RemoveArrives(r)
      PROVE  PageInv'
  BY <1>4, Serves, ServesEdits, SchemaCame, RowsCame, DetailCame, CommitCame, RemoveCame
<1> QED
  BY <1>1, <1>2, <1>3, <1>4, Clicks, TypesIn DEF StudioPageNext

LEMMA PageShown == PageInv => StudioPageTypeOK /\ ShowsTheSelection /\ EditsReachTheirRows
<1> SUFFICES ASSUME PageInv PROVE StudioPageTypeOK /\ ShowsTheSelection /\ EditsReachTheirRows
  OBVIOUS
<1>1. StudioPageTypeOK
  BY DEF PageInv, PageTyped, PageRec, PageCall, StudioPageTypeOK
<1>2. ShowsTheSelection
  BY DEF PageInv, PageTyped, PageRec, TreeOk, GridOk, DetailOk, ShowsTheSelection
<1>3. EditsReachTheirRows
  BY DEF PageInv, EditsOk, EditsReachTheirRows
<1> QED
  BY <1>1, <1>2, <1>3

(***************************************************************************)
(* What the model is shown of a conversation.                              *)
(***************************************************************************)
Msg == [turn : WindowTurns, ordinal : Nat, role : {"user", "assistant"}, tokens : Nat]

WindowInv ==
  /\ stored \in SUBSET Msg /\ IsFiniteSet(stored)
  /\ windowAt \in [WindowTurns -> {"none", "read", "running", "over"}]
  /\ ordinalOf \in [WindowTurns -> Nat] /\ replay \in [WindowTurns -> Seq(Msg)]
  /\ \A t \in WindowTurns : /\ Len(replay[t]) <= HistoryLimit + 1
                            /\ windowAt[t] # "none" => replay[t] # <<>> /\ replay[t][Len(replay[t])].role = "user"

LEMMA LeastNumber ==
  ASSUME NEW T \in SUBSET Nat, T # {} PROVE \E x \in T : \A y \in T : x <= y
<1>1. IsWellFoundedOn(OpToRel(<, Nat), Nat)
  BY NatLessThanWellFounded
<1>2. \E x \in T : \A y \in T : <<y, x>> \notin OpToRel(<, Nat)
  BY <1>1, WFMin
<1> QED
  <2>1. PICK x \in T : \A y \in T : <<y, x>> \notin OpToRel(<, Nat)
    BY <1>2
  <2>2. \A y \in T : ~(y < x)
    BY <2>1, Zenon DEF OpToRel
  <2> QED
    BY <2>2

\* The sums exist, from a message on.
CanTotal(h, k) ==
  \E f \in [Len(h) + 1 - k..Len(h) + 1 -> Nat] :
    f[Len(h) + 1] = 0 /\ \A i \in Len(h) + 1 - k..Len(h) : f[i] = h[i].tokens + f[i + 1]

LEMMA TotalOneMore ==
  ASSUME NEW h \in Seq(Msg), NEW k \in 1..Len(h), CanTotal(h, k - 1) PROVE CanTotal(h, k)
<1> DEFINE n == Len(h)
           a == n + 1 - k
<1>0. n \in Nat /\ a \in 1..n /\ a + 1 = n + 1 - (k - 1) /\ n + 1 - k = a
  OBVIOUS
<1>1. PICK f \in [a + 1..n + 1 -> Nat] : f[n + 1] = 0 /\ \A i \in a + 1..n : f[i] = h[i].tokens + f[i + 1]
  BY <1>0 DEF CanTotal
<1>2. h[a].tokens \in Nat
  <2>1. h[a] \in Msg
    BY <1>0
  <2> QED
    BY <2>1 DEF Msg
<1> DEFINE g == [i \in a..n + 1 |-> IF i = a THEN h[a].tokens + f[a + 1] ELSE f[i]]
<1> HIDE DEF n, a
<1>3. f[a + 1] \in Nat
  BY <1>0, <1>1
<1>4. g \in [a..n + 1 -> Nat] /\ g[n + 1] = 0
  BY <1>0, <1>1, <1>2, <1>3
<1>5. ASSUME NEW i \in a..n PROVE g[i] = h[i].tokens + g[i + 1]
  <2>1. i \in a..n + 1 /\ i + 1 \in a..n + 1 /\ i + 1 # a
    BY <1>0
  <2>2. g[i + 1] = f[i + 1]
    BY <2>1
  <2>3. CASE i = a
    <3>1. g[i] = h[a].tokens + f[a + 1]
      BY <2>1, <2>3
    <3> HIDE DEF g
    <3> QED
      BY <2>2, <2>3, <3>1
  <2>4. CASE i # a
    <3>1. g[i] = f[i] /\ i \in a + 1..n
      BY <1>0, <2>1, <2>4
    <3> HIDE DEF g
    <3> QED
      BY <1>1, <2>2, <3>1
  <2> QED
    BY <2>3, <2>4
<1> HIDE DEF g
<1> QED
  BY <1>0, <1>4, <1>5 DEF CanTotal, n

LEMMA TotalAll == ASSUME NEW h \in Seq(Msg) PROVE \A k \in 0..Len(h) : CanTotal(h, k)
<1> DEFINE T == {k \in 0..Len(h) : ~CanTotal(h, k)}
<1> SUFFICES ASSUME T # {} PROVE FALSE
  OBVIOUS
<1>1. PICK k \in T : \A j \in T : k <= j
  <2>1. T \in SUBSET Nat
    OBVIOUS
  <2> HIDE DEF T
  <2> QED
    BY <2>1, LeastNumber
<1>2. CASE k = 0
  <2> DEFINE f == [i \in Len(h) + 1..Len(h) + 1 |-> 0]
  <2>1. f \in [Len(h) + 1 - 0..Len(h) + 1 -> Nat] /\ f[Len(h) + 1] = 0
    OBVIOUS
  <2>2. \A i \in Len(h) + 1 - 0..Len(h) : f[i] = h[i].tokens + f[i + 1]
    OBVIOUS
  <2> HIDE DEF f
  <2> QED
    BY <1>1, <1>2, <2>1, <2>2 DEF CanTotal
<1>3. CASE k # 0
  <2>1. k \in 1..Len(h) /\ k - 1 \in 0..Len(h) /\ k - 1 \notin T
    BY <1>1, <1>3
  <2> QED
    BY <1>1, <2>1, TotalOneMore
<1> QED
  BY <1>2, <1>3

LEMMA TotalsExist ==
  ASSUME NEW h \in Seq(Msg)
  PROVE  TotalsOf(h) = [i \in 1..Len(h) + 1 |-> IF i > Len(h) THEN 0 ELSE h[i].tokens + TotalsOf(h)[i + 1]]
<1> DEFINE n == Len(h)
<1>0. n \in Nat /\ n + 1 - n = 1
  OBVIOUS
<1>1. PICK f \in [1..n + 1 -> Nat] : f[n + 1] = 0 /\ \A i \in 1..n : f[i] = h[i].tokens + f[i + 1]
  <2>1. CanTotal(h, n)
    BY <1>0, TotalAll
  <2> QED
    BY <1>0, <2>1 DEF CanTotal
<1>2. f = [i \in 1..n + 1 |-> IF i > n THEN 0 ELSE h[i].tokens + f[i + 1]]
  BY <1>0, <1>1
<1> QED
  BY <1>2 DEF TotalsOf

\* What holds from the end on, one message at a time, holds of every number of them.
LEMMA Downward ==
  ASSUME NEW n \in Nat, NEW G \in SUBSET (0..n), 0 \in G, \A k \in 1..n : k - 1 \in G => k \in G
  PROVE  G = 0..n
<1> DEFINE T == (0..n) \ G
<1> SUFFICES ASSUME T # {} PROVE FALSE
  OBVIOUS
<1>1. T \in SUBSET Nat
  OBVIOUS
<1>2. PICK k \in T : \A j \in T : k <= j
  <2> HIDE DEF T
  <2> QED
    BY <1>1, LeastNumber
<1>3. k \in 1..n /\ k - 1 \in 0..n
  BY <1>2
<1>4. k - 1 \in G
  BY <1>2, <1>3
<1> QED
  BY <1>2, <1>3, <1>4

LEMMA Totals ==
  ASSUME NEW h \in Seq(Msg)
  PROVE  /\ TotalsOf(h) \in [1..Len(h) + 1 -> Nat] /\ TotalsOf(h)[Len(h) + 1] = 0
         /\ \A i \in 1..Len(h) : TotalsOf(h)[i] = h[i].tokens + TotalsOf(h)[i + 1]
<1> DEFINE n == Len(h)
           f == TotalsOf(h)
           G == {k \in 0..n : f[n + 1 - k] \in Nat}
<1>1. f = [i \in 1..n + 1 |-> IF i > n THEN 0 ELSE h[i].tokens + f[i + 1]]
  BY TotalsExist
<1>2. n \in Nat /\ \A i \in 1..n : h[i].tokens \in Nat
  <2>1. \A i \in 1..n : h[i] \in Msg
    OBVIOUS
  <2> QED
    BY <2>1 DEF Msg
<1> HIDE DEF n, f
<1>3. f[n + 1] = 0 /\ \A i \in 1..n : f[i] = h[i].tokens + f[i + 1]
  BY <1>1, <1>2
<1>4. 0 \in G
  BY <1>2, <1>3
<1>5. ASSUME NEW k \in 1..n, k - 1 \in G PROVE k \in G
  <2>1. n + 1 - k \in 1..n /\ (n + 1 - k) + 1 = n + 1 - (k - 1)
    BY <1>2
  <2>2. f[n + 1 - k] = h[n + 1 - k].tokens + f[n + 1 - (k - 1)]
    BY <1>3, <2>1
  <2>3. f[n + 1 - (k - 1)] \in Nat
    BY <1>5
  <2>4. h[n + 1 - k].tokens \in Nat
    BY <1>2, <2>1
  <2> QED
    BY <1>2, <2>2, <2>3, <2>4
<1>6. G = 0..n
  <2>1. G \in SUBSET (0..n)
    OBVIOUS
  <2> HIDE DEF G
  <2> QED
    BY <1>2, <1>4, <1>5, <2>1, Downward
<1>7. \A i \in 1..n + 1 : f[i] \in Nat
  <2> TAKE i \in 1..n + 1
  <2>1. n + 1 - i \in 0..n /\ n + 1 - (n + 1 - i) = i
    BY <1>2
  <2>2. n + 1 - i \in G
    BY <1>6, <2>1
  <2> QED
    BY <2>1, <2>2
<1>8. f \in [1..n + 1 -> Nat]
  BY <1>1, <1>7
<1> QED
  BY <1>3, <1>8 DEF n, f

\* The sum from an older message on is no less.
LEMMA TotalsFall ==
  ASSUME NEW h \in Seq(Msg), NEW i \in 1..Len(h) + 1, NEW j \in i..Len(h) + 1
  PROVE  TotalsOf(h)[j] <= TotalsOf(h)[i]
<1> DEFINE n == Len(h)
           f == TotalsOf(h)
           G == {k \in 0..j - 1 : f[j] <= f[j - k]}
<1>1. n \in Nat /\ i \in 1..n + 1 /\ j \in 1..n + 1 /\ i <= j
  OBVIOUS
<1>2. \A x \in 1..n + 1 : f[x] \in Nat
  BY Totals
<1>3. \A x \in 1..n : f[x + 1] <= f[x]
  <2> TAKE x \in 1..n
  <2>1. h[x] \in Msg
    OBVIOUS
  <2>2. h[x].tokens \in Nat
    BY <2>1 DEF Msg
  <2>3. f[x] = h[x].tokens + f[x + 1]
    BY Totals
  <2>4. f[x + 1] \in Nat
    BY <1>1, <1>2
  <2> HIDE DEF f
  <2> QED
    BY <2>2, <2>3, <2>4
<1> HIDE DEF n, f
<1>4. 0 \in G
  BY <1>1, <1>2
<1>5. ASSUME NEW k \in 1..j - 1, k - 1 \in G PROVE k \in G
  <2>1. j - k \in 1..n /\ (j - k) + 1 = j - (k - 1) /\ j - (k - 1) \in 1..n + 1 /\ j - k \in 1..n + 1
    BY <1>1
  <2>2. f[j - (k - 1)] <= f[j - k]
    BY <1>3, <2>1
  <2>3. f[j] <= f[j - (k - 1)]
    BY <1>5
  <2>4. f[j] \in Nat /\ f[j - k] \in Nat /\ f[j - (k - 1)] \in Nat
    BY <1>1, <1>2, <2>1
  <2>5. f[j] <= f[j - k]
    BY <2>2, <2>3, <2>4
  <2>6. k \in 0..j - 1
    BY <1>1
  <2> QED
    BY <2>5, <2>6
<1>6. G = 0..j - 1
  <2>1. G \in SUBSET (0..j - 1) /\ j - 1 \in Nat
    BY <1>1
  <2> HIDE DEF G
  <2> QED
    BY <1>4, <1>5, <2>1, Downward
<1>7. j - i \in 0..j - 1 /\ j - (j - i) = i
  BY <1>1
<1>8. j - i \in G
  BY <1>6, <1>7
<1> QED
  BY <1>7, <1>8 DEF f

LEMMA EndOf ==
  ASSUME NEW h \in Seq(Msg), NEW i \in 1..Len(h) + 1
  PROVE  /\ SubSeq(h, i, Len(h)) \in Seq(Msg) /\ Len(SubSeq(h, i, Len(h))) = Len(h) - i + 1
         /\ \A k \in 1..Len(h) - i + 1 : SubSeq(h, i, Len(h))[k] = h[i + k - 1]
<1>1. i \in Int /\ Len(h) \in Int /\ \A k \in i..Len(h) : h[k] \in Msg
  OBVIOUS
<1> QED
  BY <1>1, SubSeqProperties

\* What an end of a history comes to.
LEMMA TotalsOfEnd ==
  ASSUME NEW h \in Seq(Msg), NEW i \in 1..Len(h) PROVE TotalsOf(SubSeq(h, i, Len(h)))[1] = TotalsOf(h)[i]
<1> DEFINE n == Len(h)
           e == SubSeq(h, i, n)
           m == n - i + 1
           f == TotalsOf(h)
           g == TotalsOf(e)
           G == {k \in 0..m : g[m + 1 - k] = f[n + 1 - k]}
<1>1. e \in Seq(Msg) /\ Len(e) = m /\ \A k \in 1..m : e[k] = h[i + k - 1]
  BY EndOf
<1>2. n \in Nat /\ m \in 1..n /\ i \in 1..n /\ m = n - i + 1
  OBVIOUS
<1>3. f[n + 1] = 0 /\ \A x \in 1..n : f[x] = h[x].tokens + f[x + 1]
  BY Totals
<1>4. g[m + 1] = 0 /\ \A x \in 1..m : g[x] = e[x].tokens + g[x + 1]
  <2> HIDE DEF e
  <2> QED
    BY <1>1, Totals
<1> HIDE DEF n, e, m, f, g
<1>5. 0 \in G
  BY <1>2, <1>3, <1>4
<1>6. ASSUME NEW k \in 1..m, k - 1 \in G PROVE k \in G
  <2>1. /\ m + 1 - k \in 1..m /\ (m + 1 - k) + 1 = m + 1 - (k - 1) /\ n + 1 - k \in 1..n
        /\ (n + 1 - k) + 1 = n + 1 - (k - 1) /\ i + (m + 1 - k) - 1 = n + 1 - k
    BY <1>2
  <2>2. g[m + 1 - k] = e[m + 1 - k].tokens + g[m + 1 - (k - 1)]
    BY <1>4, <2>1
  <2>3. f[n + 1 - k] = h[n + 1 - k].tokens + f[n + 1 - (k - 1)]
    BY <1>3, <2>1
  <2>4. e[m + 1 - k] = h[n + 1 - k]
    BY <1>1, <2>1
  <2>5. g[m + 1 - (k - 1)] = f[n + 1 - (k - 1)]
    BY <1>6
  <2>6. g[m + 1 - k] = f[n + 1 - k]
    BY <2>2, <2>3, <2>4, <2>5
  <2>7. k \in 0..m
    BY <1>2
  <2> QED
    BY <2>6, <2>7
<1>7. G = 0..m
  <2>1. G \in SUBSET (0..m) /\ m \in Nat
    BY <1>2
  <2> HIDE DEF G
  <2> QED
    BY <1>5, <1>6, <2>1, Downward
<1>8. m \in G
  <2> HIDE DEF G
  <2> QED
    BY <1>2, <1>7
<1>9. g[1] = f[i]
  <2>1. m + 1 - m = 1 /\ n + 1 - m = i
    BY <1>2
  <2>2. g[m + 1 - m] = f[n + 1 - m]
    BY <1>8
  <2> QED
    BY <2>1, <2>2
<1> QED
  BY <1>9 DEF g, e, f, n

\* The window opens on the first message of a user's, if there is one.
LEMMA WindowOpens ==
  ASSUME NEW h \in Seq(Msg)
  PROVE  \E d \in 1..Len(h) + 1 : /\ DropLeadingAssistant(h) = SubSeq(h, d, Len(h))
                                  /\ \A j \in 1..d - 1 : h[j].role # "user"
                                  /\ d <= Len(h) => h[d].role = "user"
<1> DEFINE n == Len(h)
           Fit(i) == (\A j \in 1..i - 1 : h[j].role # "user") /\ (i <= n => h[i].role = "user")
           T == {i \in 1..n + 1 : i <= n => h[i].role = "user"}
<1>0. n \in Nat
  OBVIOUS
<1>1. n + 1 \in T /\ T \in SUBSET Nat
  BY <1>0
<1>2. PICK d \in T : \A j \in T : d <= j
  <2> HIDE DEF T
  <2> QED
    BY <1>1, LeastNumber
<1>3. Fit(d) /\ d \in 1..n + 1
  BY <1>0, <1>2
<1> DEFINE c == CHOOSE i \in 1..n + 1 : Fit(i)
<1>4. c \in 1..n + 1 /\ Fit(c)
  <2> HIDE DEF Fit, n
  <2> QED
    BY <1>3
<1>5. DropLeadingAssistant(h) = SubSeq(h, c, n)
  BY DEF DropLeadingAssistant
<1> HIDE DEF c
<1> QED
  BY <1>4, <1>5

LEMMA Trimmed ==
  ASSUME NEW h \in Seq(Msg), h # <<>>
  PROVE  \E c \in 1..Len(h) : /\ TrimToTokenBudget(h, TokenBudget) = SubSeq(h, c, Len(h))
                              /\ \A j \in c..Len(h) - 1 : TotalsOf(h)[j] <= TokenBudget
                              /\ c > 1 => TotalsOf(h)[c - 1] > TokenBudget
<1> DEFINE n == Len(h)
           f == TotalsOf(h)
           Fit(i) == (\A j \in i..n - 1 : f[j] <= TokenBudget) /\ (i > 1 => f[i - 1] > TokenBudget)
           T == {i \in 1..n : \A j \in i..n - 1 : f[j] <= TokenBudget}
<1>0. n \in Nat \ {0} /\ TokenBudget \in Nat
  BY ChatWindowAssumption
<1>1. \A x \in 1..n : f[x] \in Nat
  BY Totals
<1>2. TrimToTokenBudget(h, TokenBudget) = SubSeq(h, CHOOSE i \in 1..n : Fit(i), n)
  BY DEF TrimToTokenBudget
<1> HIDE DEF f, n
<1>3. n \in T /\ T \in SUBSET Nat
  BY <1>0
<1>4. PICK d \in T : \A j \in T : d <= j
  <2> HIDE DEF T
  <2> QED
    BY <1>3, LeastNumber
<1>5. Fit(d) /\ d \in 1..n
  <2>1. d \in 1..n /\ \A j \in d..n - 1 : f[j] <= TokenBudget
    BY <1>4
  <2>2. ASSUME d > 1 PROVE f[d - 1] > TokenBudget
    <3>1. d - 1 \in 1..n /\ d - 1 \notin T
      BY <1>0, <1>4, <2>1, <2>2
    <3>2. PICK j \in d - 1..n - 1 : ~(f[j] <= TokenBudget)
      BY <3>1
    <3>3. j = d - 1 \/ j \in d..n - 1
      BY <1>0, <2>1
    <3>4. j = d - 1
      BY <2>1, <3>2, <3>3
    <3> QED
      BY <1>0, <1>1, <3>1, <3>2, <3>4
  <2> QED
    BY <2>1, <2>2
<1> DEFINE c == CHOOSE i \in 1..n : Fit(i)
<1>6. c \in 1..n /\ Fit(c)
  <2> HIDE DEF Fit
  <2> QED
    BY <1>5
<1> HIDE DEF c
<1>7. TrimToTokenBudget(h, TokenBudget) = SubSeq(h, c, n)
  BY <1>2 DEF c
<1> QED
  BY <1>6, <1>7 DEF f, n

LEMMA EndOfEnd ==
  ASSUME NEW h \in Seq(Msg), NEW c \in 1..Len(h), NEW d \in 1..Len(h) - c + 1
  PROVE  LET s == SubSeq(h, c, Len(h)) IN SubSeq(s, d, Len(s)) = SubSeq(h, c + d - 1, Len(h))
<1> DEFINE n == Len(h)
           s == SubSeq(h, c, n)
           m == n - c + 1
           p == c + d - 1
           e == SubSeq(h, p, n)
           g == SubSeq(s, d, Len(s))
<1>1. s \in Seq(Msg) /\ Len(s) = m /\ \A k \in 1..m : s[k] = h[c + k - 1]
  BY EndOf
<1>2. /\ n \in Nat /\ m \in 1..n /\ p \in 1..n /\ d \in 1..m /\ m - d + 1 = n - p + 1 /\ m - d + 1 \in Nat
      /\ \A k \in 1..m - d + 1 : d + k - 1 \in 1..m /\ c + (d + k - 1) - 1 = p + k - 1
  OBVIOUS
<1>3. e \in Seq(Msg) /\ Len(e) = n - p + 1 /\ \A k \in 1..n - p + 1 : e[k] = h[p + k - 1]
  BY <1>2, EndOf
<1>4. g \in Seq(Msg) /\ Len(g) = m - d + 1 /\ \A k \in 1..m - d + 1 : g[k] = s[d + k - 1]
  <2>1. d \in 1..Len(s) + 1
    BY <1>1, <1>2
  <2> HIDE DEF s, m
  <2> QED
    BY <1>1, <2>1, EndOf
<1> HIDE DEF n, s, m, p, e, g
<1>5. Len(g) = Len(e) /\ \A k \in 1..Len(g) : g[k] = e[k]
  <2>1. Len(g) = m - d + 1 /\ Len(e) = m - d + 1
    BY <1>2, <1>3, <1>4
  <2>2. ASSUME NEW k \in 1..m - d + 1 PROVE g[k] = e[k]
    <3>1. d + k - 1 \in 1..m /\ c + (d + k - 1) - 1 = p + k - 1
      BY <1>2
    <3>2. g[k] = s[d + k - 1] /\ s[d + k - 1] = h[c + (d + k - 1) - 1]
      BY <1>1, <1>4, <3>1
    <3>3. e[k] = h[p + k - 1]
      BY <1>2, <1>3
    <3> QED
      BY <3>1, <3>2, <3>3
  <2> QED
    BY <2>1, <2>2
<1>6. g = e
  BY <1>3, <1>4, <1>5, SeqEqual
<1> QED
  BY <1>6 DEF g, e, s, p, n

OpeningEnds(h) == {e \in Ends(h) : e[1].role = "user" /\ (Len(e) = 1 \/ TotalsOf(e)[1] <= TokenBudget)}

LEMMA LongestEnd ==
  ASSUME NEW h \in Seq(Msg), h # <<>>, h[Len(h)].role = "user"
  PROVE  LET shown == DropLeadingAssistant(TrimToTokenBudget(h, TokenBudget)) IN
         shown \in OpeningEnds(h) /\ \A e \in OpeningEnds(h) : Len(e) <= Len(shown)
<1> DEFINE n == Len(h)
           f == TotalsOf(h)
           shown == DropLeadingAssistant(TrimToTokenBudget(h, TokenBudget))
<1>0. n \in Nat \ {0} /\ TokenBudget \in Nat
  BY ChatWindowAssumption
<1>1. PICK c \in 1..n : /\ TrimToTokenBudget(h, TokenBudget) = SubSeq(h, c, n)
                        /\ \A j \in c..n - 1 : f[j] <= TokenBudget
                        /\ c > 1 => f[c - 1] > TokenBudget
  BY Trimmed
<1> DEFINE s == SubSeq(h, c, n)
           m == n - c + 1
<1>2. s \in Seq(Msg) /\ Len(s) = m /\ \A k \in 1..m : s[k] = h[c + k - 1]
  BY EndOf
<1> HIDE DEF s
<1>3. PICK d \in 1..Len(s) + 1 : /\ DropLeadingAssistant(s) = SubSeq(s, d, Len(s))
                                 /\ \A j \in 1..d - 1 : s[j].role # "user"
                                 /\ d <= Len(s) => s[d].role = "user"
  BY <1>2, WindowOpens
<1>4. d \in 1..m
  <2>1. m \in 1..n /\ c + m - 1 = n
    BY <1>0
  <2>2. s[m].role = "user"
    BY <1>2, <2>1
  <2>3. m \notin 1..d - 1
    BY <1>3, <2>2
  <2> QED
    BY <1>2, <1>3, <2>1, <2>3
<1> DEFINE p == c + d - 1
<1>5. p \in 1..n /\ p >= c
  BY <1>0, <1>4
<1>6. shown = SubSeq(h, p, n)
  <2>1. LET z == SubSeq(h, c, n) IN SubSeq(z, d, Len(z)) = SubSeq(h, c + d - 1, n)
    BY <1>4, EndOfEnd
  <2>2. SubSeq(s, d, Len(s)) = SubSeq(h, p, n)
    BY <2>1 DEF s
  <2> QED
    BY <1>1, <1>3, <2>2 DEF s
<1>7. h[p].role = "user"
  BY <1>2, <1>3, <1>4
<1>8. /\ SubSeq(h, p, n) \in Seq(Msg) /\ Len(SubSeq(h, p, n)) = n - p + 1
      /\ SubSeq(h, p, n)[1] = h[p] /\ TotalsOf(SubSeq(h, p, n))[1] = f[p]
  <2>1. 1 \in 1..n - p + 1 /\ p + 1 - 1 = p
    BY <1>0, <1>5
  <2>2. p \in 1..n + 1
    BY <1>0, <1>5
  <2> HIDE DEF p
  <2> QED
    BY <1>5, <2>1, <2>2, EndOf, TotalsOfEnd
<1>9. p = n \/ f[p] <= TokenBudget
  <2>1. p = n \/ p \in c..n - 1
    BY <1>0, <1>5
  <2> HIDE DEF p, f
  <2> QED
    BY <1>1, <2>1
<1>10. shown \in OpeningEnds(h)
  <2>1. SubSeq(h, p, n) \in Ends(h)
    BY <1>5 DEF Ends
  <2>2. n - p + 1 = 1 \/ f[p] <= TokenBudget
    BY <1>9, <1>0
  <2> HIDE DEF p
  <2> QED
    BY <1>6, <1>7, <1>8, <2>1, <2>2 DEF OpeningEnds
<1>11. ASSUME NEW e \in OpeningEnds(h) PROVE Len(e) <= Len(shown)
  <2>1. PICK i \in 1..n : e = SubSeq(h, i, n)
    BY <1>11 DEF OpeningEnds, Ends
  <2>2. Len(e) = n - i + 1 /\ e[1] = h[i] /\ TotalsOf(e)[1] = f[i]
    <3>1. 1 \in 1..n - i + 1 /\ i + 1 - 1 = i /\ i \in 1..n + 1
      BY <1>0
    <3> QED
      BY <2>1, <3>1, EndOf, TotalsOfEnd
  <2>3. h[i].role = "user" /\ (i = n \/ f[i] <= TokenBudget)
    <3>1. e[1].role = "user" /\ (Len(e) = 1 \/ TotalsOf(e)[1] <= TokenBudget)
      BY <1>11 DEF OpeningEnds
    <3>2. n - i + 1 = 1 => i = n
      BY <1>0
    <3> QED
      BY <2>2, <3>1, <3>2
  <2>4. i >= c
    <3> SUFFICES ASSUME i < c PROVE FALSE
      BY <1>0
    <3>1. c > 1 /\ i # n /\ c - 1 \in i..n + 1 /\ i \in 1..n + 1 /\ c - 1 \in 1..n + 1
      BY <1>0
    <3>2. f[c - 1] <= f[i]
      BY <3>1, TotalsFall
    <3>3. f[c - 1] \in Nat /\ f[i] \in Nat
      BY <3>1, Totals
    <3>4. f[i] <= TokenBudget /\ f[c - 1] > TokenBudget
      BY <1>1, <2>3, <3>1
    <3> HIDE DEF f
    <3> QED
      BY <1>0, <3>2, <3>3, <3>4
  <2>5. i - c + 1 \in 1..m /\ c + (i - c + 1) - 1 = i
    BY <1>0, <2>4
  <2>6. s[i - c + 1].role = "user"
    BY <1>2, <2>3, <2>5
  <2>7. i - c + 1 \notin 1..d - 1
    BY <1>3, <2>6
  <2>8. i >= p
    BY <1>0, <1>4, <2>5, <2>7
  <2> HIDE DEF p
  <2> QED
    BY <1>0, <1>5, <1>6, <1>8, <2>2, <2>8
<1> QED
  BY <1>10, <1>11

LEMMA WindowStarts == ChatWindowInit => WindowInv
<1> SUFFICES ASSUME ChatWindowInit PROVE WindowInv
  OBVIOUS
<1>1. stored \in SUBSET Msg /\ IsFiniteSet(stored)
  BY FS_EmptySet DEF ChatWindowInit
<1>2. HistoryLimit \in Nat
  BY ChatWindowAssumption
<1> QED
  BY <1>1, <1>2 DEF ChatWindowInit, WindowInv

LEMMA ReadsPrior ==
  ASSUME WindowInv, NEW t \in WindowTurns, ReadPrior(t) PROVE WindowInv'
<1>0. HistoryLimit \in Nat /\ Tokens \subseteq Nat
  BY ChatWindowAssumption
<1>1. PICK prior \in LastRows, tokens \in Tokens :
        LET next == IF prior = <<>> THEN 0 ELSE prior[Len(prior)].ordinal + 1 IN
        /\ replay' = [replay EXCEPT ![t] = Append(DropLeadingAssistant(prior), Stored(t, next, "user", tokens))]
        /\ ordinalOf' = [ordinalOf EXCEPT ![t] = next]
  BY DEF ReadPrior
<1> DEFINE next == IF prior = <<>> THEN 0 ELSE prior[Len(prior)].ordinal + 1
           q == Stored(t, next, "user", tokens)
           h == DropLeadingAssistant(prior)
<1>2. prior \in Seq(Msg) /\ Len(prior) <= HistoryLimit
  <2> DEFINE n == IF Cardinality(stored) < HistoryLimit THEN Cardinality(stored) ELSE HistoryLimit
  <2>1. Cardinality(stored) \in Nat
    BY FS_CardinalityType DEF WindowInv
  <2>2. n \in Nat /\ n <= HistoryLimit
    BY <1>0, <2>1
  <2>3. prior \in [1..n -> stored]
    BY DEF LastRows
  <2> HIDE DEF n
  <2>4. prior \in [1..n -> Msg]
    BY <2>3 DEF WindowInv
  <2> QED
    BY <2>2, <2>4
<1>3. next \in Nat
  <2>1. CASE prior = <<>>
    BY <2>1
  <2>2. CASE prior # <<>>
    <3>1. prior[Len(prior)] \in Msg
      BY <1>2, <2>2
    <3>2. prior[Len(prior)].ordinal \in Nat
      BY <3>1 DEF Msg
    <3> QED
      BY <2>2, <3>2
  <2> QED
    BY <2>1, <2>2
<1>4. h \in Seq(Msg) /\ Len(h) <= HistoryLimit
  <2>1. PICK d \in 1..Len(prior) + 1 : h = SubSeq(prior, d, Len(prior))
    BY <1>2, WindowOpens
  <2>2. SubSeq(prior, d, Len(prior)) \in Seq(Msg) /\ Len(SubSeq(prior, d, Len(prior))) = Len(prior) - d + 1
    BY <1>2, EndOf
  <2> HIDE DEF h
  <2> QED
    BY <1>0, <1>2, <2>1, <2>2
<1> HIDE DEF next, h
<1>5. q \in Msg /\ q.role = "user"
  BY <1>0, <1>3 DEF Stored, Msg
<1> HIDE DEF q
<1>6. Append(h, q) \in Seq(Msg) /\ Len(Append(h, q)) = Len(h) + 1 /\ Append(h, q)[Len(h) + 1] = q /\ Append(h, q) # <<>>
  BY <1>4, <1>5, AppendProperties
<1>7. replay' = [replay EXCEPT ![t] = Append(h, q)] /\ ordinalOf' = [ordinalOf EXCEPT ![t] = next]
  BY <1>1 DEF h, q, next
<1> DEFINE g == Append(h, q)
<1>8. g \in Seq(Msg) /\ g # <<>> /\ Len(g) <= HistoryLimit + 1 /\ g[Len(g)].role = "user"
  BY <1>0, <1>4, <1>5, <1>6
<1> HIDE DEF g
<1>9. replay' = [replay EXCEPT ![t] = g]
  BY <1>7 DEF g
<1>10. stored' = stored /\ windowAt' = [windowAt EXCEPT ![t] = "read"]
  BY DEF ReadPrior, WindowTo
<1> QED
  BY <1>3, <1>7, <1>8, <1>9, <1>10 DEF WindowInv

\* A row comes, or the turn's go.
LEMMA RowsMove ==
  ASSUME WindowInv, NEW t \in WindowTurns, StoreQuestion(t) \/ StoreAnswer(t) \/ TakeBack(t) PROVE WindowInv'
<1>0. Tokens \subseteq Nat
  BY ChatWindowAssumption
<1>1. /\ replay' = replay /\ windowAt[t] # "none" /\ windowAt' \in [WindowTurns -> {"none", "read", "running", "over"}]
      /\ \A u \in WindowTurns : windowAt'[u] # "none" => windowAt[u] # "none"
      /\ ordinalOf' = ordinalOf \/ ordinalOf' = [ordinalOf EXCEPT ![t] = @ + 1]
  BY DEF WindowInv, StoreQuestion, StoreAnswer, TakeBack, WindowTo
<1>2. ordinalOf' \in [WindowTurns -> Nat]
  <2>1. ordinalOf \in [WindowTurns -> Nat]
    BY DEF WindowInv
  <2>2. ordinalOf' = ordinalOf \/ ordinalOf' = [ordinalOf EXCEPT ![t] = @ + 1]
    BY <1>1
  <2> QED
    BY <2>1, <2>2
<1>3. stored' \in SUBSET Msg /\ IsFiniteSet(stored')
  <2>1. CASE StoreQuestion(t)
    <3> DEFINE q == replay[t][Len(replay[t])]
    <3>1. q \in Msg
      <4>1. replay[t] \in Seq(Msg) /\ replay[t] # <<>>
        BY <1>1 DEF WindowInv
      <4> QED
        BY <4>1
    <3>2. stored' = stored \cup {q}
      BY <2>1 DEF StoreQuestion
    <3> HIDE DEF q
    <3> QED
      BY <3>1, <3>2, FS_AddElement DEF WindowInv
  <2>2. CASE StoreAnswer(t)
    <3>1. PICK tokens \in Tokens : stored' = stored \cup {Stored(t, ordinalOf[t], "assistant", tokens)}
      BY <2>2 DEF StoreAnswer
    <3> DEFINE q == Stored(t, ordinalOf[t], "assistant", tokens)
    <3>2. q \in Msg
      BY <1>0 DEF Stored, Msg, WindowInv
    <3>3. stored' = stored \cup {q}
      BY <3>1
    <3> HIDE DEF q
    <3> QED
      BY <3>2, <3>3, FS_AddElement DEF WindowInv
  <2>3. CASE TakeBack(t)
    <3>1. stored' \subseteq stored
      BY <2>3 DEF TakeBack
    <3> QED
      BY <3>1, FS_Subset DEF WindowInv
  <2> QED
    BY <2>1, <2>2, <2>3
<1> QED
  BY <1>1, <1>2, <1>3 DEF WindowInv

LEMMA WindowHolds ==
  ASSUME WindowInv, [ChatWindowNext]_chatWindowVars PROVE WindowInv'
<1>1. CASE UNCHANGED chatWindowVars
  BY <1>1 DEF chatWindowVars, WindowInv
<1> QED
  BY <1>1, ReadsPrior, RowsMove DEF ChatWindowNext

LEMMA WindowShown == WindowInv => ChatWindowTypeOK /\ PromptIsLongestEnd
<1> SUFFICES ASSUME WindowInv PROVE ChatWindowTypeOK /\ PromptIsLongestEnd
  OBVIOUS
<1>1. ChatWindowTypeOK
  BY DEF WindowInv, ChatWindowTypeOK, Msg
<1>2. PromptIsLongestEnd
  <2> SUFFICES ASSUME NEW t \in WindowTurns, windowAt[t] # "none"
               PROVE  Prompt(t) \in OpeningEnds(replay[t]) /\ \A e \in OpeningEnds(replay[t]) : Len(e) <= Len(Prompt(t))
    BY DEF PromptIsLongestEnd, OpeningEnds
  <2>1. replay[t] \in Seq(Msg) /\ replay[t] # <<>> /\ replay[t][Len(replay[t])].role = "user"
    BY DEF WindowInv
  <2> DEFINE h == replay[t]
  <2> HIDE DEF h
  <2>2. LET shown == DropLeadingAssistant(TrimToTokenBudget(h, TokenBudget)) IN
        shown \in OpeningEnds(h) /\ \A e \in OpeningEnds(h) : Len(e) <= Len(shown)
    BY <2>1, LongestEnd DEF h
  <2> QED
    BY <2>2 DEF Prompt, h
<1> QED
  BY <1>1, <1>2

(***************************************************************************)
(* All of them, in the run's module: they move when they are in focus.     *)
(***************************************************************************)
LEMMA TenantsWrites ==
  /\ TenantsInit => AppConfigInit /\ StudioInit /\ StudioPageInit /\ ChatWindowInit
  /\ [TenantsNext]_tenantsVars => /\ [AppConfigNext]_appConfigVars /\ [StudioNext]_studioVars
                                 /\ [StudioPageNext]_studioPageVars /\ [ChatWindowNext]_chatWindowVars
BY DEF TenantsInit, TenantsNext, tenantsVars, otherVars, restVars, domainVars, uiVars, appConfigVars, studioVars, studioPageVars,
   chatWindowVars

\* Whatever requests overlap and whichever of them fails, what is read of the variables of an
\* application has of every PUT all or none; a batch of edits of the studio is committed as a
\* whole and answered truly, unless the server's answer was lost; its page sends an edit to
\* another table than it was typed on only if it showed that one's rows then; and the model
\* is shown the longest end of a conversation that it accepts.
THEOREM WritesStayWhole == TenantsSpec => []WritesAreWhole
<1>1. ConfigInv /\ PoolTyped /\ StudioInv /\ PageInv /\ WindowInv => WritesAreWhole
  BY ConfigShown, StudioShown, PageShown, WindowShown DEF WritesAreWhole
<1> QED
  BY <1>1, ConfigStarts, PoolStarts, StudioStarts, PageStarts, WindowStarts, TenantsWrites, ConfigHolds, StudioHolds,
     PageHolds, WindowHolds, PTL DEF TenantsSpec
=============================================================================
