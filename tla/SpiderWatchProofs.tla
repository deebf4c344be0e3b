-------------------------- MODULE SpiderWatchProofs --------------------------
(***************************************************************************)
(* SpiderWatch, for any number of runs, users, CSPs and resources, with    *)
(* every failure and timeout: one run at a time, a run reported as done    *)
(* has tested everything, a final result in the store stays if no run of   *)
(* the same second overwrites it, and no job is left that is not           *)
(* configured.                                                             *)
(*                                                                         *)
(* The invariant says of each run alone what its place in the code tells   *)
(* of its result, of its goroutines and of its context (Place, Tested),    *)
(* and of the files of an id that one run alone has that the final ones    *)
(* are alike (Finals).  The runs meet in two facts: the flags name the one *)
(* run inside (OneRunAtATime), and who cancelled it is remembered          *)
(* (Stopping).                                                             *)
(***************************************************************************)
EXTENDS SpiderWatch, TLAPS

Workers == {"off", "test", "check", "cleanup", "last", "over"}
Errors == {None, "Canceled", "DeadlineExceeded"}

\* Outside Run; before its goroutines are started; when they are over.
OutPcs == {"idle", "check", "over"}
RunningPcs == {"setup", "pull", "postgres", "postgres.remove", "postgres.run", "postgres.ready", "remove",
  "run", "ready", "begin", "wait", "status"}
EndPcs == {"stop.spider", "stop.postgres", "status", "return", "save"}

\* The number of entries of a CSP that was tested to the end.
Whole(m) == IF m = "only" THEN 1 ELSE Resources + (IF m = "true" THEN 1 ELSE 0)

\* How far a goroutine at k has come, with d entries, in a run of mode m.
Tested(m, k, d, ctx) ==
  /\ k = "off" => d = 0
  /\ k = "test" => m # "only" /\ d < Resources
  /\ k = "check" => d <= Resources /\ (m = "only" => d = 0)
  /\ k = "cleanup" => d <= Resources /\ d + 1 = Whole(m)
  /\ k \in {"last", "over"} => ctx # None \/ d = Whole(m)

\* A run at l, with its mode, its id, its result, its goroutines and the error of its
\* context.
Place(m, i, l, res, w, ctx) ==
  /\ l \in OutPcs => res = None /\ ctx = None
  /\ l \in {"idle", "check"} => i = None
  /\ l \notin {"idle", "over"} => m \in Modes
  /\ l \notin OutPcs => res \in Results /\ i \in Ids
  /\ l \in Labels \ {"issue"}
  /\ l \notin EndPcs \cup {"wait"} => \A c \in CSPs : w[c] = "off"
  /\ l \in EndPcs => \A c \in CSPs : w[c] \in {"off", "over"}
  /\ l = "status" \/ (l \in {"stop.spider", "stop.postgres"} /\ res.status # "FAILED") =>
       \A c \in CSPs : w[c] = "over"
  /\ l \in RunningPcs => res.status = "RUNNING"
  /\ l \in {"stop.spider", "stop.postgres"} => res.status \in {"RUNNING", "FAILED"}
  /\ l \in {"return", "save"} => res.status \in Final
  /\ l \notin OutPcs => \A c \in CSPs : Tested(m, w[c], res.done[c], ctx)
  /\ l \in {"return", "save"} /\ res.status = "DONE" /\ ctx # "DeadlineExceeded" =>
       \A c \in CSPs : res.done[c] = Whole(m)

Places == \A r \in Runs : Place(mode[r], id[r], pc[r], result[r], worker[r], ctxErr[r])

\* The run in progress is cancelled by Stop mode, id, which says so.
Stopping == \A r \in Runs : Inside(r) /\ ctxErr[r] = "Canceled" => stopped

\* The final results of an id that are in the store, or in the hands of a user.
Finals(i) ==
  {<<x.status, x.done>> : x \in {y \in Records : /\ y.status \in Final
                                                /\ \/ file[i] = y
                                                   \/ \E u \in Users : job[u].id = i /\ job[u].snap = y}}

\* A run of this id is over.
Spent(i) == \E r \in Runs : id[r] = i /\ pc[r] = "over"

Stores ==
  /\ \A i \in Ids : OfOneRun(i) /\ ~Spent(i) => Finals(i) = {}
  /\ \A i \in Ids : OfOneRun(i) => \A x, y \in Finals(i) : x = y
  /\ \A u \in Users : At(u, "issue") => job[u].id \in Ids /\ job[u].snap \in Records

Scheduled ==
  /\ entries \subseteq {currentCron} \ {None}
  /\ ~reloading => entries \subseteq {cron}

IInv == TypeOK /\ OneRunAtATime /\ Places /\ Stopping /\ Stores /\ Scheduled

-----------------------------------------------------------------------------
(* What steps keep.                                                        *)

USE DEF Workers, Errors, OutPcs, RunningPcs, EndPcs

\* Initially nothing runs and nothing is stored.
LEMMA InitIInv == Init => IInv
<1> SUFFICES ASSUME Init PROVE IInv
  OBVIOUS
<1>1. TypeOK
  <2>1. /\ job \in [Users -> [id : Ids \cup {None}, snap : Records \cup {None}]]
        /\ pc \in [Actors -> Labels] /\ cleanup \in Cleanups /\ reloading \in BOOLEAN
    BY SpiderWatchAssumption DEF Init, NoJob, Labels
  <2>2. \A r \in Runs : ~Inside(r)
    BY DEF Init, Inside, Actors
  <2>3. {cron, currentCron} \cup entries \subseteq Crons \cup {None} /\ reloads \in 0 .. MaxReloads
    BY SpiderWatchAssumption DEF Init
  <2> QED
    BY <2>1, <2>2, <2>3 DEF Init, TypeOK
<1>2. OneRunAtATime /\ Stopping /\ Scheduled
  BY SpiderWatchAssumption DEF Init, OneRunAtATime, Stopping, Scheduled, Inside, Actors
<1>3. Places
  BY DEF Init, Places, Place, Labels, Actors
<1>4. Stores
  <2>1. \A i \in Ids : Finals(i) = {}
    BY SpiderWatchAssumption DEF Init, Finals, NoJob
  <2> QED
    BY <2>1 DEF Init, Stores, At, Actors
<1> QED
  BY <1>1, <1>2, <1>3, <1>4 DEF IInv

\* What is known of a run.
LEMMA Here ==
  ASSUME IInv, NEW r \in Runs
  PROVE  /\ Place(mode[r], id[r], pc[r], result[r], worker[r], ctxErr[r])
         /\ result \in [Runs -> Results \cup {None}] /\ pc \in [Actors -> Labels]
         /\ worker \in [Runs -> [CSPs -> Workers]] /\ ctxErr \in [Runs -> Errors]
         /\ mode \in [Runs -> Modes \cup {None}] /\ id \in [Runs -> Ids \cup {None}] /\ r \in Actors
BY DEF IInv, Places, TypeOK, Actors

\* A run at a place inside has a result.
LEMMA InsideHasResult ==
  ASSUME Places
  PROVE  \A r \in Runs : Inside(r) => result[r] # None
BY SpiderWatchAssumption DEF Places, Place, Inside

\* One run goes to l, and what is its own changes with it.
LEMMA OneGoes ==
  ASSUME IInv, NEW r \in Runs, NEW l \in Labels, NEW res \in Results \cup {None},
         NEW w \in [CSPs -> Workers], NEW ctx \in Errors,
         pc' = [pc EXCEPT ![r] = l], result' = [result EXCEPT ![r] = res],
         worker' = [worker EXCEPT ![r] = w], ctxErr' = [ctxErr EXCEPT ![r] = ctx],
         mode' \in [Runs -> Modes \cup {None}], id' \in [Runs -> Ids \cup {None}], \A q \in Runs \ {r} : mode'[q] = mode[q] /\ id'[q] = id[q],
         Place(mode'[r], id'[r], l, res, w, ctx)
  PROVE  /\ Places' /\ pc' \in [Actors -> Labels] /\ result' \in [Runs -> Results \cup {None}]
         /\ worker' \in [Runs -> [CSPs -> Workers]] /\ ctxErr' \in [Runs -> Errors]
<1>1. /\ result \in [Runs -> Results \cup {None}] /\ pc \in [Actors -> Labels]
      /\ worker \in [Runs -> [CSPs -> Workers]] /\ ctxErr \in [Runs -> Errors]
  BY DEF IInv, TypeOK
<1>2. /\ pc' \in [Actors -> Labels] /\ result' \in [Runs -> Results \cup {None}]
      /\ worker' \in [Runs -> [CSPs -> Workers]] /\ ctxErr' \in [Runs -> Errors]
  BY <1>1
<1>3. Place(mode'[r], id'[r], pc'[r], result'[r], worker'[r], ctxErr'[r])
  BY <1>1 DEF Actors
<1>4. ASSUME NEW q \in Runs, q # r
      PROVE  Place(mode'[q], id'[q], pc'[q], result'[q], worker'[q], ctxErr'[q])
  <2>1. pc'[q] = pc[q] /\ result'[q] = result[q] /\ worker'[q] = worker[q] /\ ctxErr'[q] = ctxErr[q]
    BY <1>1, <1>4 DEF Actors
  <2>2. Place(mode[q], id[q], pc[q], result[q], worker[q], ctxErr[q])
    BY Here
  <2>3. Place(mode'[q], id'[q], pc[q], result[q], worker[q], ctxErr[q])
    BY <1>4, <2>2 DEF Place, Tested, Whole
  <2> QED
    BY <2>1, <2>3
<1> QED
  BY <1>2, <1>3, <1>4 DEF Places

\* An id of one run alone was so before, and a run that is over stays so.
LEMMA IdsOfRuns ==
  ASSUME IInv, \A q \in Runs : id[q] # None => id'[q] = id[q],
         \A q \in Runs : pc[q] = "over" => pc'[q] = "over", NEW i \in Ids
  PROVE  (OfOneRun(i)' => OfOneRun(i)) /\ (Spent(i) => Spent(i)')
BY SpiderWatchAssumption DEF OfOneRun, Spent

\* No final result is added to the store.
LEMMA StoresShrink ==
  ASSUME IInv, \A q \in Runs : id[q] # None => id'[q] = id[q],
         \A q \in Runs : pc[q] = "over" => pc'[q] = "over",
         \A i \in Ids : Finals(i)' \subseteq Finals(i),
         \A u \in Users : pc'[u] = "issue" => job'[u].id \in Ids /\ job'[u].snap \in Records
  PROVE  Stores'
<1>1. \A i \in Ids : (OfOneRun(i)' => OfOneRun(i)) /\ (Spent(i) => Spent(i)')
  BY IdsOfRuns
<1>2. \A i \in Ids : OfOneRun(i)' /\ ~Spent(i)' => Finals(i)' = {}
  BY <1>1 DEF IInv, Stores
<1>3. \A i \in Ids : OfOneRun(i)' => \A x, y \in Finals(i)' : x = y
  BY <1>1 DEF IInv, Stores
<1> QED
  BY <1>2, <1>3 DEF Stores, At

\* The store and the users' requests are as they were.
LEMMA StoresKept ==
  ASSUME IInv, UNCHANGED <<file, job>>, \A q \in Runs : id[q] # None => id'[q] = id[q],
         \A q \in Runs : pc[q] = "over" => pc'[q] = "over",
         \A u \in Users : pc'[u] = "issue" => pc[u] = "issue"
  PROVE  Stores'
<1>1. \A i \in Ids : Finals(i)' = Finals(i)
  BY DEF Finals
<1>2. \A u \in Users : pc'[u] = "issue" => job'[u].id \in Ids /\ job'[u].snap \in Records
  BY DEF IInv, Stores, At
<1> QED
  BY <1>1, <1>2, StoresShrink

\* A result that is not final is saved.
LEMMA SaveRunning ==
  ASSUME IInv, NEW i \in Ids, NEW res \in Results, res.status = "RUNNING",
         Save(i, Stored(res)), UNCHANGED <<id, job>>,
         \A q \in Runs : pc[q] = "over" => pc'[q] = "over",
         \A u \in Users : pc'[u] = "issue" => pc[u] = "issue"
  PROVE  Stores' /\ file' \in [Ids -> Records \cup {None}]
<1>1. file \in [Ids -> Records \cup {None}]
  BY DEF IInv, TypeOK
<1>2. Stored(res) \in Records /\ Stored(res).status \notin Final
  BY DEF Stored, Records, Results, Final
<1>3. file' \in [Ids -> Records \cup {None}]
  BY <1>1, <1>2 DEF Save
<1>4. \A j \in Ids : Finals(j)' \subseteq Finals(j)
  BY <1>1, <1>2 DEF Finals, Save
<1>5. Stores'
  <2>1. \A u \in Users : pc'[u] = "issue" => job'[u].id \in Ids /\ job'[u].snap \in Records
    BY DEF IInv, Stores, At
  <2> QED
    BY <1>4, <2>1, StoresShrink
<1> QED
  BY <1>3, <1>5

\* A step of a run inside, that saves nothing: the containers, and most of Run.
LEMMA InsideGoes ==
  ASSUME IInv, NEW r \in Runs, Inside(r), NEW l \in RunningPcs \cup (EndPcs \ {"save"}), NEW res \in Results,
         pc' = [pc EXCEPT ![r] = l], result' = [result EXCEPT ![r] = res],
         UNCHANGED <<running, stopped, ctxErr, mode, id, worker, file, job, schedule>>,
         cancelFunc' \in {cancelFunc, r}, spider' \in Actors \cup {None}, postgres' \in BOOLEAN,
         Place(mode[r], id[r], l, res, worker[r], ctxErr[r])
  PROVE  IInv'
<1>1. TypeOK /\ OneRunAtATime /\ Stopping /\ Scheduled /\ pc \in [Actors -> Labels] /\ r \in Actors
  BY DEF IInv, TypeOK, Actors
<1>2. l \in Labels
  BY DEF Labels
<1>3. worker' = [worker EXCEPT ![r] = worker[r]] /\ ctxErr' = [ctxErr EXCEPT ![r] = ctxErr[r]]
      /\ worker[r] \in [CSPs -> Workers] /\ ctxErr[r] \in Errors
  BY <1>1 DEF TypeOK
<1>4. /\ Places' /\ pc' \in [Actors -> Labels] /\ result' \in [Runs -> Results \cup {None}]
      /\ worker' \in [Runs -> [CSPs -> Workers]] /\ ctxErr' \in [Runs -> Errors]
  <2>1. mode' \in [Runs -> Modes \cup {None}] /\ id' \in [Runs -> Ids \cup {None}] /\ \A q \in Runs \ {r} : mode'[q] = mode[q] /\ id'[q] = id[q]
    BY <1>1 DEF TypeOK
  <2>2. Place(mode'[r], id'[r], l, res, worker[r], ctxErr[r])
    OBVIOUS
  <2> HIDE DEF RunningPcs, EndPcs
  <2> QED
    BY <1>2, <1>3, <2>1, <2>2, OneGoes
<1>5. \A q \in Runs : Inside(q)' <=> Inside(q)
  BY <1>1 DEF Inside, Actors
<1>6. OneRunAtATime' /\ Stopping'
  BY <1>1, <1>5, SpiderWatchAssumption DEF OneRunAtATime, Stopping, TypeOK
<1>7. Stores'
  BY <1>1, StoresKept, SpiderWatchAssumption DEF Actors, Inside
<1>8. \A q \in Runs : Inside(q)' => result'[q] # None
  BY <1>4, InsideHasResult, SpiderWatchAssumption DEF Places, Place, Inside
<1>9. TypeOK'
  BY <1>1, <1>4, <1>8 DEF TypeOK, schedule
<1> QED
  BY <1>1, <1>4, <1>6, <1>7, <1>9 DEF IInv, Scheduled, schedule

-----------------------------------------------------------------------------
(* The containers.                                                         *)

\* The places of a run before its goroutines start.
Early == {"setup", "pull", "postgres", "postgres.remove", "postgres.run", "postgres.ready", "remove",
  "run", "ready", "begin"}

\* A run goes on to the next place before its goroutines start.
LEMMA EarlyGoes ==
  ASSUME IInv, NEW r \in Runs, pc[r] \in Early, NEW l \in Early, pc' = [pc EXCEPT ![r] = l],
         UNCHANGED <<running, stopped, ctxErr, test, file, job, schedule>>,
         cancelFunc' \in {cancelFunc, r}, spider' \in Actors \cup {None}, postgres' \in BOOLEAN
  PROVE  IInv'
<1>1. Place(mode[r], id[r], pc[r], result[r], worker[r], ctxErr[r]) /\ result \in [Runs -> Results \cup {None}]
  BY Here
<1>2. Inside(r)
  BY DEF Early, Inside
<1>3. result[r] \in Results
  BY <1>1 DEF Place, Early
<1>4. Place(mode[r], id[r], l, result[r], worker[r], ctxErr[r])
  BY <1>1 DEF Place, Early, Labels
<1>5. result' = [result EXCEPT ![r] = result[r]]
  BY <1>1 DEF test
<1>6. l \in RunningPcs \cup (EndPcs \ {"save"})
  BY DEF Early
<1> HIDE DEF RunningPcs, EndPcs
<1> QED
  BY <1>2, <1>3, <1>4, <1>5, <1>6, InsideGoes DEF test

\* A run that cannot start its containers fails.
LEMMA EarlyFails ==
  ASSUME IInv, NEW r \in Runs, pc[r] \in Early, NEW l \in {"return", "stop.spider"},
         pc' = [pc EXCEPT ![r] = l], result' = [result EXCEPT ![r].status = "FAILED"],
         UNCHANGED <<running, stopped, ctxErr, mode, id, worker, file, job, schedule>>,
         cancelFunc' \in {cancelFunc, r}, spider' \in Actors \cup {None}, postgres' \in BOOLEAN
  PROVE  IInv'
<1> DEFINE res == [result[r] EXCEPT !.status = "FAILED"]
<1>1. Place(mode[r], id[r], pc[r], result[r], worker[r], ctxErr[r]) /\ result \in [Runs -> Results \cup {None}]
  BY Here
<1>2. Inside(r)
  BY DEF Early, Inside
<1>3. result[r] \in Results
  BY <1>1 DEF Place, Early
<1>4. res \in Results /\ res.status = "FAILED" /\ res.done = result[r].done
  BY <1>3 DEF Results, Final
<1>5. Place(mode[r], id[r], l, res, worker[r], ctxErr[r])
  BY <1>1, <1>4 DEF Place, Early, Labels, Final
<1>6. result' = [result EXCEPT ![r] = res]
  OBVIOUS
<1>7. l \in RunningPcs \cup (EndPcs \ {"save"})
  OBVIOUS
<1> HIDE DEF res, RunningPcs, EndPcs
<1> QED
  BY <1>2, <1>4, <1>5, <1>6, <1>7, InsideGoes

\* The step of a user's request that starts or stops the containers.
LEMMA UserGoes ==
  ASSUME IInv, NEW u \in Users, NEW l \in Labels \ {"issue"}, pc' = [pc EXCEPT ![u] = l],
         UNCHANGED <<runner, test, file, job, schedule>>,
         spider' \in Actors \cup {None}, postgres' \in BOOLEAN
  PROVE  IInv'
<1>1. TypeOK /\ pc \in [Actors -> Labels] /\ u \in Actors /\ u \notin Runs
  BY SpiderWatchAssumption DEF IInv, TypeOK, Actors
<1>2. \A r \in Runs : pc'[r] = pc[r] /\ (Inside(r)' <=> Inside(r))
  BY <1>1 DEF Actors, Inside
<1>3. TypeOK'
  BY <1>1, <1>2 DEF TypeOK, runner, test, schedule
<1>4. OneRunAtATime' /\ Stopping'
  BY <1>1, <1>2, SpiderWatchAssumption DEF IInv, TypeOK, OneRunAtATime, Stopping, runner
<1>5. Places'
  BY <1>2 DEF IInv, Places, test, runner
<1>6. Stores'
  BY <1>1, <1>2, StoresKept DEF Actors, test
<1> QED
  BY <1>3, <1>4, <1>5, <1>6 DEF IInv, Scheduled, schedule

\* A container cannot be started.
LEMMA ErrorStep ==
  ASSUME IInv, NEW a \in Actors, a \in Runs => pc[a] \in Early, Error(a),
         UNCHANGED <<runner, file, job, schedule>>,
         spider' \in Actors \cup {None}, postgres' \in BOOLEAN
  PROVE  IInv'
<1>1. CASE a \in Runs
  BY <1>1, EarlyFails DEF Error, Goto, runner
<1>2. CASE a \notin Runs
  BY <1>2, UserGoes DEF Error, Goto, Actors, Labels
<1> QED
  BY <1>1, <1>2

\* A container was started, or is one already.
LEMMA GoStep ==
  ASSUME IInv, NEW a \in Actors, a \in Runs => pc[a] \in Early,
         NEW l \in Early \cup {"idle"}, a \in Runs => l # "idle", Goto(a, l),
         UNCHANGED <<runner, test, file, job, schedule>>,
         spider' \in Actors \cup {None}, postgres' \in BOOLEAN
  PROVE  IInv'
<1>1. CASE a \in Runs
  BY <1>1, EarlyGoes DEF Goto, runner
<1>2. CASE a \notin Runs
  BY <1>2, UserGoes DEF Goto, Actors, Labels, Early
<1> QED
  BY <1>1, <1>2

\* A step that starts or stops containers keeps the invariant.
LEMMA ContainerSteps ==
  ASSUME IInv, NEW a \in Actors, Containers(a)
  PROVE  IInv'
<1> USE DEF At, containers
<1>0. TypeOK /\ spider \in Actors \cup {None} /\ postgres \in BOOLEAN
  BY DEF IInv, TypeOK
<1>1. CASE pullDockerImage(a)
  <2>1. pc[a] \in Early
    BY <1>1 DEF pullDockerImage, Early
  <2>2. CASE Goto(a, IF Postgres THEN "postgres" ELSE "remove") /\ UNCHANGED test
    <3> DEFINE l == IF Postgres THEN "postgres" ELSE "remove"
    <3>1. l \in Early \cup {"idle"} /\ l # "idle" /\ Goto(a, l)
      BY <2>2 DEF Early
    <3> HIDE DEF l
    <3> QED
      BY <1>0, <1>1, <2>1, <2>2, <3>1, GoStep DEF pullDockerImage
  <2> QED
    BY <1>0, <1>1, <2>1, <2>2, ErrorStep DEF pullDockerImage
<1>2. CASE startPostgresContainer(a)
  <2>0. {"remove", "postgres.remove", "postgres.run", "postgres.ready"} \subseteq Early
    BY DEF Early
  <2>1. CASE startPostgresContainer_inspect(a)
    <3>1. pc[a] \in Early
      BY <2>1 DEF startPostgresContainer_inspect, Early
    <3> QED
      BY <1>0, <2>0, <2>1, <3>1, GoStep DEF startPostgresContainer_inspect
  <2>2. CASE startPostgresContainer_remove(a)
    <3>1. pc[a] \in Early /\ postgres' \in BOOLEAN
      BY <1>0, <2>2 DEF startPostgresContainer_remove, Early
    <3> QED
      BY <1>0, <2>0, <2>2, <3>1, GoStep DEF startPostgresContainer_remove
  <2>3. CASE startPostgresContainer_run(a)
    <3>1. pc[a] \in Early /\ postgres' \in BOOLEAN
      BY <1>0, <2>3 DEF startPostgresContainer_run, Early
    <3> QED
      BY <1>0, <2>0, <2>3, <3>1, GoStep, ErrorStep DEF startPostgresContainer_run
  <2>4. CASE startPostgresContainer_ready(a)
    <3>1. pc[a] \in Early
      BY <2>4 DEF startPostgresContainer_ready, Early
    <3> QED
      BY <1>0, <2>0, <2>4, <3>1, GoStep, ErrorStep DEF startPostgresContainer_ready
  <2> QED
    BY <1>2, <2>1, <2>2, <2>3, <2>4 DEF startPostgresContainer
<1>3. CASE startContainer_remove(a)
  <2>1. pc[a] \in Early /\ "run" \in Early \cup {"idle"}
    BY <1>3 DEF startContainer_remove, Early
  <2>2. spider' \in Actors \cup {None}
    BY <1>0, <1>3 DEF startContainer_remove
  <2> QED
    BY <1>0, <1>3, <2>1, <2>2, GoStep DEF startContainer_remove
<1>4. CASE startContainer_run(a)
  <2>1. pc[a] \in Early /\ "ready" \in Early \cup {"idle"}
    BY <1>4 DEF startContainer_run, Early
  <2> QED
    BY <1>0, <1>4, <2>1, GoStep, ErrorStep DEF startContainer_run
<1>5. CASE waitReady(a)
  <2>1. pc[a] \in Early
    BY <1>5 DEF waitReady, Early
  <2>2. CASE Goto(a, IF a \in Runs THEN "begin" ELSE "idle") /\ UNCHANGED test
    <3> DEFINE l == IF a \in Runs THEN "begin" ELSE "idle"
    <3>1. l \in Early \cup {"idle"} /\ (a \in Runs => l # "idle") /\ Goto(a, l)
      BY <2>2 DEF Early
    <3> HIDE DEF l
    <3> QED
      BY <1>0, <1>5, <2>1, <2>2, <3>1, GoStep DEF waitReady
  <2>3. CASE a \in Runs /\ ~External /\ Goto(a, "stop.spider")
             /\ result' = [result EXCEPT ![a].status = "FAILED"] /\ UNCHANGED <<mode, id, worker>>
    BY <1>0, <1>5, <2>1, <2>3, EarlyFails DEF waitReady, Goto, runner
  <2>4. CASE Error(a)
    BY <1>0, <1>5, <2>1, <2>4, ErrorStep DEF waitReady
  <2> QED
    BY <1>5, <2>2, <2>3, <2>4 DEF waitReady
<1>6. CASE stopContainer_spider(a)
  <2>1. spider' \in Actors \cup {None}
    BY <1>0, <1>6 DEF stopContainer_spider
  <2>2. CASE a \in Runs
    <3>1. /\ Place(mode[a], id[a], pc[a], result[a], worker[a], ctxErr[a]) /\ result \in [Runs -> Results \cup {None}]
          /\ pc[a] = "stop.spider"
      BY <1>6, <2>2, Here DEF stopContainer_spider
    <3>2. Inside(a) /\ result[a] \in Results
      BY <3>1 DEF Inside, Place
    <3>3. Place(mode[a], id[a], "stop.postgres", result[a], worker[a], ctxErr[a])
      BY <3>1 DEF Place, Labels
    <3>4. result' = [result EXCEPT ![a] = result[a]]
      BY <1>6, <3>1 DEF stopContainer_spider, test
    <3> QED
      BY <1>0, <1>6, <2>1, <2>2, <3>2, <3>3, <3>4, InsideGoes DEF stopContainer_spider, runner, test, Goto
  <2>3. CASE a \in Users
    BY <1>0, <1>6, <2>1, <2>3, UserGoes DEF stopContainer_spider, Goto, Labels
  <2> QED
    BY <2>2, <2>3 DEF Actors
<1>7. CASE stopContainer_postgres(a)
  <2>1. postgres' \in BOOLEAN
    BY <1>0, <1>7 DEF stopContainer_postgres
  <2>2. CASE a \in Runs
    <3> DEFINE l == IF result[a].status = "FAILED" THEN "return" ELSE "status"
    <3>0. a \notin Users
      BY <2>2, SpiderWatchAssumption
    <3>1. /\ Place(mode[a], id[a], pc[a], result[a], worker[a], ctxErr[a]) /\ result \in [Runs -> Results \cup {None}]
          /\ pc[a] = "stop.postgres"
      BY <1>7, <2>2, Here DEF stopContainer_postgres
    <3>2. Inside(a) /\ result[a] \in Results
      BY <3>1 DEF Inside, Place
    <3>3. Place(mode[a], id[a], l, result[a], worker[a], ctxErr[a])
      BY <3>1 DEF Place, Labels, Final
    <3>4. result' = [result EXCEPT ![a] = result[a]]
      BY <1>7, <3>1 DEF stopContainer_postgres, test
    <3>5. l \in RunningPcs \cup (EndPcs \ {"save"}) /\ Goto(a, l)
      BY <1>7, <3>0 DEF stopContainer_postgres
    <3>6. /\ UNCHANGED <<runner, test, file, job, schedule, spider>> /\ postgres' \in BOOLEAN
          /\ pc' = [pc EXCEPT ![a] = l]
      BY <1>7, <2>1, <3>5 DEF stopContainer_postgres, Goto
    <3> HIDE DEF l, RunningPcs, EndPcs
    <3> QED
      BY <1>0, <2>2, <3>2, <3>3, <3>4, <3>5, <3>6, InsideGoes DEF runner, test
  <2>3. CASE a \in Users
    BY <1>0, <1>7, <2>1, <2>3, UserGoes DEF stopContainer_postgres, Goto, Labels
  <2> QED
    BY <2>2, <2>3 DEF Actors
<1> QED
  BY <1>1, <1>2, <1>3, <1>4, <1>5, <1>6, <1>7 DEF Containers

-----------------------------------------------------------------------------
(* The scheduler's goroutine and Run.                                      *)

\* One run goes on; what the runs share is accounted for.
LEMMA RunGoes ==
  ASSUME IInv, NEW r \in Runs, NEW l \in Labels, NEW res \in Results \cup {None},
         NEW w \in [CSPs -> Workers], NEW ctx \in Errors,
         pc' = [pc EXCEPT ![r] = l], result' = [result EXCEPT ![r] = res],
         worker' = [worker EXCEPT ![r] = w], ctxErr' = [ctxErr EXCEPT ![r] = ctx],
         mode' \in [Runs -> Modes \cup {None}], id' \in [Runs -> Ids \cup {None}], \A q \in Runs \ {r} : mode'[q] = mode[q] /\ id'[q] = id[q],
         Place(mode'[r], id'[r], l, res, w, ctx),
         UNCHANGED <<containers, job, schedule>>,
         running' \in BOOLEAN, stopped' \in BOOLEAN, cancelFunc' \in Runs \cup {None},
         file' \in [Ids -> Records \cup {None}], Stores', OneRunAtATime', Stopping'
  PROVE  IInv'
<1>1. /\ Places' /\ pc' \in [Actors -> Labels] /\ result' \in [Runs -> Results \cup {None}]
      /\ worker' \in [Runs -> [CSPs -> Workers]] /\ ctxErr' \in [Runs -> Errors]
  BY OneGoes
<1>2. \A q \in Runs : Inside(q)' => result'[q] # None
  BY <1>1, SpiderWatchAssumption DEF Places, Place, Inside
<1>3. TypeOK'
  BY <1>1, <1>2 DEF IInv, TypeOK, containers, schedule
<1> QED
  BY <1>1, <1>3 DEF IInv, Scheduled, schedule

\* What is not changed for a run, as an update of its own.
LEMMA Unchanged ==
  ASSUME IInv, NEW r \in Runs
  PROVE  /\ worker = [worker EXCEPT ![r] = worker[r]] /\ worker[r] \in [CSPs -> Workers]
         /\ ctxErr = [ctxErr EXCEPT ![r] = ctxErr[r]] /\ ctxErr[r] \in Errors
         /\ result = [result EXCEPT ![r] = result[r]] /\ result[r] \in Results \cup {None}
         /\ pc = [pc EXCEPT ![r] = pc[r]] /\ pc[r] \in Labels
         /\ file \in [Ids -> Records \cup {None}] /\ mode \in [Runs -> Modes \cup {None}] /\ id \in [Runs -> Ids \cup {None}]
         /\ running \in BOOLEAN /\ stopped \in BOOLEAN /\ cancelFunc \in Runs \cup {None}
BY DEF IInv, TypeOK, Actors

\* A step of one run that is not the last and keeps the store.
LEMMA StoreOfRun ==
  ASSUME IInv, NEW r \in Runs, pc[r] # "over", NEW l \in Labels, pc' = [pc EXCEPT ![r] = l],
         UNCHANGED <<file, job>>, \A q \in Runs : id[q] # None => id'[q] = id[q]
  PROVE  Stores' /\ file' \in [Ids -> Records \cup {None}]
<1>1. pc \in [Actors -> Labels] /\ r \notin Users /\ file \in [Ids -> Records \cup {None}]
  BY SpiderWatchAssumption DEF IInv, TypeOK
<1>2. /\ \A q \in Runs : pc[q] = "over" => pc'[q] = "over"
      /\ \A u \in Users : pc'[u] = "issue" => pc[u] = "issue"
  BY <1>1 DEF Actors
<1> QED
  BY <1>1, <1>2, StoresKept

\* A goroutine of Scheduler.runOnce starts.
LEMMA TriggerStep ==
  ASSUME IInv, NEW r \in Runs, Trigger(r)
  PROVE  IInv'
<1>1. /\ Place(mode[r], id[r], pc[r], result[r], worker[r], ctxErr[r]) /\ pc[r] = "idle"
      /\ pc \in [Actors -> Labels] /\ r \in Actors
  BY Here DEF Trigger, At
<1>2. /\ pc' = [pc EXCEPT ![r] = "check"] /\ UNCHANGED <<runner, result, id, worker, file, containers, job, schedule>>
      /\ mode' \in [Runs -> Modes \cup {None}] /\ id' \in [Runs -> Ids \cup {None}]
      /\ \A q \in Runs \ {r} : mode'[q] = mode[q] /\ id'[q] = id[q]
      /\ mode'[r] \in Modes
  <2>1. cleanup \in Modes
    BY SpiderWatchAssumption DEF IInv, TypeOK
  <2>2. PICK m \in Modes : mode' = [mode EXCEPT ![r] = m]
    BY <2>1 DEF Trigger, Modes
  <2>3. pc' = [pc EXCEPT ![r] = "check"] /\ UNCHANGED <<runner, result, id, worker, file, containers, job, schedule>>
    BY DEF Trigger, Goto
  <2> QED
    BY <2>2, <2>3, Unchanged
<1>3. Place(mode'[r], id'[r], "check", result[r], worker[r], ctxErr[r])
  BY <1>1, <1>2 DEF Place, Labels
<1>4. Stores' /\ file' \in [Ids -> Records \cup {None}] /\ "check" \in Labels
  BY <1>1, <1>2, StoreOfRun DEF Labels
<1>5. \A q \in Runs : Inside(q)' <=> Inside(q)
  BY <1>1, <1>2 DEF Inside, Actors
<1>6. OneRunAtATime' /\ Stopping'
  BY <1>2, <1>5, Unchanged DEF IInv, OneRunAtATime, Stopping, runner
<1>7. /\ result' = [result EXCEPT ![r] = result[r]] /\ worker' = [worker EXCEPT ![r] = worker[r]]
      /\ ctxErr' = [ctxErr EXCEPT ![r] = ctxErr[r]]
      /\ running' \in BOOLEAN /\ stopped' \in BOOLEAN /\ cancelFunc' \in Runs \cup {None}
      /\ result[r] \in Results \cup {None} /\ worker[r] \in [CSPs -> Workers] /\ ctxErr[r] \in Errors
  BY Unchanged DEF Trigger, runner
<1> HIDE DEF Workers, Errors
<1> QED
  BY <1>2, <1>3, <1>4, <1>6, <1>7, RunGoes

\* A run begins, or is refused.
LEMMA CheckStep ==
  ASSUME IInv, NEW r \in Runs, Run_check(r)
  PROVE  IInv'
<1>1. /\ Place(mode[r], id[r], pc[r], result[r], worker[r], ctxErr[r]) /\ pc[r] = "check"
      /\ pc \in [Actors -> Labels] /\ r \in Actors
  BY Here DEF Run_check, At
<1>2. UNCHANGED <<mode, worker, file, containers, job, schedule>> /\ "over" \in Labels /\ "setup" \in Labels
  BY DEF Run_check, Labels
<1>4. CASE running /\ Goto(r, "over") /\ UNCHANGED <<runner, result, id>>
  <2>1. pc' = [pc EXCEPT ![r] = "over"] /\ UNCHANGED <<running, stopped, cancelFunc, ctxErr, result, id>>
    BY <1>4 DEF Goto, runner
  <2>2. Place(mode'[r], id'[r], "over", result[r], worker[r], ctxErr[r])
    BY <1>1, <1>2 DEF Place, Labels
  <2>3. Stores' /\ file' \in [Ids -> Records \cup {None}]
    BY <1>1, <1>2, <2>1, StoreOfRun
  <2>4. \A q \in Runs : Inside(q)' <=> Inside(q)
    BY <1>1, <2>1 DEF Inside, Actors
  <2>5. OneRunAtATime' /\ Stopping'
    BY <2>1, <2>4, Unchanged DEF IInv, OneRunAtATime, Stopping
  <2>6. /\ result' = [result EXCEPT ![r] = result[r]] /\ worker' = [worker EXCEPT ![r] = worker[r]]
        /\ ctxErr' = [ctxErr EXCEPT ![r] = ctxErr[r]]
        /\ running' \in BOOLEAN /\ stopped' \in BOOLEAN /\ cancelFunc' \in Runs \cup {None}
        /\ result[r] \in Results \cup {None} /\ worker[r] \in [CSPs -> Workers] /\ ctxErr[r] \in Errors
        /\ mode' \in [Runs -> Modes \cup {None}] /\ id' \in [Runs -> Ids \cup {None}]
        /\ \A q \in Runs \ {r} : mode'[q] = mode[q] /\ id'[q] = id[q]
    BY <1>2, <2>1, Unchanged
  <2>7. pc' = [pc EXCEPT ![r] = "over"] /\ UNCHANGED <<containers, job, schedule>> /\ "over" \in Labels
    BY <1>2, <2>1
  <2> HIDE DEF Workers, Errors
  <2> QED
    BY <2>2, <2>3, <2>5, <2>6, <2>7, RunGoes
<1>5. CASE /\ ~running /\ running' = TRUE /\ stopped' = FALSE
           /\ result' = [result EXCEPT ![r] = [status |-> "RUNNING", done |-> [c \in CSPs |-> 0]]]
           /\ (\E i \in Ids : id' = [id EXCEPT ![r] = i])
           /\ Goto(r, "setup") /\ UNCHANGED <<cancelFunc, ctxErr>>
  <2> DEFINE res == [status |-> "RUNNING", done |-> [c \in CSPs |-> 0]]
  <2>1. pc' = [pc EXCEPT ![r] = "setup"]
    BY <1>5 DEF Goto
  <2>2. res \in Results
    BY SpiderWatchAssumption DEF Results
  <2>9. PICK i \in Ids : id' = [id EXCEPT ![r] = i]
    BY <1>5
  <2>10. id'[r] = i /\ mode'[r] = mode[r] /\ mode[r] \in Modes /\ id[r] = None
    BY <1>1, <1>2, <2>9, Unchanged DEF Place
  <2>3. Place(mode'[r], id'[r], "setup", res, worker[r], ctxErr[r])
    BY <1>1, <1>2, <2>2, <2>10 DEF Place, Labels, Tested
  <2>4. Stores' /\ file' \in [Ids -> Records \cup {None}]
    <3>1. \A q \in Runs : id[q] # None => id'[q] = id[q]
      BY <2>9, <2>10, Unchanged
    <3> QED
      BY <1>1, <1>2, <2>1, <3>1, StoreOfRun DEF Labels
  <2>5. \A q \in Runs : Inside(q)' <=> q = r
    BY <1>1, <1>5, <2>1 DEF IInv, OneRunAtATime, Inside, Actors
  <2>6. cancelFunc = None /\ ctxErr[r] = None
    BY <1>1, <1>5, Unchanged DEF IInv, OneRunAtATime, Place
  <2>7. OneRunAtATime' /\ Stopping'
    BY <1>5, <2>5, <2>6, SpiderWatchAssumption DEF OneRunAtATime, Stopping
  <2>8. /\ result' = [result EXCEPT ![r] = res] /\ worker' = [worker EXCEPT ![r] = worker[r]]
        /\ ctxErr' = [ctxErr EXCEPT ![r] = ctxErr[r]]
        /\ running' \in BOOLEAN /\ stopped' \in BOOLEAN /\ cancelFunc' \in Runs \cup {None}
        /\ worker[r] \in [CSPs -> Workers] /\ ctxErr[r] \in Errors
        /\ mode' \in [Runs -> Modes \cup {None}] /\ id' \in [Runs -> Ids \cup {None}]
        /\ \A q \in Runs \ {r} : mode'[q] = mode[q] /\ id'[q] = id[q]
    BY <1>2, <1>5, <2>9, Unchanged
  <2> HIDE DEF res, Workers, Errors
  <2> QED
    BY <1>2, <2>1, <2>2, <2>3, <2>4, <2>7, <2>8, RunGoes
<1> QED
  BY <1>4, <1>5 DEF Run_check

\* The Runner gets its cancel function.
LEMMA SetupStep ==
  ASSUME IInv, NEW r \in Runs, Run_setup(r)
  PROVE  IInv'
<1>1. pc[r] \in Early /\ spider \in Actors \cup {None} /\ postgres \in BOOLEAN /\ {"ready", "pull"} \subseteq Early
  BY DEF Run_setup, At, Early, IInv, TypeOK
<1>2. /\ UNCHANGED <<running, stopped, ctxErr, file, containers, job, schedule>>
      /\ cancelFunc' \in {cancelFunc, r} /\ spider' \in Actors \cup {None} /\ postgres' \in BOOLEAN
  BY <1>1 DEF Run_setup, containers
<1>3. CASE Goto(r, "ready") /\ UNCHANGED test
  BY <1>1, <1>2, <1>3, EarlyGoes DEF Goto
<1>4. CASE Goto(r, "pull") /\ UNCHANGED test
  BY <1>1, <1>2, <1>4, EarlyGoes DEF Goto
<1>5. CASE Error(r)
  BY <1>1, <1>2, <1>5, EarlyFails DEF Error, Goto
<1> QED
  BY <1>3, <1>4, <1>5 DEF Run_setup

\* The goroutines of a run start.
LEMMA BeginStep ==
  ASSUME IInv, NEW r \in Runs, Run_begin(r)
  PROVE  IInv'
<1> DEFINE w == [c \in CSPs |-> IF mode[r] = "only" THEN "check" ELSE "test"]
<1>1. /\ Place(mode[r], id[r], pc[r], result[r], worker[r], ctxErr[r]) /\ pc[r] = "begin"
      /\ pc \in [Actors -> Labels] /\ r \in Actors /\ r \notin Users
  BY Here, SpiderWatchAssumption DEF Run_begin, At
<1>2. /\ UNCHANGED <<runner, result, mode, id, containers, job, schedule>> /\ "wait" \in Labels
      /\ pc' = [pc EXCEPT ![r] = "wait"] /\ worker' = [worker EXCEPT ![r] = w]
      /\ Save(id[r], Stored(result[r]))
  BY DEF Run_begin, Goto, Labels
<1>3. /\ result[r] \in Results /\ result[r].status = "RUNNING" /\ id[r] \in Ids
      /\ \A c \in CSPs : result[r].done[c] = 0
  BY <1>1 DEF Place, Tested
<1>4. Place(mode'[r], id'[r], "wait", result[r], w, ctxErr[r])
  BY <1>1, <1>2, <1>3, SpiderWatchAssumption DEF Place, Labels, Tested
<1>5. /\ \A q \in Runs : pc[q] = "over" => pc'[q] = "over"
      /\ \A u \in Users : pc'[u] = "issue" => pc[u] = "issue"
      /\ \A q \in Runs : Inside(q)' <=> Inside(q)
  BY <1>1, <1>2 DEF Actors, Inside
<1>6. Stores' /\ file' \in [Ids -> Records \cup {None}]
  BY <1>1, <1>2, <1>3, <1>5, SaveRunning
<1>7. OneRunAtATime' /\ Stopping'
  BY <1>2, <1>5, Unchanged DEF IInv, OneRunAtATime, Stopping, runner
<1>8. /\ result' = [result EXCEPT ![r] = result[r]] /\ ctxErr' = [ctxErr EXCEPT ![r] = ctxErr[r]]
      /\ running' \in BOOLEAN /\ stopped' \in BOOLEAN /\ cancelFunc' \in Runs \cup {None}
      /\ result[r] \in Results \cup {None} /\ w \in [CSPs -> Workers] /\ ctxErr[r] \in Errors
      /\ mode' \in [Runs -> Modes \cup {None}] /\ id' \in [Runs -> Ids \cup {None}] /\ \A q \in Runs \ {r} : mode'[q] = mode[q] /\ id'[q] = id[q]
  BY <1>2, Unchanged DEF runner
<1> HIDE DEF w, Workers, Errors
<1> QED
  BY <1>2, <1>4, <1>6, <1>7, <1>8, RunGoes

\* All goroutines are over.
LEMMA WaitStep ==
  ASSUME IInv, NEW r \in Runs, Run_wait(r)
  PROVE  IInv'
<1> DEFINE l == IF External THEN "status" ELSE "stop.spider"
<1>1. /\ Place(mode[r], id[r], pc[r], result[r], worker[r], ctxErr[r]) /\ pc[r] = "wait"
      /\ \A c \in CSPs : worker[r][c] = "over"
  BY Here DEF Run_wait, At
<1>2. /\ UNCHANGED <<runner, test, file, containers, job, schedule>> /\ pc' = [pc EXCEPT ![r] = l]
      /\ l \in RunningPcs \cup (EndPcs \ {"save"})
  BY DEF Run_wait, Goto
<1>3. Inside(r) /\ result[r] \in Results /\ Place(mode[r], id[r], l, result[r], worker[r], ctxErr[r])
  BY <1>1 DEF Place, Labels, Inside
<1>4. /\ result' = [result EXCEPT ![r] = result[r]] /\ cancelFunc' \in {cancelFunc, r}
      /\ spider' \in Actors \cup {None} /\ postgres' \in BOOLEAN
      /\ UNCHANGED <<running, stopped, ctxErr, mode, id, worker, file, job, schedule>>
  BY <1>2, Unchanged DEF test, runner, containers, IInv, TypeOK
<1> HIDE DEF l, RunningPcs, EndPcs
<1> QED
  BY <1>2, <1>3, <1>4, InsideGoes

\* A run is reported as done or stopped.
LEMMA StatusStep ==
  ASSUME IInv, NEW r \in Runs, Run_status(r)
  PROVE  IInv'
<1> DEFINE res == [result[r] EXCEPT !.status = IF stopped THEN "STOPPED" ELSE "DONE"]
<1>1. /\ Place(mode[r], id[r], pc[r], result[r], worker[r], ctxErr[r]) /\ pc[r] = "status"
      /\ ctxErr[r] \in Errors
  BY Here DEF Run_status, At
<1>2. /\ UNCHANGED <<runner, mode, id, worker, file, containers, job, schedule>> /\ pc' = [pc EXCEPT ![r] = "return"]
      /\ "return" \in RunningPcs \cup (EndPcs \ {"save"})
  BY DEF Run_status, Goto
<1>3. Inside(r) /\ result[r] \in Results
  BY <1>1 DEF Place, Inside
<1>4. res \in Results /\ res.status \in Final /\ res.done = result[r].done /\ (res.status = "DONE" => ~stopped)
  BY <1>3 DEF Results, Final
<1>5. res.status = "DONE" /\ ctxErr[r] # "DeadlineExceeded" => ctxErr[r] = None
  BY <1>1, <1>3, <1>4 DEF IInv, Stopping
<1>6. Place(mode[r], id[r], "return", res, worker[r], ctxErr[r])
  BY <1>1, <1>4, <1>5 DEF Place, Labels, Tested
<1>7. /\ result' = [result EXCEPT ![r] = res] /\ cancelFunc' \in {cancelFunc, r}
      /\ spider' \in Actors \cup {None} /\ postgres' \in BOOLEAN
      /\ UNCHANGED <<running, stopped, ctxErr, mode, id, worker, file, job, schedule>>
  BY <1>2 DEF Run_status, runner, containers, IInv, TypeOK
<1> HIDE DEF res, RunningPcs, EndPcs
<1> QED
  BY <1>2, <1>3, <1>4, <1>6, <1>7, InsideGoes

\* Run returns: nothing is in progress.
LEMMA ReturnStep ==
  ASSUME IInv, NEW r \in Runs, Run_return(r)
  PROVE  IInv'
<1>1. /\ Place(mode[r], id[r], pc[r], result[r], worker[r], ctxErr[r]) /\ pc[r] = "return"
      /\ pc \in [Actors -> Labels] /\ r \in Actors
  BY Here DEF Run_return, At
<1>2. /\ UNCHANGED <<stopped, ctxErr, test, file, containers, job, schedule>> /\ pc' = [pc EXCEPT ![r] = "save"]
      /\ ~running' /\ running' \in BOOLEAN /\ cancelFunc' = None /\ "save" \in Labels
  BY DEF Run_return, Goto, Labels
<1>3. Place(mode'[r], id'[r], "save", result[r], worker[r], ctxErr[r])
  BY <1>1, <1>2 DEF Place, Labels, test
<1>4. Stores' /\ file' \in [Ids -> Records \cup {None}]
  BY <1>1, <1>2, StoreOfRun DEF test
<1>5. \A q \in Runs : ~Inside(q)'
  BY <1>1, <1>2 DEF IInv, OneRunAtATime, Inside, Actors
<1>6. OneRunAtATime' /\ Stopping'
  BY <1>2, <1>5 DEF OneRunAtATime, Stopping
<1>7. /\ result' = [result EXCEPT ![r] = result[r]] /\ worker' = [worker EXCEPT ![r] = worker[r]]
      /\ ctxErr' = [ctxErr EXCEPT ![r] = ctxErr[r]]
      /\ stopped' \in BOOLEAN /\ cancelFunc' \in Runs \cup {None}
      /\ result[r] \in Results \cup {None} /\ worker[r] \in [CSPs -> Workers] /\ ctxErr[r] \in Errors
      /\ mode' \in [Runs -> Modes \cup {None}] /\ id' \in [Runs -> Ids \cup {None}] /\ \A q \in Runs \ {r} : mode'[q] = mode[q] /\ id'[q] = id[q]
  BY <1>2, Unchanged DEF test
<1> HIDE DEF Workers, Errors
<1> QED
  BY <1>2, <1>3, <1>4, <1>6, <1>7, RunGoes

\* The final result is saved, and the goroutine ends.
LEMMA SaveStep ==
  ASSUME IInv, NEW r \in Runs, runOnce_save(r)
  PROVE  IInv'
<1> DEFINE w == [c \in CSPs |-> "off"]
           rec == Stored(result[r])
<1>1. /\ Place(mode[r], id[r], pc[r], result[r], worker[r], ctxErr[r]) /\ pc[r] = "save"
      /\ pc \in [Actors -> Labels] /\ r \in Actors /\ r \notin Users
      /\ mode \in [Runs -> Modes \cup {None}] /\ id \in [Runs -> Ids \cup {None}]
  BY Here, SpiderWatchAssumption DEF runOnce_save, At
<1>2. /\ UNCHANGED <<running, stopped, cancelFunc, mode, id, containers, job, schedule>> /\ "over" \in Labels
      /\ pc' = [pc EXCEPT ![r] = "over"] /\ worker' = [worker EXCEPT ![r] = w]
      /\ result' = [result EXCEPT ![r] = None] /\ ctxErr' = [ctxErr EXCEPT ![r] = None]
      /\ Save(id[r], rec)
  BY DEF runOnce_save, Goto, Labels
<1>3. Place(mode'[r], id'[r], "over", None, w, None)
  BY DEF Place, Labels
<1>4. /\ \A q \in Runs : pc[q] = "over" => pc'[q] = "over"
      /\ \A u \in Users : pc'[u] = pc[u]
      /\ \A q \in Runs : Inside(q)' <=> Inside(q)
  BY <1>1, <1>2 DEF Actors, Inside
<1>5. file \in [Ids -> Records \cup {None}] /\ rec \in Records /\ id[r] \in Ids
  BY <1>1, Unchanged DEF Place, Stored, Results, Records
<1> HIDE DEF rec
<1>10. PICK i \in Ids : i = id[r]
  BY <1>5
<1>6. file' \in [Ids -> Records \cup {None}] /\ \A j \in Ids \ {i} : file'[j] = file[j]
  BY <1>2, <1>5, <1>10 DEF Save
<1>7. Stores'
  <2>1. \A j \in Ids \ {i} : Finals(j)' = Finals(j)
    BY <1>2, <1>6 DEF Finals
  <2>2. \A j \in Ids : (OfOneRun(j)' <=> OfOneRun(j)) /\ (Spent(j) => Spent(j)')
    BY <1>2, <1>4, IdsOfRuns DEF OfOneRun
  <2>3. OfOneRun(i) => ~Spent(i) /\ Spent(i)'
    BY <1>1, <1>2, <1>10 DEF OfOneRun, Spent
  <2>4. OfOneRun(i) => Finals(i) = {}
    BY <2>3 DEF IInv, Stores
  <2>5. ASSUME OfOneRun(i) PROVE \A x, y \in Finals(i)' : x = y
    <3>1. \A x \in Finals(i)' : \E y \in Records : file'[i] = y /\ x = <<y.status, y.done>>
      <4> SUFFICES ASSUME NEW y \in Records, y.status \in Final,
                          \/ file'[i] = y
                          \/ \E u \in Users : job[u].id = i /\ job[u].snap = y
                   PROVE  file'[i] = y
        BY <1>2 DEF Finals
      <4>1. ~\E u \in Users : job[u].id = i /\ job[u].snap = y
        BY <2>4, <2>5 DEF Finals
      <4> QED
        BY <4>1
    <3> QED
      BY <3>1
  <2>6. \A j \in Ids : OfOneRun(j)' /\ ~Spent(j)' => Finals(j)' = {}
    <3> SUFFICES ASSUME NEW j \in Ids, OfOneRun(j), ~Spent(j)' PROVE Finals(j)' = {}
      BY <2>2
    <3>1. j # i /\ ~Spent(j)
      BY <2>2, <2>3
    <3> QED
      BY <2>1, <3>1 DEF IInv, Stores
  <2>7. \A j \in Ids : OfOneRun(j)' => \A x, y \in Finals(j)' : x = y
    <3> SUFFICES ASSUME NEW j \in Ids, OfOneRun(j) PROVE \A x, y \in Finals(j)' : x = y
      BY <2>2
    <3>1. CASE j = i
      BY <2>5, <3>1
    <3>2. CASE j # i
      BY <2>1, <3>2 DEF IInv, Stores
    <3> QED
      BY <3>1, <3>2
  <2>8. \A u \in Users : pc'[u] = "issue" => job'[u].id \in Ids /\ job'[u].snap \in Records
    BY <1>2, <1>4 DEF IInv, Stores, At
  <2> QED
    BY <2>6, <2>7, <2>8 DEF Stores, At
<1>8. OneRunAtATime' /\ Stopping'
  <2>1. \A q \in Runs : ctxErr'[q] = "Canceled" => ctxErr[q] = "Canceled"
    BY <1>2, Unchanged, SpiderWatchAssumption
  <2> QED
    BY <1>2, <1>4, <2>1, Unchanged DEF IInv, OneRunAtATime, Stopping
<1>9. /\ running' \in BOOLEAN /\ stopped' \in BOOLEAN /\ cancelFunc' \in Runs \cup {None}
      /\ w \in [CSPs -> Workers] /\ None \in Errors /\ None \in Results \cup {None}
      /\ mode' \in [Runs -> Modes \cup {None}] /\ id' \in [Runs -> Ids \cup {None}]
      /\ \A q \in Runs \ {r} : mode'[q] = mode[q] /\ id'[q] = id[q]
  BY <1>1, <1>2, Unchanged
<1> HIDE DEF w, Workers, Errors
<1> QED
  BY <1>2, <1>3, <1>6, <1>7, <1>8, <1>9, RunGoes

\* The time of a run is over.
LEMMA ExpireStep ==
  ASSUME IInv, NEW r \in Runs, Expire(r)
  PROVE  IInv'
<1>1. /\ Place(mode[r], id[r], pc[r], result[r], worker[r], ctxErr[r])
      /\ pc[r] \in {"pull", "postgres.run", "postgres.ready", "run", "ready", "wait"}
      /\ pc[r] # "over" /\ pc[r] \in Labels
  BY Here DEF Expire
<1>2. /\ UNCHANGED <<running, stopped, cancelFunc, test, file, containers, pc, job, schedule>>
      /\ ctxErr' = [ctxErr EXCEPT ![r] = "DeadlineExceeded"]
  BY DEF Expire
<1>3. Place(mode'[r], id'[r], pc[r], result[r], worker[r], "DeadlineExceeded")
  BY <1>1, <1>2, SpiderWatchAssumption DEF Place, Tested, test
<1>4. pc' = [pc EXCEPT ![r] = pc[r]]
  BY <1>2, Unchanged
<1>5. Stores' /\ file' \in [Ids -> Records \cup {None}]
  BY <1>1, <1>2, <1>4, StoreOfRun DEF test
<1>6. \A q \in Runs : /\ Inside(q)' <=> Inside(q)
                      /\ ctxErr'[q] = "Canceled" => ctxErr[q] = "Canceled"
  BY <1>2, Unchanged DEF Inside
<1>7. OneRunAtATime' /\ Stopping'
  BY <1>2, <1>6, Unchanged DEF IInv, OneRunAtATime, Stopping
<1>8. /\ result' = [result EXCEPT ![r] = result[r]] /\ worker' = [worker EXCEPT ![r] = worker[r]]
      /\ running' \in BOOLEAN /\ stopped' \in BOOLEAN /\ cancelFunc' \in Runs \cup {None}
      /\ result[r] \in Results \cup {None} /\ worker[r] \in [CSPs -> Workers] /\ "DeadlineExceeded" \in Errors
      /\ mode' \in [Runs -> Modes \cup {None}] /\ id' \in [Runs -> Ids \cup {None}] /\ \A q \in Runs \ {r} : mode'[q] = mode[q] /\ id'[q] = id[q]
      /\ UNCHANGED <<containers, job, schedule>>
  BY <1>2, Unchanged DEF test
<1> HIDE DEF Workers, Errors
<1> QED
  BY <1>1, <1>2, <1>3, <1>4, <1>5, <1>7, <1>8, RunGoes

-----------------------------------------------------------------------------
(* The goroutine of a CSP.                                                 *)

\* A goroutine goes on to k, with d entries of its CSP, in a run that waits.
LEMMA WorkerGoes ==
  ASSUME IInv, NEW r \in Runs, NEW c \in CSPs, worker[r][c] \in Workers \ {"off", "over"},
         NEW k \in Workers, NEW d \in 0 .. Resources + 1,
         Tested(mode[r], k, d, ctxErr[r]),
         UNCHANGED <<runner, mode, id, containers, pc, job, schedule>>
  PROVE  /\ worker' = [worker EXCEPT ![r][c] = k]
         /\ result' = [result EXCEPT ![r].done[c] = d]
         /\ UNCHANGED file \/ Save(id[r], Stored(result'[r]))
         => IInv'
<1>0. SUFFICES ASSUME /\ worker' = [worker EXCEPT ![r][c] = k]
                      /\ result' = [result EXCEPT ![r].done[c] = d]
                      /\ UNCHANGED file \/ Save(id[r], Stored(result'[r]))
               PROVE  IInv'
  OBVIOUS
<1> DEFINE w == [worker[r] EXCEPT ![c] = k]
           res == [result[r] EXCEPT !.done[c] = d]
<1>1. /\ Place(mode[r], id[r], pc[r], result[r], worker[r], ctxErr[r])
      /\ result \in [Runs -> Results \cup {None}] /\ worker[r] \in [CSPs -> Workers] /\ pc[r] \in Labels
  BY Here, Unchanged
<1>2. pc[r] = "wait"
  BY <1>1 DEF Place, Labels
<1>3. result[r] \in Results /\ result[r].status = "RUNNING" /\ id[r] \in Ids /\ mode[r] \in Modes
  BY <1>1, <1>2 DEF Place
<1>4. res \in Results /\ res.status = "RUNNING" /\ res.done = [result[r].done EXCEPT ![c] = d]
  BY <1>3 DEF Results
<1>5. w \in [CSPs -> Workers] /\ w[c] = k /\ res.done[c] = d
      /\ \A b \in CSPs \ {c} : w[b] = worker[r][b] /\ res.done[b] = result[r].done[b]
  BY <1>1, <1>3, <1>4 DEF Results
<1>6. \A b \in CSPs : Tested(mode[r], w[b], res.done[b], ctxErr[r])
  BY <1>1, <1>2, <1>5 DEF Place
<1>7. UNCHANGED <<mode, id>>
  OBVIOUS
<1>8. Place(mode'[r], id'[r], "wait", res, w, ctxErr[r])
  BY <1>2, <1>3, <1>4, <1>6, <1>7 DEF Place, Labels
<1>9. result' = [result EXCEPT ![r] = res] /\ worker' = [worker EXCEPT ![r] = w] /\ result'[r] = res
  BY <1>0, <1>1
<1>10. Stores' /\ file' \in [Ids -> Records \cup {None}]
  <2>1. pc[r] # "over" /\ pc' = pc /\ UNCHANGED job
    BY <1>2
  <2>2. CASE UNCHANGED file
    BY <2>1, <2>2, StoresKept, Unchanged
  <2>3. CASE Save(id[r], Stored(res))
    BY <1>3, <1>4, <2>1, <2>3, SaveRunning
  <2> QED
    BY <1>0, <1>9, <2>2, <2>3
<1>11. \A q \in Runs : Inside(q)' <=> Inside(q)
  BY DEF Inside
<1>12. OneRunAtATime' /\ Stopping'
  BY <1>11, Unchanged DEF IInv, OneRunAtATime, Stopping, runner
<1>13. /\ ctxErr' = [ctxErr EXCEPT ![r] = ctxErr[r]] /\ pc' = [pc EXCEPT ![r] = "wait"]
       /\ running' \in BOOLEAN /\ stopped' \in BOOLEAN /\ cancelFunc' \in Runs \cup {None}
       /\ res \in Results \cup {None} /\ ctxErr[r] \in Errors /\ "wait" \in Labels
       /\ mode' \in [Runs -> Modes \cup {None}] /\ id' \in [Runs -> Ids \cup {None}] /\ \A q \in Runs \ {r} : mode'[q] = mode[q] /\ id'[q] = id[q]
  BY <1>2, <1>4, Unchanged DEF runner, Labels
<1>14. w \in [CSPs -> Workers] /\ result' = [result EXCEPT ![r] = res] /\ worker' = [worker EXCEPT ![r] = w]
       /\ UNCHANGED <<containers, job, schedule>>
  BY <1>5, <1>9
<1> HIDE DEF w, res, Workers, Errors
<1> QED
  BY <1>8, <1>10, <1>12, <1>13, <1>14, RunGoes

\* A step of the goroutine of a CSP.
LEMMA TestStep ==
  ASSUME IInv, NEW r \in Runs, NEW c \in CSPs, testCSP(r, c)
  PROVE  IInv'
<1> DEFINE d == result[r].done[c]
<1>1. worker[r][c] \in Workers \ {"off", "over"}
  BY DEF testCSP, testCSP_test, testCSP_check, testCSP_cleanup, testCSP_return
<1>2. /\ Place(mode[r], id[r], pc[r], result[r], worker[r], ctxErr[r]) /\ result \in [Runs -> Results \cup {None}]
      /\ pc[r] \in Labels
  BY Here, Unchanged
<1>3. pc[r] = "wait" /\ result[r] \in Results
  BY <1>1, <1>2 DEF Place, Labels
<1>4. Tested(mode[r], worker[r][c], d, ctxErr[r]) /\ d \in 0 .. Resources + 1
  BY <1>2, <1>3 DEF Place, Results
<1>5. result = [result EXCEPT ![r].done[c] = d]
  BY <1>2, <1>3 DEF Results
<1>6. CASE testCSP_test(r, c)
  <2>1. d + 1 \in 0 .. Resources + 1 /\ Tested(mode[r], "check", d + 1, ctxErr[r])
    BY <1>4, <1>6, SpiderWatchAssumption DEF testCSP_test, Tested
  <2>2. /\ worker' = [worker EXCEPT ![r][c] = "check"] /\ result' = [result EXCEPT ![r].done[c] = d + 1]
        /\ UNCHANGED <<runner, mode, id, containers, pc, job, schedule>> /\ Save(id[r], Stored(result'[r]))
    BY <1>6 DEF testCSP_test, Notify
  <2> HIDE DEF d
  <2> QED
    BY <1>1, <2>1, <2>2, WorkerGoes
<1>7. CASE testCSP_cleanup(r, c)
  <2>1. d + 1 \in 0 .. Resources + 1 /\ Tested(mode[r], "last", d + 1, ctxErr[r])
    BY <1>4, <1>7, SpiderWatchAssumption DEF testCSP_cleanup, Tested
  <2>2. /\ worker' = [worker EXCEPT ![r][c] = "last"] /\ result' = [result EXCEPT ![r].done[c] = d + 1]
        /\ UNCHANGED <<runner, mode, id, containers, pc, job, schedule>> /\ Save(id[r], Stored(result'[r]))
    BY <1>7 DEF testCSP_cleanup, Notify
  <2> HIDE DEF d
  <2> QED
    BY <1>1, <2>1, <2>2, WorkerGoes
<1>8. CASE testCSP_return(r, c)
  <2>1. Tested(mode[r], "over", d, ctxErr[r])
    BY <1>4, <1>8 DEF testCSP_return, Tested
  <2>2. /\ worker' = [worker EXCEPT ![r][c] = "over"] /\ result' = [result EXCEPT ![r].done[c] = d]
        /\ UNCHANGED <<runner, mode, id, containers, pc, job, schedule>> /\ Save(id[r], Stored(result'[r]))
    BY <1>5, <1>8 DEF testCSP_return
  <2> HIDE DEF d
  <2> QED
    BY <1>1, <1>4, <2>1, <2>2, WorkerGoes
<1>9. CASE testCSP_check(r, c)
  <2> DEFINE k == IF CtxErr(r) THEN "last"
                  ELSE IF mode[r] # "only" /\ result[r].done[c] < Resources THEN "test"
                  ELSE IF mode[r] # "false" THEN "cleanup" ELSE "last"
  <2>0. mode[r] \in Modes
    BY <1>2, <1>3 DEF Place
  <2>1. Tested(mode[r], k, d, ctxErr[r]) /\ k \in Workers
    BY <1>4, <1>9, <2>0, SpiderWatchAssumption DEF testCSP_check, Tested, CtxErr, Whole, Modes
  <2>2. /\ worker' = [worker EXCEPT ![r][c] = k] /\ result' = [result EXCEPT ![r].done[c] = d]
        /\ UNCHANGED <<runner, mode, id, containers, pc, job, schedule>> /\ UNCHANGED file
    BY <1>5, <1>9 DEF testCSP_check
  <2> HIDE DEF d, k
  <2> QED
    BY <1>1, <1>4, <2>1, <2>2, WorkerGoes
<1> QED
  BY <1>6, <1>7, <1>8, <1>9 DEF testCSP

-----------------------------------------------------------------------------
(* The page, and the configuration.                                        *)

\* A request that reads or writes the store.
LEMMA RequestGoes ==
  ASSUME IInv, UNCHANGED <<runner, test, containers, schedule>>,
         \A r \in Runs : pc'[r] = pc[r], pc' \in [Actors -> Labels],
         file' \in [Ids -> Records \cup {None}],
         job' \in [Users -> [id : Ids \cup {None}, snap : Records \cup {None}]],
         Stores'
  PROVE  IInv'
<1>1. \A r \in Runs : Inside(r)' <=> Inside(r)
  BY DEF Inside
<1>2. TypeOK'
  BY <1>1 DEF IInv, TypeOK, runner, test, containers, schedule
<1>3. OneRunAtATime' /\ Stopping'
  BY <1>1, Unchanged DEF IInv, TypeOK, OneRunAtATime, Stopping, runner
<1>4. Places'
  BY DEF IInv, Places, test, runner
<1> QED
  BY <1>2, <1>3, <1>4 DEF IInv, Scheduled, schedule

\* The run in progress is cancelled, and so says stopped.
LEMMA StopStep ==
  ASSUME IInv, NEW u \in Users, Stop(u)
  PROVE  IInv'
<1> DEFINE r == cancelFunc
           ctx == IF ctxErr[r] = None THEN "Canceled" ELSE ctxErr[r]
<1>1. r \in Runs /\ Inside(r)
  BY Unchanged DEF Stop, IInv, OneRunAtATime, TypeOK
<1>2. /\ UNCHANGED <<running, cancelFunc, test, file, containers, pc, job, schedule>>
      /\ stopped' = TRUE /\ ctxErr' = [ctxErr EXCEPT ![r] = ctx]
  BY DEF Stop
<1>3. /\ Place(mode[r], id[r], pc[r], result[r], worker[r], ctxErr[r]) /\ pc[r] \in Labels
      /\ pc[r] \notin OutPcs /\ pc[r] # "save" /\ ctxErr[r] \in Errors
  BY <1>1, Here, Unchanged DEF Inside
<1>4. ctx \in Errors /\ (ctx = "DeadlineExceeded" <=> ctxErr[r] = "DeadlineExceeded") /\ ctx # None
  BY <1>3, SpiderWatchAssumption
<1>5. Place(mode'[r], id'[r], pc[r], result[r], worker[r], ctx)
  BY <1>2, <1>3, <1>4 DEF Place, Tested, test
<1>6. pc' = [pc EXCEPT ![r] = pc[r]] /\ pc[r] # "over"
  BY <1>1, <1>2, <1>3, Unchanged
<1>7. Stores' /\ file' \in [Ids -> Records \cup {None}]
  BY <1>1, <1>2, <1>3, <1>6, StoreOfRun DEF test
<1>8. \A q \in Runs : Inside(q)' <=> Inside(q)
  BY <1>2 DEF Inside
<1>9. OneRunAtATime' /\ Stopping'
  BY <1>1, <1>2, <1>8 DEF IInv, OneRunAtATime, Stopping
<1>10. /\ result' = [result EXCEPT ![r] = result[r]] /\ worker' = [worker EXCEPT ![r] = worker[r]]
       /\ running' \in BOOLEAN /\ stopped' \in BOOLEAN /\ cancelFunc' \in Runs \cup {None}
       /\ result[r] \in Results \cup {None} /\ worker[r] \in [CSPs -> Workers]
       /\ mode' \in [Runs -> Modes \cup {None}] /\ id' \in [Runs -> Ids \cup {None}] /\ \A q \in Runs \ {r} : mode'[q] = mode[q] /\ id'[q] = id[q]
       /\ UNCHANGED <<containers, job, schedule>>
  BY <1>1, <1>2, Unchanged DEF test
<1> HIDE DEF r, ctx, Workers, Errors, OutPcs
<1> QED
  BY <1>1, <1>2, <1>3, <1>4, <1>5, <1>6, <1>7, <1>9, <1>10, RunGoes

\* A stored result is deleted.
LEMMA DeleteStep ==
  ASSUME IInv, NEW u \in Users, apiDeleteRun(u)
  PROVE  IInv'
<1>1. UNCHANGED <<runner, test, containers, pc, job, schedule>>
  BY DEF apiDeleteRun
<1>2. PICK i \in Ids : file' = [file EXCEPT ![i] = None]
  BY DEF apiDeleteRun
<1>3. file \in [Ids -> Records \cup {None}] /\ file' \in [Ids -> Records \cup {None}]
      /\ \A j \in Ids : file'[j] # None => file'[j] = file[j]
  BY <1>2 DEF IInv, TypeOK
<1>4. \A j \in Ids : Finals(j)' \subseteq Finals(j)
  BY <1>1, <1>3, SpiderWatchAssumption DEF Finals
<1>5. \A v \in Users : pc'[v] = "issue" => job'[v].id \in Ids /\ job'[v].snap \in Records
  BY <1>1 DEF IInv, Stores, At
<1>6. Stores'
  BY <1>1, <1>4, <1>5, StoresShrink DEF test
<1> QED
  BY <1>1, <1>3, <1>6, RequestGoes DEF IInv, TypeOK

\* A stored result is read for an issue.
LEMMA IssueGetStep ==
  ASSUME IInv, NEW u \in Users, apiCreateIssue_get(u)
  PROVE  IInv'
<1>1. /\ UNCHANGED <<runner, test, file, containers, schedule>> /\ pc[u] = "idle"
      /\ pc' = [pc EXCEPT ![u] = "issue"] /\ "issue" \in Labels
  BY DEF apiCreateIssue_get, At, Goto, Labels
<1>2. PICK i \in Ids : file[i] # None /\ job' = [job EXCEPT ![u] = [id |-> i, snap |-> file[i]]]
  BY DEF apiCreateIssue_get
<1>3. /\ file \in [Ids -> Records \cup {None}] /\ pc \in [Actors -> Labels] /\ u \notin Runs /\ u \in Actors
      /\ job \in [Users -> [id : Ids \cup {None}, snap : Records \cup {None}]]
  BY SpiderWatchAssumption DEF IInv, TypeOK, Actors
<1>4. /\ \A q \in Runs : pc'[q] = pc[q]
      /\ \A v \in Users \ {u} : pc'[v] = pc[v] /\ job'[v] = job[v]
      /\ pc' \in [Actors -> Labels]
  BY <1>1, <1>2, <1>3 DEF Actors
<1>5. /\ job'[u].id = i /\ job'[u].snap = file[i] /\ file[i] \in Records
      /\ job' \in [Users -> [id : Ids \cup {None}, snap : Records \cup {None}]]
  BY <1>2, <1>3
<1>6. \A j \in Ids : Finals(j)' \subseteq Finals(j)
  <2> SUFFICES ASSUME NEW j \in Ids, NEW y \in Records, y.status \in Final,
                      \/ file[j] = y
                      \/ \E v \in Users : job'[v].id = j /\ job'[v].snap = y
               PROVE  \/ file[j] = y
                      \/ \E v \in Users : job[v].id = j /\ job[v].snap = y
    BY <1>1 DEF Finals
  <2> QED
    BY <1>4, <1>5
<1>7. \A v \in Users : pc'[v] = "issue" => job'[v].id \in Ids /\ job'[v].snap \in Records
  BY <1>4, <1>5 DEF IInv, Stores, At
<1>8. Stores'
  BY <1>1, <1>4, <1>6, <1>7, StoresShrink DEF test
<1> QED
  BY <1>1, <1>3, <1>4, <1>5, <1>8, RequestGoes

\* The result that was read is saved with the number of its issue.
LEMMA IssueSaveStep ==
  ASSUME IInv, NEW u \in Users, apiCreateIssue_save(u)
  PROVE  IInv'
<1> DEFINE i == job[u].id
           rec == [job[u].snap EXCEPT !.issue = TRUE]
<1>1. /\ UNCHANGED <<runner, test, containers, schedule>> /\ pc[u] = "issue"
      /\ pc' = [pc EXCEPT ![u] = "idle"] /\ "idle" \in Labels
      /\ job' = [job EXCEPT ![u] = NoJob]
      /\ file' = [file EXCEPT ![i] = rec] \/ UNCHANGED file
  BY DEF apiCreateIssue_save, At, Goto, Labels, Save
<1>2. /\ file \in [Ids -> Records \cup {None}] /\ pc \in [Actors -> Labels] /\ u \notin Runs /\ u \in Actors
      /\ job \in [Users -> [id : Ids \cup {None}, snap : Records \cup {None}]]
      /\ i \in Ids /\ job[u].snap \in Records
  BY <1>1, SpiderWatchAssumption DEF IInv, TypeOK, Actors, Stores, At
<1>3. rec \in Records /\ rec.status = job[u].snap.status /\ rec.done = job[u].snap.done
  BY <1>2 DEF Records
<1>4. /\ \A q \in Runs : pc'[q] = pc[q]
      /\ \A v \in Users \ {u} : pc'[v] = pc[v] /\ job'[v] = job[v]
      /\ pc' \in [Actors -> Labels] /\ pc'[u] = "idle"
  BY <1>1, <1>2 DEF Actors
<1>5. /\ file' \in [Ids -> Records \cup {None}]
      /\ \A j \in Ids : file'[j] = file[j] \/ (j = i /\ file'[j] = rec)
      /\ job' \in [Users -> [id : Ids \cup {None}, snap : Records \cup {None}]]
      /\ job'[u].id = None
  BY <1>1, <1>2, <1>3 DEF NoJob
<1>6. \A j \in Ids : Finals(j)' \subseteq Finals(j)
  <2> SUFFICES ASSUME NEW j \in Ids, NEW y \in Records, y.status \in Final,
                      \/ file'[j] = y
                      \/ \E v \in Users : job'[v].id = j /\ job'[v].snap = y
               PROVE  <<y.status, y.done>> \in Finals(j)
    BY DEF Finals
  <2>1. CASE \/ file[j] = y
             \/ \E v \in Users : job[v].id = j /\ job[v].snap = y
    BY <2>1 DEF Finals
  <2>2. CASE j = i /\ y = rec
    BY <1>2, <1>3, <2>2 DEF Finals
  <2> QED
    BY <1>4, <1>5, <2>1, <2>2, SpiderWatchAssumption
<1>7. \A v \in Users : pc'[v] = "issue" => job'[v].id \in Ids /\ job'[v].snap \in Records
  BY <1>4 DEF IInv, Stores, At
<1>8. Stores'
  BY <1>1, <1>4, <1>6, <1>7, StoresShrink DEF test
<1> QED
  BY <1>1, <1>4, <1>5, <1>8, RequestGoes

\* A step that changes the configuration or the jobs only.
LEMMA ScheduleGoes ==
  ASSUME IInv, UNCHANGED <<runner, test, file, containers, pc, job>>, Scheduled',
         {cron', currentCron'} \cup entries' \subseteq Crons \cup {None}, cleanup' \in Cleanups,
         reloads' \in 0 .. MaxReloads, reloading' \in BOOLEAN
  PROVE  IInv'
<1>1. \A r \in Runs : Inside(r)' <=> Inside(r)
  BY DEF Inside
<1>2. TypeOK'
  BY <1>1 DEF IInv, TypeOK, runner, test, containers
<1>3. OneRunAtATime' /\ Stopping'
  BY <1>1, Unchanged DEF IInv, TypeOK, OneRunAtATime, Stopping, runner
<1>4. Places'
  BY DEF IInv, Places, test, runner
<1>5. Stores'
  BY StoresKept DEF test
<1> QED
  BY <1>2, <1>3, <1>4, <1>5 DEF IInv

\* The configuration file has changed.
LEMMA ReloadStep ==
  ASSUME IInv, ReloadConfig
  PROVE  IInv'
<1>1. reloads' \in 0 .. MaxReloads
  BY SpiderWatchAssumption DEF ReloadConfig, IInv, TypeOK
<1>2. Scheduled' /\ {cron', currentCron'} \cup entries' \subseteq Crons \cup {None}
  BY DEF ReloadConfig, IInv, Scheduled, TypeOK
<1> QED
  BY <1>1, <1>2, ScheduleGoes DEF ReloadConfig

\* The scheduler is told.
LEMMA ReconfigureStep ==
  ASSUME IInv, Reconfigure
  PROVE  IInv'
<1>1. Scheduled' /\ {cron', currentCron'} \cup entries' \subseteq Crons \cup {None}
  BY DEF Reconfigure, applyCron, IInv, Scheduled, TypeOK
<1>2. cleanup' \in Cleanups /\ reloads' \in 0 .. MaxReloads
  BY DEF Reconfigure, IInv, TypeOK
<1> QED
  BY <1>1, <1>2, ScheduleGoes DEF Reconfigure

-----------------------------------------------------------------------------
(* The theorems.                                                           *)

\* Every step keeps the invariant.
LEMMA NextIInv == IInv /\ [Next]_vars => IInv'
<1> SUFFICES ASSUME IInv, [Next]_vars PROVE IInv'
  OBVIOUS
<1>1. ASSUME NEW r \in Runs, Trigger(r) \/ Run(r) \/ Expire(r) PROVE IInv'
  BY <1>1, TriggerStep, CheckStep, SetupStep, BeginStep, WaitStep, StatusStep, ReturnStep, SaveStep,
     ExpireStep DEF Run
<1>2. ASSUME NEW r \in Runs, NEW c \in CSPs, testCSP(r, c) PROVE IInv'
  BY <1>2, TestStep
<1>3. ASSUME NEW u \in Users, Web(u) PROVE IInv'
  <2>1. CASE apiSpiderStart(u) \/ apiSpiderStop(u)
    <3>1. spider' \in Actors \cup {None} /\ postgres' \in BOOLEAN
      BY <2>1 DEF apiSpiderStart, apiSpiderStop, containers, IInv, TypeOK
    <3>2. "pull" \in Labels \ {"issue"} /\ "stop.spider" \in Labels \ {"issue"}
      BY DEF Labels
    <3> QED
      BY <2>1, <3>1, <3>2, UserGoes DEF apiSpiderStart, apiSpiderStop, Goto
  <2> QED
    BY <1>3, <2>1, StopStep, DeleteStep, IssueGetStep, IssueSaveStep DEF Web
<1>4. ASSUME NEW a \in Actors, Containers(a) PROVE IInv'
  BY <1>4, ContainerSteps
<1>5. CASE ReloadConfig \/ Reconfigure
  BY <1>5, ReloadStep, ReconfigureStep
<1>6. CASE UNCHANGED vars
  <2>1. \A r \in Runs : (Inside(r)' <=> Inside(r))
    BY <1>6 DEF vars, Inside
  <2>2. OneRunAtATime' /\ Stopping' /\ Scheduled'
    BY <1>6, <2>1, Unchanged DEF IInv, OneRunAtATime, Stopping, Scheduled, vars, runner, schedule, TypeOK
  <2>3. Places'
    BY <1>6 DEF IInv, Places, vars, runner, test
  <2>4. Stores'
    BY <1>6, StoresKept DEF vars, test
  <2>5. TypeOK'
    BY <1>6, <2>1 DEF IInv, TypeOK, vars, runner, test, containers, schedule
  <2> QED
    BY <2>2, <2>3, <2>4, <2>5 DEF IInv
<1> QED
  BY <1>1, <1>2, <1>3, <1>4, <1>5, <1>6 DEF Next

\* The stored result of an id of one run, that is over, is only deleted, or written
\* by a request that has read it.
LEMMA FileStep ==
  ASSUME IInv, Next, NEW i \in Ids, OfOneRun(i), Spent(i), file'[i] # None
  PROVE  \/ file'[i] = file[i]
         \/ \E u \in Users : job[u].id = i /\ file'[i] = [job[u].snap EXCEPT !.issue = TRUE] /\ At(u, "issue")
<1>0. file \in [Ids -> Records \cup {None}]
  BY DEF IInv, TypeOK
<1>1. ASSUME NEW q \in Runs, NEW rec, Save(id[q], rec), pc[q] # "over" PROVE file'[i] = file[i]
  <2>1. id[q] # i
    BY <1>1 DEF OfOneRun, Spent
  <2> QED
    BY <1>0, <1>1, <2>1 DEF Save
<1>2. ASSUME NEW q \in Runs, Trigger(q) \/ Run(q) \/ Expire(q) PROVE file'[i] = file[i]
  <2>1. CASE Run_begin(q) \/ runOnce_save(q)
    BY <1>1, <2>1 DEF Run_begin, runOnce_save, At
  <2> QED
    BY <1>2, <2>1 DEF Run, Trigger, Expire, Run_check, Run_setup, Run_wait, Run_status, Run_return
<1>3. ASSUME NEW q \in Runs, NEW c \in CSPs, testCSP(q, c) PROVE file'[i] = file[i]
  <2>1. pc[q] # "over" \/ UNCHANGED file
    BY <1>3, Here DEF testCSP, testCSP_test, testCSP_check, testCSP_cleanup, testCSP_return, Place
  <2> QED
    BY <1>1, <1>3, <2>1 DEF testCSP, testCSP_test, testCSP_check, testCSP_cleanup, testCSP_return, Notify
<1>4. ASSUME NEW u \in Users, Web(u), ~apiCreateIssue_save(u) PROVE file'[i] = file[i]
  BY <1>0, <1>4 DEF Web, Stop, apiDeleteRun, apiSpiderStart, apiSpiderStop, apiCreateIssue_get
<1>5. ASSUME NEW u \in Users, apiCreateIssue_save(u), file'[i] # file[i]
      PROVE  job[u].id = i /\ file'[i] = [job[u].snap EXCEPT !.issue = TRUE] /\ At(u, "issue")
  <2> DEFINE rec == [job[u].snap EXCEPT !.issue = TRUE]
  <2>1. file' = [file EXCEPT ![job[u].id] = rec] /\ At(u, "issue")
    BY <1>5 DEF apiCreateIssue_save, Save
  <2> HIDE DEF rec
  <2>2. job[u].id = i /\ file'[i] = rec
    BY <1>0, <1>5, <2>1
  <2> QED
    BY <2>1, <2>2 DEF rec
<1>6. ASSUME NEW a \in Actors, Containers(a) PROVE file'[i] = file[i]
  BY <1>6 DEF Containers, pullDockerImage, startPostgresContainer, startPostgresContainer_inspect,
     startPostgresContainer_remove, startPostgresContainer_run, startPostgresContainer_ready, startContainer_remove, startContainer_run,
     waitReady, stopContainer_spider, stopContainer_postgres
<1>7. CASE ReloadConfig \/ Reconfigure
  BY <1>7 DEF ReloadConfig, Reconfigure
<1> QED
  BY <1>2, <1>3, <1>4, <1>5, <1>6, <1>7 DEF Next

\* The invariant holds in every state.
THEOREM Invariance == Spec => []IInv
BY InitIInv, NextIInv, PTL DEF Spec

\* Every variable has its type, and a run inside Run has a result.
THEOREM TypeCorrect == Spec => []TypeOK
BY Invariance, PTL DEF IInv

\* At most one run is in progress, the flag says whether one is, and the cancel
\* function is that run's (Runner.running, Runner.cancelFunc).
THEOREM OneRunAtATimeHolds == Spec => []OneRunAtATime
BY Invariance, PTL DEF IInv

\* A run reported as done, and not timed out, has tested every resource of every
\* CSP and cleaned up (Runner.Run, testCSP).
THEOREM DoneIsCompleteHolds == Spec => []DoneIsComplete
<1>1. IInv => DoneIsComplete
  <2> SUFFICES ASSUME IInv, NEW r \in Runs, result[r] # None, result[r].status = "DONE",
                      ctxErr[r] # "DeadlineExceeded"
               PROVE  \A c \in CSPs : result[r].done[c] = Complete(r)
    BY DEF DoneIsComplete
  <2>1. Place(mode[r], id[r], pc[r], result[r], worker[r], ctxErr[r])
    BY Here
  <2> QED
    BY <2>1 DEF Place, Labels, Whole, Complete
<1> QED
  BY <1>1, Invariance, PTL

\* Two jobs are never scheduled, and when the scheduler has been told of a change,
\* none that is not configured (Reconfigure).
THEOREM OnlyConfiguredRunsHolds == Spec => []OnlyConfiguredRuns
<1>1. IInv => OnlyConfiguredRuns
  BY DEF IInv, Scheduled, OnlyConfiguredRuns
<1> QED
  BY <1>1, Invariance, PTL

\* A final result in the store stays, if no other run began at its second and no
\* issue is being filed with a result read before it (Store.Save, apiCreateIssue).
THEOREM FinalResultStaysHolds == Spec => FinalResultStays
<1> DEFINE Stays == \A i \in Ids :
              /\ file[i] # None /\ file'[i] # None /\ file[i].status \in Final /\ OfOneRun(i)
              /\ \A u \in Users : job[u].id = i => job[u].snap.status \in Final
              => file'[i].status = file[i].status /\ file'[i].done = file[i].done
<1>1. IInv /\ [Next]_vars => [Stays]_vars
  <2> SUFFICES ASSUME IInv, Next, NEW i \in Ids, OfOneRun(i),
                      file[i] # None, file'[i] # None, file[i].status \in Final,
                      \A u \in Users : job[u].id = i => job[u].snap.status \in Final
               PROVE  file'[i].status = file[i].status /\ file'[i].done = file[i].done
    OBVIOUS
  <2>1. file[i] \in Records /\ <<file[i].status, file[i].done>> \in Finals(i)
    BY DEF IInv, TypeOK, Finals
  <2>2. Spent(i)
    BY <2>1 DEF IInv, Stores
  <2>3. CASE file'[i] = file[i]
    BY <2>3
  <2>4. ASSUME NEW u \in Users, job[u].id = i, file'[i] = [job[u].snap EXCEPT !.issue = TRUE], At(u, "issue")
        PROVE  file'[i].status = file[i].status /\ file'[i].done = file[i].done
    <3> DEFINE y == job[u].snap
    <3>1. y \in Records /\ y.status \in Final
      BY <2>4 DEF IInv, Stores
    <3>2. <<y.status, y.done>> \in Finals(i)
      BY <2>4, <3>1 DEF Finals
    <3>3. <<y.status, y.done>> = <<file[i].status, file[i].done>>
      BY <2>1, <3>2 DEF IInv, Stores
    <3>4. file'[i].status = y.status /\ file'[i].done = y.done
      BY <2>4, <3>1 DEF Records
    <3> QED
      BY <3>3, <3>4
  <2> QED
    BY <2>2, <2>3, <2>4, FileStep
<1>2. [][Stays]_vars => FinalResultStays
  BY PTL DEF FinalResultStays
<1> QED
  BY <1>1, <1>2, Invariance, PTL DEF Spec
==============================================================================
