---------------------------- MODULE SpiderWatch ----------------------------
(***************************************************************************)
(* SpiderWatch: the runner of test runs, its scheduler, the store of run   *)
(* results and the web handlers that touch them (spiderwatch/internal).    *)
(*                                                                         *)
(* A member of Runs is a goroutine in Scheduler.runOnce, started by cron,  *)
(* at startup or from the web page; if it gets past the check of Run it is *)
(* the run.  A member of Users is a web handler at work.  They share the   *)
(* Runner's fields, the files of the Store, which are named by the second  *)
(* in which a run began, and two Docker containers.  Within a run one      *)
(* goroutine per CSP tests resource after resource; its updates of the     *)
(* result and the Save that follows are made under resultMu and are one    *)
(* step.  The watcher of the configuration file is a goroutine of its own. *)
(*                                                                         *)
(* What a test does is left out: it ends, and it ends soon when the run's  *)
(* context is cancelled.  Each goroutine of Runs runs once (a bound).  The *)
(* first step is taken when main has started the scheduler.                *)
(***************************************************************************)
EXTENDS Naturals, FiniteSets

CONSTANTS
  Runs, Users,
  CSPs,        \* the enabled CSPs
  Resources,   \* number of resource kinds tested
  Ids,         \* the seconds of local time at which runs begin (a bound)
  Cleanups,    \* what cfg.Cleanup may be
  External,    \* external mode: Spider is not in a container of SpiderWatch
  Postgres,    \* cfg.Postgres.Enabled
  DockerFails, \* may a docker command fail, or Spider not become ready?
  SaveFails,   \* may writing a file fail?
  Timeouts,    \* may a run exceed RunTimeoutMin?
  Crons,       \* valid cron expressions
  FirstCron,   \* the expression at the start, or None
  FirstCleanup,
  MaxReloads,  \* bound: changes of the configuration file
  None

\* "false" stands for every other string.
Modes == {"true", "false", "only"}

Final == {"DONE", "FAILED", "STOPPED"}
\* RunResults in memory, with the number of entries of each CSP, and in the store.
Results == [status : Final \cup {"RUNNING"}, done : [CSPs -> 0 .. Resources + 1]]
Records == [status : Final \cup {"RUNNING"}, done : [CSPs -> 0 .. Resources + 1], issue : BOOLEAN]

ASSUME SpiderWatchAssumption ==
  /\ Resources \in Nat \ {0} /\ MaxReloads \in Nat
  /\ {External, Postgres, DockerFails, SaveFails, Timeouts} \subseteq BOOLEAN
  /\ FirstCron \in Crons \cup {None} /\ FirstCleanup \in Cleanups /\ Cleanups \subseteq Modes
  /\ None \notin Runs \cup Users \cup Ids \cup Crons \cup Modes \cup Results \cup Records
                  \cup {"Canceled", "DeadlineExceeded"}
  /\ Runs \cap Users = {}

VARIABLES
  running, stopped, cancelFunc,  \* the Runner: cancelFunc is the run it cancels, or None
  ctxErr,      \* ctx.Err() of each run: None, Canceled or DeadlineExceeded
  result,      \* the RunResult in the memory of each run, or None
  mode,        \* the Cleanup of the configuration that each run was given, or None
  id,          \* RunResult.ID of each run, or None
  worker,      \* the goroutine of each run and CSP
  file,        \* the Store: the result of an id with the number of a GitHub issue, or None
  spider, postgres,  \* the containers: spider's is None or who started it
  pc,          \* of Runs and Users
  job,         \* the id, and the stored result read, of a user's request
  cron, cleanup, reloads,       \* the current configuration, and how often it was changed
  reloading,   \* is the watcher between the change and the call of onChange?
  currentCron, entries          \* the Scheduler, and the jobs of the cron library

runner == <<running, stopped, cancelFunc, ctxErr>>
test == <<result, mode, id, worker>>
containers == <<spider, postgres>>
schedule == <<cron, cleanup, reloads, reloading, currentCron, entries>>
vars == <<runner, test, file, containers, pc, job, schedule>>

Actors == Runs \cup Users

NoJob == [id |-> None, snap |-> None]

Init ==
  /\ running = FALSE /\ stopped = FALSE /\ cancelFunc = None
  /\ ctxErr = [r \in Runs |-> None]
  /\ result = [r \in Runs |-> None]
  /\ mode = [r \in Runs |-> None] /\ id = [r \in Runs |-> None]
  /\ worker = [r \in Runs |-> [c \in CSPs |-> "off"]]
  /\ file = [i \in Ids |-> None]
  /\ spider = None /\ postgres = FALSE
  /\ pc = [a \in Actors |-> "idle"]
  /\ job = [u \in Users |-> NoJob]
  /\ cron = FirstCron /\ cleanup = FirstCleanup /\ reloads = 0 /\ reloading = FALSE
  /\ currentCron = cron /\ entries = {cron} \ {None}

At(a, label) == pc[a] = label
Goto(a, label) == pc' = [pc EXCEPT ![a] = label]

\* A user's request has a context of its own, which is not cancelled.
CtxErr(a) == a \in Runs /\ ctxErr[a] # None

-----------------------------------------------------------------------------
(* store.go.  Save writes a temporary file and renames it.                 *)

\* A run's own result knows of no issue.
Stored(res) == [status |-> res.status, done |-> res.done, issue |-> FALSE]

Save(i, rec) ==
  \/ file' = [file EXCEPT ![i] = rec]
  \/ SaveFails /\ UNCHANGED file

-----------------------------------------------------------------------------
(* The containers.  Error(a) is where a goes when they cannot be started.  *)

\* A run fails; the page shows the user an error.
Error(a) ==
  IF a \in Runs THEN /\ result' = [result EXCEPT ![a].status = "FAILED"]
                     /\ Goto(a, "return") /\ UNCHANGED <<mode, id, worker>>
                ELSE Goto(a, "idle") /\ UNCHANGED test

\* An image is pulled before its container starts.
pullDockerImage(a) ==
  /\ At(a, "pull")
  /\ \/ ~CtxErr(a) /\ Goto(a, IF Postgres THEN "postgres" ELSE "remove") /\ UNCHANGED test
     \/ (DockerFails \/ CtxErr(a)) /\ Error(a)
  /\ UNCHANGED <<runner, file, containers, job, schedule>>

\* A postgres that is seen to run is used.
startPostgresContainer_inspect(a) ==
  /\ At(a, "postgres")
  /\ \/ postgres /\ Goto(a, "remove")
     \/ (~postgres \/ DockerFails) /\ Goto(a, "postgres.remove")
  /\ UNCHANGED <<runner, test, file, containers, job, schedule>>

startPostgresContainer_remove(a) ==
  /\ At(a, "postgres.remove")
  /\ postgres' \in {FALSE} \cup (IF DockerFails THEN {postgres} ELSE {})
  /\ Goto(a, "postgres.run")
  /\ UNCHANGED <<runner, test, file, spider, job, schedule>>

\* Its image is pulled first.
startPostgresContainer_run(a) ==
  /\ At(a, "postgres.run")
  /\ \/ ~postgres /\ ~CtxErr(a) /\ postgres' = TRUE /\ Goto(a, "postgres.ready") /\ UNCHANGED test
     \/ (postgres \/ DockerFails \/ CtxErr(a)) /\ Error(a) /\ postgres' \in {postgres, TRUE}
  /\ UNCHANGED <<runner, file, spider, job, schedule>>

\* One that does not become ready stays.
startPostgresContainer_ready(a) ==
  /\ At(a, "postgres.ready")
  /\ \/ postgres /\ ~CtxErr(a) /\ Goto(a, "remove") /\ UNCHANGED test
     \/ (~postgres \/ DockerFails \/ CtxErr(a)) /\ Error(a)
  /\ UNCHANGED <<runner, file, containers, job, schedule>>

startPostgresContainer(a) ==
  \/ startPostgresContainer_inspect(a) \/ startPostgresContainer_remove(a)
  \/ startPostgresContainer_run(a) \/ startPostgresContainer_ready(a)

\* "Remove leftover container if exists."
startContainer_remove(a) ==
  /\ At(a, "remove")
  /\ spider' \in {None} \cup (IF DockerFails THEN {spider} ELSE {})
  /\ Goto(a, "run")
  /\ UNCHANGED <<runner, test, file, postgres, job, schedule>>

\* docker run fails if another container has the name by now.  A cancelled
\* context kills the command, whether or not the container has started.
startContainer_run(a) ==
  /\ At(a, "run")
  /\ \/ spider = None /\ ~CtxErr(a) /\ spider' = a /\ Goto(a, "ready") /\ UNCHANGED test
     \/ /\ spider # None \/ DockerFails \/ CtxErr(a)
        /\ Error(a)
        /\ spider' \in {spider} \cup (IF spider = None THEN {a} ELSE {})
  /\ UNCHANGED <<runner, file, postgres, job, schedule>>

\* A run whose Spider is not ready in time stops the containers again; a user's
\* request leaves them.
waitReady(a) ==
  /\ At(a, "ready")
  /\ \/ /\ (External \/ spider # None) /\ ~CtxErr(a)
        /\ Goto(a, IF a \in Runs THEN "begin" ELSE "idle") /\ UNCHANGED test
     \/ /\ DockerFails \/ CtxErr(a) \/ (~External /\ spider = None)
        /\ IF a \in Runs /\ ~External
           THEN /\ result' = [result EXCEPT ![a].status = "FAILED"]
                /\ Goto(a, "stop.spider") /\ UNCHANGED <<mode, id, worker>>
           ELSE Error(a)
  /\ UNCHANGED <<runner, file, containers, job, schedule>>

\* stopContainer: first Spider, then PostgreSQL.
stopContainer_spider(a) ==
  /\ At(a, "stop.spider")
  /\ spider' \in {None} \cup (IF DockerFails THEN {spider} ELSE {})
  /\ Goto(a, "stop.postgres")
  /\ UNCHANGED <<runner, test, file, postgres, job, schedule>>
stopContainer_postgres(a) ==
  /\ At(a, "stop.postgres")
  /\ postgres' \in {FALSE} \cup (IF DockerFails THEN {postgres} ELSE {})
  /\ Goto(a, IF a \in Users THEN "idle"
             ELSE IF result[a].status = "FAILED" THEN "return" ELSE "status")
  /\ UNCHANGED <<runner, test, file, spider, job, schedule>>

Containers(a) ==
  \/ pullDockerImage(a) \/ startPostgresContainer(a) \/ startContainer_remove(a)
  \/ startContainer_run(a) \/ waitReady(a) \/ stopContainer_spider(a) \/ stopContainer_postgres(a)

-----------------------------------------------------------------------------
(* Runner.Run, called by Scheduler.runOnce.                                *)

\* runOnce starts with the configuration of this moment: the job of the cron
\* library, RunOnStartup, or the page, which can also ask for the cleanup only.
Trigger(r) ==
  /\ At(r, "idle")
  /\ \/ entries # {} /\ mode' = [mode EXCEPT ![r] = cleanup]
     \/ ~running /\ \E m \in {cleanup, "only"} : mode' = [mode EXCEPT ![r] = m]
  /\ Goto(r, "check")
  /\ UNCHANGED <<runner, result, id, worker, file, containers, job, schedule>>

\* Faulty: the flag is read under the mutex and set later.
FaultyRun_check(r) ==
  /\ At(r, "check")
  /\ \/ running /\ Goto(r, "over") /\ UNCHANGED <<runner, result, id>>
     \/ /\ ~running
        /\ result' = [result EXCEPT ![r] = [status |-> "RUNNING", done |-> [c \in CSPs |-> 0]]]
        /\ \E i \in Ids : id' = [id EXCEPT ![r] = i]
        /\ Goto(r, "setup")
        /\ UNCHANGED runner
  /\ UNCHANGED <<mode, worker, file, containers, job, schedule>>

\* "a test run is already in progress".  The id is the local time to the second:
\* a later run may have the same.
Run_check(r) ==
  /\ At(r, "check")
  /\ \/ running /\ Goto(r, "over") /\ UNCHANGED <<runner, result, id>>
     \/ /\ ~running
        /\ running' = TRUE /\ stopped' = FALSE
        /\ result' = [result EXCEPT ![r] = [status |-> "RUNNING", done |-> [c \in CSPs |-> 0]]]
        /\ \E i \in Ids : id' = [id EXCEPT ![r] = i]
        /\ Goto(r, "setup")
        /\ UNCHANGED <<cancelFunc, ctxErr>>
  /\ UNCHANGED <<mode, worker, file, containers, job, schedule>>

Run_setup(r) ==
  /\ At(r, "setup")
  /\ cancelFunc' = r
  /\ \/ External /\ Goto(r, "ready") /\ UNCHANGED test
     \/ ~External /\ Goto(r, "pull") /\ UNCHANGED test
     \/ ~External /\ DockerFails /\ Error(r)
  /\ UNCHANGED <<running, stopped, ctxErr, file, containers, job, schedule>>

\* The result gets a slot for each CSP, is saved, and the goroutines start.
Run_begin(r) ==
  /\ At(r, "begin")
  /\ Save(id[r], Stored(result[r]))
  /\ worker' = [worker EXCEPT ![r] = [c \in CSPs |-> IF mode[r] = "only" THEN "check" ELSE "test"]]
  /\ Goto(r, "wait")
  /\ UNCHANGED <<runner, result, mode, id, containers, job, schedule>>

\* Faulty: the goroutines are not waited for.
FaultyRun_wait(r) ==
  /\ At(r, "wait")
  /\ Goto(r, IF External THEN "status" ELSE "stop.spider")
  /\ UNCHANGED <<runner, test, file, containers, job, schedule>>

\* wg.Wait
Run_wait(r) ==
  /\ At(r, "wait")
  /\ \A c \in CSPs : worker[r][c] = "over"
  /\ Goto(r, IF External THEN "status" ELSE "stop.spider")
  /\ UNCHANGED <<runner, test, file, containers, job, schedule>>

\* Faulty: cancelled by the user is not told from done.
FaultyRun_status(r) ==
  /\ At(r, "status")
  /\ result' = [result EXCEPT ![r].status = "DONE"]
  /\ Goto(r, "return")
  /\ UNCHANGED <<runner, mode, id, worker, file, containers, job, schedule>>

Run_status(r) ==
  /\ At(r, "status")
  /\ result' = [result EXCEPT ![r].status = IF stopped THEN "STOPPED" ELSE "DONE"]
  /\ Goto(r, "return")
  /\ UNCHANGED <<runner, mode, id, worker, file, containers, job, schedule>>

\* Faulty: the cancel function stays.
FaultyRun_return(r) ==
  /\ At(r, "return")
  /\ running' = FALSE
  /\ Goto(r, "save")
  /\ UNCHANGED <<stopped, cancelFunc, ctxErr, test, file, containers, job, schedule>>

\* The deferred functions of Run.
Run_return(r) ==
  /\ At(r, "return")
  /\ running' = FALSE /\ cancelFunc' = None
  /\ Goto(r, "save")
  /\ UNCHANGED <<stopped, ctxErr, test, file, containers, job, schedule>>

\* Back in runOnce: save the final result, then push it to the Status Board,
\* whose store is a copy of this one; the goroutine ends and its memory is gone.
runOnce_save(r) ==
  /\ At(r, "save")
  /\ Save(id[r], Stored(result[r]))
  /\ result' = [result EXCEPT ![r] = None]
  /\ worker' = [worker EXCEPT ![r] = [c \in CSPs |-> "off"]]
  /\ ctxErr' = [ctxErr EXCEPT ![r] = None]
  /\ Goto(r, "over")
  /\ UNCHANGED <<running, stopped, cancelFunc, mode, id, containers, job, schedule>>

\* context.WithTimeout
Expire(r) ==
  /\ Timeouts /\ pc[r] \in {"pull", "postgres.run", "postgres.ready", "run", "ready", "wait"} /\ ~CtxErr(r)
  /\ ctxErr' = [ctxErr EXCEPT ![r] = "DeadlineExceeded"]
  /\ UNCHANGED <<running, stopped, cancelFunc, test, file, containers, pc, job, schedule>>

Run(r) ==
  \/ Run_check(r) \/ Run_setup(r) \/ Run_begin(r) \/ Run_wait(r) \/ Run_status(r)
  \/ Run_return(r) \/ runOnce_save(r)

-----------------------------------------------------------------------------
(* testCSP, a goroutine per CSP.                                           *)

\* notify: the CSP's slot of the result is replaced and the result saved.
Notify(r, c, label) ==
  /\ result' = [result EXCEPT ![r].done[c] = @ + 1]
  /\ Save(id[r], Stored(result'[r]))
  /\ worker' = [worker EXCEPT ![r][c] = label]
  /\ UNCHANGED <<runner, mode, id, containers, pc, job, schedule>>

testCSP_test(r, c) == worker[r][c] = "test" /\ Notify(r, c, "check")

\* Between two resources and before the cleanup the context is looked at; the
\* cleanup has a context of its own.
testCSP_check(r, c) ==
  /\ worker[r][c] = "check"
  /\ worker' = [worker EXCEPT ![r][c] =
       IF CtxErr(r) THEN "last"
       ELSE IF mode[r] # "only" /\ result[r].done[c] < Resources THEN "test"
       ELSE IF mode[r] # "false" THEN "cleanup" ELSE "last"]
  /\ UNCHANGED <<runner, result, mode, id, file, containers, pc, job, schedule>>

testCSP_cleanup(r, c) == worker[r][c] = "cleanup" /\ Notify(r, c, "last")

\* Faulty: wg.Done is not deferred and not called on the way out of a cancelled run.
FaultytestCSP_return(r, c) ==
  /\ worker[r][c] = "last" /\ ~CtxErr(r)
  /\ Save(id[r], Stored(result[r]))
  /\ worker' = [worker EXCEPT ![r][c] = "over"]
  /\ UNCHANGED <<runner, result, mode, id, containers, pc, job, schedule>>

\* The goroutine of Run stores what testCSP returns.
testCSP_return(r, c) ==
  /\ worker[r][c] = "last"
  /\ Save(id[r], Stored(result[r]))
  /\ worker' = [worker EXCEPT ![r][c] = "over"]
  /\ UNCHANGED <<runner, result, mode, id, containers, pc, job, schedule>>

testCSP(r, c) ==
  testCSP_test(r, c) \/ testCSP_check(r, c) \/ testCSP_cleanup(r, c) \/ testCSP_return(r, c)

-----------------------------------------------------------------------------
(* server.go                                                               *)

\* Stop: the run in progress, if it has got as far as its cancel function.
Stop(u) ==
  /\ At(u, "idle")
  /\ running /\ cancelFunc # None
  /\ stopped' = TRUE
  /\ ctxErr' = [ctxErr EXCEPT ![cancelFunc] = IF @ = None THEN "Canceled" ELSE @]
  /\ UNCHANGED <<running, cancelFunc, test, file, containers, pc, job, schedule>>

apiDeleteRun(u) ==
  /\ At(u, "idle")
  /\ \E i \in Ids : file[i] # None /\ file' = [file EXCEPT ![i] = None]
  /\ UNCHANGED <<runner, test, containers, pc, job, schedule>>

\* Both ask first whether a run is in progress.
apiSpiderStart(u) ==
  /\ At(u, "idle") /\ ~External
  /\ ~running /\ spider = None
  /\ Goto(u, "pull")
  /\ UNCHANGED <<runner, test, file, containers, job, schedule>>
apiSpiderStop(u) ==
  /\ At(u, "idle") /\ ~External
  /\ ~running
  /\ Goto(u, "stop.spider")
  /\ UNCHANGED <<runner, test, file, containers, job, schedule>>

\* The stored result is read, GitHub is asked for an issue, and the result read
\* is saved with its number.
apiCreateIssue_get(u) ==
  /\ At(u, "idle")
  /\ \E i \in Ids :
       /\ file[i] # None
       /\ job' = [job EXCEPT ![u] = [id |-> i, snap |-> file[i]]]
  /\ Goto(u, "issue")
  /\ UNCHANGED <<runner, test, file, containers, schedule>>
apiCreateIssue_save(u) ==
  /\ At(u, "issue")
  /\ \/ Save(job[u].id, [job[u].snap EXCEPT !.issue = TRUE])
     \/ UNCHANGED file
  /\ job' = [job EXCEPT ![u] = NoJob]
  /\ Goto(u, "idle")
  /\ UNCHANGED <<runner, test, containers, schedule>>

Web(u) ==
  \/ Stop(u) \/ apiDeleteRun(u) \/ apiSpiderStart(u) \/ apiSpiderStop(u)
  \/ apiCreateIssue_get(u) \/ apiCreateIssue_save(u)

-----------------------------------------------------------------------------
(* config.watch and Scheduler.Reconfigure.                                 *)

\* The changed file becomes the current configuration.
ReloadConfig ==
  /\ ~reloading /\ reloads < MaxReloads
  /\ reloads' = reloads + 1 /\ reloading' = TRUE
  /\ cron' \in Crons \cup {None} /\ cleanup' \in Cleanups
  /\ UNCHANGED <<runner, test, file, containers, pc, job, currentCron, entries>>

\* A job is added to those that are left.  Without a valid expression applyCron
\* returns early, and currentCron still names the old job.
applyCron(left) ==
  /\ entries' = left \cup ({cron} \ {None})
  /\ currentCron' = IF cron = None THEN currentCron ELSE cron

\* Faulty: the old job stays.
FaultyReconfigure ==
  /\ reloading /\ reloading' = FALSE
  /\ IF cron = currentCron THEN UNCHANGED <<currentCron, entries>> ELSE applyCron(entries)
  /\ UNCHANGED <<runner, test, file, containers, pc, job, cron, cleanup, reloads>>

\* Then the scheduler is told, and removes the old job.
Reconfigure ==
  /\ reloading /\ reloading' = FALSE
  /\ IF cron = currentCron THEN UNCHANGED <<currentCron, entries>> ELSE applyCron({})
  /\ UNCHANGED <<runner, test, file, containers, pc, job, cron, cleanup, reloads>>

-----------------------------------------------------------------------------
Next ==
  \/ \E r \in Runs : Trigger(r) \/ Run(r) \/ Expire(r)
  \/ \E r \in Runs, c \in CSPs : testCSP(r, c)
  \/ \E u \in Users : Web(u)
  \/ \E a \in Actors : Containers(a)
  \/ ReloadConfig \/ Reconfigure

Spec == Init /\ [][Next]_vars

\* Goroutines are scheduled, Docker commands and tests end (each HTTP call of a
\* test has a timeout), and what is to be written is written in the end.
Fairness ==
  /\ \A r \in Runs : WF_vars(Run(r)) /\ \A c \in CSPs : WF_vars(testCSP(r, c))
  /\ \A a \in Actors : WF_vars(Containers(a))

FairSpec == Spec /\ Fairness

-----------------------------------------------------------------------------
Labels == {"idle", "check", "setup", "pull", "postgres", "postgres.remove", "postgres.run",
  "postgres.ready", "remove", "run", "ready", "begin", "wait", "stop.spider", "stop.postgres", "status", "return",
  "save", "over", "issue"}

\* A run past the check and not yet returned.
Inside(r) == pc[r] \notin {"idle", "check", "save", "over"}

TypeOK ==
  /\ {running, stopped, postgres, reloading} \subseteq BOOLEAN
  /\ cancelFunc \in Runs \cup {None}
  /\ ctxErr \in [Runs -> {None, "Canceled", "DeadlineExceeded"}]
  /\ mode \in [Runs -> Modes \cup {None}] /\ id \in [Runs -> Ids \cup {None}]
  /\ result \in [Runs -> Results \cup {None}]
  /\ worker \in [Runs -> [CSPs -> {"off", "test", "check", "cleanup", "last", "over"}]]
  /\ file \in [Ids -> Records \cup {None}]
  /\ spider \in Actors \cup {None}
  /\ pc \in [Actors -> Labels]
  /\ job \in [Users -> [id : Ids \cup {None}, snap : Records \cup {None}]]
  /\ {cron, currentCron} \cup entries \subseteq Crons \cup {None}
  /\ cleanup \in Cleanups /\ reloads \in 0 .. MaxReloads
  /\ \A r \in Runs : Inside(r) => result[r] # None

\* At most one run is in progress, and Stop would cancel that one: the flag and
\* the cancel function of one run are gone before the next one's are set.
OneRunAtATime ==
  /\ \A r, s \in Runs : Inside(r) /\ Inside(s) => r = s
  /\ running <=> \E r \in Runs : Inside(r)
  /\ cancelFunc # None => Inside(cancelFunc)

\* The entries of the result of a CSP that was tested to the end.
Complete(r) ==
  IF mode[r] = "only" THEN 1 ELSE Resources + (IF mode[r] = "true" THEN 1 ELSE 0)

\* A run reported as done, and not timed out, has tested every resource of every
\* CSP and cleaned up, as its configuration said: a run stopped between two
\* resources, or before its cleanup, is never reported as done.
DoneIsComplete ==
  \A r \in Runs :
    result[r] # None /\ result[r].status = "DONE" /\ ctxErr[r] # "DeadlineExceeded" =>
      \A c \in CSPs : result[r].done[c] = Complete(r)

\* No two runs have this id.
OfOneRun(i) == \A q, r \in Runs : id[q] = i /\ id[r] = i => q = r

\* The final result in the store is not changed by a late goroutine or by a
\* request of the page; an issue filed while the run is in progress does change
\* it, as the result that was read before is written after, and so does another
\* run that began at the same second.
FinalResultStays ==
  [][\A i \in Ids :
       /\ file[i] # None /\ file'[i] # None /\ file[i].status \in Final /\ OfOneRun(i)
       /\ \A u \in Users : job[u].id = i => job[u].snap.status \in Final
       => file'[i].status = file[i].status /\ file'[i].done = file[i].done]_vars

\* A reload never leaves the old job beside the new one, nor when the expression
\* is taken out: but while the scheduler has not been told yet, when the old job
\* may start a run with the new configuration, every job is the configured one.
OnlyConfiguredRuns ==
  /\ \A e, f \in entries : e = f
  /\ ~reloading => entries \subseteq {cron} \ {None}

\* Every run ends, stopped or not, and the next one is not refused for ever.
RunsEnd == running ~> ~running

\* "apiCreateIssue creates a GitHub issue and saves the issue number/URL back to
\* the run": the number stays as long as the run's result.
IssueStays ==
  [][\A i \in Ids : file[i] # None /\ file'[i] # None /\ file[i].issue => file'[i].issue]_vars

\* A result that was final is not one of a run in progress again: a run that begins
\* at the same second takes the file of the one before.
FinalIsFinal ==
  [][\A i \in Ids :
       file[i] # None /\ file'[i] # None /\ file[i].status \in Final /\ (\A u \in Users : job[u].id # i) =>
         file'[i].status \in Final]_vars

\* "cannot stop spider while a test run is in progress": the containers of a
\* run that tests are its own until it stops them.
SpiderStaysForRun == \A r \in Runs : At(r, "wait") /\ ~External => spider = r

\* "Reconfigure updates the cron expression": the job is the configured one.
ScheduleFollowsConfig == ~reloading => entries = {cron} \ {None}
=============================================================================
