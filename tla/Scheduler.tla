----------------------------- MODULE Scheduler -----------------------------
(***************************************************************************)
(* The job scheduler of src/src/workspace.cpp: Workspace, Job,             *)
(* CommandLineJob, Dependency, JobDependency and CounterToken.             *)
(*                                                                         *)
(* The main thread submits jobs and then waits.  A job whose dependencies  *)
(* are all satisfied is started by Job::start, which spawns a detached     *)
(* runner thread; the runner takes WORKSPACE_MUTEX, locks the tokens of    *)
(* the job, runs its script and tells the dependents of the job.           *)
(*                                                                         *)
(* A step of the model is what a thread does between two points where      *)
(* another thread or a process can be noticed.  Dependency::check calls    *)
(* made in a loop are separate steps: a signal, or a process that ends,    *)
(* may come between two of them.                                           *)
(*                                                                         *)
(* Every job has at most one dependency on a token (AtMostOneToken): a     *)
(* runner that has to give up then holds nothing, and all the accounting   *)
(* of tokens is done with WORKSPACE_MUTEX held.  Jobs that need several    *)
(* tokens release them without the mutex; that race is not in this module. *)
(***************************************************************************)
EXTENDS Integers, FiniteSets, TokenUnits

CONSTANTS
  Jobs,         \* the Job objects of the program
  Tokens,       \* the CounterToken objects
  Deps,         \* the Dependency objects
  Origin,       \* Dependency::_origin: the job or the token depended on
  Target,       \* Dependency::_target: the job that has the dependency
  Value,        \* CounterDependency::_value: how many tokens are needed
  Limit,        \* CounterToken::_limit
  JobId,        \* Job::_jobId: two objects with one id are one job
  Threads,      \* names for the runner threads that one job may have at once
  Unset,        \* what Job::_state may hold before its first assignment
  Leftovers,    \* what earlier experiments may have left on disk for a job
  ExitCodes,    \* how the command of a job may end
  MaxSignals,   \* how many SIGINT the user may send
  Main,         \* the thread that submits and waits
  Nobody        \* the owner of a free mutex

States   == {"WAITING", "READY", "RUNNING", "ERROR", "DONE"}
Statuses == {"WAIT", "OK", "FAIL"}

\* On disk: nothing; FILE.done; a FILE.lock whose owner died; a FILE.lock
\* whose script has yet to write FILE.pid; a script that runs.
Files == {"absent", "done", "stale", "launched", "running"}

\* The dependencies of a job, in a set: nothing depends on their order.
DepsOf(j) == {d \in Deps : Target[d] = j}

JobDeps   == {d \in Deps : Origin[d] \in Jobs}
TokenDeps == {d \in Deps : Origin[d] \in Tokens}

ASSUME SetsAssumption ==
  /\ IsFiniteSet(Deps)
  /\ Jobs \cap Tokens = {}
  /\ Main \notin Jobs \X Threads
  /\ Nobody \notin Jobs \cup (Jobs \X Threads) \cup {Main}
  /\ Unset \subseteq States
  /\ Leftovers \subseteq Files \ {"launched"}
  /\ ExitCodes \subseteq {"ok", "fail"}
  /\ MaxSignals \in Nat

ASSUME DepsAssumption ==
  /\ Origin \in [Deps -> Jobs \cup Tokens]
  /\ Target \in [Deps -> Jobs]
  /\ Value \in [Deps -> Nat]
  /\ Limit \in [Tokens -> Nat]

ASSUME AtMostOneToken ==
  \A d, e \in TokenDeps : Target[d] = Target[e] => d = e

-----------------------------------------------------------------------------

VARIABLES
  exitMode,     \* the progress of the exit asked for by SIGINT
  signals,      \* the number of SIGINT received
  mutex,        \* the thread that holds WORKSPACE_MUTEX
  pc,           \* where each thread is
  todo,         \* the dependencies the owner of the mutex has still to check
  current,      \* the job the main thread is submitting
  submitted,    \* the jobs given to Workspace::submit
  jobs,         \* Workspace::_jobs
  waitingJobs,  \* Workspace::waitingJobs
  state,        \* Job::_state
  unsatisfied,  \* Job::_unsatisfied
  oldStatus,    \* Dependency::_oldStatus
  usedTokens,   \* CounterToken::_usedTokens
  locks,        \* the token dependencies in the vector `locks' of each runner
  files,        \* the files of each job
  outcome       \* the exit code of the process each runner waits for

schedVars == << jobs, waitingJobs, state, unsatisfied, oldStatus >>
mainVars  == << current, submitted >>
exitVars  == << exitMode, signals >>
lockVars  == << usedTokens, locks >>
diskVars  == << files, outcome >>

vars == << exitVars, mutex, pc, todo, mainVars, schedVars, lockVars, diskVars >>

Runners == Jobs \X Threads
Actors  == Runners \cup {Main}

\* "stuck" is the thread that locks a std::mutex it already holds.
MainPCs   == {"submit", "registering", "registered", "wait", "blocked", "woken",
              "returned", "stuck"}
RunnerPCs == {"idle", "starting", "run", "lockFile", "attached", "executing",
              "alreadyDone", "relock", "completed", "released", "stuck"}

\* The places where the mutex is held.
Holding == {"registering", "run", "lockFile", "attached", "alreadyDone",
            "completed", "released", "stuck"}

Init ==
  /\ exitMode = "NONE"
  /\ signals = 0
  /\ mutex = Nobody
  /\ pc = [a \in Actors |-> IF a = Main THEN "submit" ELSE "idle"]
  /\ todo = {}
  /\ current = Nobody
  /\ submitted = {}
  /\ jobs = {}
  /\ waitingJobs = {}
  /\ state \in [Jobs -> Unset]
  /\ unsatisfied = [j \in Jobs |-> Cardinality(DepsOf(j))]
  /\ oldStatus = [d \in Deps |-> "WAIT"]
  /\ usedTokens = [t \in Tokens |-> 0]
  /\ locks = [r \in Runners |-> {}]
  /\ files \in [Jobs -> Leftovers]
  /\ outcome = [r \in Runners |-> "none"]

-----------------------------------------------------------------------------
(* Dependencies.                                                           *)

\* Dependency::_currentLock has not expired: a runner still owns the lock.
Live(d) == \E r \in Runners : d \in locks[r]

\* Mutant: a dependent only waits for the job to have ended.
JobStatusEnded(j) == IF state[j] \in {"ERROR", "DONE"} THEN "OK" ELSE "WAIT"

JobStatus(j) ==
  CASE state[j] = "ERROR" -> "FAIL"
    [] state[j] = "DONE"  -> "OK"
    [] OTHER              -> "WAIT"

\* Mutant: the tokens asked for are forgotten.
TokenStatusAny(d) == IF usedTokens[Origin[d]] <= Limit[Origin[d]] THEN "OK" ELSE "WAIT"

TokenStatus(d) ==
  IF usedTokens[Origin[d]] + Value[d] <= Limit[Origin[d]] THEN "OK" ELSE "WAIT"

Status(d) == IF d \in TokenDeps THEN TokenStatus(d) ELSE JobStatus(Origin[d])

\* What Dependency::check has to tell the target of d.
Changed(d) == ~Live(d) /\ Status(d) # oldStatus[d]

\* Mutant: only jobs keep the dependencies on them.
DependentsOnJobs(o) == {d \in JobDeps : Origin[d] = o /\ Target[d] \in jobs}

\* Resource::_dependents: filled when the target is submitted.
Dependents(o) == {d \in Deps : Origin[d] = o /\ Target[d] \in jobs}

\* Mutant: a dependency that failed is not waited for either.
SatisfiedOrFailed(s) == IF s # "WAIT" THEN 1 ELSE 0

Satisfied(s) == IF s = "OK" THEN 1 ELSE 0

\* Mutant: the former status is ignored.
UnsatisfiedForward(d, s) == unsatisfied[Target[d]] - Satisfied(s)

\* Job::_unsatisfied of the target once d has gone to status s.
Unsatisfied(d, s) ==
  unsatisfied[Target[d]] - (Satisfied(s) - Satisfied(oldStatus[d]))

\* JOB_CHANGED.notify_all
NotifyMain(p) == IF p[Main] = "blocked" THEN [p EXCEPT ![Main] = "woken"] ELSE p

\* Workspace::jobFinished, in a thread that goes to p.
JobFinished(j, p) ==
  /\ waitingJobs' = waitingJobs \ {j}
  /\ pc' = NotifyMain(p)

-----------------------------------------------------------------------------
(* The checks that the owner of the mutex has to do, one by one, in any    *)
(* order: the dependents are in a map whose keys are addresses.            *)

Unchanged(d) ==
  /\ d \in todo
  /\ ~Changed(d)
  /\ todo' = todo \ {d}
  /\ UNCHANGED << exitVars, mutex, pc, mainVars, schedVars, lockVars, diskVars >>

\* Dependency::check of d, up to the action that Job::dependencyChanged takes.
Update(d) ==
  /\ d \in todo
  /\ Changed(d)
  /\ oldStatus' = [oldStatus EXCEPT ![d] = Status(d)]
  /\ unsatisfied' = [unsatisfied EXCEPT ![Target[d]] = Unsatisfied(d, Status(d))]
  /\ UNCHANGED << exitVars, mutex, mainVars, jobs, state, lockVars, diskVars >>

\* The job depended on failed: the target is completed, its state is kept.
Fail(d) ==
  /\ Update(d)
  /\ Status(d) = "FAIL"
  /\ JobFinished(Target[d], pc)
  /\ todo' = (todo \ {d}) \cup Dependents(Target[d])

\* The target is ready: Job::start spawns a runner.
Spawn(d) ==
  /\ Update(d)
  /\ Status(d) # "FAIL" /\ Unsatisfied(d, Status(d)) = 0
  /\ exitMode = "NONE"
  /\ \E k \in Threads :
       /\ pc[<<Target[d], k>>] = "idle"
       /\ pc' = [pc EXCEPT ![<<Target[d], k>>] = "starting"]
  /\ todo' = todo \ {d}
  /\ UNCHANGED waitingJobs

\* The target is ready after a SIGINT: Job::start locks WORKSPACE_MUTEX, which
\* this very thread holds.  The assignment of _oldStatus, which comes after, is
\* never reached; nobody can tell, for nobody gets the mutex any more.
StartStuck(d) ==
  /\ Update(d)
  /\ Status(d) # "FAIL" /\ Unsatisfied(d, Status(d)) = 0
  /\ exitMode # "NONE"
  /\ pc' = [pc EXCEPT ![mutex] = "stuck"]
  /\ todo' = todo \ {d}
  /\ UNCHANGED waitingJobs

\* The target has to wait, or still has to.
Wait(d) ==
  /\ Update(d)
  /\ Status(d) # "FAIL" /\ Unsatisfied(d, Status(d)) # 0
  /\ todo' = todo \ {d}
  /\ UNCHANGED << pc, waitingJobs >>

Check(d) == Unchanged(d) \/ Fail(d) \/ Spawn(d) \/ StartStuck(d) \/ Wait(d)

\* The owner goes on with its checks, unless it is stuck in one of them.
CheckStep == mutex # Nobody /\ pc[mutex] # "stuck" /\ \E d \in Deps : Check(d)

-----------------------------------------------------------------------------
(* The main thread: Workspace::submit, then a wait.                        *)

\* Jobs are built from the outputs of other jobs, which were submitted before.
CanSubmit(j) ==
  /\ pc[Main] = "submit"
  /\ j \notin submitted
  /\ \A d \in DepsOf(j) : Origin[d] \in Jobs => Origin[d] \in submitted

Known(j) == \E i \in jobs : JobId[i] = JobId[j]

\* A job with the same id is registered: this object is left aside.
SkipSubmit(j) ==
  /\ CanSubmit(j)
  /\ mutex = Nobody
  /\ Known(j)
  /\ submitted' = submitted \cup {j}
  /\ UNCHANGED << exitVars, mutex, pc, todo, current, schedVars, lockVars, diskVars >>

Submit(j) ==
  /\ CanSubmit(j)
  /\ mutex = Nobody
  /\ ~Known(j)
  /\ mutex' = Main
  /\ pc' = [pc EXCEPT ![Main] = "registering"]
  /\ current' = j
  /\ submitted' = submitted \cup {j}
  /\ waitingJobs' = waitingJobs \cup {j}
  /\ jobs' = jobs \cup {j}
  /\ todo' = DepsOf(j)
  /\ UNCHANGED << exitVars, state, unsatisfied, oldStatus, lockVars, diskVars >>

Registered ==
  /\ pc[Main] = "registering"
  /\ todo = {}
  /\ mutex' = Nobody
  /\ pc' = [pc EXCEPT ![Main] = "registered"]
  /\ UNCHANGED << exitVars, todo, mainVars, schedVars, lockVars, diskVars >>

\* Mutant: the end of submit starts any job that is ready.
SubmitSpawnReady ==
  /\ pc[Main] = "registered"
  /\ unsatisfied[current] = 0
  /\ exitMode = "NONE"
  /\ \E k \in Threads :
       /\ pc[<<current, k>>] = "idle"
       /\ pc' = [pc EXCEPT ![<<current, k>>] = "starting", ![Main] = "submit"]
  /\ UNCHANGED << exitVars, mutex, todo, mainVars, schedVars, lockVars, diskVars >>

\* The end of submit starts a job that has no dependency at all.
SubmitSpawn ==
  /\ pc[Main] = "registered"
  /\ DepsOf(current) = {}
  /\ exitMode = "NONE"
  /\ \E k \in Threads :
       /\ pc[<<current, k>>] = "idle"
       /\ pc' = [pc EXCEPT ![<<current, k>>] = "starting", ![Main] = "submit"]
  /\ UNCHANGED << exitVars, mutex, todo, mainVars, schedVars, lockVars, diskVars >>

\* After a SIGINT it is given up; nobody is told.
SubmitGiveUp ==
  /\ pc[Main] = "registered"
  /\ DepsOf(current) = {}
  /\ exitMode # "NONE"
  /\ mutex = Nobody
  /\ state' = [state EXCEPT ![current] = "ERROR"]
  /\ pc' = [pc EXCEPT ![Main] = "submit"]
  /\ UNCHANGED << exitVars, mutex, todo, mainVars, jobs, waitingJobs, unsatisfied,
                  oldStatus, lockVars, diskVars >>

SubmitEnd ==
  /\ pc[Main] = "registered"
  /\ DepsOf(current) # {}
  /\ pc' = [pc EXCEPT ![Main] = "submit"]
  /\ UNCHANGED << exitVars, mutex, todo, mainVars, schedVars, lockVars, diskVars >>

\* Workspace::waitUntilTaskCompleted, once everything is submitted.
StartWaiting ==
  /\ pc[Main] = "submit"
  /\ submitted = Jobs
  /\ pc' = [pc EXCEPT ![Main] = "wait"]
  /\ UNCHANGED << exitVars, mutex, todo, mainVars, schedVars, lockVars, diskVars >>

CountJobs ==
  /\ pc[Main] = "wait"
  /\ pc' = [pc EXCEPT ![Main] = IF waitingJobs = {} THEN "returned" ELSE "blocked"]
  /\ UNCHANGED << exitVars, mutex, todo, mainVars, schedVars, lockVars, diskVars >>

\* Mutant: any notification ends the wait.
WaitOnce ==
  /\ pc[Main] = "woken"
  /\ pc' = [pc EXCEPT ![Main] = "returned"]
  /\ UNCHANGED << exitVars, mutex, todo, mainVars, schedVars, lockVars, diskVars >>

\* Mutant: the first SIGINT already ends the wait.
WaitUninterrupted ==
  /\ pc[Main] = "woken"
  /\ pc' = [pc EXCEPT ![Main] = IF exitMode # "NONE" THEN "returned" ELSE "wait"]
  /\ UNCHANGED << exitVars, mutex, todo, mainVars, schedVars, lockVars, diskVars >>

WaitLoop ==
  /\ pc[Main] = "woken"
  /\ pc' = [pc EXCEPT ![Main] = IF exitMode = "STOPPING" THEN "returned" ELSE "wait"]
  /\ UNCHANGED << exitVars, mutex, todo, mainVars, schedVars, lockVars, diskVars >>

MainStep ==
  \/ \E j \in Jobs : Submit(j) \/ SkipSubmit(j)
  \/ Registered \/ SubmitSpawn \/ SubmitGiveUp \/ SubmitEnd
  \/ StartWaiting \/ CountJobs \/ WaitLoop
-----------------------------------------------------------------------------
(* A runner: the thread of Job::start, with CommandLineJob::run.           *)

\* The locks that the runner has to create; a live one is shared.
TokensOf(r) == DepsOf(r[1]) \cap TokenDeps
Missing(r)  == {d \in TokensOf(r) : ~Live(d)}

\* Mutant: the tokens are taken without another look at the limit.
AcquireUnchecked(r) ==
  /\ pc[r] = "starting"
  /\ mutex = Nobody
  /\ \/ Missing(r) = {} /\ UNCHANGED usedTokens
     \/ \E d \in Missing(r) :
          usedTokens' = [usedTokens EXCEPT ![Origin[d]] = @ + Value[d]]
  /\ locks' = [locks EXCEPT ![r] = TokensOf(r)]
  /\ mutex' = r
  /\ pc' = [pc EXCEPT ![r] = "run"]
  /\ UNCHANGED << exitVars, todo, mainVars, schedVars, diskVars >>

AcquireLocks(r) ==
  /\ pc[r] = "starting"
  /\ mutex = Nobody
  /\ \/ Missing(r) = {} /\ UNCHANGED usedTokens
     \/ \E d \in Missing(r) :
          /\ TokenStatus(d) = "OK"
          /\ usedTokens' = [usedTokens EXCEPT ![Origin[d]] = @ + Value[d]]
  /\ locks' = [locks EXCEPT ![r] = TokensOf(r)]
  /\ mutex' = r
  /\ pc' = [pc EXCEPT ![r] = "run"]
  /\ UNCHANGED << exitVars, todo, mainVars, schedVars, diskVars >>

\* Mutant: the dependency that was refused is not checked.
AbortUnchecked(r) ==
  /\ pc[r] = "starting"
  /\ mutex = Nobody
  /\ \E d \in Missing(r) : TokenStatus(d) = "WAIT"
  /\ state' = [state EXCEPT ![r[1]] = "READY"]
  /\ pc' = [pc EXCEPT ![r] = "idle"]
  /\ UNCHANGED << exitVars, mutex, todo, mainVars, jobs, waitingJobs, unsatisfied, oldStatus,
                  lockVars, diskVars >>

\* lock_error: the dependency is checked, the job is READY, the thread ends.
AbortStart(r) ==
  /\ pc[r] = "starting"
  /\ mutex = Nobody
  /\ \E d \in Missing(r) :
       /\ TokenStatus(d) = "WAIT"
       /\ oldStatus' = [oldStatus EXCEPT ![d] = "WAIT"]
       /\ unsatisfied' = [unsatisfied EXCEPT ![r[1]] = Unsatisfied(d, "WAIT")]
  /\ state' = [state EXCEPT ![r[1]] = "READY"]
  /\ pc' = [pc EXCEPT ![r] = "idle"]
  /\ UNCHANGED << exitVars, mutex, todo, mainVars, jobs, waitingJobs, lockVars, diskVars >>

\* FILE.done exists, before or after FILE.lock was taken: the job is DONE and
\* its dependents are told, a first time.
AlreadyDone(r) ==
  /\ pc[r] \in {"run", "lockFile"}
  /\ files[r[1]] = "done"
  /\ state' = [state EXCEPT ![r[1]] = "DONE"]
  /\ JobFinished(r[1], [pc EXCEPT ![r] = "alreadyDone"])
  /\ todo' = Dependents(r[1])
  /\ UNCHANGED << exitVars, mutex, mainVars, jobs, unsatisfied, oldStatus, lockVars,
                  diskVars >>

\* FILE.pid exists: the runner waits for that process, and keeps the mutex.
Attach(r) ==
  /\ pc[r] = "run"
  /\ files[r[1]] = "running"
  /\ pc' = [pc EXCEPT ![r] = "attached"]
  /\ outcome' = [outcome EXCEPT ![r] = "none"]
  /\ UNCHANGED << exitVars, mutex, todo, mainVars, schedVars, lockVars, files >>

LockFile(r) ==
  /\ pc[r] = "run"
  /\ files[r[1]] \notin {"done", "running"}
  /\ pc' = [pc EXCEPT ![r] = "lockFile"]
  /\ UNCHANGED << exitVars, mutex, todo, mainVars, schedVars, lockVars, diskVars >>

\* FILE.lock was not released in time: run returns, the state is kept.  (JobFiles
\* has the timeout of a lock that was released without the watcher knowing.)
LockFileTimeout(r) ==
  /\ pc[r] = "lockFile"
  /\ files[r[1]] \notin {"absent", "done"}
  /\ mutex' = Nobody
  /\ pc' = [pc EXCEPT ![r] = "relock"]
  /\ UNCHANGED << exitVars, todo, mainVars, schedVars, lockVars, diskVars >>

\* FILE.lock is taken: the script is written and launched.
Launch(r) ==
  /\ pc[r] = "lockFile"
  /\ files[r[1]] = "absent"
  /\ files' = [files EXCEPT ![r[1]] = "launched"]
  /\ state' = [state EXCEPT ![r[1]] = "RUNNING"]
  /\ outcome' = [outcome EXCEPT ![r] = "none"]
  /\ mutex' = Nobody
  /\ pc' = [pc EXCEPT ![r] = "executing"]
  /\ UNCHANGED << exitVars, todo, mainVars, jobs, waitingJobs, unsatisfied, oldStatus,
                  lockVars >>

\* Mutant: the exit code is read as a Boolean.
ReapSwapped(r) ==
  /\ pc[r] \in {"executing", "attached"}
  /\ outcome[r] # "none"
  /\ state' = [state EXCEPT ![r[1]] = IF outcome[r] = "ok" THEN "ERROR" ELSE "DONE"]
  /\ mutex' = IF pc[r] = "attached" THEN Nobody ELSE mutex
  /\ pc' = [pc EXCEPT ![r] = "relock"]
  /\ UNCHANGED << exitVars, todo, mainVars, jobs, waitingJobs, unsatisfied, oldStatus,
                  lockVars, diskVars >>

\* Mutant: the state is set with the mutex.
ReapLocked(r) ==
  /\ pc[r] \in {"executing", "attached"}
  /\ outcome[r] # "none"
  /\ mutex = (IF pc[r] = "attached" THEN r ELSE Nobody)
  /\ state' = [state EXCEPT ![r[1]] = IF outcome[r] = "ok" THEN "DONE" ELSE "ERROR"]
  /\ mutex' = Nobody
  /\ pc' = [pc EXCEPT ![r] = "relock"]
  /\ UNCHANGED << exitVars, todo, mainVars, jobs, waitingJobs, unsatisfied, oldStatus,
                  lockVars, diskVars >>

\* The process has ended.  Only an attached runner holds the mutex here.
Reap(r) ==
  /\ pc[r] \in {"executing", "attached"}
  /\ outcome[r] # "none"
  /\ state' = [state EXCEPT ![r[1]] = IF outcome[r] = "ok" THEN "DONE" ELSE "ERROR"]
  /\ mutex' = IF pc[r] = "attached" THEN Nobody ELSE mutex
  /\ pc' = [pc EXCEPT ![r] = "relock"]
  /\ UNCHANGED << exitVars, todo, mainVars, jobs, waitingJobs, unsatisfied, oldStatus,
                  lockVars, diskVars >>

\* run has returned, every dependent told already: out of the inner scope.
LeaveRun(r) ==
  /\ pc[r] = "alreadyDone"
  /\ todo = {}
  /\ mutex' = Nobody
  /\ pc' = [pc EXCEPT ![r] = "relock"]
  /\ UNCHANGED << exitVars, todo, mainVars, schedVars, lockVars, diskVars >>

\* Job::jobCompleted, whatever run has done.
Complete(r) ==
  /\ pc[r] = "relock"
  /\ mutex = Nobody
  /\ mutex' = r
  /\ JobFinished(r[1], [pc EXCEPT ![r] = "completed"])
  /\ todo' = Dependents(r[1])
  /\ UNCHANGED << exitVars, mainVars, jobs, state, unsatisfied, oldStatus, lockVars,
                  diskVars >>

\* Mutant: a shared lock gives its tokens back once per owner.
AllOwned(r) == locks[r]

\* locks.clear(): a lock that no other runner shares gives its tokens back, and
\* the jobs that depend on the token are checked.
LastOwned(r) == {d \in locks[r] : \A q \in Runners \ {r} : d \notin locks[q]}

ReleaseLocks(r) ==
  /\ pc[r] = "completed"
  /\ todo = {}
  /\ \/ LastOwned(r) = {} /\ UNCHANGED << usedTokens, todo >>
     \/ \E d \in LastOwned(r) :
          /\ usedTokens' = [usedTokens EXCEPT ![Origin[d]] = @ - Value[d]]
          /\ todo' = Dependents(Origin[d])
  /\ locks' = [locks EXCEPT ![r] = {}]
  /\ pc' = [pc EXCEPT ![r] = "released"]
  /\ UNCHANGED << exitVars, mutex, mainVars, schedVars, diskVars >>

EndRunner(r) ==
  /\ pc[r] = "released"
  /\ todo = {}
  /\ mutex' = Nobody
  /\ pc' = [pc EXCEPT ![r] = "idle"]
  /\ UNCHANGED << exitVars, todo, mainVars, schedVars, lockVars, diskVars >>

RunnerStep(r) ==
  \/ AcquireLocks(r) \/ AbortStart(r) \/ AlreadyDone(r) \/ Attach(r) \/ LockFile(r)
  \/ LockFileTimeout(r) \/ Launch(r) \/ Reap(r) \/ LeaveRun(r) \/ Complete(r)
  \/ ReleaseLocks(r) \/ EndRunner(r)

-----------------------------------------------------------------------------
(* The scripts and the user.                                               *)

\* The script has checked its locks and writes FILE.pid.
WritePid(j) ==
  /\ files[j] = "launched"
  /\ files' = [files EXCEPT ![j] = "running"]
  /\ UNCHANGED << exitVars, mutex, pc, todo, mainVars, schedVars, lockVars, outcome >>

\* The runners that wait for the process of j.
Watchers(j) == {r \in {j} \X Threads : /\ pc[r] \in {"executing", "attached"}
                                       /\ outcome[r] = "none"}

\* The script ends; its trap removes FILE.pid and FILE.lock.
Exit(j, code) ==
  /\ files[j] = "running"
  /\ files' = [files EXCEPT ![j] = IF code = "ok" THEN "done" ELSE "absent"]
  /\ outcome' = [r \in Runners |-> IF r \in Watchers(j) THEN code ELSE outcome[r]]
  /\ UNCHANGED << exitVars, mutex, pc, todo, mainVars, schedVars, lockVars >>

ScriptStep(j) == WritePid(j) \/ \E code \in ExitCodes : Exit(j, code)

\* sigexitHandler takes no mutex.  The first SIGINT asks to launch nothing more;
\* the second one, however late, to stop: it wakes the main thread if it waits.
Interrupt ==
  /\ signals < MaxSignals
  /\ signals' = signals + 1
  /\ exitMode' = IF exitMode = "NONE" THEN "WAITING" ELSE "STOPPING"
  /\ pc' = IF exitMode = "WAITING" THEN NotifyMain(pc) ELSE pc
  /\ UNCHANGED << mutex, todo, mainVars, schedVars, lockVars, diskVars >>

\* The program is over: the wait has returned and no thread is left.
Finished ==
  /\ pc[Main] = "returned"
  /\ \A r \in Runners : pc[r] = "idle"
  /\ UNCHANGED vars

Next ==
  \/ MainStep
  \/ CheckStep
  \/ \E r \in Runners : RunnerStep(r)
  \/ \E j \in Jobs : ScriptStep(j)
  \/ Interrupt
  \/ Finished

Spec == Init /\ [][Next]_vars

\* Threads are scheduled, and commands end.  A signal need not come.
Fairness ==
  /\ WF_vars(MainStep)
  /\ WF_vars(CheckStep)
  /\ \A r \in Runners : WF_vars(RunnerStep(r))
  /\ \A j \in Jobs : WF_vars(ScriptStep(j))

FairSpec == Spec /\ Fairness

-----------------------------------------------------------------------------
(* Properties.                                                             *)

\* The type of every variable, when that of the counters is Counter.
Types(Counter) ==
  /\ exitMode \in {"NONE", "WAITING", "STOPPING"}
  /\ signals \in Nat
  /\ mutex \in Actors \cup {Nobody}
  /\ pc \in [Actors -> MainPCs \cup RunnerPCs]
  /\ todo \subseteq Deps
  /\ current \in Jobs \cup {Nobody}
  /\ submitted \subseteq Jobs
  /\ jobs \subseteq Jobs
  /\ waitingJobs \subseteq Jobs
  /\ state \in [Jobs -> States]
  /\ unsatisfied \in [Jobs -> Counter]
  /\ oldStatus \in [Deps -> Statuses]
  /\ usedTokens \in [Tokens -> Counter]
  /\ locks \in [Runners -> SUBSET TokenDeps]
  /\ files \in [Jobs -> Files]
  /\ outcome \in [Runners -> {"none", "ok", "fail"}]

\* Job::_unsatisfied and CounterToken::_usedTokens are unsigned: neither is ever
\* taken below zero, however statuses flip and locks are shared.
TypeOK == Types(Nat)

\* A runner that has entered CommandLineJob::run and has not been reaped.
Running(r) == pc[r] \in {"run", "lockFile", "attached", "executing"}

\* What the dependencies in S need, with one element for each token.
Units(S) == UnitsOf(Value, S)

InUse(t) ==
  {d \in TokenDeps : Origin[d] = t /\ \E k \in Threads : Running(<<Target[d], k>>)}

\* "Tokens are used to limit the number of running jobs": the needs of the jobs
\* that run never exceed the limit of a token, whatever starts, aborts, shares a
\* lock or releases one.
TokenLimit == \A t \in Tokens : Cardinality(Units(InUse(t))) <= Limit[t]

\* No token leaks and none is given back twice: while no runner is between the
\* locks of Job::start and their release, every token is free.
TokensReturned ==
  (\A r \in Runners : pc[r] \in {"idle", "starting", "released"}) =>
    \A t \in Tokens : usedTokens[t] = 0

\* Job::start "ensures all dependencies are satisfied": when a job runs, the jobs
\* it depends on have left their FILE.done on disk.
DependenciesDone ==
  \A r \in Runners : Running(r) =>
    \A d \in DepsOf(r[1]) \cap JobDeps : files[Origin[d]] = "done"

\* No wake-up is lost: a job that waits and has no runner is short of a token,
\* depends on a job that is not done, or on one whose runner has still to tell it.
NoLostStart ==
  mutex = Nobody /\ exitMode = "NONE" =>
    \A j \in waitingJobs :
      \/ \E k \in Threads : pc[<<j, k>>] # "idle"
      \/ pc[Main] = "registered" /\ current = j
      \/ \E d \in DepsOf(j) :
           \/ Status(d) # "OK"
           \/ \E k \in Threads : d \in JobDeps /\ pc[<<Origin[d], k>>] # "idle"

\* Once waitUntilTaskCompleted has returned no job runs, unless the user insisted.
ReturnedMeansOver ==
  pc[Main] = "returned" /\ exitMode # "STOPPING" =>
    \A r \in Runners : pc[r] # "starting" /\ ~Running(r)

\* A job is started while it waits and has no other runner: it runs once.
StartedOnce ==
  [][\A r \in Runners : pc[r] = "idle" /\ pc'[r] = "starting" =>
       /\ r[1] \in waitingJobs
       /\ \A k \in Threads : pc[<<r[1], k>>] = "idle"]_vars

\* When every command succeeds the wait returns, and every job ends DONE: the
\* object that was submitted, or the one registered before with the same id.
Completion ==
  <>[](/\ pc[Main] = "returned"
       /\ \A j \in Jobs : \E i \in jobs : JobId[i] = JobId[j] /\ state[i] = "DONE")

\* Whatever commands do, the wait returns and every job ends, the ones whose locks
\* were refused and the ones that were started twice included.
AllEnd ==
  <>[](/\ pc[Main] = "returned"
       /\ \A r \in Runners : pc[r] = "idle"
       /\ \A j \in Jobs : state[j] \in {"DONE", "ERROR"})

\* Whatever the user interrupts, the result of a launched job is recorded: when
\* another thread is stuck with the mutex for ever, or has it while it waits for
\* a process of an earlier experiment, and however late the job was launched.
Recorded ==
  \A r \in Runners : pc[r] = "executing" ~> state[r[1]] \in {"DONE", "ERROR"}

-----------------------------------------------------------------------------
(* What the documentation says and the code does not do.                   *)

\* workspace.hpp:436 "Wait that all tasks are completed": the wait ends.
WaitEnds == <>(pc[Main] = "returned")

\* The same, once it has ended without a SIGINT.
ReturnedMeansCompleted ==
  pc[Main] = "returned" /\ exitMode = "NONE" => \A j \in jobs : state[j] \in {"DONE", "ERROR"}

\* workspace.cpp:67 "Received SIGINT signal: not launching any other process".
NoLaunchAfterInterrupt ==
  [][\A j \in Jobs : exitMode # "NONE" /\ files[j] # "launched" => files'[j] # "launched"]_vars

\* workspace.cpp:56 "If two SIGINTs are received in a short interval, then exit ASAP".
SecondInterruptExits == exitMode = "STOPPING" ~> pc[Main] = "returned"

-----------------------------------------------------------------------------
(* The inductive invariant behind TypeOK, TokenLimit and DependenciesDone. *)

\* A thread is where it holds the mutex exactly when it owns it, and there are
\* dependencies to check only where the owner goes through dependents.
MutexInv ==
  /\ pc[Main] \in MainPCs
  /\ \A r \in Runners : pc[r] \in RunnerPCs
  /\ \A a \in Actors : pc[a] \in Holding <=> mutex = a
  /\ todo # {} => /\ mutex # Nobody
                  /\ pc[mutex] \in {"registering", "alreadyDone", "completed",
                                    "released", "stuck"}

\* Between its two acquisitions of the mutex a runner owns the locks of its job.
LocksInv ==
  \A r \in Runners :
    /\ locks[r] \subseteq TokensOf(r)
    /\ pc[r] \in {"idle", "starting", "released"} => locks[r] = {}
    /\ Running(r) => locks[r] = TokensOf(r)

Held(t) == {d \in TokenDeps : Origin[d] = t /\ Live(d)}

\* The tokens in use are those of the live locks, and there are enough of them.
TokensInv ==
  \A t \in Tokens : /\ usedTokens[t] = Cardinality(Units(Held(t)))
                    /\ usedTokens[t] <= Limit[t]

\* Job::_unsatisfied counts the dependencies last seen unsatisfied.
UnsatisfiedInv ==
  \A j \in Jobs :
    unsatisfied[j] = Cardinality({d \in DepsOf(j) : oldStatus[d] # "OK"})

\* What DONE, an exit code, a dependency seen OK and a start say of the disk.
DoneInv ==
  /\ \A j \in Jobs : state[j] = "DONE" => files[j] = "done"
  /\ \A r \in Runners :
       pc[r] \in {"executing", "attached"} /\ outcome[r] = "ok" => files[r[1]] = "done"
  /\ \A d \in JobDeps : oldStatus[d] = "OK" => files[Origin[d]] = "done"
  /\ \A r \in Runners : pc[r] = "starting" \/ Running(r) =>
       \A d \in DepsOf(r[1]) \cap JobDeps : files[Origin[d]] = "done"

IInv == TypeOK /\ MutexInv /\ LocksInv /\ TokensInv /\ UnsatisfiedInv /\ DoneInv

-----------------------------------------------------------------------------
(* The inductive invariant behind StartedOnce, NoLostStart and             *)
(* ReturnedMeansOver, when the needs of each token are all equal.          *)

\* Then tokens that are given back are enough for any other need of the token.
EqualNeeds == \A d, e \in TokenDeps : Origin[d] = Origin[e] => Value[d] = Value[e]

Ready(j) == \A d \in DepsOf(j) : oldStatus[d] = "OK"
Idle(j)  == \A k \in Threads : pc[<<j, k>>] = "idle"

\* The runner may still run its job.
Ahead(r) == pc[r] = "starting" \/ Running(r)

Submitting(j) == pc[Main] \in {"registering", "registered"} /\ current = j

\* A job that will not be started any more, for it was.
Over(j) ==
  /\ j \in jobs
  /\ Ready(j)
  /\ \A k \in Threads : ~Ahead(<<j, k>>)
  /\ DepsOf(j) = {} => ~Submitting(j)

\* What is submitted, and what is not.
SubmittedInv ==
  /\ waitingJobs \subseteq jobs /\ jobs \subseteq submitted
  /\ \A d \in todo : Target[d] \in jobs
  /\ \A j \in Jobs \ jobs : Idle(j) /\ \A d \in DepsOf(j) : oldStatus[d] = "WAIT"
  /\ pc[Main] \in {"registering", "registered"} =>
       current \in jobs /\ (DepsOf(current) = {} => Idle(current))
  /\ pc[Main] = "returned" /\ exitMode # "STOPPING" => waitingJobs = {}

\* A job has one runner, and nothing to wait for as long as it has it.
OneRunner ==
  \A r \in Runners : pc[r] # "idle" =>
    /\ Ready(r[1])
    /\ \A k \in Threads : pc[<<r[1], k>>] # "idle" => k = r[2]

\* A status seen once OK or FAIL is still the status; when tokens are given back
\* there are enough for whom they are checked.
SeenInv ==
  /\ \A d \in JobDeps : /\ oldStatus[d] = "OK" => state[Origin[d]] = "DONE"
                        /\ oldStatus[d] = "FAIL" => state[Origin[d]] = "ERROR"
  /\ \A d \in TokenDeps : /\ oldStatus[d] # "FAIL"
                          /\ d \in todo /\ oldStatus[d] = "OK" => TokenStatus(d) = "OK"

\* A job that ended, or that is not waited for, is over or will never be ready.
OverInv ==
  \A j \in Jobs :
    /\ state[j] \in {"ERROR", "DONE"} => Over(j)
    /\ j \in jobs \ waitingJobs => Over(j) \/ \E d \in DepsOf(j) : oldStatus[d] = "FAIL"

\* A dependency that became OK is being checked, or soon will be.
ToldInv ==
  \A d \in Deps : Target[d] \in jobs /\ Status(d) = "OK" /\ oldStatus[d] # "OK" =>
    \/ d \in todo
    \/ d \in JobDeps /\ \E k \in Threads : pc[<<Origin[d], k>>] = "relock"

\* A job that is ready and still waited for has its runner.
StartInv ==
  /\ exitMode = "NONE" =>
       \A j \in waitingJobs : Ready(j) => ~Idle(j) \/ (DepsOf(j) = {} /\ Submitting(j))
  /\ \A r \in Runners : pc[r] \in {"completed", "released"} => r[1] \notin waitingJobs

OnceInv == SubmittedInv /\ OneRunner /\ SeenInv /\ OverInv /\ ToldInv /\ StartInv
=============================================================================
