# A TLA+ model of experimaestro

experimaestro (C++, with a small web application) describes the tasks of an experiment, builds
jobs from them, orders the jobs by their dependencies, runs each one once, and tells a web
page how they are going. This directory holds TLA+ modules about it, the instances TLC
checks and the proofs TLAPS checks. Paths and line numbers are those of the repository.

Tools: `tlc -config X.cfg M`, where M is the module that section 5 gives for the run, and `tlapm
M.tla` for each of the eight modules `M` whose name ends in `_proofs`.

| module | content |
|---|---|
| `Scheduler` | the threads, locks, counts and files of the scheduler, its properties and its invariant |
| `JobGraph` | what the scheduler promises, with no threads |
| `SchedulerGraph` | the refinement mapping from the first to the second |
| `TokenUnits` | what jobs need of tokens, counted in units: the arithmetic shared by the two modules with tokens |
| `CounterToken` | jobs with several tokens, counts that race, a limit that changes |
| `JobFiles` | the files of one job, its script, crashes, several programs |
| `Progress` | the progress of a job on its way to the page |
| `Listeners` | what web pages are told of the jobs |
| `Values` | the parameters of a job, its identifier, paths and dependencies |
| `Register`, `Variables` | types read from files; variables in namespaces |
| `Parameters` | the parameters of a job on their way to its command |
| `MC...` | instances for TLC |
| `Scheduler_proofs`, `JobGraph_proofs`, `TokenUnits_proofs`, `CounterToken_proofs`, `JobFiles_proofs`, `Progress_proofs`, `Listeners_proofs` | theorems and proofs about the module of the same name; the first also about `SchedulerGraph` |
| `Declarations_proofs` | theorems and proofs about `Register` and `Variables` |

## 1. Inventory

### Components, their state and operations

| component | state | operations | model |
|---|---|---|---|
| Workspace: jobs and waits (`src/src/workspace.cpp`) | `_jobs`, `waitingJobs`, `activeWorkspaces`; `WORKSPACE_MUTEX`, `JOB_CHANGED(_MUTEX)` | `submit`, `jobFinished`, `waitUntilTaskCompleted`, `waitJobCompleted`, `kill`, `refresh` | `Scheduler` (first three); `JobFiles` (`kill`); `Listeners` (`refresh`) |
| Job (`workspace.cpp`) | `_state`, `_unsatisfied`, `_dependencies`, `_dependents`, runner threads | `addDependency`, `dependencyChanged`, `start`, `jobCompleted` | `Scheduler`, `CounterToken` |
| Dependency, JobDependency | `_oldStatus`, `_currentLock` (weak) | `check`, `lock`, `status` | `Scheduler`, `CounterToken` |
| CounterToken | `_limit`, `_usedTokens` | acquire, release, `limit` | `Scheduler` (one token for a job), `CounterToken` |
| CommandLineJob | files `.lock .lock.start .pid .code .done`, `_process` | `run`, `kill`, the script | `Scheduler` (abstract files), `JobFiles` |
| SIGINT handling | `exitMode`, `lastSignal` | `sigexitHandler` | `Scheduler` |
| LocalConnector (`connectors/local_unix.cpp`) | lock files, processes, watchers | `lock`, `getProcess`, `exitCode`, `kill` | `JobFiles` |
| Launchers (`launchers/`) | environment, default launcher | `check`, builders | `check` in `JobFiles` |
| SSH, OAR | sessions, channels | — | not modelled |
| Progress notifier (`rpc/notifications.cpp`) | `progress`, `last_progress`, a thread | `update`, `tick` | `Progress` |
| Server contexts, emitters (`rpc/server*.cpp`) | `_listeners`, sockets, PID file | `add`, `remove`, `forEach`, `refresh`, `jobStatus` | `Listeners`, `Progress` (notifications) |
| JSON-RPC client (`rpc/jsonrpcclient.cpp`) | `connected`, `_requests` | `request`, `send`, `handle` | not modelled |
| Values (`xpm.cpp`), Task (`task.cpp`) | value trees, flags, seals | `set`, `configure`, `seal`, `uniqueIdentifier`, `addDependencies`, `submit` | `Values` |
| Types, register (`type.cpp`, `register.cpp`) | types by name, parents, placeholders | `load`, `addType`, `accepts`, `lca` | `Register` |
| Variables (`workspace.cpp`) | `_variables` | `set`, `find` | `Variables` |
| Scalars, parameters of commands (`scalar.cpp`, `commandline.cpp`, `parse` in `register.cpp`) | the JSON file | `toJson`, `create`, `fromString`, `parse`, `createObjects` | `Parameters` |
| Other command lines, paths | — (pure) | text | not modelled |
| Web application (`app/src/reducer.js`) | the jobs of a page | the reducer | `Listeners` |
| C/C++ API, program | none of their own | — | not modelled |

`PROJECT.json` has the complete list, with a note for each.

### How they interact

`Task::submit` (`task.cpp:29`) configures a value, computes the job's id, builds a
`CommandLineJob` whose dependencies come from the jobs that produced its inputs, and calls
`Workspace::submit`. That registers the job, adds each dependency to the dependents of its
origin and checks it. A check compares the status of the origin with the one last seen; a change
is given to the target, which counts unsatisfied dependencies and calls `start` when there are
none. `start` makes a detached thread which, with `WORKSPACE_MUTEX` held, locks the dependencies
(only tokens have locks) and calls `run`. `run` looks at the files of the job: it is already done,
or its process still runs, or the files are locked and the script launched; the mutex is released
only then. When the process has ended the thread takes the mutex again, reports the job
as finished (which wakes the main thread), checks the dependents of the job, and lets go of its
locks, which checks the dependents of the tokens. SIGINT changes a global mode that `start` and the wait
look at, without a mutex. Listeners (the web server) are called in the same threads.

### What is hard

- counts kept as differences between statuses that flip while nobody looks;
- locks shared by the runners of one job and given back by the last;
- callbacks that start, complete or fail other jobs in the middle of a loop over dependents;
- signals at any moment; a condition variable notified without its mutex;
- what a crash left on disk, and processes that outlive the program;
- a mutex held while an external process is waited for, or while a message is sent to a page that does not read;
- locks given back outside of the mutex that protects the counts;
- files that several programs and scripts create and remove one after another;
- notifications and requests that are lost or come in another order;
- flags that follow a value when it is copied into another one;
- values that lose their types in a file and are checked again by another process.

`PROJECT.json`, under `hazards`, has each with its line and with the properties that
watch it.

### What makes each component correct

- **Workspace and jobs**: no lost start; one start at a time; a job runs after its dependencies; the wait
  returns when, and only when, everything is over; the result of what was launched is recorded.
- **Tokens**: the jobs that run never need more than the limit; the count never wraps; what is
  taken is given back once.
- **Files**: one command for a job among several programs; a job found done is done; a crash at any point lets
  a later run finish, or give up in time.
- **Progress**: while the job goes on, its last progress reaches the page, whatever is lost or late.
- **Pages**: a page that asked knows every job; no page stops the program.
- **Values**: an identifier depends on what must be told apart, and on nothing else; a job waits for the jobs whose results it
  holds.
- **Parameters**: the command accepts what the program accepted, and runs with it.
- **Declarations**: what is read does not depend on the order in which it comes.

## 2. Plan

The most important behaviour is first.

| modules | state |
|---|---|
| `Scheduler`, `JobGraph`, `SchedulerGraph` | written, checked; proofs in section 6 |
| `CounterToken`, `JobFiles` (with what was to be `FileLock`), `Progress`, `Listeners` | written, checked; proofs in section 6 |
| `Register`, `Variables` | written, checked; proofs in section 6 |
| `Values` | written, checked |
| `CompletionWait` | not written: `waitJobCompleted` waits as `waitUntilTaskCompleted` does, which `Scheduler` has |
| `Parameters` (with what was to be `Scalars` and `Commands`) | written, checked |
| `Client` | not written, see section 8 |
| `Paths` | not written, see section 8 |

`CounterToken` opens two steps of `Scheduler` (`AcquireLocks` and `ReleaseLocks`), and `JobFiles` those of a runner between its
locks and the end of its process; `Listeners` has the same life of a job as seen from a page; `Values` is where jobs, their
identifiers (`JobId` of `Scheduler`) and their dependencies (`Deps`) come from. `Progress` and `Listeners` share the notification of
progress. They do not share state variables: what one module takes for a single step of another is said in the
comments of both.

Left to prove: the consequences of the refinement for `Scheduler`; and that the identifier of a value is the same after
`generate` and `seal`, by induction on the depth of trees, for which the RECURSIVE operators of `Values` would have to be functions, as those of `Register` and `Variables` are.

## 3. `Scheduler`

One module for the threads of one program: the main thread, any number of runners for a job
(`Threads` bounds them), scripts, and the user's signals.

### State

| variable | code |
|---|---|
| `exitMode`, `signals` | `exitMode`; the number of SIGINT (bounded by `MaxSignals`) |
| `mutex` | who holds `WORKSPACE_MUTEX` |
| `pc` | where the main thread and each runner are |
| `todo` | the `check` calls that the owner of the mutex still has to make |
| `current`, `submitted` | the argument of `submit`; the objects submitted so far |
| `jobs`, `waitingJobs` | `Workspace::_jobs`, `Workspace::waitingJobs` |
| `state`, `unsatisfied` | `Job::_state`, `Job::_unsatisfied` |
| `oldStatus` | `Dependency::_oldStatus` |
| `usedTokens`, `locks` | `CounterToken::_usedTokens`; the vector `locks` of each runner |
| `files` | the files of a job, as what they mean to `run` |
| `outcome` | the exit code of the process a runner waits for |

`Dependency::_currentLock` is weak: it is live when some runner has the dependency in its `locks`
(`Live`). A second runner of the same job shares a live lock (`Missing` is what it must create).

`files[j]` is one of: `absent`; `done` (`FILE.done`); `stale` (a `FILE.lock` nobody will remove); `launched` (locked, the script
has yet to write `FILE.pid`); `running` (`FILE.pid`). The start lock has no state of its own: the
script that removes it is the one that was just launched.

### Steps

A step is what a thread does until something else can be noticed. The mutex makes
almost all of a thread's work one step; the calls to `Dependency::check` in a loop are separate
steps, since a signal or the end of a process may come between two of them. They are in the set `todo`: the dependents are
in a `std::map` keyed by address, so any order is possible, and the code after the loop waits for `todo = {}`.

| actions | code |
|---|---|
| `Unchanged`, `Fail`, `Spawn`, `StartStuck`, `Wait` | `Dependency::check` with `Job::dependencyChanged` and what it calls: nothing changed; `jobCompleted` of the target, which adds its dependents to `todo`; `start`; `start` after a SIGINT, which locks the mutex the thread already has; nothing more |
| `Submit`, `SkipSubmit`, `Registered`, `SubmitSpawn`, `SubmitGiveUp`, `SubmitEnd` | `Workspace::submit`: registration and checks under the mutex; a known id; the end of the block; the start of a job with no dependency, before or after a SIGINT |
| `StartWaiting`, `CountJobs`, `WaitLoop` | `waitUntilTaskCompleted`: count and block with `JOB_CHANGED_MUTEX`, test `exitMode` when woken |
| `AcquireLocks`, `AbortStart` | the runner takes the mutex and locks the tokens; or there are not enough: the dependency is checked, the job becomes READY, the thread ends |
| `AlreadyDone`, `LeaveRun` | `check` finds `FILE.done`: DONE, and a first `jobCompleted` |
| `Attach` | `check` finds `FILE.pid`: the runner waits with the mutex held |
| `LockFile`, `LockFileTimeout`, `Launch` | the lock file, its time limit, the second `check` and the launch |
| `Reap` | the process ended: DONE or ERROR |
| `Complete`, `ReleaseLocks`, `EndRunner` | the second part of the thread of `start` |
| `WritePid`, `Exit` | the script, from `scriptbuilder.cpp` |
| `Interrupt` | `sigexitHandler` |
| `Finished` | nothing is left to do; so that TLC's deadlock check reports the other ends |

### What is assumed or left out

- Every job has at most one dependency on a token (`AtMostOneToken`). A runner that gives up then
  holds nothing. With several tokens it releases the first ones after the mutex, which races with everything
  else: that is `CounterToken`.
- Jobs are submitted after the jobs they are built from (`CanSubmit`): a value is built from the output of a submitted
  task.
- Condition variables do not wake spuriously. One would only make the wait count again.
- `kill` and a signal sent to a process are a command that fails (`ExitCodes`).
- `Unset` is what `Job::_state` may hold before its first assignment. It is `{"WAITING"}` (value 0) in all runs.
- `LockFileTimeout` gives up only while `FILE.lock` is there. A runner that misses its removal and gives up on a free lock is in `JobFiles` (`TimeOut`).
- Progress and listeners are in `Progress` and `Listeners`: no listener changes the scheduler's state. Times are not modelled.

### `JobGraph` and `SchedulerGraph`

`JobGraph` says what a user of the program may rely on, in six variables: the `phase` of each job, the jobs
`pending` (those the wait counts), those that `failed`, those whose results are `done`, `exitMode`, and whether the wait `returned`. A
job waits, is active, and leaves; it is started at most once, when the jobs it comes after are done and
its tokens are free at that very moment. Only `Leave`, `Complete` and `Abandon` end the wait for it. Results may appear at any time
(`Finish`), as an earlier program may have left a process behind. `GiveUp` is what becomes of jobs after a SIGINT.

`SchedulerGraph` maps one to the other: `AfterOf` and `NeedsOf` read the dependencies of a job; `PhaseOf` makes a
job *waiting* from its submission until a runner has its locks, through any number of starts that abort, *active* while a
runner is in `CommandLineJob::run`, and *left* after that. `pending` is `waitingJobs`, `failed` the jobs in ERROR, `done` those with a `FILE.done`. The mutex, the counts, the
statuses last seen, the shared locks and the checks have no counterpart: their steps must stutter. `ImplementsGraph` is the
specification of `JobGraph` under this mapping. The limits and the order are guards of `Start`, so that there is nothing to check of them in `JobGraph`: it is in `Scheduler`, where no guard says
it, that they are properties (`TokenLimit`, `DependenciesDone`). What is left to say of `JobGraph` is what the return of the wait means (`ReturnedMeansOver`). The refinement would break on a job started from two places, on a start with a stale status, or on tokens
that are counted in another way than by the jobs that run. It does not hold when the needs of a token differ: `Restarted.cfg`
(section 7) has the reason.

## 4. The other modules

### `CounterToken`

A runner takes `WORKSPACE_MUTEX` (`Enter`), locks its dependencies in order (`Share`, `Acquire`, `Add`) and runs, or is refused and gives up
(`GiveUp`): the mutex is then free before the locks are. `need`, `limit`, `used`, `oldStatus`, `unsatisfied` and `state` are the fields
of the same names; `locks` is the vector of each runner, and a lock is live when a vector has it. The additions and subtractions on
`_usedTokens`, and `Dependency::check`, are two steps each: a read, kept in `pending`, and a write. The write may use the value read or the
value of the moment, as both are what a compiled `+=` without a lock can do. `todo` has the dependents a runner has
still to check. `SetLimit` is `CounterToken::limit`, which takes no mutex and checks nobody. Counters are modulo `Width`.

`disturbed` notes that a thread counted while another was counting (on a token, or on the unsatisfied dependencies of a job: `Overlaps`, `Meets`), or that the limit changed: the properties
are about what is kept as long as neither happened, for the code has nothing that would keep it after. `CountsExactUnlessRace` and `TypeOK` are not
excused by a new limit. `unsatisfied` is a `size_t` in the code and an integer here, so that `TypeOK` can say that, until a race, no subtraction takes it below zero. `used` is modulo `Width` as in
the code: what it should be is `CountsExactUnlessRace`.

Jobs have been submitted, with their tokens free, when the module begins (`Init`). Submissions beside running jobs are in `Scheduler`.

### `JobFiles`

`CommandLineJob::run` of several programs, step by step, on the five files of one job; the script, line by line; and what may happen
to both: `Crash` of a program, `Kill` of a script (SIGKILL, or the machine), `Stop` (`Workspace::kill`, SIGINT to the shell), `Tidy` (a user who removes a
`FILE.lock` left behind). `pc` and `spc` are where a program and a script are; `holds` are the `FileLock` objects of `run` that are not detached;
`command` is the command of a script, which ignores SIGINT as background commands of a non-interactive shell do and outlives a shell that was killed.

| actions | code |
|---|---|
| `Run`, `CheckDone`, `CheckPid`, `ReadPid`, `Poll`, `Ends` | `run` and the two calls of its `check`: `FILE.done`, `FILE.pid`, the process and `FILE.code` |
| `Mkdirs`, `Mkdir` | the directory of the job, whose parents exist |
| `LockJob`, `TestLock`, `Retry`, `TimeOut` | `LocalConnector::lock` on `FILE.lock` |
| `Launch`, `StartTimeOut`, `Wait`, `Leave` | the start lock, the launch, the wait, the destructors |
| `TestLocks` to `KillCommand` | the script |

What a variable that was never set makes the program do is any of the outcomes (`Unknown`, `Poll` without `FILE.code`); `guessed` notes it. `broken` notes locks lost
in a crash or with a killed script. The start lock is made and its file tested in one step (`Launch`): only the holder of
`FILE.lock` gets there. Process numbers are not reused. The exit code of a child is the one
that `waitpid` gives: nothing else waits for the children of the program, so that `FILE.code` is read for them (`workspace.cpp:510`) in no behaviour.

### `Progress`

Three threads and the network: `Store` and `Compare` are the two halves of `update`; `Test`, `Block`, `TimeOut` and `SendProgress` are the loop of `tick`, with the moment between
the test of a predicate and the wait at which a notification is lost (`missed`); requests are a bag, so that they overtake each other and
get lost (`Request`); `TellPages` and `JobProgress` are the two things the server does with one. A job that was given no address makes no notifier (`none`). The thread of the notifier is detached
(`notifications.cpp:95`) and ends with the process of the job, at any moment (`Exit`): a last report that was lost, or that is within the threshold of the one before, is then never repeated. The scale of 2^64 values is `Top * Step` values here, with the difference, and
the conversion of 1, on that width.

### `Listeners`

`walk` is the iteration over `_listeners` that each sending thread is in; a change of the set during an iteration gives that iteration any remaining set (`Change`, noted in `torn`), as
an iterator of an `unordered_set` that is modified has no meaning. `handler` is the life of a `WebSocketRequestHandler`, `refresh` that of a
request of the page, answered by a thread of `protectThread` with `WORKSPACE_MUTEX` held. `page` is the reducer's `byId`: status, and whether a progress was merged. A page may close its
socket before the handler notices, or stop reading (`Sleep`), which blocks whoever sends to it. An exception in a thread of the program ends it (`crashed`). `CanMove` has the guards of the program's steps, for `NoStall`; that it
is ENABLED of these steps is `GuardsOfSystem`, which holds on the instance of `Listeners.cfg` when it is added to its invariants.

### `Values`

Values are trees with flags. `SetIn` is `MapValue::set` with the flags it gives, `Digest` the content that `updateDigest` feeds to SHA-1, `Generate`, `Valid` and `Seal` the three parts of `configure`,
`Dependencies` what `addDependencies` collects, `Submit` is `Task::submit`. `jobs` keeps, for each submission, the identifier, the dependencies and the configured value. `Meaning` is the reference definition: the configuration a value stands for, with
no flags. The order of the `unordered_map` of arguments is `pathFirst`: only that of paths against the rest can be noticed.

The properties exempt, by name, what the code does differently: `Irregular` types (constants, which `generate` adds and the digest then counts; arguments inherited from a parent type, which `set` does not
mark) and `Marked` values (taken from a map that had marked them default or ignored). Each exemption was found by TLC as a counterexample.

### `Register` and `Variables`

`Register` has the types as objects that point to their parents, the names by which the register finds them, and `load` one definition at a time, with placeholders for
parents that are not known yet and the errors after which it stops. A type that inherited from itself would make `Type::accepts` go round for ever, and is excluded (`ParentsAssumption`): the way up from a type (`Climb`) then ends within `Heights`. `DeclaredUp` is the reference: what the definitions say. `PushBack` settles the type of an array with `Type::lca`. `Variables` has the keys
that are set and the loop of `Workspace::find` (`Look` is a round of it); its reference is the innermost namespace that has the name. `MCDeclarations` puts them and `Parameters` in one run, a behaviour being about one of the three.

### `Parameters`

A behaviour is the life of one task: the program gives values to arguments (`Set`), configures them (`Submit`) and writes the file (`Write`); the command reads it (`Parse`, `ParseOption`), validates
(`Validate`) and makes the object (`Run`). It can also be run by hand, with an option and no file (`Launch`). Scalars have a type, a number counted in halves and a text: a real may be whole, which is what
JSON forgets. `arguments`, the declared arguments of each type, is chosen at the start, so that one run has every type and sort of argument, own or inherited. `Meaning` is the reference: what a value is, whatever
type holds it. `SameParameters` compares the meaning of what the object gets with that of what was submitted.

The properties except, by name, what the code does differently, each found by TLC: arrays of reals with a whole one come back with another type and may be refused (`WholeReals`, `scalar.cpp:257`); whole reals that no
long holds come back as another number (`Huge`, `scalar.cpp:258`); options for strings and negative integers are never read (`Spelled`, `scalar.cpp:66` and 150); an optional integer, string or path that is not given is
written as null, and makes the command fail (`xpm.cpp:672`).

## 5. What is checked

The passing runs:

| run | configuration | module and instance | distinct states | question |
|---|---|---|---|---|
| `fork` | `SchedulerFork.cfg` | `MCScheduler`: b and c after a; one token for all; all leftovers; failures; two SIGINT | 313 506 | safety of the whole life of a graph, and is it a behaviour of `JobGraph`? |
| `join` | `SchedulerJoin.cfg` | `MCScheduler`: c after a and b, which share tokens, and d, which is c submitted again; no failure | 104 691 | does everything end DONE, the skipped object by the one it stands for? |
| `share` | `SchedulerShare.cfg` | `MCScheduler`: needs of 1 and 2 on a limit of 2; two runners for a job; failures | 446 802 | when jobs are refused and restarted, is each token given back once, and does every job end? |
| `interrupt` | `SchedulerInterrupt.cfg` | `MCScheduler`: c after a, b beside them; processes left by an earlier program; failures; two SIGINT | 171 277 | is the result of a launched job recorded, with a thread that is stuck, or waits for a process, holding the mutex? |
| `graph` | `JobGraph.cfg` | `MCJobGraph`: a diamond of four jobs and two tokens | 68 458 | what does the return of the wait mean in every implementation? |
| `tokens` | `Tokens.cfg` | `MCCounterToken`: a job that needs two tokens and two that need one of them; needs that are too much together, and needs whose sum wraps; a new limit | 191 751 | what do races leave of the counts, and is everybody served? |
| `files` | `JobFiles.cfg` | `JobFiles`: two programs, three runs, a crash, a kill, a stop | 151 069 | is a job run once, and is the result true? |
| `progress` | `Progress.cfg` | `Progress`: four levels, three reports; the job may end at any moment | 206 783 | does the last progress of a job that goes on arrive? |
| `listeners` | `Listeners.cfg` | `Listeners`: a job, a page that may go away, one that may stop reading, a report | 1 454 667 | does a page know every job, and does it hold up the program? |
| `values` | `Values.cfg` | `MCValues`: four types, three values, three calls of `set`, two jobs | 169 704 | does the identifier stand for the configuration? |
| `declarations` | `Declarations.cfg` | `MCDeclarations`: three types, all files of one or two definitions; all keys of three parts; seven types of arguments, four sorts, own or inherited, and one option (`MCParameters`) | 321 003 | does the order of what is read matter, and does a task run with the parameters it was given? |

The properties, and what could break them:

- `TypeOK` of `Scheduler`: also says that the unsigned `_unsatisfied` and `_usedTokens` never go below zero, although both move by differences.
- `TokenLimit`: the jobs that run need no more than the limit. The definition counts running jobs, not
  `_usedTokens`; the two agree only if locks are taken, shared and given back properly.
- `TypeOK` of `CounterToken`: the same of `_unsatisfied`, when locks are given back without the mutex, until two threads count at once.
- `TokensReturned`: no token leaks and none is given back twice, though the runners of one job share a lock.
- `DependenciesDone`: a job runs only when the results of its dependencies are on disk. It relates the
  runner to files written by other processes, through states, statuses seen and counts.
- `NoLostStart`: a waiting job without a runner has a reason to wait. It breaks when a change
  is not told to a dependent, in particular when a job gave up for lack of tokens.
- `StartedOnce`: a job is not started while it runs or after it is over. True only when all needs on a token are
  equal; see `Restarted.cfg`.
- `ReturnedMeansOver`: when the wait has returned nothing runs, but after the second SIGINT.
- `ImplementsGraph`: every behaviour of the threads is one of `JobGraph`.
- `ReturnedMeansOver` of `JobGraph`: what the return means in every implementation. No job is active, and none still waits for its turn, unless the user insisted.
- `Completion`: without failures the wait returns and everything ends DONE; for an object that was skipped, the one registered with its id does.
- `AllEnd`: jobs that abort, are restarted, or are started twice (needs differ in `share`) all end, no runner stays, and the wait returns.
- `Recorded`: a launched job gets DONE or ERROR. In `interrupt` a process is launched after a SIGINT, or runs while another thread blocks on its own mutex or waits for a process with
  the mutex held; its runner then needs the mutex for what comes after the result.
- `CountsExactUnlessRace`, `WithinLimit`: what a token counts is what live locks hold, and within the limit, through shares, refusals and releases without the mutex. The second one needs
  that no sum of a need and the limit wraps (`Fits`).
- `NoneLeftBehind`, `AllServed`: when all runners are gone every job that the tokens can serve is done; and jobs that give up for each other do not do so for ever.
- `OneCommandUnlessStopped`, `NoRerun`, `LocksSet`: the command never runs twice at once, nor after it is done, and a script finds its locks. They rest on the order in which two programs and
  up to three scripts make and remove files, on the second `check`, and on who detaches which lock; crashes and SIGKILL do not break them. A script that was told to stop does.
- `Truthful`: DONE and ERROR are what a command did, also for a program that came after it.
- `NothingLeft`: no lock outlives the run it protected, unless a crash or signal took its owner.
- `RunsReturn`: `run` always returns.
- `BlockedIsUpToDate`, `EventuallyShown`: a notifier that waits has sent what there is, but for a notification that it missed or a fall that wraps; and in the end
  the page and the job have the last progress, if the process of the job stays. When it ends first they may not: `LastReport.cfg`.
- `NothingMissed`: a job submitted while a page connects and refreshes is in the list or announced, in any interleaving.
- `NoStall`: no combination of pages, refreshes and runners makes the threads wait for each other; only a page that does not read does.
- `SkippedIsSame`, `SameIsSkipped`, `Resubmitted`: identifiers are equal exactly for equal configurations, also for a value submitted again.
- `PathsInside`: paths given to a job are in the directory that its identifier names, although they are made half-way through its completion.
- `ResultsAwaited`: a job depends on every job whose result it holds, at any depth.
- `InheritanceRead`, `ArraysFit`, `FoundInnermost`: inheritance, array types and lookups are what the declarations say, in any order.
- `AcceptedAgain`, `SameParameters`: two processes that validate and read the same parameters, with a file between them that forgets types, agree; defaults, constants, inherited arguments and
  the option included.

One run is a violation. `failed_chain` (`FailedChain.cfg`): a job whose dependency failed keeps WAITING, not ERROR (`workspace.cpp:365`), so the next job of
the chain is never told, and the wait never ends, where `workspace.hpp:436` says "Wait that all tasks are completed".

**Bounds.** In `Scheduler` three jobs are enough for a chain, a fork, a join and a competition for a token in
which one job aborts, another holds the token and a third waits. One token has all the
accounting, as no job has two. One name for the runners of a job (`Threads`) is enough when all needs are equal: `NoLostStart`
and `StartedOnce` would show a start that finds no free name. `share` has two, and a job that needs both tokens. In `interrupt` a chain of two is
what blocks a runner on its own mutex (the first completes, and starts the second after a SIGINT), and a third job, with no token between them, runs beside it; each may find a process of an earlier program. Two signals reach the last exit mode; a third
changes nothing. In `CounterToken` two tokens and a job that needs both let it be refused by the second with the first in hand, while the two
other jobs hold, release and check; with a limit of 4, needs of 3 and 2 are refused together, and with a width of 8 needs of 4 and 4 wrap and are granted (`WrappedNeed.cfg`). In `JobFiles` a third run comes after, or against, the two that met, and one
fault of each kind reaches every step of each. In `Progress` three reports rise, fall and end, and one request at each level is on its way while another level overtakes it. In `Listeners` one job has all
messages, and two pages are enough for one that disturbs the other. In `Values` three calls of `set` make two configurations that differ in one argument, or hide one result in another map; two jobs are compared. In
`Register` two definitions refer to each other or to a third type, and six objects leave room for placeholders and replacements. Keys of three parts have two namespaces around the name. In
`Parameters` a task has one argument, or one of its own and one of its parent, since arguments do not act on each other; the numbers are 0, 5, 0.5, 1 and one beyond `Largest`; arrays have two elements, which
is where their type is settled.

**Fairness.** Each thread, and the owner of the mutex in its checks, is weakly fair: operating systems schedule
threads. A runner that waits for the mutex needs no strong fairness in these instances, as the mutex is taken
finitely often. Scripts are weakly fair: commands end. Signals, crashes, reports, pages and changes of the limit are not fair. In `Progress` the handlers of the server are weakly fair. The notifier is fair only while the process of the job
lives, and nothing makes that process stay: `Exit` disables every step of it, and `EventuallyShown` promises something only of behaviours without it. While the process lives, a notifier that
repeats itself every five seconds is heard now and then (`SF_vars(Heard)`), for a network that loses every request shows nothing.
`NoStall` needs no fairness: it speaks of the states in which the threads can do nothing more.

**Deadlock.** The check means something in `join` and `share`; in `graph` a user may always interrupt again, in `tokens` `Rest` marks the end in which every runner is gone, so that
any other is reported. The other instances do stop: a failed chain, a signal and
a thread that blocks on its own mutex are ends of the real program as well, the process of a job ends, and runs, pages, submissions and definitions are bounded; a task that runs or was refused is the end of `Parameters`.

## 6. What is proved

The theorems hold for every value of the constants that meets the named assumptions of each module: any number of jobs, dependencies, tokens,
threads, programs, runs, pages, levels and faults. Each invariant below was checked by TLC on the instance of its module before it was proved.
A proof of a step has one part for each action, and under it one for each conjunct that the action can disturb.

### `Scheduler_proofs`

Assumed: finitely many dependencies, at most one token for a job (`AtMostOneToken`), distinct names.

| theorem | statement |
|---|---|
| `TypeCorrect` | `Spec => []TypeOK` |
| `TokensWithinLimit` | `Spec => []TokenLimit` |
| `TokensAllReturned` | `Spec => []TokensReturned` |
| `DependenciesFirst` | if `_state` is not DONE at first, `Spec => []DependenciesDone` |
| `StartsOnce` | with equal needs, if `_state` is neither DONE nor ERROR at first, `Spec => StartedOnce` |
| `ReturnsWhenOver` | the same conditions, `Spec => []ReturnedMeansOver` |
| `NoStartLost` | the same conditions, `Spec => []NoLostStart` |

`TypeOK` is not inductive: a decrement keeps a counter natural only because the counter counts something. The
inductive invariant is `IInv`:

- `MutexInv`: a thread is at a place where the mutex is held exactly when it holds it, and there are checks to make only at the
  places that make them;
- `LocksInv`: a runner has the locks of its job from `AcquireLocks` to `ReleaseLocks`;
- `TokensInv`: `_usedTokens` is the total need of the live locks, and within the limit (`Units` turns needs into a
  set, so that totals are cardinalities);
- `UnsatisfiedInv`: `_unsatisfied` is the number of dependencies last seen not OK;
- `DoneInv`: the chain from the files to a start. DONE and an exit code 0 mean `FILE.done`; a
  dependency seen OK has its `FILE.done`; a runner was started with all of them OK.

The first four and `TypeOK` are inductive by themselves (`Accounting`). `StepTypes` shows that a step keeps the types with
counters in `Int`; the counts then give `Nat`. `TokenLimit` follows: a job that runs has its locks
live, so its needs are among those counted. `DoneInv` needs that `_state` is not DONE at first; `UnsetState.cfg` (section 7) shows why.

That a job is started once needs more than that, for a job may be started by the end of `submit`, by the check of any of its
dependencies, and again after each start that aborts. `OnceInv` has six parts:

- `SubmittedInv`: what was not submitted has no runner and nothing seen; a wait that returned left nothing waiting;
- `OneRunner`: a job that has a runner has only one, and all its dependencies were last seen OK;
- `SeenInv`: a job dependency seen OK or FAIL still is; a token dependency that is about to be checked and was seen OK is OK;
- `OverInv`: a job that ended, or that the wait counts no more, will not be started again: all its dependencies were seen OK and its
  runner is past `run`, or one of them was seen to fail;
- `ToldInv`: a dependency that became OK is being checked, or the runner that will check it is on its way;
- `StartInv`: a waiting job that lacks nothing has its runner; a runner that has told the wait left its job uncounted.

The argument: a check that changes a status found it WAIT, so that its target lacked something, and then had no runner and was not over (`ChangedWaited`). It therefore can
start the target when this was the last thing it lacked. The opposite change, from OK to WAIT, is only made by a runner that gives up, and which is then the only
runner of its job. It needs `SeenInv` for tokens: the tokens just given back must be enough for everybody who is
told. They are when the needs of a token are all equal (`EqualNeeds`), as in `src/test/scheduler-tests.cpp:104`; with different needs a dependency seen OK may be
checked and found short while the runner of its job has yet to take its locks, and a second one is started later: `Restarted.cfg` (section 7). `DONE` or `ERROR` in `_state` before the first assignment would be seen by the dependents, hence the second condition.

### `Scheduler_proofs`: the refinement

| theorem | statement |
|---|---|
| `SchedulerImplementsGraph` | with equal needs, if `_state` is WAITING or READY at first, `Spec => ImplementsGraph` |

Every initial state of `Scheduler` is one of `JobGraph` and every step is a step of `JobGraph` or changes nothing in it (`StepImplements`).
`MainImplements`, `CheckImplements`, `RunnerImplements` and `EnvironmentImplements` are the four kinds of steps. Besides the two invariants above they use
`ProcessInv`: a job is RUNNING only while its runner waits for the process, and a process that failed left no `FILE.done`. `PhaseMeans` gives each phase a
meaning that steps can be compared by, and `RunnerTells` reads the phase of a job from the place of its one runner. The steps with content:

- `AcquireLocks` is `Start` (`AcquireImplements`): the job waits, by `OnceInv`; what it comes after is done, by `DoneInv`; and the units that it and the
  active jobs need (`Taken` of `JobGraph`) are no more than those of the locked dependencies after the step (`NeededWithinUnits`), which are within the limit (`WithinLimit`);
- `AlreadyDone`, `LockFileTimeout` and `Reap` are `Leave` (`LeaveImplements`), the job failed only without a `FILE.done`;
- `Complete` is `Complete`, a check that finds a failure is `Abandon`, or a stutter if the job is not counted any more;
- `AbortStart` is a stutter: the job stays waiting, through any number of starts that abort.

A job constructed with RUNNING in `_state` would be in no phase that it can start from: the condition on `Unset` excludes one value more than that of the other theorems. `GraphOfDependencies` shows that the
dependencies of a program meet what `JobGraph` assumes, so that its theorems apply.

### `JobGraph_proofs`

For any jobs, order, needs and limits (finitely many units of each token are needed):

| theorem | statement |
|---|---|
| `GraphReturnsWhenOver` | `Spec => []ReturnedMeansOver` |

Its invariant `Inv` adds that a job that waits or is active is pending, and that a wait that returned left nothing pending: a job leaves before it is counted out, or as it is,
and nothing is submitted after the return.

### `TokenUnits_proofs` and `CounterToken_proofs`

`TokenUnits_proofs` has the lemmas on units that both modules with tokens need: the units of finitely many dependencies are finite, grow with
the dependencies, and add up.

Assumed in `CounterToken` (`CounterAssumption`): a job has finitely many dependencies, at least one, each in one place of one job; needs are positive; needs and limits fit the width; there is a name for a thread.

| theorem | statement |
|---|---|
| `TypesKept` | `Spec => []TypeOK` |
| `CountsKept` | `Spec => []CountsExactUnlessRace` |
| `LimitKept` | `Spec => []WithinLimit` |
| `NobodyLeftBehind` | `Spec => []NoneLeftBehind` |

The invariant of `CountsKept` and `LimitKept`: a runner that counts knows for which dependency (`PendingInv`); it has the mutex from its first lock to its
last or to the refusal (`MutexInv`); its locks are the first ones of its job, in order, and the one that it is taking is not live (`LocksInv`);
until a race, what it read is still the count, and the lock that it gives back is not live (`CountInv`); until a race or a new limit, what it is about to take was compared with the limit (`LimitInv`).
The counts are sums modulo the width. What the live locks have taken changes in `Add` and `Subtract` only, by exactly what these write. Two runners
that would count on one token at once either both have the mutex, which cannot be, or one releases without it, which is what `disturbed` notes as a race: the
theorems say that this race, and nothing else, makes the counts wrong.

`TypesKept` and `NobodyLeftBehind` need `NeverLeft` beside it, which tells who will start a job that lacks something:

- `UnsatisfiedInv`: until a race, `_unsatisfied` is the number of dependencies last seen not OK, which is why it stays in `Nat` (`TypesKept`);
- `ChecksInv`: a runner has something to check only where the code goes through dependents;
- `StatusInv`: a status that was read and not yet used is still the status (`Overlaps` notes a race otherwise), and what a
  refused runner has still to check would be refused again: it has the mutex, and nobody can have given tokens back unnoticed;
- `LeftInv`: a job lacks something, or has a runner that is not refused for good, or is done;
- `ToldInv`: a dependency seen WAIT, which its limit allows, is on a token that somebody has (and will give back), or is to be checked, or its change is about to be told.

A runner that is refused leaves its job lacking something: its check found the dependency WAIT (`BusyStep`). A token of which nothing is taken counts 0 (`FreeUsed`), so that what it refuses
is more than its limit (`ShortUse`). When all runners are gone nothing is taken or to be checked: by `ToldInv` what a job still lacks, if any, is more than a limit, and by `LeftInv` a job that is not done
lacks something. That runners do go,
and the jobs that can be served end, is `AllServed`, which stays with TLC. The condition on races cannot be dropped: in `LeftBehind.cfg` (section 7) tokens are given back, without the mutex, between a refusal
and its check, the check sees no change, and the job is forgotten.

### `JobFiles_proofs`

Assumed in `JobFiles` (`FilesAssumption`): finitely many scripts, and as many as there may be runs.

| theorem | statement |
|---|---|
| `TypesKept` | `Spec => []TypeOK` |
| `OneCommand` | `Spec => []OneCommandUnlessStopped` |
| `LocksAreSet` | `Spec => []LocksSet` |
| `RunnersTruthful` | `Spec => []Truthful` |
| `AllRemoved` | `Spec => []NothingLeft` |
| `NeverRerun` | `Spec => NoRerun` |

The invariant gives `FILE.lock` one owner at a time, a program (`Holder`) or a script (`Guards`), from its creation to its removal (`HoldsInv`, `OwnerInv`). A launch passes
it from the program to the script. The rest hangs on that: only the owner makes or removes the start lock (`StartInv`); the command of a script that was killed
goes on, but under a `FILE.lock` that has no owner any more and that nobody takes (`CommandInv`); `FILE.done` is not there past the owner's second test (`DoneInv`); each file says what a command
did (`ExitInv`, `SayInv`), and has somebody to remove it (`LeftInv`). `RunsInv` counts runs against scripts, so that a run that launches finds a script.

### `Progress_proofs` and `Listeners_proofs`

| theorem | statement |
|---|---|
| `ProgressTypes` | `Spec => []TypeOK` of `Progress` |
| `BlockedHasNoNews` | `Spec => []BlockedIsUpToDate` |
| `PagesMissNothing` | `Spec => []NothingMissed` of `Listeners` |
| `NeverStalls` | `Spec => []NoStall` of `Listeners` |

In `Progress` the requests on their way and those half handled are within the bound together, and a notifier about to block has no news unless it missed a notification. In
`Listeners` (assumed: jobs, pages and the other threads are distinct) a page that is connected is a listener (`ConnectedInv`), lists and announcements exclude each other where they rely on the mutex (`MutexInv`, `AnnounceInv`), and each job is on a page that asked, in the list
that is being sent to it, or in the announcement under way (`ComingInv`), until an iteration is torn by a change of the set it goes through. `NeverStalls` needs `HolderInv`: a runner
that starts or completes is in an iteration, and the mutex is held only by such a runner or by the answer to a refresh. As the open pages read, an iteration and an answer can always go on: when nothing can move there is none, so the mutex is free, nobody waits for it, and what has begun is over.

### `Declarations_proofs`

Assumed in `Register` (`RegisterAssumption`, `ParentsAssumption`): finitely many names of types, files with definitions whose parents are among `Parents`, and no type that inherits from itself. In `Variables` (`VariablesAssumption`):
the empty part is a part. The bounds on definitions, elements, variables and the depth of keys are any numbers.

| theorem | statement |
|---|---|
| `InnermostFound` | `VariablesSpec => []FoundInnermost` |
| `InheritanceKept` | `RegisterSpec => []InheritanceRead` |
| `ArraysAccepted` | `RegisterSpec => []ArraysFit` |

The loops of the code (`find`, the way up of `accepts` and `lca`) are recursive functions on natural numbers. Their equations are proved from the existence and uniqueness of iterations, by induction on
sets of numbers (`NatSet`, from the least element that `WFMin` gives). `FoundInnermost` then follows for any set of variables: a round gives the variable of its namespace, or what the rounds outside of it give (`LookInnermost`).

`HierarchyInv` is the invariant of `Register`. `NamesInv`: an object is found by its name, unless it was replaced. `LinksInv`: the parent of a type that was defined is the one found by the name that the definition gave, and a type that was
not is a placeholder without parent. `ParentsInv`: every parent is one that a definition may give, so that ranks fall on the way up, which ends (`ClimbEnds`). A definition fills the placeholder that an earlier one
made for its parent, in its place, so that the links to it stay. By induction on the height, what `load` linked and what was declared go up together (`SameUp`), wherever `load` stopped.

`FitInv` adds the array. The lineages of its types are complete, so no later step changes them (`Frozen`): filling placeholders and replacing types do not. `Type::lca` gives a type that both have
above them, with exactly the names that both have (`LcaMeets`), since names that were not replaced stand for one type. The type of the array stays on the way up from its first element. The shortcut of `lca`, which returns its first argument when it meets
the second above it, is why `Settled` asks that no later element be one that an earlier one inherits from.

### Only model-checked

- Liveness under fairness, which is out of the prover's reach: `Completion`, `AllEnd`, `Recorded`, `WaitEnds`, `AllServed`, `RunsReturn` and
  `EventuallyShown`; and that `CanMove` is ENABLED of the program's steps (`GuardsOfSystem`).
- The properties of `Values` and `Parameters`. They are about trees of any depth, through RECURSIVE operators, which the prover does not take: what these compute for every tree is an induction over data.

## 7. Configurations beside the runs

Each of these finds a trace of something that the program does and that a comment, a message or the user's expectation would not let one think. They are run by hand with
`tlc -config X.cfg M`, and explain the conditions under which the properties above are stated. Where a line says *the same*, its
property takes the place of the one in the configuration.

| configuration, module | property | what the trace shows |
|---|---|---|
| `StaleLock.cfg`, `MCScheduler` | `ReturnedMeansCompleted` | a job whose lock file is left over is reported as completed without having run (`workspace.cpp:553`) |
| `LateLaunch.cfg`, `MCScheduler` | `NoLaunchAfterInterrupt` | a runner launches its process after the SIGINT (`workspace.cpp:423`), though the message at line 67 says "not launching any other process" |
| `SecondInterrupt.cfg`, `MCScheduler` | `SecondInterruptExits` | the notification of the second SIGINT is lost (`workspace.cpp:785`) |
| `UnsetState.cfg`, `MCScheduler` | `DependenciesDone` | `_state` is read before it was set (`workspace.cpp:310`) |
| `Restarted.cfg`, `MCScheduler` | `ReturnedMeansOver` | with needs of different sizes a job is started twice, and the wait returns before it is over (`workspace.cpp:371`) |
| `CopiedJob.cfg`, `MCScheduler` | `WaitEnds` | what depends on the skipped copy of a job waits for ever (`workspace.cpp:646`) |
| `LeftBehind.cfg`, `MCCounterToken` | `EveryJobServed` | a runner is refused because of locks that an earlier runner of the same job is giving back without the mutex; it checks after they are free, sees no change, and nobody starts the job again (`workspace.cpp:449`) |
| `WrappedNeed.cfg`, `MCCounterToken` | `LimitNeverPassed` | needs whose sum does not fit the counter are granted together (`workspace.cpp:217`) |
| `GuessedCode.cfg`, `JobFiles` | `TruthfulAnyway` | an exit code is read from a file that is not there, into a variable without a value, and the job is reported DONE or ERROR for nothing (`local_unix.cpp:485`) |
| `TwoCommands.cfg`, `JobFiles` | `AtMostOneCommand` | a script told to stop removes `FILE.pid` and `FILE.lock` before it kills its command (`scriptbuilder.cpp:124` and 151): another program launches the job meanwhile |
| `LastReport.cfg`, `Progress` | `LastReportShown` | the process of a job ends before its last report is sent, or repeated, as that of `src/test/experiment.cpp:29` may (`notifications.cpp:95`) |
| the same | `CompleteShown` | a job that reported 1 is shown at 0 (`notifications.cpp:144`) |
| `TornWalk.cfg`, `Listeners` | `NothingMissedEver` | a page is not told of a job, because another one left during the announcement (`servercontext.cpp:73`) |
| `SleepingPage.cfg`, `Listeners` | `JobsGoOn` | a page that does not read its socket stops every job (`workspace.cpp:825`) |
| `StatusShown.cfg`, `Listeners` | `StatusShown` | the `JOB_UPDATE` of `servercontext.cpp:221` has no `jobId`, so that a page shows the status of its last `JOB_ADD` for ever |
| `IgnoredArray.cfg`, `MCValues` | `ArraysAwaited` | a job does not depend on the one whose result it has in an array given to an ignored argument (`xpm.cpp:326`) |
| `CopiedFlag.cfg`, `MCValues` | `SkippedIsSameAnyway` | a value copied from an argument keeps the flag it had there, and two different configurations have one identifier (`xpm.cpp:862`) |
| the same | `SameIsSkippedAnyway` | one configuration has two identifiers, by a constant or an inherited argument (`xpm.cpp:862`) |
| `ArrayOrder.cfg`, `MCDeclarations` | `ElementsFit` | after a value, one of a type that it inherits from is admitted to an array that does not accept it (`type.cpp:211`) |
| `LeadingDot.cfg`, `MCDeclarations` | `FindEnds` | `find` goes round for ever for a key that starts with a dot (`workspace.cpp:737`) |
| `CommandLine.cfg`, `MCDeclarations` | `ArgumentsHeard` | a task run by hand, with no parameter file, refuses an argument of its command line: `parse` sets the option on a value of which the map has a copy (`register.cpp:190`, `xpm.cpp:851`), where `register.hpp:34` says "`run <task-id> [task arguments...]` that runs a task" |
| `NullField.cfg`, `MCDeclarations` | `ObjectMade` | an optional integer, string or path that is not given is written as null, and the command ends by an exception when it fills the field (`xpm.cpp:672`) |

## 8. Not modelled

- **Vendored code** (`json.hpp`, `CLI11.hpp`: two thirds of all lines under `src/`), the build, the documentation.
- **JSON-RPC client**: it does not get far enough to be worth a model. The connection is marked OPENED only after Poco's `SocketReactor::run` has returned (`jsonrpcclient.cpp:166`), and nothing stops the reactor: a
  call made while the server listens waits for ever. When the connection failed, calls throw, and the destructor waits for CLOSED, which never comes (line 89). Read, not modelled: `send` returns only by
  an exception (line 184), and `request` leaves the address of a local variable in `_requests` when it does; every final frame is taken for a binary one (line 128).
- **Paths, other command lines, other conversions of scalars**: pure functions on text, whose interest is in each character. Read, not modelled: `Path::relativeTo` makes one `../` too few when the base is not a prefix, and reads
  past the end for equal paths; `withExtension` drops the dot when there was an extension; a string converted to a real gives 0 or 1.
- **Register**: the values of arguments in a file of types, the YAML reader and options for parts of a nested value. Read, not modelled: `load` takes the value of a `constant` from `default` (`register.cpp:526`).
- **OAR and SSH**: drivers of external programs and libraries, with operations that are NOT_IMPLEMENTED.
- **`waitJobCompleted`**: the loop of `waitUntilTaskCompleted` with a condition on one job, and the same lost notification.
- **MainServerContext** and the PID file of the server: a database and a file with one writer.
- **C and C++ APIs**: each function forwards a call.
