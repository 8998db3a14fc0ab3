----------------------------- MODULE Listeners -----------------------------
(***************************************************************************)
(* What the web pages are told of the jobs: ServerContext and              *)
(* ExperimentServerContext (src/src/rpc/servercontext.cpp), the handler of *)
(* a web socket (src/src/rpc/server.cpp), what Workspace::submit, refresh, *)
(* jobStarted and jobFinished send, and the reducer of the web application *)
(* (src/app/src/reducer.js).                                               *)
(*                                                                         *)
(* Four kinds of threads send: the main thread when it submits a job, the  *)
(* runner of a job when it starts and ends, a server thread when a job     *)
(* reports progress, and a detached thread that answers a page's request   *)
(* to refresh.  All but the last walk through ServerContext::_listeners, a *)
(* std::unordered_set that connections change with no mutex.               *)
(*                                                                         *)
(* A web socket keeps the order of its messages, so page is what the       *)
(* reducer has once everything sent so far has arrived.  A page that goes  *)
(* away comes back as another page (client.js never reconnects).           *)
(***************************************************************************)
EXTENDS Naturals

CONSTANTS
  Jobs,       \* the jobs
  After,      \* the jobs with dependencies: others may start them
  Pages,      \* connections to the server
  Leaving,    \* bound: the pages that may go away
  Sleeping,   \* bound: the pages that may stop reading
  MaxReports, \* bound: progress notifications
  Main,       \* the thread of the program
  Report,     \* the server thread that handles progress notifications
  Nobody

Senders == Jobs \cup {Main, Report}    \* a job stands for its runner

ASSUME ListenersAssumption ==
  /\ After \subseteq Jobs
  /\ Leaving \subseteq Pages /\ Sleeping \subseteq Pages
  /\ MaxReports \in Nat
  /\ Jobs \cap Pages = {} /\ {Main, Report, Nobody} \cap (Jobs \cup Pages) = {}
  /\ Main # Report /\ Main # Nobody /\ Report # Nobody

VARIABLES
  jobs,      \* Workspace::_jobs
  state,     \* Job::_state: "waiting", "running" or "done"
  runner,    \* where the runner of each job is
  announced, \* the jobs whose submission is over
  reports,   \* how many progress notifications came
  mutex,     \* who holds WORKSPACE_MUTEX
  listeners, \* ServerContext::_listeners
  walk,      \* the iteration each sender is in: what it sends and to whom
  handler,   \* where the handler of each page is
  nap,       \* whether a page reads: "not yet", "asleep" or "over"
  refresh,   \* where the answer to a page's request to refresh is
  todo,      \* the jobs that a refresh has still to send
  page,      \* draft.jobs.byId of each page: a status, and whether there is a progress
  torn,      \* the listeners changed during an iteration
  crashed    \* the program ended on an exception or freed memory

job_vars  == <<jobs, state, runner, announced, reports>>
page_vars == <<listeners, handler, nap>>
vars == <<job_vars, page_vars, mutex, walk, refresh, todo, page, torn, crashed>>

Absent == [status |-> "none", progress |-> FALSE]
Idle   == [type |-> "idle"]

Init ==
  /\ jobs = {}
  /\ state = [j \in Jobs |-> "waiting"]
  /\ runner = [j \in Jobs |-> "none"]
  /\ announced = {}
  /\ reports = 0
  /\ mutex = Nobody
  /\ listeners = {}
  /\ walk = [t \in Senders |-> Idle]
  /\ handler = [p \in Pages |-> "none"]
  /\ nap = [p \in Pages |-> "not yet"]
  /\ refresh = [p \in Pages |-> "none"]
  /\ todo = [p \in Pages |-> {}]
  /\ page = [p \in Pages |-> [j \in Jobs |-> Absent]]
  /\ torn = FALSE
  /\ crashed = FALSE

-----------------------------------------------------------------------------
(* The reducer of a page *)

JobAdd(p, j, s) ==
  page' = [page EXCEPT ![p][j] = [status |-> s, progress |-> FALSE]]

\* A message from jobStatus carries a locator and no jobId: byId of
\* `undefined' is undefined and the message changes nothing.
StatusUpdate(p, j) == UNCHANGED page

\* A job that the page does not know is not created.
JobUpdate(p, j) ==
  page' = IF page[p][j] = Absent THEN page
          ELSE [page EXCEPT ![p][j].progress = TRUE]

CleanInformation(p) == page' = [page EXCEPT ![p] = [j \in Jobs |-> Absent]]

-----------------------------------------------------------------------------
(* Sending to every listener *)

Busy(t) == walk[t] # Idle

Receive(p, m) ==
  CASE m.type = "JOB_ADD"  -> JobAdd(p, m.job, m.status)
    [] m.type = "status"   -> StatusUpdate(p, m.job)
    [] m.type = "progress" -> JobUpdate(p, m.job)

\* A handler sends nothing before its socket exists and after it was
\* closed; a page that does not read blocks the sender; a socket that the
\* page has closed takes the message or throws, which ends the program
\* except in a server thread; a handler that was deleted is freed memory.
Deliver(t, p) ==
  /\ Busy(t) /\ p \in walk[t].left
  /\ handler[p] = "open" => nap[p] # "asleep"
  /\ \/ /\ walk' = [walk EXCEPT ![t].left = @ \ {p}]
        /\ IF handler[p] = "open" THEN Receive(p, walk[t]) ELSE UNCHANGED page
        /\ UNCHANGED crashed
     \/ /\ handler[p] \in {"closed", "gone"}
        /\ IF t = Report /\ handler[p] = "closed"
           THEN walk' = [walk EXCEPT ![t] = Idle] /\ UNCHANGED crashed
           ELSE crashed' = TRUE /\ UNCHANGED walk
        /\ UNCHANGED page
  /\ UNCHANGED <<job_vars, page_vars, mutex, refresh, todo, torn>>

Walked(t) == Busy(t) /\ walk[t].left = {}

\* The listeners become L: an iteration under way may skip some or come
\* back to them, and it may still hold the one that is deleted.
Change(L) ==
  /\ listeners' = L
  /\ torn' = (torn \/ \E t \in Senders : Busy(t))
  /\ \E left \in [{t \in Senders : Busy(t)} -> SUBSET (L \cup listeners)] :
       walk' = [t \in Senders |->
         IF Busy(t) THEN [walk[t] EXCEPT !.left = left[t]] ELSE Idle]

-----------------------------------------------------------------------------
(* The jobs *)

\* Workspace::submit: the job is known before it is announced.  (The end of the
\* block that has the mutex and the start of the announcement are one step.)
Submit(j) ==
  /\ j \notin jobs
  /\ mutex = Nobody
  /\ ~Busy(Main)
  /\ jobs' = jobs \cup {j}
  /\ walk' = [walk EXCEPT ![Main] =
       [type |-> "JOB_ADD", job |-> j, status |-> state[j], left |-> listeners]]
  /\ UNCHANGED <<state, runner, announced, reports, page_vars, mutex, refresh, todo,
                 page, torn, crashed>>

Announced ==
  /\ Walked(Main)
  /\ announced' = announced \cup {walk[Main].job}
  /\ walk' = [walk EXCEPT ![Main] = Idle]
  /\ UNCHANGED <<jobs, state, runner, reports, page_vars, mutex, refresh, todo, page,
                 torn, crashed>>

SendStatus(j) ==
  walk' = [walk EXCEPT ![j] = [type |-> "status", job |-> j, left |-> listeners]]

\* A job without dependencies is started by submit, after the listeners
\* were told; another one as soon as it is registered.
Start(j) ==
  /\ j \in IF j \in After THEN jobs ELSE announced
  /\ runner[j] = "none"
  /\ mutex = Nobody
  /\ mutex' = j
  /\ runner' = [runner EXCEPT ![j] = "starting"]
  /\ SendStatus(j)
  /\ UNCHANGED <<jobs, state, announced, reports, page_vars, refresh, todo, page, torn,
                 crashed>>

\* jobStarted comes before the state is RUNNING.
Run(j) ==
  /\ runner[j] = "starting" /\ Walked(j)
  /\ walk' = [walk EXCEPT ![j] = Idle]
  /\ state' = [state EXCEPT ![j] = "running"]
  /\ runner' = [runner EXCEPT ![j] = "running"]
  /\ mutex' = Nobody
  /\ UNCHANGED <<jobs, announced, reports, page_vars, refresh, todo, page, torn, crashed>>

\* The state is set without the mutex.
End(j) ==
  /\ runner[j] = "running"
  /\ state' = [state EXCEPT ![j] = "done"]
  /\ runner' = [runner EXCEPT ![j] = "ended"]
  /\ UNCHANGED <<jobs, announced, reports, page_vars, mutex, walk, refresh, todo, page,
                 torn, crashed>>

JobFinished(j) ==
  /\ runner[j] = "ended"
  /\ mutex = Nobody
  /\ mutex' = j
  /\ runner' = [runner EXCEPT ![j] = "completing"]
  /\ SendStatus(j)
  /\ UNCHANGED <<jobs, state, announced, reports, page_vars, refresh, todo, page, torn,
                 crashed>>

\* Mutant of Completed: the runner keeps the mutex.
CompletedKeeping(j) ==
  /\ runner[j] = "completing" /\ Walked(j)
  /\ walk' = [walk EXCEPT ![j] = Idle]
  /\ runner' = [runner EXCEPT ![j] = "over"]
  /\ UNCHANGED <<jobs, state, announced, reports, mutex, page_vars, refresh, todo, page,
                 torn, crashed>>
Completed(j) ==
  /\ runner[j] = "completing" /\ Walked(j)
  /\ walk' = [walk EXCEPT ![j] = Idle]
  /\ runner' = [runner EXCEPT ![j] = "over"]
  /\ mutex' = Nobody
  /\ UNCHANGED <<jobs, state, announced, reports, page_vars, refresh, todo, page, torn,
                 crashed>>

\* handleJobNotification
ReportProgress(j) ==
  /\ runner[j] = "running"
  /\ ~Busy(Report) /\ reports < MaxReports
  /\ reports' = reports + 1
  /\ walk' = [walk EXCEPT ![Report] = [type |-> "progress", job |-> j, left |-> listeners]]
  /\ UNCHANGED <<jobs, state, runner, announced, page_vars, mutex, refresh, todo, page,
                 torn, crashed>>

Reported ==
  /\ Walked(Report)
  /\ walk' = [walk EXCEPT ![Report] = Idle]
  /\ UNCHANGED <<job_vars, page_vars, mutex, refresh, todo, page, torn, crashed>>

-----------------------------------------------------------------------------
(* The pages *)

unchanged_but_page == <<job_vars, mutex, refresh, todo, page, crashed>>

Step(p, from, to) ==
  handler[p] = from /\ handler' = [handler EXCEPT ![p] = to]

\* handleRequest: the listener is added before the socket is opened ...
Connect(p) ==
  /\ Step(p, "none", "added")
  /\ Change(listeners \cup {p})
  /\ UNCHANGED <<nap, unchanged_but_page>>

\* ... which may fail.
Open(p) ==
  /\ \/ Step(p, "added", "open")
     \/ p \in Leaving /\ Step(p, "added", "leaving")
  /\ UNCHANGED <<listeners, nap, walk, torn, unchanged_but_page>>

Close(p) ==
  /\ p \in Leaving
  /\ Step(p, "open", "closed")
  /\ UNCHANGED <<listeners, nap, walk, torn, unchanged_but_page>>

\* The handler receives the end of the connection.
Notice(p) ==
  /\ Step(p, "closed", "leaving")
  /\ UNCHANGED <<listeners, nap, walk, torn, unchanged_but_page>>

Remove(p) ==
  /\ Step(p, "leaving", "gone")
  /\ Change(listeners \ {p})
  /\ UNCHANGED <<nap, unchanged_but_page>>

\* A page stops reading, once, and starts again or not.
Sleep(p) ==
  /\ p \in Sleeping
  /\ handler[p] = "open" /\ nap[p] = "not yet"
  /\ nap' = [nap EXCEPT ![p] = "asleep"]
  /\ UNCHANGED <<listeners, handler, walk, torn, unchanged_but_page>>

WakeUp(p) ==
  /\ nap[p] = "asleep"
  /\ nap' = [nap EXCEPT ![p] = "over"]
  /\ UNCHANGED <<listeners, handler, walk, torn, unchanged_but_page>>

-----------------------------------------------------------------------------
(* Workspace::refresh, in a thread of protectThread *)

\* The emitter of a refresh sends nothing once the socket is gone; what a
\* closed socket throws is caught, and then tried to be sent.
CanSend(p) == handler[p] = "open" => nap[p] # "asleep"
Sending(p) == handler[p] = "open"
Over(p)    == [refresh EXCEPT ![p] = "done"]

\* The page asks when its socket is open (sagas.js).
Ask(p) ==
  /\ handler[p] = "open" /\ refresh[p] = "none"
  /\ nap[p] # "asleep"
  /\ refresh' = [refresh EXCEPT ![p] = "asked"]
  /\ UNCHANGED <<job_vars, page_vars, mutex, walk, todo, page, torn, crashed>>

Clean(p) ==
  /\ refresh[p] = "asked"
  /\ CanSend(p)
  /\ IF Sending(p) THEN CleanInformation(p) ELSE UNCHANGED page
  /\ refresh' = [refresh EXCEPT ![p] = "locking"]
  /\ UNCHANGED <<job_vars, page_vars, mutex, walk, todo, torn, crashed>>

\* Mutant of List: a job is known only once it was announced.
ListAnnounced(p) ==
  /\ refresh[p] = "locking"
  /\ mutex = Nobody
  /\ mutex' = p
  /\ todo' = [todo EXCEPT ![p] = announced]
  /\ refresh' = [refresh EXCEPT ![p] = "listing"]
  /\ UNCHANGED <<job_vars, page_vars, walk, page, torn, crashed>>
List(p) ==
  /\ refresh[p] = "locking"
  /\ mutex = Nobody
  /\ mutex' = p
  /\ todo' = [todo EXCEPT ![p] = jobs]
  /\ refresh' = [refresh EXCEPT ![p] = "listing"]
  /\ UNCHANGED <<job_vars, page_vars, walk, page, torn, crashed>>

SendJob(p, j) ==
  /\ refresh[p] = "listing" /\ j \in todo[p]
  /\ CanSend(p)
  /\ todo' = [todo EXCEPT ![p] = @ \ {j}]
  /\ IF Sending(p) THEN JobAdd(p, j, state[j]) ELSE UNCHANGED page
  /\ UNCHANGED <<job_vars, page_vars, mutex, walk, refresh, torn, crashed>>

Unlock(p) == mutex' = IF mutex = p THEN Nobody ELSE mutex

Listed(p) ==
  /\ refresh[p] = "listing" /\ todo[p] = {}
  /\ refresh' = Over(p)
  /\ Unlock(p)
  /\ UNCHANGED <<job_vars, page_vars, walk, todo, page, torn, crashed>>

\* sendFrame throws in a refresh.  SERVER_ERROR goes to the same socket:
\* it throws again, outside of the try block, and the program ends.
SendFails(p) ==
  /\ handler[p] = "closed"
  /\ refresh[p] = "asked" \/ (refresh[p] = "listing" /\ todo[p] # {})
  /\ \/ /\ crashed' = TRUE
        /\ UNCHANGED <<refresh, mutex, todo>>
     \/ /\ refresh' = Over(p)
        /\ Unlock(p)
        /\ todo' = [todo EXCEPT ![p] = {}]
        /\ UNCHANGED crashed
  /\ UNCHANGED <<job_vars, page_vars, walk, page, torn>>

-----------------------------------------------------------------------------
RunnerStep(j) ==
  \/ Start(j) \/ Run(j) \/ End(j) \/ JobFinished(j) \/ Completed(j)
SendStep(t) == \E p \in Pages : Deliver(t, p)
HandlerStep(p) == Open(p) \/ Notice(p) \/ Remove(p)
RefreshStep(p) ==
  \/ Clean(p) \/ List(p) \/ Listed(p) \/ SendFails(p)
  \/ \E j \in Jobs : SendJob(p, j)

\* What the threads of the program do ...
System ==
  /\ ~crashed
  /\ \/ \E j \in Jobs : RunnerStep(j)
     \/ Announced
     \/ Reported
     \/ \E t \in Senders : SendStep(t)
     \/ \E p \in Pages : HandlerStep(p) \/ RefreshStep(p)

\* ... and what the experiment, the jobs and the users may do.
Environment ==
  /\ ~crashed
  /\ \/ \E j \in Jobs : Submit(j) \/ ReportProgress(j)
     \/ \E p \in Pages : Connect(p) \/ Close(p) \/ Ask(p) \/ Sleep(p) \/ WakeUp(p)

Next == System \/ Environment

(***************************************************************************)
(* Fairness: every thread runs, and commands end.  There are finitely many *)
(* steps of the system between two of the environment, so fairness of all  *)
(* the threads together is fairness of each.  Pages do as they like, and   *)
(* nothing forces the program to submit.                                   *)
(***************************************************************************)
Spec == Init /\ [][Next]_vars
FairSpec == Spec /\ WF_vars(System)

-----------------------------------------------------------------------------
(* Properties *)

\* No job is missing from a page that was refreshed: a job submitted
\* while the page connects, or between CLEAN_INFORMATION and the list, is
\* either listed or announced to it.  When the set of listeners changes
\* during an announcement there is no such promise.
NothingMissed ==
  \A p \in Pages :
    handler[p] = "open" /\ refresh[p] = "done" /\ ~torn
      => \A j \in announced : page[p][j] # Absent

\* Violated: the same when pages connect and leave during an announcement, as
\* servercontext.cpp:73 goes through the set that they change.
NothingMissedEver ==
  \A p \in Pages :
    handler[p] = "open" /\ refresh[p] = "done" => \A j \in announced : page[p][j] # Absent

Awake == \A p \in Pages : handler[p] = "open" => nap[p] # "asleep"

\* A thread of the program can move: what System waits for.
CanMove ==
  /\ ~crashed
  /\ \/ \E j \in Jobs :
          \/ runner[j] = "none" /\ j \in (IF j \in After THEN jobs ELSE announced) /\ mutex = Nobody
          \/ runner[j] \in {"starting", "completing"} /\ Walked(j)
          \/ runner[j] = "running"
          \/ runner[j] = "ended" /\ mutex = Nobody
     \/ Walked(Main) \/ Walked(Report)
     \/ \E t \in Senders : Busy(t) /\ \E p \in walk[t].left : CanSend(p)
     \/ \E p \in Pages :
          \/ handler[p] \in {"added", "closed", "leaving"}
          \/ refresh[p] = "asked" /\ CanSend(p)
          \/ refresh[p] = "locking" /\ mutex = Nobody
          \/ refresh[p] = "listing" /\ (todo[p] = {} \/ CanSend(p))

\* CanMove says no more and no less than that.
GuardsOfSystem == CanMove <=> ENABLED System

\* The program never stalls: when none of its threads can move, every
\* request to refresh is answered and every job that was started is over,
\* unless a page that does not read holds up the thread that sends to it
\* (the answers and the runners send with WORKSPACE_MUTEX held, so that
\* one such page blocks all the jobs).  As the threads do finitely many
\* steps between two of the environment, they do come to that point.
NoStall ==
  ~crashed /\ Awake /\ ~CanMove
    => /\ \A p \in Pages : refresh[p] \in {"none", "done"}
       /\ \A j \in announced : runner[j] = "over"

\* Violated: pages that do not read do not hold up the jobs.
JobsGoOn == ~crashed /\ ~CanMove => \A j \in announced : runner[j] = "over"

\* Violated: a page that stays open ends up showing the state of the jobs
\* (JOB_UPDATE has "payload: $Shape<Job>" in src/app/src/reducer.js).
StatusShown ==
  \A p \in Pages, j \in Jobs :
    <>[](refresh[p] = "done" /\ handler[p] = "open" /\ runner[j] = "over")
      => <>[](page[p][j].status = state[j] \/ torn \/ crashed)

-----------------------------------------------------------------------------
(* The inductive invariant of NothingMissed and NoStall.                   *)

\* What is kept or sent, as far as the property needs it.
States == {"waiting", "running", "done"}
Walks  ==
  {Idle} \cup [type : {"JOB_ADD"}, job : Jobs, status : States, left : SUBSET Pages]
         \cup [type : {"status", "progress"}, job : Jobs, left : SUBSET Pages]
KeptInv ==
  /\ jobs \subseteq Jobs /\ announced \subseteq jobs /\ listeners \subseteq Pages
  /\ state \in [Jobs -> States]
  /\ runner \in [Jobs -> {"none", "starting", "running", "ended", "completing", "over"}]
  /\ handler \in [Pages -> {"none", "added", "open", "closed", "leaving", "gone"}]
  /\ refresh \in [Pages -> {"none", "asked", "locking", "listing", "done"}]
  /\ todo \in [Pages -> SUBSET Jobs]
  /\ page \in [Pages -> [Jobs -> [status : States \cup {"none"}, progress : BOOLEAN]]]
  /\ torn \in BOOLEAN
  /\ walk \in [Senders -> Walks]

\* A page that is connected is told, and only one that was asks to refresh.
ConnectedInv ==
  \A p \in Pages : /\ handler[p] \in {"added", "open", "closed", "leaving"} => p \in listeners
                   /\ refresh[p] # "none" => handler[p] \notin {"none", "added"}

\* The mutex is held where the threads rely on it.
MutexInv ==
  /\ \A j \in Jobs : runner[j] \in {"starting", "completing"} => mutex = j
  /\ \A p \in Pages : refresh[p] = "listing" => mutex = p

\* Who holds it has something to send, or to answer.
HolderInv ==
  /\ \A j \in Jobs : runner[j] \in {"starting", "completing"} => Busy(j)
  /\ \/ mutex = Nobody
     \/ \E j \in Jobs : mutex = j /\ runner[j] \in {"starting", "completing"}
     \/ \E p \in Pages : mutex = p /\ refresh[p] = "listing"

\* The main thread announces one job, that is not announced yet.
Announcing(j) == Busy(Main) /\ walk[Main].job = j
AnnounceInv ==
  Busy(Main) => walk[Main].type = "JOB_ADD" /\ walk[Main].job \in jobs \ announced

\* A page that is shown the jobs has each, or will have it from its refresh,
\* or from the announcement under way.
Coming(p, j) ==
  \/ page[p][j] # Absent
  \/ refresh[p] = "listing" /\ j \in todo[p]
  \/ refresh[p] = "done" /\ Announcing(j) /\ p \in walk[Main].left
ComingInv ==
  ~torn => \A p \in Pages : handler[p] = "open" /\ refresh[p] \in {"listing", "done"}
                               => \A j \in jobs : Coming(p, j)

IInv == KeptInv /\ ConnectedInv /\ MutexInv /\ HolderInv /\ AnnounceInv /\ ComingInv
=============================================================================
