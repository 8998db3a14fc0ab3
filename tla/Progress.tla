------------------------------ MODULE Progress ------------------------------
(***************************************************************************)
(* How the progress of a job reaches the web page: struct Progress of      *)
(* src/src/rpc/notifications.cpp, in the process of the job, and           *)
(* handleJobNotification of src/src/rpc/server.cpp, in experimaestro.      *)
(*                                                                         *)
(* The job's thread calls update; a thread of the notifier waits on a      *)
(* condition variable, which update notifies without the mutex, for at     *)
(* most 5 seconds, and sends what it reads in one HTTP request that nobody *)
(* answers.  Each request is handled by a thread of its own, which tells   *)
(* the pages first and the job after.                                      *)
(*                                                                         *)
(* The thread of the notifier is detached: it ends with the process of the *)
(* job, which may do so at any time (Exit), in particular right after its  *)
(* last report.  Without XPM_NOTIFICATION_URL there is no such thread.     *)
(*                                                                         *)
(* A percentage is a level, 0 to Top (a level below 0 or above Top is a    *)
(* percentage below 0 or above 1).  The program's scale, 2^64 values, is   *)
(* 0 .. Width - 1 here.  The log of the progress is left out.              *)
(***************************************************************************)
EXTENDS Integers

CONSTANTS
  Top,         \* the number of levels from 0 to 1
  Step,        \* the integers between two levels
  Threshold,   \* Progress::threshold
  MaxUpdates,  \* bound: calls of update
  MaxRequests  \* bound: requests on their way or being handled, at each level

Width  == Top * Step      \* MAX_PROGRESS + 1
Levels == 0 .. Top
UInt   == 0 .. Width - 1

ASSUME ProgressAssumption ==
  /\ {Top, Step, MaxUpdates, MaxRequests} \subseteq Nat \ {0}
  /\ Threshold \in UInt \ {0}

VARIABLES
  given,    \* the last level the job reported
  updates,  \* how many calls of update there were
  updater,  \* what is left of a call of update: "idle" or "compare"
  progress, \* Progress::progress
  last,     \* Progress::last_progress
  notifier, \* where the notifier is
  missed,   \* a notification came when the notifier had tested and not blocked
  sent,     \* the requests on their way: how many at each level
  told,     \* the requests whose handler has told the pages and not the job
  page,     \* the progress on the page
  job       \* Job::_progress

job_vars      == <<given, updates, updater, progress>>
notifier_vars == <<last, notifier>>
server_vars   == <<told, page, job>>
vars == <<job_vars, notifier_vars, missed, sent, server_vars>>

None  == [l \in Levels |-> 0]
Plus(bag, l)  == [bag EXCEPT ![l] = @ + 1]
Minus(bag, l) == [bag EXCEPT ![l] = @ - 1]

TypeOK ==
  /\ given \in Levels
  /\ updates \in 0 .. MaxUpdates
  /\ updater \in {"idle", "compare"}
  /\ {progress, last} \subseteq UInt
  /\ notifier \in {"none", "first", "test", "blocking", "waiting", "send", "ended"}
  /\ missed \in BOOLEAN
  /\ {sent, told} \subseteq [Levels -> 0 .. MaxRequests]
  /\ {page, job} \subseteq Levels

\* The constructor makes the thread only when it knows where to send.
Init ==
  /\ given = 0
  /\ updates = 0
  /\ updater = "idle"
  /\ progress = 0
  /\ last = 0
  /\ notifier \in {"none", "first"}
  /\ missed = FALSE
  /\ sent = None
  /\ told = None
  /\ page = 0
  /\ job = 0

-----------------------------------------------------------------------------
(* update, in the process of the job *)

\* 1.0f times 2^64 does not fit 64 bits, and the conversion has no
\* defined value: compilers give 0 or the largest integer.
Scale(level) == IF level < Top THEN {level * Step} ELSE {0, Width - 1}

\* Mutant of Clamp: a percentage above 1 is kept.
ClampNot(level) == level
Clamp(level) == IF level > Top THEN Top ELSE level

\* Mutant of Far: the subtraction is signed.
FarSigned == progress - last > Threshold

\* The subtraction is on unsigned integers.
Far == (progress - last) % Width > Threshold

Alive == notifier # "ended"

\* A negative percentage returns at once.
Store(level) ==
  /\ Alive /\ updater = "idle"
  /\ updates < MaxUpdates
  /\ level >= 0
  /\ given' = Clamp(level)
  /\ progress' \in Scale(Clamp(level))
  /\ updates' = updates + 1
  /\ updater' = "compare"
  /\ UNCHANGED <<notifier_vars, missed, sent, server_vars>>

Wake == notifier' = IF notifier = "waiting" THEN "test" ELSE notifier

\* notify_all wakes the notifier if it is blocked, and has no effect else.
Compare ==
  /\ updater = "compare"
  /\ updater' = "idle"
  /\ \/ /\ Far
        /\ Wake
        /\ missed' = (missed \/ notifier = "blocking")
     \/ /\ ~Far
        /\ UNCHANGED <<notifier, missed>>
  /\ UNCHANGED <<given, updates, progress, last, sent, server_vars>>

-----------------------------------------------------------------------------
(* tick, in the thread of the notifier *)

\* A request may be lost: the exception is logged.
Request(l) ==
  \/ sent[l] + told[l] < MaxRequests /\ sent' = Plus(sent, l)
  \/ UNCHANGED sent

FirstNotify ==
  /\ notifier = "first"
  /\ Request(0)
  /\ notifier' = "test"
  /\ UNCHANGED <<job_vars, last, missed, server_vars>>

\* wait_for tests its predicate before it blocks, and when it is woken.
Test ==
  /\ notifier = "test"
  /\ notifier' = IF Far THEN "send" ELSE "blocking"
  /\ UNCHANGED <<job_vars, last, missed, sent, server_vars>>

Block ==
  /\ notifier = "blocking"
  /\ notifier' = "waiting"
  /\ UNCHANGED <<job_vars, last, missed, sent, server_vars>>

\* Mutant of TimeOut: the notifier waits until its predicate holds.
TimeOutRetest ==
  /\ notifier = "waiting"
  /\ notifier' = "test"
  /\ UNCHANGED <<job_vars, last, missed, sent, server_vars>>

\* After time_threshold it returns whatever the predicate says.
TimeOut ==
  /\ notifier = "waiting"
  /\ notifier' = "send"
  /\ UNCHANGED <<job_vars, last, missed, sent, server_vars>>

\* float(last_progress) / MAX_PROGRESS
LevelOf(value) == IF value = Width - 1 THEN Top ELSE value \div Step

SendProgress ==
  /\ notifier = "send"
  /\ last' = progress
  /\ Request(LevelOf(progress))
  /\ notifier' = "test"
  /\ missed' = FALSE
  /\ UNCHANGED <<job_vars, server_vars>>

-----------------------------------------------------------------------------
(* handleJobNotification, in experimaestro: requests are handled in any    *)
(* order, several at a time.                                               *)

TellPages(l) ==
  /\ sent[l] > 0
  /\ sent' = Minus(sent, l)
  /\ page' = l
  /\ told' = Plus(told, l)
  /\ UNCHANGED <<job_vars, notifier_vars, missed, job>>

JobProgress(l) ==
  /\ told[l] > 0
  /\ told' = Minus(told, l)
  /\ job' = l
  /\ UNCHANGED <<job_vars, notifier_vars, missed, sent, page>>

Handle == \E l \in Levels : TellPages(l) \/ JobProgress(l)

-----------------------------------------------------------------------------

\* The process of the job ends, and the thread of the notifier with it,
\* wherever both are.  Without a notifier nobody can tell.
Exit ==
  /\ Alive /\ notifier # "none"
  /\ notifier' = "ended"
  /\ updater' = "idle"
  /\ missed' = FALSE
  /\ UNCHANGED <<given, updates, progress, last, sent, server_vars>>

Tick == FirstNotify \/ Test \/ Block \/ TimeOut \/ SendProgress

Next ==
  \/ \E level \in -1 .. Top + 1 : Store(level)
  \/ Compare
  \/ Tick
  \/ Handle
  \/ Exit

(***************************************************************************)
(* Fairness: as long as the process of the job lives its threads run, and  *)
(* a notifier that sends again and again is heard now and then; the        *)
(* threads of the server run.  The job need not report anything.  It may   *)
(* end (Exit is not fair), and nothing is sent any more.                   *)
(***************************************************************************)
Heard == SendProgress /\ sent' # sent

Spec == Init /\ [][Next]_vars
FairSpec ==
  /\ Spec
  /\ WF_vars(Compare)
  /\ WF_vars(Tick)
  /\ SF_vars(Heard)
  /\ \A l \in Levels : WF_vars(TellPages(l)) /\ WF_vars(JobProgress(l))

-----------------------------------------------------------------------------
(* Properties *)

\* What is no news to the notifier: a rise within the threshold, or a
\* fall of nearly the whole scale, which wraps to a small difference.
Near == progress - last \in (0 .. Threshold) \cup (1 - Width .. Threshold - Width)

\* A notifier that is blocked has nothing new to send (apart from what
\* Near allows), unless it missed a notification that came between its
\* test and its wait.
BlockedIsUpToDate ==
  notifier = "waiting" /\ updater = "idle" /\ ~missed => Near

\* Both hold by this invariant: the requests being handled count against the
\* bound, and what is sent for no news was tested before the wait.
IInv ==
  /\ TypeOK
  /\ \A l \in Levels : sent[l] + told[l] <= MaxRequests
  /\ notifier \in {"blocking", "waiting"} /\ updater = "idle" /\ ~missed => Near

\* What is shown for level l once everything has arrived.  The level 1
\* may be read as 0 (Scale).
Shown(l) == page = job /\ page \in {LevelOf(v) : v \in Scale(l)}

\* When a job that reports to somebody has reported its last progress and
\* goes on with its work, the page and the job end up with that progress,
\* whatever notifications and requests were lost and in whatever order they
\* were handled: the notifier repeats itself every 5 seconds.  Nothing of
\* the kind is promised of a job that ends first (LastReportShown).
Settled(l) ==
  <>[](given = l /\ notifier \notin {"none", "ended"}) => <>[]Shown(l)
EventuallyShown == \A l \in Levels : Settled(l)

\* Violated: a job that has reported 1 is shown as complete (notifications.cpp:144
\* may make it 0).
CompleteShown ==
  <>[](given = Top /\ notifier \notin {"none", "ended"}) => <>[](page = Top)

\* Violated: the last report is shown, also when the job ends after it (as
\* the job of src/test/experiment.cpp:29 does).
LastReportShown ==
  \A l \in Levels : <>[](given = l /\ notifier # "none") => <>[]Shown(l)
=============================================================================
