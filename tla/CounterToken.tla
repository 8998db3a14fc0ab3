---------------------------- MODULE CounterToken ----------------------------
(***************************************************************************)
(* The tokens of src/src/workspace.cpp for jobs that need several of them: *)
(* CounterToken, CounterDependency, its Lock, and what Job::start does     *)
(* with the locks.                                                         *)
(*                                                                         *)
(* A runner takes WORKSPACE_MUTEX and locks the dependencies of its job    *)
(* one by one.  When one is refused it gives up: `jobLock' is destroyed    *)
(* first and the vector `locks' after it, so what the runner had taken is  *)
(* released WITHOUT the mutex, while another runner may be counting.  The  *)
(* additions and subtractions on _usedTokens, and Dependency::check, are   *)
(* therefore cut where another thread can come between: after the read.    *)
(*                                                                         *)
(* Scheduler has the rest of a job's life; it assumes at most one token    *)
(* for each job, and then nothing is ever released without the mutex.  The *)
(* order of the checks of a release (the order of addresses in a std::map) *)
(* is left open; the temporary reference that check() takes on a live lock *)
(* is not modelled.                                                        *)
(***************************************************************************)
EXTENDS Integers, Sequences, FiniteSets, TokenUnits

CONSTANTS
  Jobs,      \* the jobs, all submitted
  Tokens,    \* the CounterToken objects
  Deps,      \* Job::_dependencies: for each job, a sequence of dependencies
  Origin,    \* Dependency::_origin: the token of a dependency
  Needs,     \* the values that the dependencies may be created with
  Limit,     \* the limits the tokens are created with
  NewLimits, \* what the program may pass to CounterToken::limit
  Threads,   \* names for the runner threads that one job may have at once
  Width,     \* uint32_t counts modulo Width
  Nobody     \* the owner of a free mutex

AllDeps   == UNION {{Deps[j][i] : i \in DOMAIN Deps[j]} : j \in Jobs}
TargetOf(d) == CHOOSE j \in Jobs : \E i \in DOMAIN Deps[j] : Deps[j][i] = d
Runners   == Jobs \X Threads
UInt      == 0 .. Width - 1

ASSUME CounterAssumption ==
  /\ Width \in Nat \ {0}
  /\ Threads # {}
  /\ Deps \in [Jobs -> Seq(AllDeps) \ {<<>>}]
  /\ \A i, j \in Jobs : \A m \in DOMAIN Deps[i], n \in DOMAIN Deps[j] :
       Deps[i][m] = Deps[j][n] => i = j /\ m = n    \* a dependency has one place
  /\ IsFiniteSet(AllDeps)
  /\ Origin \in [AllDeps -> Tokens]
  /\ Needs \subseteq [AllDeps -> UInt \ {0}]
  /\ Limit \in [Tokens -> UInt]
  /\ NewLimits \subseteq UInt
  /\ Nobody \notin Runners \cup AllDeps

VARIABLES
  need,        \* CounterDependency::_value
  limit,       \* CounterToken::_limit
  used,        \* CounterToken::_usedTokens
  oldStatus,   \* Dependency::_oldStatus
  unsatisfied, \* Job::_unsatisfied
  state,       \* Job::_state
  mutex,       \* the runner that holds WORKSPACE_MUTEX
  pc,          \* where each runner is
  locks,       \* the vector `locks' of each runner
  pending,     \* the dependency a runner is counting, and what it has read
  todo,        \* the dependents a runner has still to check
  disturbed    \* what happened so far that the counts are not made for

counters == << used, oldStatus, unsatisfied >>
vars == << need, limit, counters, state, mutex, pc, locks, pending, todo, disturbed >>

\* "refused" and "clearing" hold the mutex, "giving up" does not.
PCs == {"idle", "starting", "locking", "adding", "refused", "giving up",
        "executing", "clearing", "subtracting", "subtracting unlocked"}

Nothing == [dep |-> Nobody, read |-> 0]

\* A 32-bit sum or difference.
Plus(x, y)  == (x + y) % Width
Minus(x, y) == (x - y) % Width

\* Dependency::_currentLock is weak: it holds while a runner has the lock.
Live(d) == \E r \in Runners : \E i \in DOMAIN locks[r] : locks[r][i] = d

Status(d) ==
  IF Plus(used[Origin[d]], need[d]) <= limit[Origin[d]] THEN "OK" ELSE "WAIT"

Ok(s) == IF s = "OK" THEN 1 ELSE 0

Dependents(t) == {d \in AllDeps : Origin[d] = t}

Idle(r) == pending[r] = Nothing /\ todo[r] = {}

\* Another runner has read the counter of t, or the status of a dependency on
\* t, and has not used it yet; or it was refused and has not checked yet.
Overlaps(r, t) ==
  \E q \in Runners \ {r} :
    \/ pending[q] # Nothing /\ Origin[pending[q].dep] = t
    \/ pc[q] = "refused" /\ \E d \in todo[q] : Origin[d] = t

\* Another runner is about to change the count of unsatisfied dependencies of j.
Meets(r, j) ==
  \E q \in Runners \ {r} : /\ pc[q] \in {"refused", "giving up", "clearing"}
                           /\ pending[q] # Nothing /\ TargetOf(pending[q].dep) = j

Note(cond, what) == disturbed' = IF cond THEN disturbed \cup {what} ELSE disturbed

\* Every job has been submitted while all tokens were free (a submission beside
\* running jobs is in Scheduler): the jobs that each token can serve have a runner
\* that waits for the mutex.
Init ==
  /\ need \in Needs
  /\ limit = Limit
  /\ used = [t \in Tokens |-> 0]
  /\ oldStatus = [d \in AllDeps |-> Status(d)]
  /\ unsatisfied = [j \in Jobs |->
       Cardinality({i \in DOMAIN Deps[j] : oldStatus[Deps[j][i]] # "OK"})]
  /\ state = [j \in Jobs |-> "WAITING"]
  /\ mutex = Nobody
  /\ LET first == CHOOSE k \in Threads : TRUE
     IN  pc = [r \in Runners |-> IF unsatisfied[r[1]] = 0 /\ r[2] = first
                                 THEN "starting" ELSE "idle"]
  /\ locks = [r \in Runners |-> <<>>]
  /\ pending = [r \in Runners |-> Nothing]
  /\ todo = [r \in Runners |-> {}]
  /\ disturbed = {}

-----------------------------------------------------------------------------
(* Job::start: the runner thread.                                          *)

\* The next dependency to lock: they are locked in order, each adds a lock.
Next1(r) == Deps[r[1]][Len(locks[r]) + 1]
Locked(r) == Len(locks[r]) = Len(Deps[r[1]])

Enter(r) ==
  /\ pc[r] = "starting"
  /\ mutex = Nobody
  /\ mutex' = r
  /\ pc' = [pc EXCEPT ![r] = "locking"]
  /\ UNCHANGED << need, limit, counters, state, locks, pending, todo, disturbed >>

\* Dependency::lock: another runner of this job has the lock, it is shared.
Share(r) ==
  /\ pc[r] = "locking" /\ ~Locked(r)
  /\ Live(Next1(r))
  /\ locks' = [locks EXCEPT ![r] = Append(@, Next1(r))]
  /\ UNCHANGED << need, limit, counters, state, mutex, pc, pending, todo, disturbed >>

\* Mutant of Acquire: the need of the job is left out of the comparison.
AcquireIfAny(r) ==
  /\ pc[r] = "locking" /\ ~Locked(r)
  /\ ~Live(Next1(r))
  /\ LET d == Next1(r)
         t == Origin[d]
     IN  IF used[t] >= limit[t]
         THEN /\ pc' = [pc EXCEPT ![r] = "refused"]
              /\ todo' = [todo EXCEPT ![r] = {d}]
              /\ UNCHANGED pending
         ELSE /\ pc' = [pc EXCEPT ![r] = "adding"]
              /\ pending' = [pending EXCEPT ![r] = [dep |-> d, read |-> used[t]]]
              /\ UNCHANGED todo
  /\ UNCHANGED << need, limit, counters, state, mutex, locks, disturbed >>

\* Mutant of Acquire: the dependency is not checked when it is refused.
AcquireUnchecked(r) ==
  /\ pc[r] = "locking" /\ ~Locked(r)
  /\ ~Live(Next1(r))
  /\ LET d == Next1(r)
         t == Origin[d]
     IN  IF Plus(need[d], used[t]) > limit[t]
         THEN /\ pc' = [pc EXCEPT ![r] = "refused"]
              /\ UNCHANGED << pending, todo >>
         ELSE /\ pc' = [pc EXCEPT ![r] = "adding"]
              /\ pending' = [pending EXCEPT ![r] = [dep |-> d, read |-> used[t]]]
              /\ UNCHANGED todo
  /\ UNCHANGED << need, limit, counters, state, mutex, locks, disturbed >>

\* CounterDependency::l_acquire reads the counter and compares.
Acquire(r) ==
  /\ pc[r] = "locking" /\ ~Locked(r)
  /\ ~Live(Next1(r))
  /\ LET d == Next1(r)
         t == Origin[d]
     IN  IF Plus(need[d], used[t]) > limit[t]
         THEN /\ pc' = [pc EXCEPT ![r] = "refused"]
              /\ todo' = [todo EXCEPT ![r] = {d}]
              /\ UNCHANGED pending
         ELSE /\ pc' = [pc EXCEPT ![r] = "adding"]
              /\ pending' = [pending EXCEPT ![r] = [dep |-> d, read |-> used[t]]]
              /\ UNCHANGED todo
  /\ UNCHANGED << need, limit, counters, state, mutex, locks, disturbed >>

\* ... and adds, to what it has read or to what it reads again.
Add(r) ==
  /\ pc[r] = "adding"
  /\ LET d == pending[r].dep
         t == Origin[d]
     IN  /\ \E base \in {pending[r].read, used[t]} :
              used' = [used EXCEPT ![t] = Plus(base, need[d])]
         /\ locks' = [locks EXCEPT ![r] = Append(@, d)]
         /\ Note(Overlaps(r, t), "race")
  /\ pending' = [pending EXCEPT ![r] = Nothing]
  /\ pc' = [pc EXCEPT ![r] = "locking"]
  /\ UNCHANGED << need, limit, oldStatus, unsatisfied, state, mutex, todo >>

\* Mutant of GiveUp: what was locked before is never given back.
GiveUpKeeping(r) ==
  /\ pc[r] = "refused"
  /\ Idle(r)
  /\ state' = [state EXCEPT ![r[1]] = "READY"]
  /\ mutex' = Nobody
  /\ pc' = [pc EXCEPT ![r] = "giving up"]
  /\ locks' = [locks EXCEPT ![r] = <<>>]
  /\ UNCHANGED << need, limit, counters, pending, todo, disturbed >>

\* A lock_error: after the check of the dependency the runner returns, and
\* the mutex is free before the locks are.
GiveUp(r) ==
  /\ pc[r] = "refused"
  /\ Idle(r)
  /\ state' = [state EXCEPT ![r[1]] = "READY"]
  /\ mutex' = Nobody
  /\ pc' = [pc EXCEPT ![r] = "giving up"]
  /\ UNCHANGED << need, limit, counters, locks, pending, todo, disturbed >>

\* All locks are taken: run frees the mutex and waits for its process.
Run(r) ==
  /\ pc[r] = "locking" /\ Locked(r)
  /\ state' = [state EXCEPT ![r[1]] = "RUNNING"]
  /\ mutex' = Nobody
  /\ pc' = [pc EXCEPT ![r] = "executing"]
  /\ UNCHANGED << need, limit, counters, locks, pending, todo, disturbed >>

\* The process has ended; the state is set and the mutex taken again.
Complete(r) ==
  /\ pc[r] = "executing"
  /\ mutex = Nobody
  /\ mutex' = r
  /\ state' = [state EXCEPT ![r[1]] = "DONE"]
  /\ pc' = [pc EXCEPT ![r] = "clearing"]
  /\ UNCHANGED << need, limit, counters, locks, pending, todo, disturbed >>

-----------------------------------------------------------------------------
(* CounterDependency::Lock::~Lock, with the mutex or without.              *)

\* One reference less on a lock that another runner still has.
Drop(r) ==
  /\ pc[r] \in {"giving up", "clearing"}
  /\ Idle(r) /\ locks[r] # <<>>
  /\ \E q \in Runners \ {r} : \E i \in DOMAIN locks[q] : locks[q][i] = Head(locks[r])
  /\ locks' = [locks EXCEPT ![r] = Tail(@)]
  /\ UNCHANGED << need, limit, counters, state, mutex, pc, pending, todo, disturbed >>

\* Mutant of Release: a lock is not shared, each reference gives tokens back.
ReleaseEach(r) ==
  /\ pc[r] \in {"giving up", "clearing"}
  /\ Idle(r) /\ locks[r] # <<>>
  /\ locks' = [locks EXCEPT ![r] = Tail(@)]
  /\ LET d == Head(locks[r])
     IN  pending' = [pending EXCEPT ![r] = [dep |-> d, read |-> used[Origin[d]]]]
  /\ pc' = [pc EXCEPT ![r] = IF @ = "clearing" THEN "subtracting"
                                               ELSE "subtracting unlocked"]
  /\ UNCHANGED << need, limit, counters, state, mutex, todo, disturbed >>

\* The last reference: release reads the counter ...
Release(r) ==
  /\ pc[r] \in {"giving up", "clearing"}
  /\ Idle(r) /\ locks[r] # <<>>
  /\ locks' = [locks EXCEPT ![r] = Tail(@)]
  /\ LET d == Head(locks[r])
     IN  /\ \A q \in Runners \ {r} : \A i \in DOMAIN locks[q] : locks[q][i] # d
         /\ pending' = [pending EXCEPT ![r] = [dep |-> d, read |-> used[Origin[d]]]]
  /\ pc' = [pc EXCEPT ![r] = IF @ = "clearing" THEN "subtracting"
                                               ELSE "subtracting unlocked"]
  /\ UNCHANGED << need, limit, counters, state, mutex, todo, disturbed >>

\* ... and subtracts, then checks every dependent of the token.
Subtract(r) ==
  /\ pc[r] \in {"subtracting", "subtracting unlocked"}
  /\ LET d == pending[r].dep
         t == Origin[d]
     IN  /\ \E base \in {pending[r].read, used[t]} :
              used' = [used EXCEPT ![t] = Minus(base, need[d])]
         /\ todo' = [todo EXCEPT ![r] = Dependents(t)]
         /\ Note(Overlaps(r, t), "race")
  /\ pending' = [pending EXCEPT ![r] = Nothing]
  /\ pc' = [pc EXCEPT ![r] = IF @ = "subtracting" THEN "clearing" ELSE "giving up"]
  /\ UNCHANGED << need, limit, oldStatus, unsatisfied, state, mutex, locks >>

\* The thread ends; after a normal end it frees the mutex.
End(r) ==
  /\ pc[r] \in {"giving up", "clearing"}
  /\ Idle(r) /\ locks[r] = <<>>
  /\ mutex' = IF pc[r] = "clearing" THEN Nobody ELSE mutex
  /\ pc' = [pc EXCEPT ![r] = "idle"]
  /\ UNCHANGED << need, limit, counters, state, locks, pending, todo, disturbed >>

-----------------------------------------------------------------------------
(* Dependency::check, from Job::start or from a release.                   *)

Checking(r) == pc[r] \in {"refused", "giving up", "clearing"} /\ pending[r] = Nothing

\* The lock is live, or the status is the one seen last: nothing to do.
CheckSame(r, d) ==
  /\ Checking(r) /\ d \in todo[r]
  /\ Live(d) \/ Status(d) = oldStatus[d]
  /\ todo' = [todo EXCEPT ![r] = @ \ {d}]
  /\ UNCHANGED << need, limit, counters, state, mutex, pc, locks, pending, disturbed >>

\* The status has changed: it is read here and used by Changed.
CheckRead(r, d) ==
  /\ Checking(r) /\ d \in todo[r]
  /\ ~Live(d) /\ Status(d) # oldStatus[d]
  /\ todo' = [todo EXCEPT ![r] = @ \ {d}]
  /\ pending' = [pending EXCEPT ![r] = [dep |-> d, read |-> Ok(Status(d))]]
  /\ UNCHANGED << need, limit, counters, state, mutex, pc, locks, disturbed >>

\* Mutant: the former status is not taken off.
UnsatisfiedForward(d, s) == unsatisfied[TargetOf(d)] - Ok(s)

\* Job::_unsatisfied after a change, before it is a size_t again.
Unsatisfied(d, s) == unsatisfied[TargetOf(d)] - (Ok(s) - Ok(oldStatus[d]))

\* Job::dependencyChanged, then the assignment of _oldStatus.  A job whose
\* dependencies are all satisfied gets a runner.  Two runners that are here for
\* one job at once may lose a change in the code: here that is only noted.
Changed(r) ==
  /\ pc[r] \in {"refused", "giving up", "clearing"}
  /\ pending[r] # Nothing
  /\ LET d == pending[r].dep
         s == IF pending[r].read = 1 THEN "OK" ELSE "WAIT"
         j == TargetOf(d)
     IN  /\ unsatisfied' = [unsatisfied EXCEPT ![j] = Unsatisfied(d, s)]
         /\ oldStatus' = [oldStatus EXCEPT ![d] = s]
         /\ IF Unsatisfied(d, s) = 0
            THEN \E k \in Threads : /\ pc[<<j, k>>] = "idle"
                                    /\ pc' = [pc EXCEPT ![<<j, k>>] = "starting"]
            ELSE UNCHANGED pc
         /\ Note(Overlaps(r, Origin[d]) \/ Meets(r, j), "race")
  /\ pending' = [pending EXCEPT ![r] = Nothing]
  /\ UNCHANGED << need, limit, used, state, mutex, locks, todo >>

-----------------------------------------------------------------------------

\* CounterToken::limit: no mutex, no check of the dependents.
SetLimit(t, n) ==
  /\ n # limit[t]
  /\ "limit" \notin disturbed          \* bound: one change
  /\ limit' = [limit EXCEPT ![t] = n]
  /\ Note(TRUE, "limit")
  /\ UNCHANGED << need, counters, state, mutex, pc, locks, pending, todo >>

RunnerStep(r) ==
  \/ Enter(r) \/ Share(r) \/ Acquire(r) \/ Add(r) \/ GiveUp(r) \/ Run(r)
  \/ Complete(r) \/ Drop(r) \/ Release(r) \/ Subtract(r) \/ End(r)
  \/ \E d \in AllDeps : CheckSame(r, d) \/ CheckRead(r, d)
  \/ Changed(r)

Quiet == \A r \in Runners : pc[r] = "idle"

Rest == Quiet /\ UNCHANGED vars

Next ==
  \/ \E r \in Runners : RunnerStep(r)
  \/ \E t \in Tokens, n \in NewLimits : SetLimit(t, n)
  \/ Rest

Spec == Init /\ [][Next]_vars

\* Threads are scheduled, and processes end.
FairSpec == Spec /\ \A r \in Runners : WF_vars(RunnerStep(r))

-----------------------------------------------------------------------------
(* Properties.                                                             *)

\* Where a variable may be, whatever threads do.
Typed ==
  /\ need \in Needs
  /\ limit \in [Tokens -> UInt]
  /\ used \in [Tokens -> UInt]
  /\ oldStatus \in [AllDeps -> {"OK", "WAIT"}]
  /\ unsatisfied \in [Jobs -> Int]
  /\ state \in [Jobs -> {"WAITING", "READY", "RUNNING", "DONE"}]
  /\ mutex \in Runners \cup {Nobody}
  /\ pc \in [Runners -> PCs]
  /\ locks \in [Runners -> Seq(AllDeps)]
  /\ pending \in [Runners -> [dep : AllDeps \cup {Nobody}, read : UInt \cup {0, 1}]]
  /\ todo \in [Runners -> SUBSET AllDeps]
  /\ disturbed \subseteq {"race", "limit"}

\* Job::_unsatisfied is unsigned and moved by differences of statuses: it is never
\* taken below zero, unless two threads have counted at once.
TypeOK == Typed /\ ("race" \notin disturbed => unsatisfied \in [Jobs -> Nat])

\* The dependencies whose tokens are taken: a live lock, or one being released.
Taken(t) ==
  {d \in Dependents(t) :
     \/ Live(d)
     \/ \E r \in Runners : /\ pc[r] \in {"subtracting", "subtracting unlocked"}
                           /\ pending[r].dep = d}

Total(S) == Cardinality(UnitsOf(need, S))

\* What a token counts as used is what its live locks have taken, however
\* locks are shared, given up and released.
CountsExact ==
  \A t \in Tokens : used[t] = Total(Taken(t)) % Width

\* The same, as long as no thread has counted while another was counting.
CountsExactUnlessRace == "race" \in disturbed \/ CountsExact

\* No sum of a need and a limit wraps.
Fits(t) == \A d \in Dependents(t) : need[d] + Limit[t] < Width

\* The locks on a token never take more than its limit.
WithinLimit ==
  disturbed = {} => \A t \in Tokens : Fits(t) => Total(Taken(t)) <= limit[t]

\* Violated: the same for any need (workspace.hpp:150 has a 32-bit Value): a need
\* whose sum with the count wraps is granted.
LimitNeverPassed == disturbed = {} => \A t \in Tokens : Total(Taken(t)) <= limit[t]

\* A job that the tokens can serve is never left behind: when no runner is
\* left every such job is done.
NoneLeftBehind ==
  Quiet /\ disturbed = {} =>
    \A j \in Jobs : \/ state[j] = "DONE"
                    \/ \E i \in DOMAIN Deps[j] : Status(Deps[j][i]) # "OK"

\* A runner that gives up takes its locks back so that others can go on: the
\* jobs that fit all end, they do not give up for each other for ever.
Servable(j) ==
  \A i \in DOMAIN Deps[j] : need[Deps[j][i]] <= limit[Origin[Deps[j][i]]]
Served == \A j \in Jobs : Servable(j) => state[j] = "DONE"
AllServed == <>(disturbed # {} \/ Served)

\* What the wait for all tasks relies on: every job that the tokens can serve
\* ends.  It does not hold: a runner that is refused because of the locks that
\* an earlier runner of its own job has yet to give back checks the dependency
\* after they are free, sees no change, and nobody starts the job again.
EveryJobServed == <>Served

-----------------------------------------------------------------------------
(* The inductive invariant of the counts.                                  *)

Subtracting(r) == pc[r] \in {"subtracting", "subtracting unlocked"}

\* A runner that counts knows for which dependency.
PendingInv ==
  \A r \in Runners : /\ pending[r] = Nothing \/ pending[r].dep \in AllDeps
                     /\ pc[r] = "adding" \/ Subtracting(r) => pending[r].dep \in AllDeps

\* The mutex is held where the code relies on it.
MutexInv ==
  \A r \in Runners :
    pc[r] \in {"locking", "adding", "refused", "clearing", "subtracting"} => mutex = r

\* The locks are taken in order, each once, and the one that is being
\* taken is not live.
LocksInv ==
  \A r \in Runners :
    /\ \A i, k \in DOMAIN locks[r] : locks[r][i] = locks[r][k] => i = k
    /\ pc[r] \in {"locking", "adding"} =>
         /\ Len(locks[r]) <= Len(Deps[r[1]])
         /\ \A i \in DOMAIN locks[r] : locks[r][i] = Deps[r[1]][i]
    /\ pc[r] \in {"idle", "starting"} => locks[r] = <<>>
    /\ pc[r] = "adding" => /\ Len(locks[r]) < Len(Deps[r[1]]) /\ pending[r].dep = Next1(r)
                           /\ ~Live(pending[r].dep)

\* What a runner has read is still the count, and the lock that it gives back
\* is not live, unless another has counted meanwhile.
CountInv ==
  "race" \notin disturbed =>
    /\ CountsExact
    /\ \A r \in Runners :
         /\ pc[r] = "adding" \/ Subtracting(r) => pending[r].read = used[Origin[pending[r].dep]]
         /\ Subtracting(r) => ~Live(pending[r].dep)

\* What a runner is about to take was compared with the limit.
LimitInv ==
  /\ WithinLimit
  /\ disturbed = {} =>
       /\ limit = Limit
       /\ \A r \in Runners : pc[r] = "adding" =>
            LET d == pending[r].dep IN Plus(need[d], pending[r].read) <= limit[Origin[d]]

IInv == Typed /\ PendingInv /\ MutexInv /\ LocksInv /\ CountInv /\ LimitInv

-----------------------------------------------------------------------------
(* The inductive invariant of NoneLeftBehind.                              *)

\* Job::_unsatisfied counts the dependencies last seen unsatisfied.
UnsatisfiedInv ==
  \A j \in Jobs :
    unsatisfied[j] = Cardinality({i \in DOMAIN Deps[j] : oldStatus[Deps[j][i]] # "OK"})

\* A runner checks only where the code goes through dependents.
ChecksInv ==
  \A r \in Runners :
    /\ pc[r] \in {"idle", "starting", "locking", "executing"} => Idle(r)
    /\ pc[r] = "adding" \/ Subtracting(r) => todo[r] = {}

\* The runner has read the status of a dependency and has still to use it.
Informing(r) == pc[r] \in {"refused", "giving up", "clearing"} /\ pending[r] # Nothing

\* That status is still the status, and what was refused would be refused again.
StatusInv ==
  disturbed = {} => \A r \in Runners :
    /\ Informing(r) => pending[r].read = Ok(Status(pending[r].dep))
    /\ pc[r] = "refused" => \A d \in AllDeps : d \in todo[r] \/ d = pending[r].dep =>
         TargetOf(d) = r[1] /\ Status(d) = "WAIT" /\ ~Live(d)

\* A job that was refused or left has something to wait for.
Short(j) == \E i \in DOMAIN Deps[j] : oldStatus[Deps[j][i]] = "WAIT"
Busy(r)  == \/ pc[r] \in {"starting", "locking", "adding", "executing"}
            \/ pc[r] = "refused" /\ ~Idle(r)
LeftInv ==
  disturbed = {} => \A j \in Jobs :
    \/ Short(j)
    \/ \E k \in Threads : Busy(<<j, k>>)
    \/ state[j] = "DONE" /\ \A k \in Threads : pc[<<j, k>>] # "refused"

\* And somebody will tell it: who gives back the last of the token, or who has
\* given it back.
Told(d) ==
  \/ Taken(Origin[d]) # {}
  \/ \E r \in Runners : d \in todo[r]
  \/ \E r \in Runners : Informing(r) /\ pending[r].dep = d /\ pending[r].read = 1
ToldInv ==
  disturbed = {} => \A d \in AllDeps :
    oldStatus[d] = "WAIT" /\ need[d] <= limit[Origin[d]] => Told(d)

NeverLeft == UnsatisfiedInv /\ ChecksInv /\ StatusInv /\ LeftInv /\ ToldInv
=============================================================================
