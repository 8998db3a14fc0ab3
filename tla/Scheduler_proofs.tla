-------------------------- MODULE Scheduler_proofs --------------------------
(***************************************************************************)
(* Proofs about Scheduler, for every set of jobs, tokens and dependencies, *)
(* and at the end that it implements JobGraph, when the needs of a token   *)
(* are all equal (SchedulerGraph).                                         *)
(***************************************************************************)
EXTENDS SchedulerGraph, TokenUnits_proofs

-----------------------------------------------------------------------------
(* Sets of dependencies and of the tokens they need.                       *)

\* There are finitely many dependencies, so every set of them is finite.
LEMMA DepsFinite == \A S \in SUBSET Deps : IsFiniteSet(S)
  BY FS_Subset, SetsAssumption

LEMMA NeedsFinite ==
  ASSUME NEW S \in SUBSET Deps
  PROVE  IsFiniteSet(Units(S)) /\ Cardinality(Units(S)) \in Nat
  BY DepsFinite, DepsAssumption, UnitsFinite DEF Units

\* One more dependency adds what it needs.
LEMMA NeedsAdd ==
  ASSUME NEW S \in SUBSET Deps, NEW d \in Deps \ S
  PROVE  Cardinality(Units(S \cup {d})) = Cardinality(Units(S)) + Value[d]
  BY DepsFinite, DepsAssumption, UnitsAdd DEF Units

-----------------------------------------------------------------------------
(* Types.                                                                  *)

\* Initially every variable has its type.
LEMMA TypeInit == Init => Types(Nat)
<1> SUFFICES ASSUME Init PROVE Types(Nat)
  OBVIOUS
<1>1. \A j \in Jobs : Cardinality(DepsOf(j)) \in Nat
  BY DepsFinite, FS_CardinalityType DEF DepsOf
<1>2. unsatisfied \in [Jobs -> Nat]
  BY <1>1 DEF Init
<1>3. QED
  BY <1>2, SetsAssumption
     DEF Init, Types, Actors, MainPCs, RunnerPCs, States, Statuses, Files

\* A check keeps the types; it may take Job::_unsatisfied anywhere in Int.
LEMMA CheckTypes ==
  ASSUME Types(Nat), CheckStep
  PROVE  Types(Int)'
<1> USE DepsAssumption DEF Types
<1>1. mutex \in Actors /\ mutex # Nobody
  BY DEF CheckStep
<1> PICK d \in Deps : Check(d)
  BY DEF CheckStep
<1>2. Status(d) \in Statuses /\ Target[d] \in Jobs
  BY DEF Status, TokenStatus, JobStatus, Statuses
<1>3. Unsatisfied(d, Status(d)) \in Int
  BY <1>2 DEF Unsatisfied, Satisfied
<1>4. CASE Unchanged(d)
  BY <1>4 DEF Unchanged, exitVars, mainVars, schedVars, lockVars, diskVars
<1>5. CASE Fail(d)
  BY <1>2, <1>3, <1>5 DEF Fail, Update, JobFinished, NotifyMain, Dependents, Actors, MainPCs,
     exitVars, mainVars, schedVars, lockVars, diskVars
<1>6. CASE Spawn(d)
  BY <1>2, <1>3, <1>6 DEF Spawn, Update, Actors, Runners, RunnerPCs,
     exitVars, mainVars, schedVars, lockVars, diskVars
<1>7. CASE StartStuck(d)
  BY <1>1, <1>2, <1>3, <1>7 DEF StartStuck, Update, RunnerPCs,
     exitVars, mainVars, schedVars, lockVars, diskVars
<1>8. CASE Wait(d)
  BY <1>2, <1>3, <1>8 DEF Wait, Update,
     exitVars, mainVars, schedVars, lockVars, diskVars
<1>9. QED
  BY <1>4, <1>5, <1>6, <1>7, <1>8 DEF Check

\* What the main thread does keeps the types.
LEMMA MainTypes ==
  ASSUME Types(Nat), MainStep
  PROVE  Types(Int)'
<1> USE DEF Types, MainPCs, Actors, exitVars, mainVars, schedVars, lockVars, diskVars
<1>1. ASSUME NEW j \in Jobs, Submit(j)
      PROVE  Types(Int)'
  BY <1>1 DEF Submit, DepsOf
<1>2. ASSUME NEW j \in Jobs, SkipSubmit(j)
      PROVE  Types(Int)'
  BY <1>2 DEF SkipSubmit
<1>3. CASE Registered
  BY <1>3 DEF Registered
<1>4. CASE SubmitSpawn
  BY <1>4 DEF SubmitSpawn, RunnerPCs
<1>5. CASE SubmitGiveUp
  <2>1. state' \in [Jobs -> States]
    BY <1>5 DEF SubmitGiveUp, States
  <2>2. QED
    BY <1>5, <2>1 DEF SubmitGiveUp
<1>6. CASE SubmitEnd
  BY <1>6 DEF SubmitEnd
<1>7. CASE StartWaiting
  BY <1>7 DEF StartWaiting
<1>8. CASE CountJobs
  BY <1>8 DEF CountJobs
<1>9. CASE WaitLoop
  BY <1>9 DEF WaitLoop
<1>10. QED
  BY <1>1, <1>2, <1>3, <1>4, <1>5, <1>6, <1>7, <1>8, <1>9 DEF MainStep

\* What a runner does keeps the types; it may take a counter anywhere in Int.
LEMMA RunnerTypes ==
  ASSUME Types(Nat), NEW r \in Runners, RunnerStep(r)
  PROVE  Types(Int)'
<1> USE DepsAssumption DEF Types, RunnerPCs, Actors, exitVars, mainVars, schedVars, lockVars, diskVars
<1>1. r[1] \in Jobs
  BY DEF Runners
<1>2. CASE AcquireLocks(r)
  <2>1. usedTokens' \in [Tokens -> Int]
    BY <1>2 DEF AcquireLocks, Missing, TokensOf, TokenDeps
  <2>2. QED
    BY <1>2, <2>1 DEF AcquireLocks, TokensOf
<1>3. CASE AbortStart(r)
  <2>1. PICK d \in Missing(r) : /\ oldStatus' = [oldStatus EXCEPT ![d] = "WAIT"]
                                /\ unsatisfied' = [unsatisfied EXCEPT ![r[1]] = Unsatisfied(d, "WAIT")]
    BY <1>3 DEF AbortStart
  <2>2. d \in Deps /\ Unsatisfied(d, "WAIT") \in Int
    BY <2>1 DEF Missing, TokensOf, TokenDeps, Unsatisfied, Satisfied
  <2>3. oldStatus' \in [Deps -> Statuses] /\ unsatisfied' \in [Jobs -> Int]
    BY <1>1, <2>1, <2>2 DEF Statuses
  <2>4. QED
    BY <1>1, <1>3, <2>3 DEF AbortStart, States
<1>4. CASE AlreadyDone(r)
  BY <1>1, <1>4 DEF AlreadyDone, JobFinished, NotifyMain, MainPCs, Dependents, States
<1>5. CASE Attach(r)
  BY <1>5 DEF Attach
<1>6. CASE LockFile(r)
  BY <1>6 DEF LockFile
<1>7. CASE LockFileTimeout(r)
  BY <1>7 DEF LockFileTimeout
<1>8. CASE Launch(r)
  BY <1>1, <1>8 DEF Launch, States, Files
<1>9. CASE Reap(r)
  BY <1>1, <1>9 DEF Reap, States
<1>10. CASE LeaveRun(r)
  BY <1>10 DEF LeaveRun
<1>11. CASE Complete(r)
  BY <1>1, <1>11 DEF Complete, JobFinished, NotifyMain, MainPCs, Dependents
<1>12. CASE ReleaseLocks(r)
  <2>1. usedTokens' \in [Tokens -> Int] /\ todo' \subseteq Deps
    BY <1>12 DEF ReleaseLocks, LastOwned, TokenDeps, Dependents
  <2>2. QED
    BY <1>12, <2>1 DEF ReleaseLocks
<1>13. CASE EndRunner(r)
  BY <1>13 DEF EndRunner
<1>14. QED
  BY <1>2, <1>3, <1>4, <1>5, <1>6, <1>7, <1>8, <1>9, <1>10, <1>11, <1>12, <1>13
     DEF RunnerStep

\* Scripts and signals keep the types.
LEMMA EnvironmentTypes ==
  ASSUME Types(Nat), (\E j \in Jobs : ScriptStep(j)) \/ Interrupt \/ Finished \/ UNCHANGED vars
  PROVE  Types(Int)'
<1> USE DEF Types, exitVars, mainVars, schedVars, lockVars, diskVars
<1>1. ASSUME NEW j \in Jobs, WritePid(j)
      PROVE  Types(Int)'
  BY <1>1 DEF WritePid, Files
<1>2. ASSUME NEW j \in Jobs, NEW code \in ExitCodes, Exit(j, code)
      PROVE  Types(Int)'
  BY <1>2, SetsAssumption DEF Exit, Files
<1>3. CASE Interrupt
  BY <1>3 DEF Interrupt, NotifyMain, Actors, MainPCs
<1>4. CASE UNCHANGED vars
  BY <1>4 DEF vars
<1>5. QED
  BY <1>1, <1>2, <1>3, <1>4 DEF ScriptStep, Finished

\* A step keeps the types, were the counters integers.
LEMMA StepTypes == Types(Nat) /\ [Next]_vars => Types(Int)'
  BY CheckTypes, MainTypes, RunnerTypes, EnvironmentTypes DEF Next

-----------------------------------------------------------------------------
(* The mutex.                                                              *)

\* The main thread, the runners and the owner of a free mutex are distinct.
LEMMA ActorsDistinct == Main \notin Runners /\ Nobody \notin Actors /\ Nobody \notin Jobs
  BY SetsAssumption DEF Runners, Actors

\* Initially nobody holds the mutex and there is nothing to check.
LEMMA MutexInit == Init => MutexInv
  BY ActorsDistinct DEF Init, MutexInv, Actors, MainPCs, RunnerPCs, Holding

\* A check leaves the mutex with its owner, who may get stuck.
LEMMA CheckMutex ==
  ASSUME Types(Nat), MutexInv, CheckStep
  PROVE  MutexInv'
<1> USE ActorsDistinct DEF Types, MutexInv, MainPCs, RunnerPCs, Actors, Holding
<1>1. mutex \in Actors /\ pc[mutex] # "stuck" /\ todo # {}
  BY DEF CheckStep, Check, Unchanged, Fail, Spawn, StartStuck, Wait, Update
<1> PICK d \in Deps : Check(d)
  BY DEF CheckStep
<1>2. CASE Unchanged(d)
  BY <1>1, <1>2 DEF Unchanged
<1>3. CASE Fail(d)
  BY <1>1, <1>3 DEF Fail, Update, JobFinished, NotifyMain
<1>4. CASE Spawn(d)
  <2>1. PICK k \in Threads : pc[<<Target[d], k>>] = "idle"
                             /\ pc' = [pc EXCEPT ![<<Target[d], k>>] = "starting"]
    BY <1>4 DEF Spawn
  <2>2. <<Target[d], k>> \in Runners
    BY DepsAssumption DEF Runners
  <2>3. QED
    BY <1>1, <1>4, <2>1, <2>2 DEF Spawn, Update
<1>5. CASE StartStuck(d)
  BY <1>1, <1>5 DEF StartStuck, Update
<1>6. CASE Wait(d)
  BY <1>1, <1>6 DEF Wait, Update
<1>7. QED
  BY <1>2, <1>3, <1>4, <1>5, <1>6 DEF Check

\* The main thread takes and leaves the mutex where it should.
LEMMA MainMutex ==
  ASSUME Types(Nat), MutexInv, MainStep
  PROVE  MutexInv'
<1> USE ActorsDistinct DEF Types, MutexInv, MainPCs, RunnerPCs, Actors, Holding
<1>1. ASSUME NEW j \in Jobs, Submit(j)
      PROVE  MutexInv'
  BY <1>1 DEF Submit, CanSubmit
<1>2. ASSUME NEW j \in Jobs, SkipSubmit(j)
      PROVE  MutexInv'
  BY <1>2 DEF SkipSubmit
<1>3. CASE Registered
  BY <1>3 DEF Registered
<1>4. CASE SubmitSpawn
  <2>1. PICK k \in Threads : /\ pc[<<current, k>>] = "idle"
                             /\ pc' = [pc EXCEPT ![<<current, k>>] = "starting", ![Main] = "submit"]
    BY <1>4 DEF SubmitSpawn
  <2>2. <<current, k>> # Main
    BY <1>4, <2>1 DEF SubmitSpawn
  <2>3. QED
    BY <1>4, <2>1, <2>2 DEF SubmitSpawn
<1>5. CASE SubmitGiveUp
  BY <1>5 DEF SubmitGiveUp
<1>6. CASE SubmitEnd
  BY <1>6 DEF SubmitEnd
<1>7. CASE StartWaiting
  BY <1>7 DEF StartWaiting
<1>8. CASE CountJobs
  BY <1>8 DEF CountJobs
<1>9. CASE WaitLoop
  BY <1>9 DEF WaitLoop
<1>10. QED
  BY <1>1, <1>2, <1>3, <1>4, <1>5, <1>6, <1>7, <1>8, <1>9 DEF MainStep

\* A runner takes and leaves the mutex where it should.
LEMMA RunnerMutex ==
  ASSUME Types(Nat), MutexInv, NEW r \in Runners, RunnerStep(r)
  PROVE  MutexInv'
<1> USE ActorsDistinct DEF Types, MutexInv, MainPCs, RunnerPCs, Actors, Holding
<1>1. CASE AcquireLocks(r)
  BY <1>1 DEF AcquireLocks
<1>2. CASE AbortStart(r)
  BY <1>2 DEF AbortStart
<1>3. CASE AlreadyDone(r)
  BY <1>3 DEF AlreadyDone, JobFinished, NotifyMain
<1>4. CASE Attach(r)
  BY <1>4 DEF Attach
<1>5. CASE LockFile(r)
  BY <1>5 DEF LockFile
<1>6. CASE LockFileTimeout(r)
  BY <1>6 DEF LockFileTimeout
<1>7. CASE Launch(r)
  BY <1>7 DEF Launch
<1>8. CASE Reap(r)
  BY <1>8 DEF Reap
<1>9. CASE LeaveRun(r)
  BY <1>9 DEF LeaveRun
<1>10. CASE Complete(r)
  BY <1>10 DEF Complete, JobFinished, NotifyMain
<1>11. CASE ReleaseLocks(r)
  BY <1>11 DEF ReleaseLocks
<1>12. CASE EndRunner(r)
  BY <1>12 DEF EndRunner
<1>13. QED
  BY <1>1, <1>2, <1>3, <1>4, <1>5, <1>6, <1>7, <1>8, <1>9, <1>10, <1>11, <1>12
     DEF RunnerStep

\* Scripts and signals do not touch the mutex.
LEMMA EnvironmentMutex ==
  ASSUME Types(Nat), MutexInv,
         (\E j \in Jobs : ScriptStep(j)) \/ Interrupt \/ Finished \/ UNCHANGED vars
  PROVE  MutexInv'
<1> USE ActorsDistinct DEF Types, MutexInv, MainPCs, RunnerPCs, Actors, Holding
<1>1. CASE Interrupt
  BY <1>1 DEF Interrupt, NotifyMain
<1>2. CASE UNCHANGED << mutex, pc, todo >>
  BY <1>2
<1>3. QED
  BY <1>1, <1>2 DEF ScriptStep, WritePid, Exit, Finished, vars

\* WORKSPACE_MUTEX excludes: one thread at a time is where it is held.
LEMMA StepMutex == Types(Nat) /\ MutexInv /\ [Next]_vars => MutexInv'
  BY CheckMutex, MainMutex, RunnerMutex, EnvironmentMutex DEF Next

-----------------------------------------------------------------------------
(* The locks of the runners and the tokens.                                *)

\* Initially no runner owns a lock.
LEMMA LocksInit == Init => LocksInv
  BY ActorsDistinct DEF Init, LocksInv, Actors, Running

\* The steps of the others leave a runner where it is, or free, or starting.
LEMMA StepLocks == Types(Nat) /\ MutexInv /\ LocksInv /\ [Next]_vars => LocksInv'
<1> SUFFICES ASSUME Types(Nat), MutexInv, LocksInv, [Next]_vars, NEW q \in Runners
             PROVE  /\ locks'[q] \subseteq TokensOf(q)
                    /\ pc'[q] \in {"idle", "starting", "released"} => locks'[q] = {}
                    /\ Running(q)' => locks'[q] = TokensOf(q)
  BY DEF LocksInv, TokensOf
<1> USE ActorsDistinct DEF Types, LocksInv, Running, Actors
<1>1. CASE locks' = locks /\ pc'[q] = pc[q]
  BY <1>1
<1>2. CASE CheckStep
  <2> PICK d \in Deps : Check(d)
    BY <1>2 DEF CheckStep
  <2>1. locks' = locks
    BY DEF Check, Unchanged, Fail, Spawn, StartStuck, Wait, Update, lockVars
  <2>2. pc'[q] \in {pc[q], "stuck"} \/ (pc[q] = "idle" /\ pc'[q] = "starting")
    <3>1. CASE Unchanged(d) \/ Wait(d)
      BY <3>1 DEF Unchanged, Wait
    <3>2. CASE Fail(d)
      BY <3>2 DEF Fail, JobFinished, NotifyMain
    <3>3. CASE Spawn(d)
      BY <3>3, DepsAssumption DEF Spawn, Runners
    <3>4. CASE StartStuck(d)
      BY <3>4, <1>2 DEF StartStuck, CheckStep
    <3>5. QED
      BY <3>1, <3>2, <3>3, <3>4 DEF Check
  <2>3. QED
    BY <2>1, <2>2
<1>3. CASE MainStep
  <2>1. locks' = locks
    BY <1>3 DEF MainStep, Submit, SkipSubmit, Registered, SubmitSpawn, SubmitGiveUp, SubmitEnd,
       StartWaiting, CountJobs, WaitLoop, lockVars
  <2>2. pc'[q] = pc[q] \/ (pc[q] = "idle" /\ pc'[q] = "starting")
    <3>1. CASE SubmitSpawn
      BY <3>1 DEF SubmitSpawn
    <3>2. CASE ~SubmitSpawn
      BY <1>3, <3>2 DEF MainStep, Submit, SkipSubmit, Registered, SubmitGiveUp, SubmitEnd,
         StartWaiting, CountJobs, WaitLoop
    <3>3. QED
      BY <3>1, <3>2
  <2>3. QED
    BY <2>1, <2>2
<1>4. ASSUME NEW r \in Runners, RunnerStep(r)
      PROVE  /\ locks'[q] \subseteq TokensOf(q)
             /\ pc'[q] \in {"idle", "starting", "released"} => locks'[q] = {}
             /\ Running(q)' => locks'[q] = TokensOf(q)
  <2>1. CASE AcquireLocks(r)
    BY <2>1 DEF AcquireLocks, TokensOf, TokenDeps
  <2>2. CASE ReleaseLocks(r)
    BY <2>2 DEF ReleaseLocks
  <2>3. CASE AlreadyDone(r)
    BY <2>3 DEF AlreadyDone, JobFinished, NotifyMain, lockVars
  <2>4. CASE Complete(r)
    BY <2>4 DEF Complete, JobFinished, NotifyMain, lockVars
  <2>5. CASE AbortStart(r) \/ Attach(r) \/ LockFile(r) \/ LockFileTimeout(r) \/ Launch(r)
             \/ Reap(r) \/ LeaveRun(r)
    BY <2>5 DEF AbortStart, Attach, LockFile, LockFileTimeout, Launch, Reap, LeaveRun, lockVars
  <2>6. CASE EndRunner(r)
    BY <2>6 DEF EndRunner, lockVars
  <2>7. QED
    BY <1>4, <2>1, <2>2, <2>3, <2>4, <2>5, <2>6 DEF RunnerStep
<1>5. CASE (\E j \in Jobs : ScriptStep(j)) \/ Interrupt \/ Finished \/ UNCHANGED vars
  <2>1. locks' = locks /\ pc'[q] = pc[q]
    BY <1>5 DEF ScriptStep, WritePid, Exit, Interrupt, NotifyMain, Finished, vars, lockVars
  <2>2. QED
    BY <2>1, <1>1
<1>6. QED
  BY <1>2, <1>3, <1>4, <1>5 DEF Next

\* Initially no token is used.
LEMMA TokensInit == Init => TokensInv
<1> SUFFICES ASSUME Init, NEW t \in Tokens
             PROVE  usedTokens[t] = Cardinality(Units(Held(t))) /\ usedTokens[t] <= Limit[t]
  BY DEF TokensInv
<1>1. Held(t) = {}
  BY DEF Init, Held, Live
<1>2. Units({}) = {}
  BY DEF Units, UnitsOf
<1>3. usedTokens[t] = 0 /\ 0 <= Limit[t]
  BY DepsAssumption DEF Init
<1>4. Cardinality(Units(Held(t))) = 0
  BY <1>1, <1>2, FS_EmptySet
<1>5. QED
  BY <1>3, <1>4

\* A runner that locks a token adds what it needs, and that much was left.
LEMMA AcquireTokens ==
  ASSUME Types(Nat), LocksInv, TokensInv, NEW r \in Runners, AcquireLocks(r)
  PROVE  TokensInv'
<1> USE DEF Types
<1>1. locks[r] = {} /\ locks' = [locks EXCEPT ![r] = TokensOf(r)]
  BY DEF AcquireLocks, LocksInv
<1>2. \A e \in Deps : Live(e)' <=> Live(e) \/ e \in TokensOf(r)
  BY <1>1 DEF Live
<1>3. CASE Missing(r) = {} /\ UNCHANGED usedTokens
  <2>1. \A e \in Deps : Live(e)' <=> Live(e)
    BY <1>2, <1>3 DEF Missing, TokensOf, TokenDeps
  <2>2. \A t \in Tokens : Held(t)' = Held(t)
    BY <2>1 DEF Held, TokenDeps
  <2>3. QED
    BY <1>3, <2>2 DEF TokensInv
<1>4. ASSUME NEW d \in Missing(r), TokenStatus(d) = "OK",
             usedTokens' = [usedTokens EXCEPT ![Origin[d]] = @ + Value[d]]
      PROVE  TokensInv'
  <2>1. d \in TokenDeps /\ ~Live(d) /\ Target[d] = r[1] /\ d \in TokensOf(r)
    BY DEF Missing, TokensOf, DepsOf
  <2>2. TokensOf(r) = {d}
    BY <2>1, AtMostOneToken DEF TokensOf, DepsOf, TokenDeps
  <2>3. d \in Deps /\ Origin[d] \in Tokens /\ Value[d] \in Nat
    BY <2>1, DepsAssumption DEF TokenDeps
  <2> SUFFICES ASSUME NEW t \in Tokens
               PROVE  usedTokens'[t] = Cardinality(Units(Held(t)')) /\ usedTokens'[t] <= Limit[t]
    BY DEF TokensInv, Units, UnitsOf
  <2>4. CASE t = Origin[d]
    <3>1. Held(t)' = Held(t) \cup {d} /\ d \notin Held(t) /\ Held(t) \in SUBSET Deps
      BY <1>2, <2>1, <2>2, <2>4 DEF Held, TokenDeps
    <3>2. Cardinality(Units(Held(t)')) = Cardinality(Units(Held(t))) + Value[d]
      BY <2>3, <3>1, NeedsAdd
    <3>3. usedTokens'[t] = usedTokens[t] + Value[d] /\ usedTokens[t] + Value[d] <= Limit[t]
      BY <1>4, <2>3, <2>4 DEF TokenStatus
    <3>4. QED
      BY <3>2, <3>3 DEF TokensInv
  <2>5. CASE t # Origin[d]
    <3>1. Held(t)' = Held(t)
      BY <1>2, <2>2, <2>5 DEF Held, TokenDeps
    <3>2. usedTokens'[t] = usedTokens[t]
      BY <1>4, <2>5
    <3>3. QED
      BY <3>1, <3>2 DEF TokensInv
  <2>6. QED
    BY <2>4, <2>5
<1>5. QED
  BY <1>3, <1>4 DEF AcquireLocks

\* The last owner of a lock gives back what it locked.
LEMMA ReleaseTokens ==
  ASSUME Types(Nat), LocksInv, TokensInv, NEW r \in Runners, ReleaseLocks(r)
  PROVE  TokensInv'
<1> USE DEF Types
<1>1. locks[r] \subseteq TokensOf(r) /\ locks' = [locks EXCEPT ![r] = {}]
  BY DEF ReleaseLocks, LocksInv
<1>2. \A e \in Deps : Live(e)' <=> \E q \in Runners \ {r} : e \in locks[q]
  BY <1>1 DEF Live
<1>3. CASE LastOwned(r) = {} /\ UNCHANGED << usedTokens, todo >>
  <2>1. \A e \in Deps : Live(e)' <=> Live(e)
    BY <1>2, <1>3 DEF LastOwned, Live
  <2>2. \A t \in Tokens : Held(t)' = Held(t)
    BY <2>1 DEF Held, TokenDeps
  <2>3. QED
    BY <1>3, <2>2 DEF TokensInv
<1>4. ASSUME NEW d \in LastOwned(r),
             usedTokens' = [usedTokens EXCEPT ![Origin[d]] = @ - Value[d]]
      PROVE  TokensInv'
  <2>1. d \in TokenDeps /\ Target[d] = r[1] /\ d \in locks[r]
    BY <1>1 DEF LastOwned, TokensOf, DepsOf
  <2>2. locks[r] = {d}
    BY <1>1, <2>1, AtMostOneToken DEF TokensOf, DepsOf, TokenDeps
  <2>3. d \in Deps /\ Origin[d] \in Tokens /\ Value[d] \in Nat
    BY <2>1, DepsAssumption DEF TokenDeps
  <2>4. \A e \in Deps : Live(e)' <=> Live(e) /\ e # d
    BY <1>2, <2>2 DEF LastOwned, Live
  <2> SUFFICES ASSUME NEW t \in Tokens
               PROVE  usedTokens'[t] = Cardinality(Units(Held(t)')) /\ usedTokens'[t] <= Limit[t]
    BY DEF TokensInv, Units, UnitsOf
  <2>5. CASE t = Origin[d]
    <3>1. Held(t) = Held(t)' \cup {d} /\ d \notin Held(t)' /\ Held(t)' \in SUBSET Deps
      BY <2>1, <2>4, <2>5 DEF Held, TokenDeps, Live
    <3>2. Cardinality(Units(Held(t))) = Cardinality(Units(Held(t)')) + Value[d]
      BY <2>3, <3>1, NeedsAdd
    <3>3. usedTokens'[t] = usedTokens[t] - Value[d]
      BY <1>4, <2>3, <2>5
    <3>4. Cardinality(Units(Held(t)')) \in Nat /\ Limit[t] \in Nat /\ usedTokens[t] \in Nat
      BY <3>1, NeedsFinite, DepsAssumption
    <3>5. QED
      BY <2>3, <3>2, <3>3, <3>4 DEF TokensInv
  <2>6. CASE t # Origin[d]
    <3>1. Held(t)' = Held(t)
      BY <2>4, <2>6 DEF Held, TokenDeps
    <3>2. usedTokens'[t] = usedTokens[t]
      BY <1>4, <2>6
    <3>3. QED
      BY <3>1, <3>2 DEF TokensInv
  <2>7. QED
    BY <2>5, <2>6
<1>5. QED
  BY <1>3, <1>4 DEF ReleaseLocks

\* Only runners that lock and release touch the tokens, and they count right.
LEMMA StepTokens == Types(Nat) /\ LocksInv /\ TokensInv /\ [Next]_vars => TokensInv'
<1> SUFFICES ASSUME Types(Nat), LocksInv, TokensInv, [Next]_vars
             PROVE  TokensInv'
  OBVIOUS
<1>1. ASSUME UNCHANGED lockVars
      PROVE  TokensInv'
  BY <1>1 DEF TokensInv, Held, Live, lockVars
<1>2. CheckStep => UNCHANGED lockVars
  BY DEF CheckStep, Check, Unchanged, Fail, Spawn, StartStuck, Wait, Update
<1>3. MainStep => UNCHANGED lockVars
  BY DEF MainStep, Submit, SkipSubmit, Registered, SubmitSpawn, SubmitGiveUp, SubmitEnd,
     StartWaiting, CountJobs, WaitLoop
<1>4. ASSUME NEW r \in Runners, RunnerStep(r)
      PROVE  AcquireLocks(r) \/ ReleaseLocks(r) \/ UNCHANGED lockVars
  BY <1>4 DEF RunnerStep, AbortStart, AlreadyDone, Attach, LockFile, LockFileTimeout, Launch,
     Reap, LeaveRun, Complete, EndRunner
<1>5. (\E j \in Jobs : ScriptStep(j)) \/ Interrupt \/ Finished \/ UNCHANGED vars
        => UNCHANGED lockVars
  BY DEF ScriptStep, WritePid, Exit, Interrupt, Finished, vars
<1>6. QED
  BY <1>1, <1>2, <1>3, <1>4, <1>5, AcquireTokens, ReleaseTokens DEF Next

-----------------------------------------------------------------------------
(* The count of unsatisfied dependencies.                                  *)

\* UnsatisfiedInv, for one job.
Counted(j) == unsatisfied[j] = Cardinality({d \in DepsOf(j) : oldStatus[d] # "OK"})

\* Initially every dependency is counted as unsatisfied.
LEMMA UnsatisfiedInit == Init => UnsatisfiedInv
<1> SUFFICES ASSUME Init, NEW j \in Jobs PROVE Counted(j)
  BY DEF UnsatisfiedInv, Counted
<1>1. {d \in DepsOf(j) : oldStatus[d] # "OK"} = DepsOf(j)
  BY DEF Init, DepsOf
<1>2. QED
  BY <1>1 DEF Init, Counted

\* A dependency that goes to status s is counted as it should be.
LEMMA Recount ==
  ASSUME Types(Nat), UnsatisfiedInv, NEW d \in Deps, NEW s \in Statuses,
         oldStatus' = [oldStatus EXCEPT ![d] = s],
         unsatisfied' = [unsatisfied EXCEPT ![Target[d]] = Unsatisfied(d, s)]
  PROVE  UnsatisfiedInv'
<1> DEFINE Open(j) == {e \in DepsOf(j) : oldStatus[e] # "OK"}
<1> USE DEF Types
<1>1. Target[d] \in Jobs
  BY DepsAssumption
<1> SUFFICES ASSUME NEW j \in Jobs
             PROVE  unsatisfied'[j] = Cardinality(Open(j)')
  BY DEF UnsatisfiedInv, DepsOf
<1>2. unsatisfied[j] = Cardinality(Open(j)) /\ IsFiniteSet(Open(j)) /\ unsatisfied[j] \in Nat
  BY DepsFinite DEF UnsatisfiedInv, DepsOf
<1>3. CASE j # Target[d]
  <2>1. Open(j)' = Open(j)
    BY <1>3 DEF DepsOf
  <2>2. unsatisfied'[j] = unsatisfied[j]
    BY <1>3
  <2>3. QED
    BY <1>2, <2>1, <2>2
<1>4. CASE j = Target[d]
  <2>1. d \in DepsOf(j)
    BY <1>4 DEF DepsOf
  <2>2. unsatisfied'[j] = unsatisfied[j] - (Satisfied(s) - Satisfied(oldStatus[d]))
    BY <1>1, <1>4 DEF Unsatisfied
  <2>3. CASE s = "OK" /\ oldStatus[d] # "OK"
    <3>1. Open(j)' = Open(j) \ {d} /\ d \in Open(j)
      BY <2>1, <2>3 DEF DepsOf
    <3>2. Cardinality(Open(j) \ {d}) = Cardinality(Open(j)) - 1
      BY <1>2, <3>1, FS_RemoveElement
    <3>3. unsatisfied'[j] = unsatisfied[j] - 1
      BY <1>2, <2>2, <2>3 DEF Satisfied
    <3>4. QED
      BY <1>2, <3>1, <3>2, <3>3
  <2>4. CASE s # "OK" /\ oldStatus[d] = "OK"
    <3>1. Open(j)' = Open(j) \cup {d} /\ d \notin Open(j)
      BY <2>1, <2>4 DEF DepsOf
    <3>2. Cardinality(Open(j) \cup {d}) = Cardinality(Open(j)) + 1
      BY <1>2, <3>1, FS_AddElement
    <3>3. unsatisfied'[j] = unsatisfied[j] + 1
      BY <1>2, <2>2, <2>4 DEF Satisfied
    <3>4. QED
      BY <1>2, <3>1, <3>2, <3>3
  <2>5. CASE (s = "OK") <=> (oldStatus[d] = "OK")
    <3>1. Open(j)' = Open(j)
      BY <2>5 DEF DepsOf
    <3>2. unsatisfied'[j] = unsatisfied[j]
      BY <1>2, <2>2, <2>5 DEF Satisfied
    <3>3. QED
      BY <1>2, <3>1, <3>2
  <2>6. QED
    BY <2>3, <2>4, <2>5
<1>5. QED
  BY <1>3, <1>4

\* Job::_unsatisfied follows every change of Dependency::_oldStatus.
LEMMA StepUnsatisfied == Types(Nat) /\ UnsatisfiedInv /\ [Next]_vars => UnsatisfiedInv'
<1> SUFFICES ASSUME Types(Nat), UnsatisfiedInv, [Next]_vars
             PROVE  UnsatisfiedInv'
  OBVIOUS
<1>1. ASSUME UNCHANGED << unsatisfied, oldStatus >>
      PROVE  UnsatisfiedInv'
  BY <1>1 DEF UnsatisfiedInv, DepsOf
<1>2. ASSUME NEW d \in Deps, Update(d)
      PROVE  UnsatisfiedInv'
  <2>1. Status(d) \in Statuses
    BY DEF Status, TokenStatus, JobStatus, Statuses
  <2>2. QED
    BY <1>2, <2>1, Recount DEF Update
<1>3. ASSUME NEW r \in Runners, AbortStart(r)
      PROVE  UnsatisfiedInv'
  <2>1. PICK d \in Missing(r) : /\ oldStatus' = [oldStatus EXCEPT ![d] = "WAIT"]
                                /\ unsatisfied' = [unsatisfied EXCEPT ![r[1]] = Unsatisfied(d, "WAIT")]
    BY <1>3 DEF AbortStart
  <2>2. d \in Deps /\ Target[d] = r[1] /\ "WAIT" \in Statuses
    BY <2>1 DEF Missing, TokensOf, DepsOf, Statuses
  <2>3. QED
    BY <2>1, <2>2, Recount
<1>4. CheckStep => UNCHANGED << unsatisfied, oldStatus >> \/ \E d \in Deps : Update(d)
  BY DEF CheckStep, Check, Unchanged, Fail, Spawn, StartStuck, Wait, schedVars
<1>5. MainStep => UNCHANGED << unsatisfied, oldStatus >>
  BY DEF MainStep, Submit, SkipSubmit, Registered, SubmitSpawn, SubmitGiveUp, SubmitEnd,
     StartWaiting, CountJobs, WaitLoop, schedVars
<1>6. ASSUME NEW r \in Runners, RunnerStep(r)
      PROVE  AbortStart(r) \/ UNCHANGED << unsatisfied, oldStatus >>
  BY <1>6 DEF RunnerStep, AcquireLocks, AlreadyDone, Attach, LockFile, LockFileTimeout, Launch,
     Reap, LeaveRun, Complete, ReleaseLocks, EndRunner, schedVars
<1>7. (\E j \in Jobs : ScriptStep(j)) \/ Interrupt \/ Finished \/ UNCHANGED vars
        => UNCHANGED << unsatisfied, oldStatus >>
  BY DEF ScriptStep, WritePid, Exit, Interrupt, Finished, vars, schedVars
<1>8. QED
  BY <1>1, <1>2, <1>3, <1>4, <1>5, <1>6, <1>7 DEF Next

-----------------------------------------------------------------------------
(* Starts, and the files of the jobs that are done.                        *)

\* Initially nothing is seen done, provided that Job::_state does not hold DONE.
LEMMA DoneInit == "DONE" \notin Unset => (Init => DoneInv)
  BY SetsAssumption, ActorsDistinct
     DEF Init, DoneInv, Actors, Runners, Running, JobDeps

\* FILE.done is never removed.
LEMMA DoneStays ==
  ASSUME Types(Nat), [Next]_vars
  PROVE  \A j \in Jobs : files[j] = "done" => files'[j] = "done"
<1> USE DEF Types
<1>1. CheckStep => files' = files
  BY DEF CheckStep, Check, Unchanged, Fail, Spawn, StartStuck, Wait, Update, diskVars
<1>2. MainStep => files' = files
  BY DEF MainStep, Submit, SkipSubmit, Registered, SubmitSpawn, SubmitGiveUp, SubmitEnd,
     StartWaiting, CountJobs, WaitLoop, diskVars
<1>3. ASSUME NEW r \in Runners, RunnerStep(r)
      PROVE  Launch(r) \/ files' = files
  BY <1>3 DEF RunnerStep, AcquireLocks, AbortStart, AlreadyDone, Attach, LockFile,
     LockFileTimeout, Reap, LeaveRun, Complete, ReleaseLocks, EndRunner, diskVars
<1>4. \A r \in Runners : Launch(r) => \A j \in Jobs : files[j] = "done" => files'[j] = "done"
  BY DEF Launch
<1>5. \A j \in Jobs : ScriptStep(j) => \A i \in Jobs : files[i] = "done" => files'[i] = "done"
  BY DEF ScriptStep, WritePid, Exit
<1>6. Interrupt \/ Finished \/ UNCHANGED vars => files' = files
  BY DEF Interrupt, Finished, vars, diskVars
<1>7. QED
  BY <1>1, <1>2, <1>3, <1>4, <1>5, <1>6 DEF Next

\* The first two conjuncts of DoneInv: what is said of a job and of its process.
DoneOnDisk ==
  /\ \A j \in Jobs : state[j] = "DONE" => files[j] = "done"
  /\ \A r \in Runners :
       pc[r] \in {"executing", "attached"} /\ outcome[r] = "ok" => files[r[1]] = "done"

\* A job gets DONE, and a process the code 0, only once FILE.done is there.
LEMMA StepDoneOnDisk ==
  ASSUME Types(Nat), MutexInv, DoneOnDisk, [Next]_vars
  PROVE  DoneOnDisk'
<1> USE ActorsDistinct DEF Types, Actors
<1>1. \A r \in Runners : r[1] \in Jobs
  BY DEF Runners
<1>2. \A j \in Jobs : files[j] = "done" => files'[j] = "done"
  BY DoneStays
<1>3. ASSUME UNCHANGED << state, outcome >>,
             \A q \in Runners : pc'[q] \in {"executing", "attached"} => pc'[q] = pc[q]
      PROVE  DoneOnDisk'
  BY <1>1, <1>2, <1>3 DEF DoneOnDisk
<1>4. CASE CheckStep
  <2> PICK d \in Deps : Check(d)
    BY <1>4 DEF CheckStep
  <2>1. UNCHANGED << state, outcome >>
    BY DEF Check, Unchanged, Fail, Spawn, StartStuck, Wait, Update, schedVars, diskVars
  <2>2. \A q \in Runners : pc'[q] \in {"executing", "attached"} => pc'[q] = pc[q]
    <3>1. CASE Unchanged(d) \/ Wait(d)
      BY <3>1 DEF Unchanged, Wait
    <3>2. CASE Fail(d)
      BY <3>2 DEF Fail, JobFinished, NotifyMain
    <3>3. CASE Spawn(d)
      BY <3>3 DEF Spawn
    <3>4. CASE StartStuck(d)
      BY <3>4 DEF StartStuck
    <3>5. QED
      BY <3>1, <3>2, <3>3, <3>4 DEF Check
  <2>3. QED
    BY <2>1, <2>2, <1>3
<1>5. CASE MainStep
  <2>1. outcome' = outcome /\ \A j \in Jobs : state'[j] = "DONE" => state[j] = "DONE"
    BY <1>5 DEF MainStep, Submit, SkipSubmit, Registered, SubmitSpawn, SubmitGiveUp, SubmitEnd,
       StartWaiting, CountJobs, WaitLoop, schedVars, diskVars
  <2>2. \A q \in Runners : pc'[q] \in {"executing", "attached"} => pc'[q] = pc[q]
    BY <1>5 DEF MainStep, Submit, SkipSubmit, Registered, SubmitSpawn, SubmitGiveUp, SubmitEnd,
       StartWaiting, CountJobs, WaitLoop
  <2>3. QED
    BY <2>1, <2>2, <1>1, <1>2 DEF DoneOnDisk
<1>6. ASSUME NEW r \in Runners, RunnerStep(r)
      PROVE  DoneOnDisk'
  <2>1. CASE AbortStart(r)
    BY <2>1, <1>1, <1>2 DEF AbortStart, DoneOnDisk, diskVars
  <2>2. CASE AlreadyDone(r)
    BY <2>2, <1>1, <1>2 DEF AlreadyDone, JobFinished, NotifyMain, DoneOnDisk, diskVars
  <2>3. CASE Attach(r)
    BY <2>3, <1>1, <1>2 DEF Attach, DoneOnDisk, schedVars
  <2>4. CASE Launch(r)
    BY <2>4, <1>1, <1>2 DEF Launch, DoneOnDisk
  <2>5. CASE Reap(r)
    BY <2>5, <1>1, <1>2 DEF Reap, DoneOnDisk, diskVars
  <2>6. CASE Complete(r)
    BY <2>6, <1>3 DEF Complete, JobFinished, NotifyMain, diskVars
  <2>7. CASE AcquireLocks(r) \/ LockFile(r) \/ LockFileTimeout(r) \/ LeaveRun(r)
             \/ ReleaseLocks(r) \/ EndRunner(r)
    BY <2>7, <1>3 DEF AcquireLocks, LockFile, LockFileTimeout, LeaveRun, ReleaseLocks, EndRunner,
       schedVars, diskVars
  <2>8. QED
    BY <1>6, <2>1, <2>2, <2>3, <2>4, <2>5, <2>6, <2>7 DEF RunnerStep
<1>7. ASSUME NEW j \in Jobs, WritePid(j)
      PROVE  DoneOnDisk'
  BY <1>7, <1>1, <1>2 DEF WritePid, DoneOnDisk, schedVars
<1>8. ASSUME NEW j \in Jobs, NEW code \in ExitCodes, Exit(j, code)
      PROVE  DoneOnDisk'
  BY <1>8, <1>1, <1>2 DEF Exit, Watchers, DoneOnDisk, schedVars
<1>9. CASE Interrupt \/ Finished \/ UNCHANGED vars
  BY <1>9, <1>3 DEF Interrupt, NotifyMain, Finished, vars, schedVars, diskVars
<1>10. QED
  BY <1>4, <1>5, <1>6, <1>7, <1>8, <1>9 DEF Next, ScriptStep

\* The third conjunct of DoneInv: what is said of a dependency.
SeenOnDisk == \A d \in JobDeps : oldStatus[d] = "OK" => files[Origin[d]] = "done"

\* A dependency is seen OK only once FILE.done of its origin is there.
LEMMA StepSeenOnDisk ==
  ASSUME Types(Nat), DoneOnDisk, SeenOnDisk, [Next]_vars
  PROVE  SeenOnDisk'
<1> USE DEF Types
<1>1. \A j \in Jobs : files[j] = "done" => files'[j] = "done"
  BY DoneStays
<1>2. \A d \in JobDeps : d \in Deps /\ Origin[d] \in Jobs /\ d \notin TokenDeps
  BY SetsAssumption DEF JobDeps, TokenDeps
<1>3. ASSUME \A d \in JobDeps : oldStatus'[d] = "OK" => oldStatus[d] = "OK"
      PROVE  SeenOnDisk'
  BY <1>1, <1>2, <1>3 DEF SeenOnDisk, JobDeps
<1>4. ASSUME NEW e \in Deps, Update(e)
      PROVE  SeenOnDisk'
  <2> SUFFICES ASSUME NEW d \in JobDeps, oldStatus'[d] = "OK"
               PROVE  files'[Origin[d]] = "done"
    BY DEF SeenOnDisk, JobDeps
  <2>1. CASE d = e
    <3>1. JobStatus(Origin[d]) = "OK"
      BY <1>2, <1>4, <2>1 DEF Update, Status
    <3>2. state[Origin[d]] = "DONE"
      BY <3>1 DEF JobStatus
    <3>3. QED
      BY <1>1, <1>2, <3>2 DEF DoneOnDisk
  <2>2. CASE d # e
    BY <1>1, <1>2, <1>4, <2>2 DEF Update, SeenOnDisk
  <2>3. QED
    BY <2>1, <2>2
<1>5. CheckStep => oldStatus' = oldStatus \/ \E d \in Deps : Update(d)
  BY DEF CheckStep, Check, Unchanged, Fail, Spawn, StartStuck, Wait, schedVars
<1>6. MainStep => oldStatus' = oldStatus
  BY DEF MainStep, Submit, SkipSubmit, Registered, SubmitSpawn, SubmitGiveUp, SubmitEnd,
     StartWaiting, CountJobs, WaitLoop, schedVars
<1>7. ASSUME NEW r \in Runners, RunnerStep(r)
      PROVE  \A d \in JobDeps : oldStatus'[d] = "OK" => oldStatus[d] = "OK"
  <2>1. CASE AbortStart(r)
    BY <1>2, <2>1 DEF AbortStart
  <2>2. CASE ~AbortStart(r)
    BY <1>7, <2>2 DEF RunnerStep, AcquireLocks, AlreadyDone, Attach, LockFile, LockFileTimeout,
       Launch, Reap, LeaveRun, Complete, ReleaseLocks, EndRunner, schedVars
  <2>3. QED
    BY <2>1, <2>2
<1>8. (\E j \in Jobs : ScriptStep(j)) \/ Interrupt \/ Finished \/ UNCHANGED vars
        => oldStatus' = oldStatus
  BY DEF ScriptStep, WritePid, Exit, Interrupt, Finished, vars, schedVars
<1>9. QED
  BY <1>3, <1>4, <1>5, <1>6, <1>7, <1>8 DEF Next

\* The job of a runner comes after jobs that are all done.
OriginsDone(j) == \A d \in DepsOf(j) \cap JobDeps : files[Origin[d]] = "done"

\* The last conjunct of DoneInv: what is said of a start.
StartsOnDisk == \A r \in Runners : pc[r] = "starting" \/ Running(r) => OriginsDone(r[1])

\* The jobs a job with no unsatisfied dependency depends on are done.
LEMMA ReadyWhenSatisfied ==
  ASSUME UnsatisfiedInv', SeenOnDisk', NEW j \in Jobs, unsatisfied'[j] = 0
  PROVE  OriginsDone(j)'
<1> DEFINE Open == {d \in DepsOf(j) : oldStatus'[d] # "OK"}
<1>1. IsFiniteSet(Open) /\ Cardinality(Open) = 0
  BY DepsFinite DEF UnsatisfiedInv, DepsOf
<1>2. Open = {}
  BY <1>1, FS_EmptySet
<1>3. QED
  BY <1>2 DEF SeenOnDisk, OriginsDone

\* A runner starts only once every dependency of its job is satisfied.
LEMMA StepStartsOnDisk ==
  ASSUME Types(Nat), StartsOnDisk, UnsatisfiedInv', SeenOnDisk', [Next]_vars
  PROVE  StartsOnDisk'
<1> USE ActorsDistinct DEF Types, Actors
<1> DEFINE On(p) == p \in {"starting", "run", "lockFile", "attached", "executing"}
<1>1. \A r \in Runners : r[1] \in Jobs
  BY DEF Runners
<1>2. \A j \in Jobs : OriginsDone(j) => OriginsDone(j)'
  BY DoneStays DEF OriginsDone, DepsOf, JobDeps
<1>3. ASSUME \A q \in Runners : On(pc'[q]) => On(pc[q])
      PROVE  StartsOnDisk'
  BY <1>1, <1>2, <1>3 DEF StartsOnDisk, Running
<1>4. ASSUME NEW j \in Jobs, OriginsDone(j)', NEW k \in Threads,
             \A q \in Runners : q # <<j, k>> /\ On(pc'[q]) => On(pc[q])
      PROVE  StartsOnDisk'
  <2> SUFFICES ASSUME NEW r \in Runners, On(pc'[r])
               PROVE  OriginsDone(r[1])'
    BY DEF StartsOnDisk, Running
  <2>1. CASE r = <<j, k>>
    <3>1. r[1] = j
      BY <2>1
    <3>2. QED
      BY <1>4, <3>1 DEF OriginsDone, DepsOf, JobDeps
  <2>2. CASE r # <<j, k>>
    <3>1. OriginsDone(r[1])
      BY <1>4, <2>2 DEF StartsOnDisk, Running
    <3>2. QED
      BY <1>1, <1>2, <3>1
  <2>3. QED
    BY <2>1, <2>2
<1>5. CASE CheckStep
  <2> PICK d \in Deps : Check(d)
    BY <1>5 DEF CheckStep
  <2>1. CASE Spawn(d)
    <3>1. Target[d] \in Jobs
      BY DepsAssumption
    <3>2. unsatisfied'[Target[d]] = 0
      BY <2>1, <3>1 DEF Spawn, Update
    <3>3. OriginsDone(Target[d])'
      BY <3>1, <3>2, ReadyWhenSatisfied
    <3>4. PICK k \in Threads : pc' = [pc EXCEPT ![<<Target[d], k>>] = "starting"]
      BY <2>1 DEF Spawn
    <3>5. QED
      BY <1>4, <3>1, <3>3, <3>4
  <2>2. CASE ~Spawn(d)
    <3>1. \A q \in Runners : On(pc'[q]) => On(pc[q])
      BY <2>2 DEF Check, Unchanged, Fail, JobFinished, NotifyMain, StartStuck, Wait
    <3>2. QED
      BY <1>3, <3>1
  <2>3. QED
    BY <2>1, <2>2
<1>6. CASE MainStep
  <2>1. CASE SubmitSpawn
    <3>1. PICK k \in Threads :
            pc' = [pc EXCEPT ![<<current, k>>] = "starting", ![Main] = "submit"]
      BY <2>1 DEF SubmitSpawn
    <3>2. CASE current \in Jobs
      <4> PICK j \in Jobs : j = current
        BY <3>2
      <4>1. OriginsDone(j)'
        BY <2>1 DEF SubmitSpawn, OriginsDone, DepsOf
      <4>2. \A q \in Runners : q # <<j, k>> /\ On(pc'[q]) => On(pc[q])
        BY <3>1
      <4>3. QED
        BY <1>4, <4>1, <4>2
    <3>3. CASE current \notin Jobs
      <4>1. \A q \in Runners : q # <<current, k>>
        BY <3>3 DEF Runners
      <4>2. QED
        BY <1>3, <3>1, <4>1
    <3>4. QED
      BY <3>2, <3>3
  <2>2. CASE ~SubmitSpawn
    <3>1. \A q \in Runners : On(pc'[q]) => On(pc[q])
      BY <1>6, <2>2 DEF MainStep, Submit, SkipSubmit, Registered, SubmitGiveUp, SubmitEnd,
         StartWaiting, CountJobs, WaitLoop
    <3>2. QED
      BY <1>3, <3>1
  <2>3. QED
    BY <2>1, <2>2
<1>7. ASSUME NEW r \in Runners, RunnerStep(r)
      PROVE  StartsOnDisk'
  <2>1. \A q \in Runners : On(pc'[q]) => On(pc[q])
    <3>1. CASE AcquireLocks(r) \/ AbortStart(r) \/ Attach(r) \/ LockFile(r)
               \/ LockFileTimeout(r) \/ Launch(r)
      BY <3>1 DEF AcquireLocks, AbortStart, Attach, LockFile, LockFileTimeout, Launch
    <3>2. CASE AlreadyDone(r) \/ Complete(r)
      BY <3>2 DEF AlreadyDone, Complete, JobFinished, NotifyMain
    <3>3. CASE Reap(r) \/ LeaveRun(r) \/ ReleaseLocks(r) \/ EndRunner(r)
      BY <3>3 DEF Reap, LeaveRun, ReleaseLocks, EndRunner
    <3>4. QED
      BY <1>7, <3>1, <3>2, <3>3 DEF RunnerStep
  <2>2. QED
    BY <1>3, <2>1
<1>8. CASE (\E j \in Jobs : ScriptStep(j)) \/ Interrupt \/ Finished \/ UNCHANGED vars
  <2>1. \A q \in Runners : On(pc'[q]) => On(pc[q])
    BY <1>8 DEF ScriptStep, WritePid, Exit, Interrupt, NotifyMain, Finished, vars
  <2>2. QED
    BY <1>3, <2>1
<1>9. QED
  BY <1>5, <1>6, <1>7, <1>8 DEF Next

-----------------------------------------------------------------------------
(* The theorems.                                                           *)

\* What is inductive whatever Job::_state holds at first.
Accounting == TypeOK /\ MutexInv /\ LocksInv /\ TokensInv /\ UnsatisfiedInv

\* The accounting holds initially.
LEMMA AccountingInit == Init => Accounting
  BY TypeInit, MutexInit, LocksInit, TokensInit, UnsatisfiedInit DEF Accounting, TypeOK

\* A step could take a counter below zero; it does not, since both count things.
LEMMA CountersAreNatural ==
  ASSUME Types(Int)', TokensInv', UnsatisfiedInv'
  PROVE  Types(Nat)'
<1>1. ASSUME NEW j \in Jobs
      PROVE  unsatisfied'[j] \in Nat
  <2>1. IsFiniteSet({d \in DepsOf(j) : oldStatus'[d] # "OK"})
    BY DepsFinite DEF DepsOf
  <2>2. QED
    BY <2>1, FS_CardinalityType DEF UnsatisfiedInv
<1>2. ASSUME NEW t \in Tokens
      PROVE  usedTokens'[t] \in Nat
  <2>1. Held(t)' \in SUBSET Deps
    BY DEF Held, TokenDeps
  <2>2. QED
    BY <2>1, NeedsFinite DEF TokensInv
<1>3. QED
  BY <1>1, <1>2 DEF Types

\* The accounting is inductive: every step keeps it.
LEMMA AccountingStep == Accounting /\ [Next]_vars => Accounting'
<1> SUFFICES ASSUME Accounting, [Next]_vars
             PROVE  Accounting'
  OBVIOUS
<1>1. Types(Nat) /\ MutexInv /\ LocksInv /\ TokensInv /\ UnsatisfiedInv
  BY DEF Accounting, TypeOK
<1>2. MutexInv' /\ LocksInv' /\ TokensInv' /\ UnsatisfiedInv'
  BY <1>1, StepMutex, StepLocks, StepTokens, StepUnsatisfied
<1>3. Types(Int)'
  BY <1>1, StepTypes
<1>4. Types(Nat)'
  BY <1>2, <1>3, CountersAreNatural
<1>5. QED
  BY <1>2, <1>4 DEF Accounting, TypeOK

\* The accounting holds in every reachable state.
THEOREM AccountingInvariant == Spec => []Accounting
<1>1. Init => Accounting
  BY AccountingInit
<1>2. Accounting /\ [Next]_vars => Accounting'
  BY AccountingStep
<1>3. QED
  BY <1>1, <1>2, PTL DEF Spec

\* Every variable keeps its type.  For the unsigned Job::_unsatisfied and
\* CounterToken::_usedTokens it means that they never wrap below zero.
THEOREM TypeCorrect == Spec => []TypeOK
<1>1. Accounting => TypeOK
  BY DEF Accounting
<1>2. QED
  BY <1>1, AccountingInvariant, PTL

\* The jobs that run need no more tokens than those that are locked.
LEMMA WithinLimit == Accounting => TokenLimit
<1> SUFFICES ASSUME Accounting, NEW t \in Tokens
             PROVE  Cardinality(Units(InUse(t))) <= Limit[t]
  BY DEF TokenLimit
<1>1. InUse(t) \subseteq Held(t)
  <2> SUFFICES ASSUME NEW d \in TokenDeps, Origin[d] = t,
                      NEW k \in Threads, Running(<<Target[d], k>>)
               PROVE  Live(d)
    BY DEF InUse, Held
  <2>1. <<Target[d], k>> \in Runners
    BY DepsAssumption DEF Runners, TokenDeps
  <2>2. d \in TokensOf(<<Target[d], k>>)
    BY DEF TokensOf, DepsOf, TokenDeps
  <2>3. QED
    BY <2>1, <2>2 DEF Accounting, LocksInv, Live
<1>2. Held(t) \in SUBSET Deps
  BY DEF Held, TokenDeps
<1>3. Cardinality(Units(InUse(t))) <= Cardinality(Units(Held(t)))
  BY <1>1, <1>2, DepsFinite, DepsAssumption, UnitsMonotone DEF Units
<1>4. usedTokens[t] = Cardinality(Units(Held(t))) /\ usedTokens[t] <= Limit[t]
  BY DEF Accounting, TokensInv
<1>5. Cardinality(Units(InUse(t))) \in Nat /\ Cardinality(Units(Held(t))) \in Nat
  BY <1>1, <1>2, NeedsFinite
<1>6. Limit[t] \in Nat
  BY DepsAssumption
<1>7. QED
  BY <1>3, <1>4, <1>5, <1>6

\* CounterToken limits what runs: at every moment the needs of the jobs that run
\* are within the limit of each token.
THEOREM TokensWithinLimit == Spec => []TokenLimit
  BY WithinLimit, AccountingInvariant, PTL

\* No token leaks: when no runner is between its locks and their release, every
\* token is free.
THEOREM TokensAllReturned == Spec => []TokensReturned
<1>1. ASSUME Accounting
      PROVE  TokensReturned
  <2> SUFFICES ASSUME \A r \in Runners : pc[r] \in {"idle", "starting", "released"},
                      NEW t \in Tokens
               PROVE  usedTokens[t] = 0
    BY DEF TokensReturned
  <2>1. \A r \in Runners : locks[r] = {}
    BY <1>1 DEF Accounting, LocksInv
  <2>2. Units(Held(t)) = {}
    BY <2>1 DEF Held, Live, Units, UnitsOf
  <2>3. Cardinality(Units(Held(t))) = 0
    BY <2>2, FS_EmptySet
  <2>4. QED
    BY <1>1, <2>3 DEF Accounting, TokensInv
<1>2. QED
  BY <1>1, AccountingInvariant, PTL

\* With the accounting, what is said of the disk is inductive.
LEMMA StepDone == Accounting /\ DoneInv /\ [Next]_vars => DoneInv'
<1> SUFFICES ASSUME Accounting, DoneInv, [Next]_vars
             PROVE  DoneInv'
  OBVIOUS
<1>1. Types(Nat) /\ MutexInv /\ DoneOnDisk /\ SeenOnDisk /\ StartsOnDisk
  BY DEF Accounting, TypeOK, DoneInv, DoneOnDisk, SeenOnDisk, StartsOnDisk, OriginsDone
<1>2. DoneOnDisk'
  BY <1>1, StepDoneOnDisk
<1>3. SeenOnDisk'
  BY <1>1, StepSeenOnDisk
<1>4. UnsatisfiedInv'
  BY AccountingStep DEF Accounting
<1>5. StartsOnDisk'
  BY <1>1, <1>3, <1>4, StepStartsOnDisk
<1>6. QED
  BY <1>2, <1>3, <1>5 DEF DoneInv, DoneOnDisk, SeenOnDisk, StartsOnDisk, OriginsDone

\* Job::start "ensures all dependencies are satisfied": a job that runs comes
\* after jobs whose results are on disk.  Job::_state has no initialiser: this is
\* true of the builds where it does not happen to hold DONE at first.
THEOREM DependenciesFirst ==
  ASSUME "DONE" \notin Unset
  PROVE  Spec => []DependenciesDone
<1>1. Init => IInv
  BY AccountingInit, DoneInit DEF IInv, Accounting
<1>2. IInv /\ [Next]_vars => IInv'
  BY AccountingStep, StepDone DEF IInv, Accounting
<1>3. IInv => DependenciesDone
  BY DEF IInv, DoneInv, DependenciesDone
<1>4. QED
  BY <1>1, <1>2, <1>3, PTL DEF Spec

-----------------------------------------------------------------------------
(* One runner at a time: what the invariant says of a runner, of a check.  *)

\* A runner is a job and the name of a thread.
LEMMA RunnerNames ==
  /\ \A r \in Runners : r[1] \in Jobs /\ r[2] \in Threads /\ r = <<r[1], r[2]>>
  /\ \A j \in Jobs, k \in Threads : /\ <<j, k>> \in Runners
                                    /\ <<j, k>>[1] = j /\ <<j, k>>[2] = k
  BY DEF Runners

\* A dependency is on a job or on a token, and on one of them only.
LEMMA DepKinds ==
  \A d \in Deps : /\ Target[d] \in Jobs
                  /\ d \in JobDeps <=> Origin[d] \in Jobs
                  /\ d \in TokenDeps <=> Origin[d] \in Tokens
                  /\ d \in JobDeps <=> d \notin TokenDeps
  BY SetsAssumption, DepsAssumption DEF JobDeps, TokenDeps

\* A runner is the only one of its job, which is registered and lacks nothing.
LEMMA OneRunnerAlone ==
  ASSUME OnceInv, NEW r \in Runners, pc[r] # "idle"
  PROVE  /\ r[1] \in jobs /\ Ready(r[1]) /\ ~Idle(r[1])
         /\ \A q \in Runners : q[1] = r[1] /\ pc[q] # "idle" => q = r
<1> USE RunnerNames
<1>1. Ready(r[1]) /\ ~Idle(r[1])
  BY DEF OnceInv, OneRunner, Idle
<1>2. r[1] \in jobs
  BY <1>1 DEF OnceInv, SubmittedInv
<1>3. ASSUME NEW q \in Runners, q[1] = r[1], pc[q] # "idle"
      PROVE  q = r
  <2>1. q = <<r[1], q[2]>> /\ q[2] \in Threads
    BY <1>3
  <2>2. q[2] = r[2]
    BY <1>3, <2>1 DEF OnceInv, OneRunner
  <2>3. QED
    BY <2>1, <2>2
<1>4. QED
  BY <1>1, <1>2, <1>3

\* As long as it may run its job, the job is waited for and has not ended.
LEMMA AheadWaits ==
  ASSUME OnceInv, NEW r \in Runners, Ahead(r)
  PROVE  /\ pc[r] # "idle" /\ r[1] \in waitingJobs /\ state[r[1]] \notin {"ERROR", "DONE"}
         /\ ~Over(r[1])
         /\ \A d \in JobDeps : Origin[d] = r[1] => oldStatus[d] \notin {"OK", "FAIL"}
<1> USE RunnerNames
<1>1. pc[r] # "idle"
  BY DEF Ahead, Running
<1>2. r[1] \in Jobs /\ r[1] \in jobs /\ Ready(r[1])
  BY <1>1, OneRunnerAlone
<1>3. ~Over(r[1])
  BY DEF Over
<1>4. state[r[1]] \notin {"ERROR", "DONE"}
  BY <1>2, <1>3 DEF OnceInv, OverInv
<1>5. \A d \in JobDeps : Origin[d] = r[1] => oldStatus[d] \notin {"OK", "FAIL"}
  BY <1>4 DEF OnceInv, SeenInv
<1>6. r[1] \in waitingJobs
  BY <1>2, <1>3 DEF OnceInv, OverInv, Ready
<1>7. QED
  BY <1>1, <1>3, <1>4, <1>5, <1>6

\* Only a dependency seen unsatisfied has something to tell its target.
LEMMA ChangedWaited ==
  ASSUME Types(Nat), OnceInv, NEW d \in todo, Changed(d)
  PROVE  /\ d \in Deps /\ Target[d] \in jobs /\ oldStatus[d] = "WAIT"
         /\ Status(d) \in {"OK", "FAIL"}
         /\ d \in TokenDeps => Status(d) = "OK"
         /\ ~Ready(Target[d]) /\ Idle(Target[d]) /\ ~Over(Target[d])
<1> USE DepKinds DEF Types
<1>1. d \in Deps /\ Target[d] \in jobs
  BY DEF OnceInv, SubmittedInv
<1>2. oldStatus[d] \in Statuses /\ Status(d) # oldStatus[d]
  BY <1>1 DEF Changed
<1>3. ASSUME d \in TokenDeps
      PROVE  oldStatus[d] = "WAIT" /\ Status(d) = "OK"
  <2>1. Status(d) = TokenStatus(d) /\ TokenStatus(d) \in {"OK", "WAIT"}
    BY <1>3 DEF Status, TokenStatus
  <2>2. oldStatus[d] # "FAIL" /\ (oldStatus[d] = "OK" => TokenStatus(d) = "OK")
    BY <1>3 DEF OnceInv, SeenInv
  <2>3. oldStatus[d] = "WAIT" /\ Status(d) = "OK"
    BY <1>2, <2>1, <2>2 DEF Statuses
  <2>4. QED
    BY <2>1, <2>3
<1>4. ASSUME d \notin TokenDeps
      PROVE  oldStatus[d] = "WAIT" /\ Status(d) \in {"OK", "FAIL"}
  <2>1. d \in JobDeps /\ Status(d) = JobStatus(Origin[d])
    BY <1>1, <1>4 DEF Status
  <2>2. /\ oldStatus[d] = "OK" => JobStatus(Origin[d]) = "OK"
        /\ oldStatus[d] = "FAIL" => JobStatus(Origin[d]) = "FAIL"
    BY <2>1 DEF OnceInv, SeenInv, JobStatus
  <2>3. oldStatus[d] = "WAIT" /\ JobStatus(Origin[d]) \in {"OK", "FAIL"}
    BY <1>2, <2>1, <2>2 DEF Statuses, JobStatus
  <2>4. QED
    BY <2>1, <2>3
<1>5. oldStatus[d] = "WAIT"
  BY <1>3, <1>4
<1>6. ~Ready(Target[d]) /\ ~Over(Target[d])
  BY <1>1, <1>5 DEF Ready, DepsOf, Over
<1>7. Idle(Target[d])
  BY <1>1, <1>6, RunnerNames DEF OnceInv, OneRunner, Idle
<1>8. QED
  BY <1>1, <1>3, <1>4, <1>6, <1>7

-----------------------------------------------------------------------------
(* The invariant behind StartedOnce, step by step.                         *)

\* A step of nobody who starts, ends or tells anything.
LEMMA QuietOnce ==
  ASSUME Types(Nat), Types(Nat)', OnceInv,
         UNCHANGED << todo, jobs, waitingJobs, state, oldStatus >>,
         usedTokens' = usedTokens \/ todo = {},
         \A t \in Tokens : usedTokens[t] <= usedTokens'[t],
         submitted \subseteq submitted',
         \A r \in Runners : /\ pc'[r] = "idle" <=> pc[r] = "idle"
                            /\ Ahead(r)' => Ahead(r)
                            /\ pc[r] = "relock" => pc'[r] = "relock"
                            /\ pc'[r] \in {"completed", "released"} => pc[r] \in {"completed", "released"},
         pc'[Main] \in {"registering", "registered"} =>
           pc[Main] \in {"registering", "registered"} /\ current' = current,
         \A j \in Jobs : Submitting(j) /\ DepsOf(j) = {} => Submitting(j)',
         exitMode' = "NONE" => exitMode = "NONE",
         pc'[Main] = "returned" /\ exitMode' # "STOPPING" => waitingJobs = {}
  PROVE  OnceInv'
<1> USE RunnerNames, DepKinds
<1>1. \A j \in Jobs : /\ Ready(j)' <=> Ready(j)
                      /\ Idle(j)' <=> Idle(j)
                      /\ Submitting(j)' => Submitting(j)
                      /\ Over(j) => Over(j)'
  BY DEF Ready, DepsOf, Idle, Over, Submitting
<1>2. SubmittedInv'
  BY <1>1 DEF OnceInv, SubmittedInv, Types, DepsOf
<1>3. OneRunner'
  BY <1>1 DEF OnceInv, OneRunner
<1>4. SeenInv'
  BY DEF OnceInv, SeenInv, TokenStatus
<1>5. OverInv'
  BY <1>1 DEF OnceInv, OverInv, DepsOf
<1>6. ToldInv'
  <2>1. ASSUME NEW d \in Deps, Status(d)' = "OK"
        PROVE  Status(d) = "OK"
    <3>1. CASE d \in TokenDeps
      <4>1. usedTokens'[Origin[d]] + Value[d] <= Limit[Origin[d]]
        BY <2>1, <3>1 DEF Status, TokenStatus
      <4>2. /\ Origin[d] \in Tokens /\ Value[d] \in Nat /\ Limit[Origin[d]] \in Nat
            /\ usedTokens[Origin[d]] \in Nat /\ usedTokens'[Origin[d]] \in Nat
            /\ usedTokens[Origin[d]] <= usedTokens'[Origin[d]]
        BY <3>1, DepsAssumption DEF Types
      <4>3. usedTokens[Origin[d]] + Value[d] <= Limit[Origin[d]]
        BY <4>1, <4>2
      <4>4. QED
        BY <3>1, <4>3 DEF Status, TokenStatus
    <3>2. CASE d \notin TokenDeps
      BY <2>1, <3>2 DEF Status, JobStatus
    <3>3. QED
      BY <3>1, <3>2
  <2>2. QED
    BY <2>1 DEF OnceInv, ToldInv
<1>7. StartInv'
  BY <1>1 DEF OnceInv, StartInv, DepsOf, Types
<1>8. QED
  BY <1>2, <1>3, <1>4, <1>5, <1>6, <1>7 DEF OnceInv

\* A check that finds nothing new: a dependency whose lock is alive was seen OK.
LEMMA UnchangedOnce ==
  ASSUME Types(Nat), LocksInv, OnceInv, NEW d \in Deps, Unchanged(d)
  PROVE  OnceInv'
<1> USE RunnerNames, DepKinds DEF Unchanged, exitVars, mainVars, schedVars, lockVars, diskVars
<1>1. UNCHANGED << Status(d), oldStatus >>
  BY DEF Status, TokenStatus, JobStatus
<1>2. Status(d) = "OK" => oldStatus[d] = "OK"
  <2>1. ASSUME NEW r \in Runners, d \in locks[r]
        PROVE  oldStatus[d] = "OK"
    <3>1. Target[d] = r[1] /\ pc[r] # "idle"
      BY <2>1 DEF LocksInv, TokensOf, DepsOf
    <3>2. QED
      BY <3>1, OneRunnerAlone DEF Ready, DepsOf
  <2>2. QED
    BY <2>1 DEF Changed, Live
<1>3. \A j \in Jobs : /\ Ready(j)' <=> Ready(j)
                      /\ Idle(j)' <=> Idle(j)
                      /\ Submitting(j)' <=> Submitting(j)
                      /\ Over(j)' <=> Over(j)
  BY DEF Ready, DepsOf, Idle, Over, Submitting, Ahead, Running
<1>4. SubmittedInv'
  BY <1>3 DEF OnceInv, SubmittedInv, Types, DepsOf, Idle
<1>5. OneRunner'
  BY <1>3 DEF OnceInv, OneRunner
<1>6. SeenInv'
  BY DEF OnceInv, SeenInv, TokenStatus
<1>7. OverInv'
  BY <1>3 DEF OnceInv, OverInv, DepsOf
<1>8. ToldInv'
  <2>1. \A e \in Deps : Status(e)' = Status(e)
    BY DEF Status, TokenStatus, JobStatus
  <2>2. QED
    BY <1>2, <2>1 DEF OnceInv, ToldInv
<1>9. StartInv'
  BY <1>3 DEF OnceInv, StartInv, Types
<1>10. QED
  BY <1>4, <1>5, <1>6, <1>7, <1>8, <1>9 DEF OnceInv

\* What a check that changes a status makes of the threads.
LEMMA UpdateThreads ==
  ASSUME Types(Nat), MutexInv, OnceInv, mutex # Nobody, pc[mutex] # "stuck",
         NEW d \in Deps, Fail(d) \/ Spawn(d) \/ StartStuck(d) \/ Wait(d)
  PROVE  /\ \A r \in Runners : /\ pc'[r] = "idle" => pc[r] = "idle"
                               /\ pc[r] = "relock" => pc'[r] = "relock"
                               /\ pc'[r] \in {"completed", "released"} => pc'[r] = pc[r]
                               /\ pc[r] = "idle" /\ pc'[r] # "idle" => r[1] = Target[d] /\ Spawn(d)
                               /\ pc[r] # "idle" /\ Ahead(r)' => Ahead(r)
         /\ pc'[Main] \in {"registering", "registered", "returned"} => pc'[Main] = pc[Main]
         /\ exitMode = "NONE" /\ pc[Main] \in {"registering", "registered"} => pc'[Main] = pc[Main]
<1> USE RunnerNames, DepKinds, ActorsDistinct DEF Types, Actors
<1>1. mutex \in Actors /\ pc[mutex] \in Holding /\ mutex \in {Main} \cup Runners
  BY DEF MutexInv
<1>2. CASE Fail(d)
  BY <1>2 DEF Fail, JobFinished, NotifyMain, Ahead, Running
<1>3. CASE Wait(d)
  BY <1>3 DEF Wait, Ahead, Running
<1>4. CASE StartStuck(d)
  BY <1>1, <1>4 DEF StartStuck, Ahead, Running, MutexInv, Holding, MainPCs, RunnerPCs
<1>5. CASE Spawn(d)
  <2>1. PICK k \in Threads : /\ pc[<<Target[d], k>>] = "idle"
                             /\ pc' = [pc EXCEPT ![<<Target[d], k>>] = "starting"]
    BY <1>5 DEF Spawn
  <2>2. <<Target[d], k>> # Main /\ <<Target[d], k>>[1] = Target[d] /\ <<Target[d], k>> \in Runners
    OBVIOUS
  <2>3. \A a \in Actors : a # <<Target[d], k>> => pc'[a] = pc[a]
    BY <2>1
  <2>4. QED
    BY <1>5, <2>1, <2>2, <2>3 DEF Ahead, Running
<1>6. QED
  BY <1>2, <1>3, <1>4, <1>5

\* A check that changes a status: the target was not ready and had no runner.
LEMMA UpdateOnce ==
  ASSUME Types(Nat), MutexInv, UnsatisfiedInv', OnceInv, mutex # Nobody, pc[mutex] # "stuck",
         NEW d \in Deps, Fail(d) \/ Spawn(d) \/ StartStuck(d) \/ Wait(d)
  PROVE  OnceInv'
<1> USE RunnerNames, DepKinds DEF Types
<1> DEFINE T == Target[d]
<1>1. d \in todo /\ Changed(d) /\ Update(d)
  BY DEF Fail, Spawn, StartStuck, Wait, Update
<1>2. /\ T \in jobs /\ T \in Jobs /\ oldStatus[d] = "WAIT" /\ Status(d) \in {"OK", "FAIL"}
      /\ d \in TokenDeps => Status(d) = "OK"
      /\ ~Ready(T) /\ Idle(T) /\ ~Over(T)
  BY <1>1, ChangedWaited
<1>3. /\ oldStatus' = [oldStatus EXCEPT ![d] = Status(d)]
      /\ UNCHANGED << exitMode, submitted, current, jobs, state, usedTokens >>
  BY <1>1 DEF Update, exitVars, mainVars, lockVars
<1>4. /\ waitingJobs' \subseteq waitingJobs
      /\ \A j \in waitingJobs \ waitingJobs' : j = T /\ Status(d) = "FAIL"
      /\ todo \ {d} \subseteq todo'
      /\ \A e \in todo' : e \in todo \/ (e \in JobDeps /\ Target[e] \in jobs)
  BY <1>2 DEF Fail, Spawn, StartStuck, Wait, JobFinished, Dependents
<1>5. /\ oldStatus'[d] = Status(d) /\ d \in DepsOf(T)
      /\ \A e \in Deps : e # d => oldStatus'[e] = oldStatus[e]
      /\ \A e \in Deps : Status(e)' = Status(e)
  BY <1>3 DEF DepsOf, Status, TokenStatus, JobStatus
<1>6. \A j \in Jobs : j # T => d \notin DepsOf(j)
  BY DEF DepsOf
<1>7. \A j \in Jobs : /\ j # T => (Ready(j)' <=> Ready(j)) /\ (Idle(j)' <=> Idle(j))
                      /\ Submitting(j)' => Submitting(j)
                      /\ Over(j) => Over(j)'
  <2>1. \A j \in Jobs : j # T => (Ready(j)' <=> Ready(j))
    BY <1>5, <1>6 DEF Ready, DepsOf
  <2>2. \A j \in Jobs : j # T => (Idle(j)' <=> Idle(j))
    BY UpdateThreads DEF Idle
  <2>3. \A j \in Jobs : Submitting(j)' => Submitting(j)
    BY <1>3, UpdateThreads DEF Submitting
  <2>4. ASSUME NEW j \in Jobs, j # T
        PROVE  Over(j) => Over(j)'
    <3>1. \A k \in Threads : ~Ahead(<<j, k>>) => ~Ahead(<<j, k>>)'
      BY <2>4, UpdateThreads DEF Ahead, Running
    <3>2. QED
      BY <1>3, <2>1, <2>3, <2>4, <3>1 DEF Over, DepsOf
  <2>5. QED
    BY <1>2, <2>1, <2>2, <2>3, <2>4
<1>8. SubmittedInv'
  <2>1. waitingJobs' \subseteq jobs' /\ jobs' \subseteq submitted' /\ \A e \in todo' : Target[e] \in jobs'
    BY <1>3, <1>4 DEF OnceInv, SubmittedInv
  <2>2. \A j \in Jobs \ jobs' : Idle(j)' /\ \A e \in DepsOf(j) : oldStatus'[e] = "WAIT"
    BY <1>2, <1>3, <1>5, <1>6, <1>7 DEF OnceInv, SubmittedInv, DepsOf
  <2>3. pc'[Main] \in {"registering", "registered"} =>
          current' \in jobs' /\ (DepsOf(current') = {} => Idle(current)')
    <3>1. SUFFICES ASSUME pc'[Main] \in {"registering", "registered"}
                   PROVE  current \in jobs /\ (DepsOf(current) = {} => Idle(current)')
      BY <1>3
    <3>2. current \in jobs /\ (DepsOf(current) = {} => Idle(current))
      BY <3>1, UpdateThreads DEF OnceInv, SubmittedInv
    <3>3. DepsOf(current) = {} => current # T
      BY <1>5
    <3>4. \A j \in Jobs : j # T => (Idle(j) => Idle(j)')
      BY <1>7
    <3>5. DepsOf(current) = {} => Idle(current)'
      BY <1>3, <3>2, <3>3, <3>4 DEF Idle
    <3>6. QED
      BY <3>2, <3>5
  <2>4. pc'[Main] = "returned" /\ exitMode' # "STOPPING" => waitingJobs' = {}
    BY <1>3, <1>4, UpdateThreads DEF OnceInv, SubmittedInv
  <2>5. QED
    BY <2>1, <2>2, <2>3, <2>4 DEF SubmittedInv, DepsOf, Idle
<1>9. OneRunner'
  <2> SUFFICES ASSUME NEW r \in Runners, pc'[r] # "idle"
               PROVE  /\ Ready(r[1])'
                      /\ \A k \in Threads : pc'[<<r[1], k>>] # "idle" => k = r[2]
    BY DEF OneRunner, Ready
  <2>1. CASE r[1] # T
    <3>1. pc[r] # "idle" /\ \A k \in Threads : pc'[<<r[1], k>>] # "idle" => pc[<<r[1], k>>] # "idle"
      BY <2>1, UpdateThreads
    <3>2. QED
      BY <1>7, <2>1, <3>1 DEF OnceInv, OneRunner, Ready
  <2>2. CASE r[1] = T
    <3>1. Spawn(d)
      BY <1>2, <2>2, UpdateThreads DEF Idle
    <3>2. Ready(T)'
      <4>1. unsatisfied'[T] = 0
        BY <1>2, <3>1 DEF Spawn, Update
      <4>2. IsFiniteSet({e \in DepsOf(T) : oldStatus'[e] # "OK"})
        BY DepsFinite DEF DepsOf
      <4>3. Cardinality({e \in DepsOf(T) : oldStatus'[e] # "OK"}) = 0
        BY <1>2, <4>1 DEF UnsatisfiedInv, DepsOf
      <4>4. {e \in DepsOf(T) : oldStatus'[e] # "OK"} = {}
        BY <4>2, <4>3, FS_EmptySet
      <4>5. QED
        BY <4>4 DEF Ready, DepsOf
    <3>3. PICK i \in Threads : pc' = [pc EXCEPT ![<<T, i>>] = "starting"]
      BY <3>1 DEF Spawn
    <3>4. \A k \in Threads : pc'[<<T, k>>] # "idle" => k = i
      BY <1>2, <3>3 DEF Idle, Actors
    <3>5. QED
      BY <2>2, <3>2, <3>4 DEF Ready
  <2>3. QED
    BY <2>1, <2>2
<1>10. SeenInv'
  <2>1. ASSUME NEW e \in JobDeps
        PROVE  /\ oldStatus'[e] = "OK" => state[Origin[e]] = "DONE"
               /\ oldStatus'[e] = "FAIL" => state[Origin[e]] = "ERROR"
    <3>1. CASE e = d
      BY <1>5, <2>1, <3>1 DEF Status, JobStatus
    <3>2. CASE e # d
      BY <1>5, <2>1, <3>2 DEF OnceInv, SeenInv, JobDeps
    <3>3. QED
      BY <3>1, <3>2
  <2>2. ASSUME NEW e \in TokenDeps
        PROVE  /\ oldStatus'[e] # "FAIL"
               /\ e \in todo' /\ oldStatus'[e] = "OK" => TokenStatus(e) = "OK"
    <3>1. CASE e = d
      BY <1>2, <1>5, <2>2, <3>1 DEF Status
    <3>2. CASE e # d
      <4>1. e \in Deps /\ e \notin JobDeps
        BY <2>2 DEF TokenDeps
      <4>2. e \in todo' => e \in todo
        BY <1>4, <4>1
      <4>3. QED
        BY <1>5, <2>2, <3>2, <4>1, <4>2 DEF OnceInv, SeenInv
    <3>3. QED
      BY <3>1, <3>2
  <2>3. QED
    BY <1>3, <2>1, <2>2 DEF SeenInv, TokenStatus
<1>11. OverInv'
  <2> SUFFICES ASSUME NEW j \in Jobs
               PROVE  /\ state[j] \in {"ERROR", "DONE"} => Over(j)'
                      /\ j \in jobs \ waitingJobs' =>
                           Over(j)' \/ \E e \in DepsOf(j) : oldStatus'[e] = "FAIL"
    BY <1>3 DEF OverInv, DepsOf
  <2>1. state[j] \in {"ERROR", "DONE"} => Over(j)'
    BY <1>7 DEF OnceInv, OverInv
  <2>2. CASE j \in jobs \ waitingJobs
    <3>1. Over(j) \/ \E e \in DepsOf(j) : oldStatus[e] = "FAIL"
      BY <2>2 DEF OnceInv, OverInv
    <3>2. QED
      BY <1>2, <1>5, <1>7, <2>1, <3>1 DEF DepsOf
  <2>3. CASE j \in waitingJobs \ waitingJobs'
    BY <1>4, <1>5, <2>1, <2>3
  <2>4. QED
    BY <2>1, <2>2, <2>3
<1>12. ToldInv'
  <2> SUFFICES ASSUME NEW e \in Deps, Target[e] \in jobs', Status(e)' = "OK", oldStatus'[e] # "OK"
               PROVE  \/ e \in todo'
                      \/ e \in JobDeps /\ \E k \in Threads : pc'[<<Origin[e], k>>] = "relock"
    BY DEF ToldInv
  <2>1. e # d /\ oldStatus[e] # "OK" /\ Target[e] \in jobs /\ Status(e) = "OK"
    BY <1>3, <1>5
  <2>2. \/ e \in todo
        \/ e \in JobDeps /\ \E k \in Threads : pc[<<Origin[e], k>>] = "relock"
    BY <2>1 DEF OnceInv, ToldInv
  <2>3. QED
    BY <1>4, <2>1, <2>2, UpdateThreads
<1>13. StartInv'
  <2>1. ASSUME exitMode = "NONE", NEW j \in waitingJobs', Ready(j)'
        PROVE  ~Idle(j)' \/ (DepsOf(j) = {} /\ Submitting(j)')
    <3>1. j \in Jobs /\ j \in waitingJobs
      BY <1>4
    <3>2. CASE j # T
      <4>1. ~Idle(j) \/ (DepsOf(j) = {} /\ Submitting(j))
        BY <1>7, <2>1, <3>1, <3>2 DEF OnceInv, StartInv
      <4>2. Submitting(j) => Submitting(j)'
        BY <1>3, <2>1, UpdateThreads DEF Submitting
      <4>3. QED
        BY <1>7, <3>1, <3>2, <4>1, <4>2
    <3>3. CASE j = T
      <4>1. unsatisfied'[T] = 0
        <5>1. Cardinality({e \in DepsOf(T) : oldStatus'[e] # "OK"}) = unsatisfied'[T]
          BY <1>2 DEF UnsatisfiedInv, DepsOf
        <5>2. {e \in DepsOf(T) : oldStatus'[e] # "OK"} = {}
          BY <2>1, <3>3 DEF Ready, DepsOf
        <5>3. QED
          BY <5>1, <5>2, FS_EmptySet
      <4>2. Status(d) = "OK"
        BY <1>5, <2>1, <3>3 DEF Ready, DepsOf
      <4>3. Unsatisfied(d, Status(d)) = 0
        BY <1>1, <1>2, <4>1 DEF Update
      <4>4. Spawn(d)
        BY <2>1, <4>2, <4>3 DEF Fail, StartStuck, Wait
      <4>5. PICK i \in Threads : pc' = [pc EXCEPT ![<<T, i>>] = "starting"]
        BY <4>4 DEF Spawn
      <4>6. QED
        BY <1>2, <3>3, <4>5 DEF Idle, Actors
    <3>4. QED
      BY <3>2, <3>3
  <2>2. ASSUME NEW r \in Runners, pc'[r] \in {"completed", "released"}
        PROVE  r[1] \notin waitingJobs'
    BY <1>4, <2>2, UpdateThreads DEF OnceInv, StartInv
  <2>3. QED
    BY <1>3, <2>1, <2>2 DEF StartInv, DepsOf
<1>14. QED
  BY <1>8, <1>9, <1>10, <1>11, <1>12, <1>13 DEF OnceInv

\* A job that is submitted has no runner yet, and waits for all it depends on.
LEMMA SubmitOnce ==
  ASSUME Types(Nat), MutexInv, OnceInv, NEW j \in Jobs, Submit(j)
  PROVE  OnceInv'
<1> USE RunnerNames, DepKinds, ActorsDistinct DEF Types, Actors
<1>1. /\ pc[Main] = "submit" /\ j \notin submitted /\ todo = {}
      /\ pc' = [pc EXCEPT ![Main] = "registering"]
      /\ current' = j
      /\ submitted' = submitted \cup {j}
      /\ waitingJobs' = waitingJobs \cup {j}
      /\ jobs' = jobs \cup {j}
      /\ todo' = DepsOf(j)
      /\ UNCHANGED << exitMode, state, oldStatus, usedTokens >>
  BY DEF Submit, CanSubmit, MutexInv, exitVars, lockVars
<1>2. j \notin jobs /\ Idle(j) /\ \A d \in DepsOf(j) : oldStatus[d] = "WAIT"
  BY <1>1 DEF OnceInv, SubmittedInv
<1>3. pc'[Main] = "registering" /\ \A r \in Runners : pc'[r] = pc[r]
  BY <1>1
<1>4. \A i \in Jobs : /\ Ready(i)' <=> Ready(i)
                      /\ Idle(i)' <=> Idle(i)
                      /\ Submitting(i)' <=> i = j
                      /\ ~Submitting(i)
                      /\ Over(i) => Over(i)'
  BY <1>1, <1>2, <1>3 DEF Ready, DepsOf, Idle, Over, Submitting, Ahead, Running
<1>5. SubmittedInv'
  <2>1. waitingJobs' \subseteq jobs' /\ jobs' \subseteq submitted' /\ \A d \in todo' : Target[d] \in jobs'
    BY <1>1 DEF OnceInv, SubmittedInv, DepsOf
  <2>2. \A i \in Jobs \ jobs' : Idle(i)' /\ \A d \in DepsOf(i) : oldStatus'[d] = "WAIT"
    BY <1>1, <1>4 DEF OnceInv, SubmittedInv
  <2>3. current' \in jobs' /\ Idle(current)'
    BY <1>1, <1>2, <1>3 DEF Idle
  <2>4. QED
    BY <1>3, <2>1, <2>2, <2>3 DEF SubmittedInv, DepsOf, Idle
<1>6. OneRunner'
  BY <1>3, <1>4 DEF OnceInv, OneRunner
<1>7. SeenInv'
  BY <1>1, <1>2 DEF OnceInv, SeenInv, TokenStatus
<1>8. OverInv'
  BY <1>1, <1>4 DEF OnceInv, OverInv, DepsOf
<1>9. ToldInv'
  <2> SUFFICES ASSUME NEW e \in Deps, Target[e] \in jobs', Status(e)' = "OK", oldStatus'[e] # "OK"
               PROVE  \/ e \in todo'
                      \/ e \in JobDeps /\ \E k \in Threads : pc'[<<Origin[e], k>>] = "relock"
    BY DEF ToldInv
  <2>1. CASE Target[e] = j
    BY <1>1, <2>1 DEF DepsOf
  <2>2. CASE Target[e] # j
    <3>1. Target[e] \in jobs /\ Status(e) = "OK" /\ oldStatus[e] # "OK"
      BY <1>1, <2>2 DEF Status, TokenStatus, JobStatus
    <3>2. e \in JobDeps /\ \E k \in Threads : pc[<<Origin[e], k>>] = "relock"
      BY <1>1, <3>1 DEF OnceInv, ToldInv
    <3>3. QED
      BY <1>3, <3>2
  <2>3. QED
    BY <2>1, <2>2
<1>10. StartInv'
  <2>1. ASSUME exitMode = "NONE", NEW i \in waitingJobs', Ready(i)'
        PROVE  ~Idle(i)' \/ (DepsOf(i) = {} /\ Submitting(i)')
    <3>1. CASE i = j
      BY <1>2, <1>4, <2>1, <3>1 DEF Ready
    <3>2. CASE i # j
      BY <1>1, <1>4, <2>1, <3>2 DEF OnceInv, StartInv
    <3>3. QED
      BY <3>1, <3>2
  <2>2. ASSUME NEW r \in Runners, pc'[r] \in {"completed", "released"}
        PROVE  r[1] \notin waitingJobs'
    <3>1. r[1] \notin waitingJobs /\ r[1] # j
      BY <1>2, <1>3, <2>2 DEF OnceInv, StartInv, Idle
    <3>2. QED
      BY <1>1, <3>1
  <2>3. QED
    BY <1>1, <2>1, <2>2 DEF StartInv, DepsOf
<1>11. QED
  BY <1>5, <1>6, <1>7, <1>8, <1>9, <1>10 DEF OnceInv

\* A job with no dependency is started by its submission and by nothing else.
LEMMA SubmitSpawnOnce ==
  ASSUME Types(Nat), OnceInv, SubmitSpawn
  PROVE  OnceInv'
<1> USE RunnerNames, DepKinds, ActorsDistinct DEF Types, Actors
<1>1. PICK j \in jobs : j = current
  BY DEF SubmitSpawn, OnceInv, SubmittedInv
<1>2. /\ pc[Main] = "registered" /\ DepsOf(j) = {} /\ j \in Jobs
      /\ UNCHANGED << exitMode, todo, current, submitted, jobs, waitingJobs, state, oldStatus,
                      usedTokens >>
  BY <1>1 DEF SubmitSpawn, exitVars, mainVars, schedVars, lockVars
<1>3. PICK k \in Threads : pc' = [pc EXCEPT ![<<j, k>>] = "starting", ![Main] = "submit"]
  BY <1>1 DEF SubmitSpawn
<1>4. /\ pc'[Main] = "submit" /\ pc'[<<j, k>>] = "starting"
      /\ \A r \in Runners : r # <<j, k>> => pc'[r] = pc[r]
  BY <1>2, <1>3
<1>5. Idle(j) /\ Ready(j) /\ Submitting(j) /\ ~Over(j)
  BY <1>1, <1>2 DEF OnceInv, SubmittedInv, Ready, Submitting, Over
<1>6. \A i \in Jobs : /\ Ready(i)' <=> Ready(i)
                      /\ ~Submitting(i)'
                      /\ Over(i) => Over(i)'
                      /\ i # j => (Idle(i)' <=> Idle(i)) /\ ~Submitting(i)
  BY <1>1, <1>2, <1>4, <1>5 DEF Ready, DepsOf, Idle, Over, Submitting, Ahead, Running
<1>7. SubmittedInv'
  BY <1>2, <1>4, <1>6 DEF OnceInv, SubmittedInv, DepsOf
<1>8. OneRunner'
  BY <1>4, <1>5, <1>6 DEF OnceInv, OneRunner, Idle
<1>9. SeenInv'
  BY <1>2 DEF OnceInv, SeenInv, TokenStatus
<1>10. OverInv'
  BY <1>2, <1>6 DEF OnceInv, OverInv, DepsOf
<1>11. ToldInv'
  <2>1. \A e \in Deps : Status(e)' = Status(e)
    BY <1>2 DEF Status, TokenStatus, JobStatus
  <2>2. \A i \in Jobs, l \in Threads : pc[<<i, l>>] = "relock" => pc'[<<i, l>>] = "relock"
    BY <1>4, <1>5 DEF Idle
  <2>3. QED
    BY <1>2, <2>1, <2>2 DEF OnceInv, ToldInv
<1>12. StartInv'
  <2>1. ~Idle(j)'
    BY <1>4 DEF Idle
  <2>2. QED
    BY <1>2, <1>4, <1>6, <2>1 DEF OnceInv, StartInv, DepsOf
<1>13. QED
  BY <1>7, <1>8, <1>9, <1>10, <1>11, <1>12 DEF OnceInv

\* A job that is given up had not ended, and has no runner.
LEMMA SubmitGiveUpOnce ==
  ASSUME Types(Nat), OnceInv, SubmitGiveUp
  PROVE  OnceInv'
<1> USE RunnerNames, DepKinds, ActorsDistinct DEF Types, Actors
<1>1. PICK j \in jobs : j = current
  BY DEF SubmitGiveUp, OnceInv, SubmittedInv
<1>2. /\ pc[Main] = "registered" /\ DepsOf(j) = {} /\ j \in Jobs /\ exitMode # "NONE"
      /\ state' = [state EXCEPT ![j] = "ERROR"] /\ pc' = [pc EXCEPT ![Main] = "submit"]
      /\ UNCHANGED << exitMode, todo, current, submitted, jobs, waitingJobs, oldStatus, usedTokens >>
  BY <1>1 DEF SubmitGiveUp, exitVars, mainVars, lockVars
<1>3. pc'[Main] = "submit" /\ \A r \in Runners : pc'[r] = pc[r]
  BY <1>2
<1>4. Idle(j) /\ Ready(j) /\ Submitting(j) /\ ~Over(j)
  BY <1>1, <1>2 DEF OnceInv, SubmittedInv, Ready, Submitting, Over
<1>5. state[j] \notin {"ERROR", "DONE"}
  BY <1>2, <1>4 DEF OnceInv, OverInv
<1>6. \A i \in Jobs : /\ Ready(i)' <=> Ready(i)
                      /\ ~Submitting(i)'
                      /\ Over(i) => Over(i)'
                      /\ Idle(i)' <=> Idle(i)
  BY <1>2, <1>3 DEF Ready, DepsOf, Idle, Over, Submitting, Ahead, Running
<1>7. Over(j)'
  BY <1>2, <1>3, <1>4, <1>6 DEF Over, Idle, Ahead, Running
<1>8. SubmittedInv'
  BY <1>2, <1>3, <1>6 DEF OnceInv, SubmittedInv, DepsOf
<1>9. OneRunner'
  BY <1>3, <1>6 DEF OnceInv, OneRunner
<1>10. SeenInv'
  BY <1>2, <1>5 DEF OnceInv, SeenInv, TokenStatus
<1>11. OverInv'
  BY <1>2, <1>6, <1>7 DEF OnceInv, OverInv, DepsOf
<1>12. ToldInv'
  <2>1. \A e \in Deps : Status(e)' = "OK" => Status(e) = "OK"
    BY <1>2 DEF Status, TokenStatus, JobStatus
  <2>2. QED
    BY <1>2, <1>3, <2>1 DEF OnceInv, ToldInv
<1>13. StartInv'
  BY <1>2, <1>3 DEF OnceInv, StartInv
<1>14. QED
  BY <1>8, <1>9, <1>10, <1>11, <1>12, <1>13 DEF OnceInv

\* The main thread keeps the invariant.
LEMMA MainOnce ==
  ASSUME Types(Nat), Types(Nat)', MutexInv, OnceInv, MainStep
  PROVE  OnceInv'
<1> USE ActorsDistinct DEF Actors
<1>1. CASE (\E j \in Jobs : Submit(j)) \/ SubmitSpawn \/ SubmitGiveUp
  BY <1>1, SubmitOnce, SubmitSpawnOnce, SubmitGiveUpOnce
<1>2. CASE (\E j \in Jobs : SkipSubmit(j)) \/ Registered \/ SubmitEnd \/ StartWaiting
           \/ CountJobs \/ WaitLoop
  <2>1. /\ UNCHANGED << todo, jobs, waitingJobs, state, oldStatus, usedTokens, exitMode, current >>
        /\ submitted \subseteq submitted'
        /\ \A r \in Runners : pc'[r] = pc[r]
    BY <1>2 DEF SkipSubmit, Registered, SubmitEnd, StartWaiting, CountJobs, WaitLoop, Types,
       exitVars, mainVars, schedVars, lockVars
  <2>2. /\ pc'[Main] \in {"registering", "registered"} => pc[Main] \in {"registering", "registered"}
        /\ pc'[Main] = "returned" => exitMode = "STOPPING" \/ waitingJobs = {} \/ pc[Main] = "returned"
        /\ pc[Main] \in {"registering", "registered"} =>
             pc'[Main] \in {"registering", "registered"} \/ DepsOf(current) # {}
    BY <1>2 DEF SkipSubmit, Registered, SubmitEnd, StartWaiting, CountJobs, WaitLoop, Types
  <2>3. \A r \in Runners : Ahead(r)' => Ahead(r)
    BY <2>1 DEF Ahead, Running
  <2>4. \A j \in Jobs : Submitting(j) /\ DepsOf(j) = {} => Submitting(j)'
    BY <2>1, <2>2 DEF Submitting
  <2>5. pc'[Main] = "returned" /\ exitMode' # "STOPPING" => waitingJobs = {}
    BY <2>1, <2>2 DEF OnceInv, SubmittedInv
  <2>6. \A t \in Tokens : usedTokens[t] <= usedTokens'[t]
    BY <2>1 DEF Types
  <2>7. QED
    BY <2>1, <2>2, <2>3, <2>4, <2>5, <2>6, QuietOnce
<1>3. QED
  BY <1>1, <1>2 DEF MainStep

\* Scripts and signals keep the invariant.
LEMMA EnvironmentOnce ==
  ASSUME Types(Nat), Types(Nat)', OnceInv,
         (\E j \in Jobs : ScriptStep(j)) \/ Interrupt \/ Finished \/ UNCHANGED vars
  PROVE  OnceInv'
<1> USE ActorsDistinct DEF Actors
<1>1. UNCHANGED << todo, jobs, waitingJobs, state, oldStatus, usedTokens, current, submitted >>
  BY DEF ScriptStep, WritePid, Exit, Interrupt, Finished, vars, exitVars, mainVars, schedVars, lockVars
<1>2. /\ \A r \in Runners : pc'[r] = pc[r]
      /\ pc'[Main] = pc[Main] \/ (pc[Main] = "blocked" /\ pc'[Main] = "woken")
      /\ exitMode' = exitMode \/ exitMode' = "STOPPING" \/ (exitMode = "NONE" /\ exitMode' = "WAITING")
  BY DEF ScriptStep, WritePid, Exit, Interrupt, NotifyMain, Finished, vars, Types,
     exitVars, mainVars, schedVars, lockVars
<1>3. \A r \in Runners : Ahead(r)' => Ahead(r)
  BY <1>2 DEF Ahead, Running
<1>4. \A j \in Jobs : Submitting(j) => Submitting(j)'
  BY <1>1, <1>2 DEF Submitting
<1>5. pc'[Main] = "returned" /\ exitMode' # "STOPPING" => waitingJobs = {}
  BY <1>2 DEF OnceInv, SubmittedInv
<1>6. \A t \in Tokens : usedTokens[t] <= usedTokens'[t]
  BY <1>1 DEF Types
<1>7. QED
  BY <1>1, <1>2, <1>3, <1>4, <1>5, <1>6, QuietOnce

\* So does a runner that takes its locks, looks for files or waits.
LEMMA RunQuietly ==
  ASSUME Types(Nat), Types(Nat)', MutexInv, OnceInv, NEW r \in Runners,
         AcquireLocks(r) \/ Attach(r) \/ LockFile(r) \/ LockFileTimeout(r) \/ LeaveRun(r)
  PROVE  OnceInv'
<1> USE ActorsDistinct DEF Actors
<1>1. UNCHANGED << todo, jobs, waitingJobs, state, oldStatus, current, submitted, exitMode >>
  BY DEF AcquireLocks, Attach, LockFile, LockFileTimeout, LeaveRun, exitVars, mainVars, schedVars
<1>2. /\ pc'[Main] = pc[Main]
      /\ \A q \in Runners \ {r} : pc'[q] = pc[q]
      /\ pc[r] \notin {"idle", "relock"} /\ pc'[r] \notin {"idle", "completed", "released", "starting"}
      /\ pc[r] = "alreadyDone" => pc'[r] = "relock"
      /\ pc[r] \in {"starting", "run", "lockFile", "alreadyDone"}
  BY DEF AcquireLocks, Attach, LockFile, LockFileTimeout, LeaveRun, Types
<1>3. \A q \in Runners : Ahead(q)' => Ahead(q)
  BY <1>2 DEF Ahead, Running
<1>4. /\ usedTokens' = usedTokens \/ todo = {}
      /\ \A t \in Tokens : usedTokens[t] <= usedTokens'[t]
  <2>1. CASE usedTokens' = usedTokens
    BY <2>1 DEF Types
  <2>2. CASE AcquireLocks(r) /\ usedTokens' # usedTokens
    <3>1. PICK d \in Missing(r) : usedTokens' = [usedTokens EXCEPT ![Origin[d]] = @ + Value[d]]
      BY <2>2 DEF AcquireLocks
    <3>2. d \in Deps /\ Origin[d] \in Tokens /\ Value[d] \in Nat
      BY <3>1, DepsAssumption DEF Missing, TokensOf, TokenDeps
    <3>3. \A t \in Tokens : usedTokens[t] <= usedTokens'[t]
      BY <3>1, <3>2 DEF Types
    <3>4. todo = {}
      BY <2>2 DEF AcquireLocks, MutexInv
    <3>5. QED
      BY <3>3, <3>4
  <2>3. QED
    BY <2>1, <2>2 DEF Attach, LockFile, LockFileTimeout, LeaveRun, lockVars
<1>5. \A j \in Jobs : Submitting(j) => Submitting(j)'
  BY <1>1, <1>2 DEF Submitting
<1>6. pc'[Main] = "returned" /\ exitMode' # "STOPPING" => waitingJobs = {}
  BY <1>1, <1>2 DEF OnceInv, SubmittedInv
<1>7. QED
  BY <1>1, <1>2, <1>3, <1>4, <1>5, <1>6, QuietOnce

\* A job that could not lock its token is not ready any more, and has no runner.
LEMMA AbortOnce ==
  ASSUME Types(Nat), MutexInv, OnceInv, NEW r \in Runners, AbortStart(r)
  PROVE  OnceInv'
<1> USE RunnerNames, DepKinds, ActorsDistinct DEF Types, Actors
<1> DEFINE j == r[1]
<1>1. PICK d \in Missing(r) : TokenStatus(d) = "WAIT" /\ oldStatus' = [oldStatus EXCEPT ![d] = "WAIT"]
  BY DEF AbortStart
<1>2. /\ pc[r] = "starting" /\ todo = {}
      /\ state' = [state EXCEPT ![j] = "READY"] /\ pc' = [pc EXCEPT ![r] = "idle"]
      /\ UNCHANGED << exitMode, todo, current, submitted, jobs, waitingJobs, usedTokens >>
  BY DEF AbortStart, MutexInv, exitVars, mainVars, lockVars
<1>3. d \in Deps /\ d \in TokenDeps /\ d \in DepsOf(j) /\ j \in Jobs /\ d \notin JobDeps
  BY <1>1 DEF Missing, TokensOf, TokenDeps
<1>4. /\ j \in jobs /\ Ready(j) /\ ~Over(j) /\ j \in waitingJobs
      /\ state[j] \notin {"ERROR", "DONE"} /\ oldStatus[d] = "OK"
      /\ \A q \in Runners : q[1] = j /\ pc[q] # "idle" => q = r
  BY <1>2, <1>3, OneRunnerAlone, AheadWaits DEF Ahead, Ready
<1>5. /\ pc'[Main] = pc[Main] /\ pc'[r] = "idle" /\ \A q \in Runners \ {r} : pc'[q] = pc[q]
      /\ oldStatus'[d] = "WAIT" /\ \A e \in Deps \ {d} : oldStatus'[e] = oldStatus[e]
      /\ state'[j] = "READY" /\ \A i \in Jobs \ {j} : state'[i] = state[i]
  BY <1>1, <1>2, <1>3
<1>6. \A i \in Jobs : i # j => d \notin DepsOf(i)
  BY <1>3 DEF DepsOf
<1>7. ~Ready(j)' /\ Idle(j)'
  BY <1>3, <1>4, <1>5 DEF Ready, Idle, DepsOf
<1>8. \A i \in Jobs : /\ i # j => (Ready(i)' <=> Ready(i)) /\ (Idle(i)' <=> Idle(i))
                      /\ Submitting(i)' <=> Submitting(i)
  BY <1>2, <1>5, <1>6 DEF Ready, Idle, DepsOf, Submitting
<1>9. \A i \in Jobs : Over(i) => Over(i)'
  <2> SUFFICES ASSUME NEW i \in Jobs, Over(i)
               PROVE  Over(i)'
    OBVIOUS
  <2>1. i # j
    BY <1>4
  <2>2. \A k \in Threads : ~Ahead(<<i, k>>)'
    BY <1>5, <2>1 DEF Over, Ahead, Running
  <2>3. QED
    BY <1>2, <1>8, <2>1, <2>2 DEF Over, DepsOf
<1>10. SubmittedInv'
  <2>1. \A i \in Jobs \ jobs' : Idle(i)' /\ \A e \in DepsOf(i) : oldStatus'[e] = "WAIT"
    BY <1>2, <1>4, <1>5, <1>6, <1>8 DEF OnceInv, SubmittedInv, DepsOf
  <2>2. DepsOf(current) = {} /\ Idle(current) => Idle(current)'
    BY <1>2, <1>5 DEF Idle
  <2>3. QED
    BY <1>2, <1>5, <2>1, <2>2 DEF OnceInv, SubmittedInv, DepsOf, Idle
<1>11. OneRunner'
  <2> SUFFICES ASSUME NEW q \in Runners, pc'[q] # "idle"
               PROVE  /\ Ready(q[1])'
                      /\ \A k \in Threads : pc'[<<q[1], k>>] # "idle" => k = q[2]
    BY DEF OneRunner, Ready
  <2>1. pc[q] # "idle" /\ q[1] # j
    BY <1>4, <1>5
  <2>2. Ready(q[1]) /\ \A k \in Threads : pc[<<q[1], k>>] # "idle" => k = q[2]
    BY <2>1 DEF OnceInv, OneRunner
  <2>3. QED
    BY <1>5, <1>8, <2>1, <2>2
<1>12. SeenInv'
  <2>1. ASSUME NEW e \in JobDeps
        PROVE  oldStatus'[e] = oldStatus[e] /\ (oldStatus[e] \in {"OK", "FAIL"} => Origin[e] # j)
    <3>1. e # d /\ e \in Deps
      BY <1>3, <2>1 DEF JobDeps
    <3>2. QED
      BY <1>4, <1>5, <2>1, <3>1 DEF OnceInv, SeenInv
  <2>2. \A e \in JobDeps : Origin[e] \in Jobs
    BY DEF JobDeps
  <2>3. \A e \in TokenDeps : oldStatus'[e] # "FAIL"
    BY <1>5 DEF OnceInv, SeenInv, TokenDeps
  <2>4. QED
    BY <1>2, <1>5, <2>1, <2>2, <2>3 DEF OnceInv, SeenInv
<1>13. OverInv'
  <2> SUFFICES ASSUME NEW i \in Jobs
               PROVE  /\ state'[i] \in {"ERROR", "DONE"} => Over(i)'
                      /\ i \in jobs \ waitingJobs =>
                           Over(i)' \/ \E e \in DepsOf(i) : oldStatus'[e] = "FAIL"
    BY <1>2 DEF OverInv, DepsOf
  <2>1. state'[i] \in {"ERROR", "DONE"} => Over(i)'
    BY <1>5, <1>9 DEF OnceInv, OverInv
  <2>2. i \in jobs \ waitingJobs => Over(i) \/ \E e \in DepsOf(i) : oldStatus[e] = "FAIL"
    BY DEF OnceInv, OverInv
  <2>3. \A e \in DepsOf(i) : oldStatus[e] = "FAIL" => oldStatus'[e] = "FAIL"
    BY <1>4, <1>5 DEF DepsOf
  <2>4. QED
    BY <1>9, <2>1, <2>2, <2>3
<1>14. ToldInv'
  <2> SUFFICES ASSUME NEW e \in Deps, Target[e] \in jobs', Status(e)' = "OK", oldStatus'[e] # "OK"
               PROVE  e \in JobDeps /\ \E k \in Threads : pc'[<<Origin[e], k>>] = "relock"
    BY DEF ToldInv
  <2>1. Status(d)' = "WAIT"
    BY <1>1, <1>2, <1>3 DEF Status, TokenStatus
  <2>2. e # d /\ oldStatus[e] # "OK" /\ Target[e] \in jobs
    BY <1>2, <1>5, <2>1
  <2>3. Status(e) = "OK"
    BY <1>2, <1>5 DEF Status, TokenStatus, JobStatus
  <2>4. e \in JobDeps /\ \E k \in Threads : pc[<<Origin[e], k>>] = "relock"
    BY <1>2, <2>2, <2>3 DEF OnceInv, ToldInv
  <2>5. \A q \in Runners : pc[q] = "relock" => pc'[q] = "relock"
    BY <1>2, <1>5
  <2>6. QED
    BY <2>4, <2>5
<1>15. StartInv'
  <2>1. \A q \in Runners : pc'[q] \in {"completed", "released"} => pc[q] = pc'[q]
    BY <1>5
  <2>2. QED
    BY <1>2, <1>7, <1>8, <2>1 DEF OnceInv, StartInv, DepsOf
<1>16. QED
  BY <1>10, <1>11, <1>12, <1>13, <1>14, <1>15 DEF OnceInv

\* A job gets its state from its only runner: nobody has seen it end before.
LEMMA EndOnce ==
  ASSUME Types(Nat), MutexInv, OnceInv, NEW r \in Runners, AlreadyDone(r) \/ Reap(r)
  PROVE  OnceInv'
<1> USE RunnerNames, DepKinds, ActorsDistinct DEF Types, Actors
<1> DEFINE j == r[1]
<1>1. Ahead(r)
  BY DEF AlreadyDone, Reap, Ahead, Running
<1>2. /\ j \in Jobs /\ j \in jobs /\ Ready(j) /\ ~Idle(j)
      /\ pc[r] # "idle" /\ pc[r] # "relock"
      /\ state[j] \notin {"ERROR", "DONE"}
      /\ \A e \in JobDeps : Origin[e] = j => oldStatus[e] \notin {"OK", "FAIL"}
      /\ \A q \in Runners : q[1] = j /\ pc[q] # "idle" => q = r
  BY <1>1, OneRunnerAlone, AheadWaits DEF Ahead, Running
<1>3. /\ UNCHANGED << exitMode, current, submitted, jobs, oldStatus, usedTokens >>
      /\ waitingJobs' \subseteq waitingJobs /\ waitingJobs \ waitingJobs' \subseteq {j}
      /\ state'[j] \in {"ERROR", "DONE"} /\ \A i \in Jobs \ {j} : state'[i] = state[i]
  BY <1>2 DEF AlreadyDone, Reap, JobFinished, exitVars, mainVars, lockVars
<1>4. /\ pc'[Main] = pc[Main] \/ (pc[Main] = "blocked" /\ pc'[Main] = "woken")
      /\ pc'[r] \in {"alreadyDone", "relock"}
      /\ \A q \in Runners \ {r} : pc'[q] = pc[q]
  BY DEF AlreadyDone, Reap, JobFinished, NotifyMain
<1>5. \/ todo' = todo /\ pc'[r] = "relock"
      \/ todo = {} /\ todo' = Dependents(j)
  BY DEF AlreadyDone, Reap, MutexInv, Holding
<1>6. \A i \in Jobs : /\ Ready(i)' <=> Ready(i)
                      /\ Idle(i)' <=> Idle(i)
                      /\ Submitting(i)' <=> Submitting(i)
  BY <1>2, <1>3, <1>4 DEF Ready, Idle, DepsOf, Submitting
<1>7. \A q \in Runners : Ahead(q)' => Ahead(q) /\ q # r
  BY <1>4 DEF Ahead, Running
<1>8. \A i \in Jobs : Over(i) => Over(i)'
  BY <1>3, <1>6, <1>7 DEF Over, DepsOf
<1>9. Over(j)'
  <2>1. \A k \in Threads : ~Ahead(<<j, k>>)'
    BY <1>2, <1>7 DEF Ahead, Running
  <2>2. DepsOf(j) = {} => ~Submitting(j)
    BY <1>2 DEF OnceInv, SubmittedInv, Submitting
  <2>3. QED
    BY <1>2, <1>3, <1>6, <2>1, <2>2 DEF Over, DepsOf
<1>10. SubmittedInv'
  <2>1. \A e \in todo' : Target[e] \in jobs
    BY <1>5 DEF OnceInv, SubmittedInv, Dependents
  <2>2. current \in jobs /\ Idle(current) => Idle(current)'
    <3>1. SUFFICES ASSUME current \in jobs, Idle(current), NEW k \in Threads
                   PROVE  pc'[<<current, k>>] = "idle"
      BY <1>3 DEF Idle
    <3>2. <<current, k>> \in Runners /\ pc[<<current, k>>] = "idle"
      BY <3>1 DEF Idle
    <3>3. QED
      BY <1>2, <1>4, <3>2
  <2>3. QED
    BY <1>3, <1>4, <1>6, <2>1, <2>2 DEF OnceInv, SubmittedInv, DepsOf, Idle
<1>11. OneRunner'
  <2>1. \A q \in Runners : pc'[q] # "idle" => pc[q] # "idle"
    BY <1>2, <1>4
  <2>2. QED
    BY <1>6, <2>1 DEF OnceInv, OneRunner, Ready
<1>12. SeenInv'
  <2>1. \A e \in TokenDeps : e \in todo' => e \in todo
    BY <1>2, <1>5 DEF Dependents, TokenDeps
  <2>2. QED
    BY <1>2, <1>3, <2>1 DEF OnceInv, SeenInv, TokenStatus, JobDeps
<1>13. OverInv'
  <2>1. \A i \in Jobs : state'[i] \in {"ERROR", "DONE"} => Over(i)'
    BY <1>3, <1>8, <1>9 DEF OnceInv, OverInv
  <2>2. \A i \in Jobs : i \in jobs \ waitingJobs' =>
                          Over(i)' \/ \E e \in DepsOf(i) : oldStatus[e] = "FAIL"
    BY <1>3, <1>8, <1>9 DEF OnceInv, OverInv
  <2>3. QED
    BY <1>3, <2>1, <2>2 DEF OverInv, DepsOf
<1>14. ToldInv'
  <2> SUFFICES ASSUME NEW e \in Deps, Target[e] \in jobs', Status(e)' = "OK", oldStatus'[e] # "OK"
               PROVE  \/ e \in todo'
                      \/ e \in JobDeps /\ \E k \in Threads : pc'[<<Origin[e], k>>] = "relock"
    BY DEF ToldInv
  <2>1. CASE e \in JobDeps /\ Origin[e] = j
    <3>1. e \in Dependents(j)
      BY <1>3, <2>1 DEF Dependents
    <3>2. r = <<Origin[e], r[2]>> /\ r[2] \in Threads
      BY <2>1
    <3>3. CASE todo' = Dependents(j)
      BY <3>1, <3>3
    <3>4. CASE pc'[r] = "relock"
      <4>1. pc'[<<Origin[e], r[2]>>] = "relock"
        BY <3>2, <3>4
      <4>2. QED
        BY <2>1, <3>2, <4>1
    <3>5. QED
      BY <1>5, <3>3, <3>4
  <2>2. CASE ~(e \in JobDeps /\ Origin[e] = j)
    <3>1. Status(e) = "OK" /\ Target[e] \in jobs /\ oldStatus[e] # "OK"
      BY <1>3, <2>2 DEF Status, TokenStatus, JobStatus
    <3>2. \/ e \in todo
          \/ e \in JobDeps /\ \E k \in Threads : pc[<<Origin[e], k>>] = "relock"
      BY <3>1 DEF OnceInv, ToldInv
    <3>3. \A q \in Runners : pc[q] = "relock" => pc'[q] = "relock"
      BY <1>2, <1>4
    <3>4. QED
      BY <1>5, <3>2, <3>3
  <2>3. QED
    BY <2>1, <2>2
<1>15. StartInv'
  <2>1. \A q \in Runners : pc'[q] \in {"completed", "released"} => pc[q] = pc'[q]
    BY <1>4
  <2>2. QED
    BY <1>3, <1>6, <2>1 DEF OnceInv, StartInv, DepsOf
<1>16. QED
  BY <1>10, <1>11, <1>12, <1>13, <1>14, <1>15 DEF OnceInv

\* A job that is launched goes on: it had not ended, and has not.
LEMMA LaunchOnce ==
  ASSUME Types(Nat), MutexInv, OnceInv, NEW r \in Runners, Launch(r)
  PROVE  OnceInv'
<1> USE RunnerNames, DepKinds, ActorsDistinct DEF Types, Actors
<1> DEFINE j == r[1]
<1>1. Ahead(r) /\ pc[r] = "lockFile"
  BY DEF Launch, Ahead, Running
<1>2. /\ j \in Jobs /\ state[j] \notin {"ERROR", "DONE"}
      /\ \A e \in JobDeps : Origin[e] = j => oldStatus[e] \notin {"OK", "FAIL"}
  BY <1>1, AheadWaits
<1>3. /\ UNCHANGED << exitMode, todo, current, submitted, jobs, waitingJobs, oldStatus, usedTokens >>
      /\ state'[j] = "RUNNING" /\ \A i \in Jobs \ {j} : state'[i] = state[i]
  BY <1>2 DEF Launch, exitVars, mainVars, lockVars
<1>4. pc'[Main] = pc[Main] /\ pc'[r] = "executing" /\ \A q \in Runners \ {r} : pc'[q] = pc[q]
  BY DEF Launch
<1>5. \A q \in Runners : /\ Ahead(q)' <=> Ahead(q)
                         /\ pc'[q] = "idle" <=> pc[q] = "idle"
                         /\ pc[q] = "relock" => pc'[q] = "relock"
                         /\ pc'[q] \in {"completed", "released"} => pc'[q] = pc[q]
  BY <1>1, <1>4 DEF Ahead, Running
<1>6. \A i \in Jobs : /\ Ready(i)' <=> Ready(i)
                      /\ Idle(i)' <=> Idle(i)
                      /\ Submitting(i)' <=> Submitting(i)
  BY <1>3, <1>4, <1>5 DEF Ready, Idle, DepsOf, Submitting
<1>7. \A i \in Jobs : Over(i) => Over(i)'
  BY <1>3, <1>5, <1>6 DEF Over, DepsOf
<1>8. SubmittedInv'
  <2>1. current \in jobs /\ Idle(current) => Idle(current)'
    BY <1>3, <1>5 DEF Idle
  <2>2. QED
    BY <1>3, <1>4, <1>6, <2>1 DEF OnceInv, SubmittedInv, DepsOf, Idle
<1>9. OneRunner'
  BY <1>5, <1>6 DEF OnceInv, OneRunner, Ready
<1>10. SeenInv'
  BY <1>2, <1>3 DEF OnceInv, SeenInv, TokenStatus, JobDeps
<1>11. OverInv'
  BY <1>3, <1>7 DEF OnceInv, OverInv, DepsOf
<1>12. ToldInv'
  <2>1. \A e \in Deps : Status(e)' = "OK" => Status(e) = "OK"
    BY <1>3 DEF Status, TokenStatus, JobStatus
  <2>2. QED
    BY <1>3, <1>5, <2>1 DEF OnceInv, ToldInv
<1>13. StartInv'
  BY <1>3, <1>5, <1>6 DEF OnceInv, StartInv, DepsOf
<1>14. QED
  BY <1>8, <1>9, <1>10, <1>11, <1>12, <1>13 DEF OnceInv

\* A job that is completed is not waited for any more, and its dependents are
\* going to be told.
LEMMA CompleteOnce ==
  ASSUME Types(Nat), MutexInv, OnceInv, NEW r \in Runners, Complete(r)
  PROVE  OnceInv'
<1> USE RunnerNames, DepKinds, ActorsDistinct DEF Types, Actors
<1> DEFINE j == r[1]
<1>1. /\ pc[r] = "relock" /\ todo = {} /\ todo' = Dependents(j) /\ waitingJobs' = waitingJobs \ {j}
      /\ UNCHANGED << exitMode, current, submitted, jobs, state, oldStatus, usedTokens >>
  BY DEF Complete, JobFinished, MutexInv, exitVars, mainVars, lockVars
<1>2. /\ pc'[Main] = pc[Main] \/ (pc[Main] = "blocked" /\ pc'[Main] = "woken")
      /\ pc'[r] = "completed"
      /\ \A q \in Runners \ {r} : pc'[q] = pc[q]
  BY DEF Complete, JobFinished, NotifyMain
<1>3. /\ j \in Jobs /\ j \in jobs /\ Ready(j) /\ ~Idle(j)
      /\ \A q \in Runners : q[1] = j /\ pc[q] # "idle" => q = r
  BY <1>1, OneRunnerAlone
<1>4. \A q \in Runners : Ahead(q)' <=> Ahead(q)
  BY <1>1, <1>2 DEF Ahead, Running
<1>5. \A i \in Jobs : /\ Ready(i)' <=> Ready(i)
                      /\ Idle(i)' <=> Idle(i)
                      /\ Submitting(i)' <=> Submitting(i)
  BY <1>1, <1>2 DEF Ready, Idle, DepsOf, Submitting
<1>6. \A i \in Jobs : Over(i) => Over(i)'
  BY <1>1, <1>4, <1>5 DEF Over, DepsOf
<1>7. Over(j)'
  <2>1. \A k \in Threads : ~Ahead(<<j, k>>)
    BY <1>1, <1>3 DEF Ahead, Running
  <2>2. DepsOf(j) = {} => ~Submitting(j)
    BY <1>3 DEF OnceInv, SubmittedInv, Submitting
  <2>3. QED
    BY <1>3, <1>6, <2>1, <2>2 DEF Over
<1>8. SubmittedInv'
  <2>1. \A e \in todo' : Target[e] \in jobs
    BY <1>1 DEF Dependents
  <2>2. current \in jobs /\ Idle(current) => Idle(current)'
    <3>1. SUFFICES ASSUME current \in jobs, Idle(current), NEW k \in Threads
                   PROVE  pc'[<<current, k>>] = "idle"
      BY <1>1 DEF Idle
    <3>2. <<current, k>> \in Runners /\ pc[<<current, k>>] = "idle"
      BY <3>1 DEF Idle
    <3>3. QED
      BY <1>1, <1>2, <3>2
  <2>3. QED
    BY <1>1, <1>2, <1>5, <2>1, <2>2 DEF OnceInv, SubmittedInv, DepsOf, Idle
<1>9. OneRunner'
  <2>1. \A q \in Runners : pc'[q] # "idle" => pc[q] # "idle"
    BY <1>1, <1>2
  <2>2. QED
    BY <1>5, <2>1 DEF OnceInv, OneRunner, Ready
<1>10. SeenInv'
  <2>1. \A e \in TokenDeps : e \notin todo'
    BY <1>1, <1>3 DEF Dependents, TokenDeps
  <2>2. QED
    BY <1>1, <2>1 DEF OnceInv, SeenInv
<1>11. OverInv'
  BY <1>1, <1>6, <1>7 DEF OnceInv, OverInv, DepsOf
<1>12. ToldInv'
  <2> SUFFICES ASSUME NEW e \in Deps, Target[e] \in jobs', Status(e)' = "OK", oldStatus'[e] # "OK"
               PROVE  \/ e \in todo'
                      \/ e \in JobDeps /\ \E k \in Threads : pc'[<<Origin[e], k>>] = "relock"
    BY DEF ToldInv
  <2>1. Status(e) = "OK" /\ Target[e] \in jobs /\ oldStatus[e] # "OK"
    BY <1>1 DEF Status, TokenStatus, JobStatus
  <2>2. PICK k \in Threads : e \in JobDeps /\ pc[<<Origin[e], k>>] = "relock"
    BY <1>1, <2>1 DEF OnceInv, ToldInv
  <2>3. CASE <<Origin[e], k>> = r
    BY <1>1, <2>1, <2>3 DEF Dependents
  <2>4. CASE <<Origin[e], k>> # r
    <3>1. <<Origin[e], k>> \in Runners
      BY <2>2
    <3>2. pc'[<<Origin[e], k>>] = "relock"
      BY <1>2, <2>2, <2>4, <3>1
    <3>3. QED
      BY <2>2, <3>2
  <2>5. QED
    BY <2>3, <2>4
<1>13. StartInv'
  <2>1. \A q \in Runners : pc'[q] \in {"completed", "released"} => pc[q] = pc'[q] \/ q = r
    BY <1>2
  <2>2. QED
    BY <1>1, <1>5, <2>1 DEF OnceInv, StartInv, DepsOf
<1>14. QED
  BY <1>8, <1>9, <1>10, <1>11, <1>12, <1>13 DEF OnceInv

\* The tokens given back are enough for each of the dependents to be checked.
LEMMA ReleaseOnce ==
  ASSUME EqualNeeds, Types(Nat), MutexInv, LocksInv, TokensInv, OnceInv,
         NEW r \in Runners, ReleaseLocks(r)
  PROVE  OnceInv'
<1> USE RunnerNames, DepKinds, ActorsDistinct DEF Types, Actors
<1>1. /\ pc[r] = "completed" /\ todo = {}
      /\ UNCHANGED << exitMode, current, submitted, jobs, waitingJobs, state, oldStatus >>
      /\ pc'[Main] = pc[Main] /\ pc'[r] = "released" /\ \A q \in Runners \ {r} : pc'[q] = pc[q]
  BY DEF ReleaseLocks, exitVars, mainVars, schedVars
<1>2. \A q \in Runners : /\ Ahead(q)' <=> Ahead(q)
                         /\ pc'[q] = "idle" <=> pc[q] = "idle"
                         /\ pc[q] = "relock" => pc'[q] = "relock"
                         /\ pc'[q] \in {"completed", "released"} => pc[q] \in {"completed", "released"}
  BY <1>1 DEF Ahead, Running
<1>3. \A i \in Jobs : /\ Ready(i)' <=> Ready(i)
                      /\ Idle(i)' <=> Idle(i)
                      /\ Submitting(i)' <=> Submitting(i)
  BY <1>1, <1>2 DEF Ready, Idle, DepsOf, Submitting
<1>4. \A i \in Jobs : Over(i) => Over(i)'
  BY <1>1, <1>2, <1>3 DEF Over, DepsOf
<1>5. OneRunner'
  BY <1>2, <1>3 DEF OnceInv, OneRunner, Ready
<1>6. OverInv'
  BY <1>1, <1>4 DEF OnceInv, OverInv, DepsOf
<1>7. StartInv'
  BY <1>1, <1>2, <1>3 DEF OnceInv, StartInv, DepsOf
<1>8. current \in jobs /\ Idle(current) => Idle(current)'
  BY <1>1, <1>2 DEF Idle
<1>9. CASE UNCHANGED << usedTokens, todo >>
  <2>1. SubmittedInv'
    BY <1>1, <1>3, <1>8, <1>9 DEF OnceInv, SubmittedInv, DepsOf, Idle
  <2>2. SeenInv'
    BY <1>1, <1>9 DEF OnceInv, SeenInv, TokenStatus
  <2>3. \A e \in Deps : Status(e)' = Status(e)
    BY <1>1, <1>9 DEF Status, TokenStatus, JobStatus
  <2>4. ToldInv'
    BY <1>1, <1>2, <1>9, <2>3 DEF OnceInv, ToldInv
  <2>5. QED
    BY <1>5, <1>6, <1>7, <2>1, <2>2, <2>4 DEF OnceInv
<1>10. ASSUME NEW d \in LastOwned(r),
              usedTokens' = [usedTokens EXCEPT ![Origin[d]] = @ - Value[d]],
              todo' = Dependents(Origin[d])
       PROVE  OnceInv'
  <2>1. d \in TokenDeps /\ d \in Deps /\ Origin[d] \in Tokens
    BY <1>10 DEF LastOwned, TokenDeps
  <2>2. SubmittedInv'
    <3>1. \A e \in todo' : Target[e] \in jobs
      BY <1>10 DEF Dependents
    <3>2. QED
      BY <1>1, <1>3, <1>8, <3>1 DEF OnceInv, SubmittedInv, DepsOf, Idle
  <2>3. SeenInv'
    <3>1. ASSUME NEW e \in TokenDeps, e \in todo'
          PROVE  TokenStatus(e)' = "OK"
      <4>1. Origin[e] = Origin[d] /\ e \in TokenDeps
        BY <1>10, <3>1 DEF Dependents
      <4>2. Value[e] = Value[d]
        BY <2>1, <4>1 DEF EqualNeeds
      <4>3. usedTokens'[Origin[d]] = usedTokens[Origin[d]] - Value[d]
        BY <1>10, <2>1
      <4>4. /\ usedTokens[Origin[d]] <= Limit[Origin[d]] /\ usedTokens[Origin[d]] \in Nat
            /\ Value[d] \in Nat /\ Limit[Origin[d]] \in Nat
        BY <2>1, DepsAssumption DEF TokensInv
      <4>5. usedTokens'[Origin[d]] + Value[d] <= Limit[Origin[d]]
        BY <4>3, <4>4
      <4>6. QED
        BY <4>1, <4>2, <4>5 DEF TokenStatus
    <3>2. QED
      BY <1>1, <3>1 DEF OnceInv, SeenInv
  <2>4. ToldInv'
    <3> SUFFICES ASSUME NEW e \in Deps, Target[e] \in jobs', Status(e)' = "OK", oldStatus'[e] # "OK"
                 PROVE  \/ e \in todo'
                        \/ e \in JobDeps /\ \E k \in Threads : pc'[<<Origin[e], k>>] = "relock"
      BY DEF ToldInv
    <3>1. CASE Origin[e] = Origin[d]
      BY <1>1, <1>10, <3>1 DEF Dependents
    <3>2. CASE Origin[e] # Origin[d]
      <4>1. e \in TokenDeps => usedTokens'[Origin[e]] = usedTokens[Origin[e]]
        BY <1>10, <3>2
      <4>2. Status(e) = "OK" /\ Target[e] \in jobs /\ oldStatus[e] # "OK"
        BY <1>1, <4>1 DEF Status, TokenStatus, JobStatus
      <4>3. QED
        BY <1>1, <1>2, <4>2 DEF OnceInv, ToldInv
    <3>3. QED
      BY <3>1, <3>2
  <2>5. QED
    BY <1>5, <1>6, <1>7, <2>2, <2>3, <2>4 DEF OnceInv
<1>11. QED
  BY <1>9, <1>10 DEF ReleaseLocks

\* The runner of a job that ends is no loss: the job is not waited for any more.
LEMMA EndRunnerOnce ==
  ASSUME Types(Nat), OnceInv, NEW r \in Runners, EndRunner(r)
  PROVE  OnceInv'
<1> USE RunnerNames, DepKinds, ActorsDistinct DEF Types, Actors
<1> DEFINE j == r[1]
<1>1. /\ pc[r] = "released" /\ pc'[Main] = pc[Main] /\ pc'[r] = "idle"
      /\ \A q \in Runners \ {r} : pc'[q] = pc[q]
      /\ UNCHANGED << exitMode, todo, current, submitted, jobs, waitingJobs, state, oldStatus, usedTokens >>
  BY DEF EndRunner, exitVars, mainVars, schedVars, lockVars
<1>2. \A q \in Runners : /\ Ahead(q)' <=> Ahead(q)
                         /\ pc'[q] # "idle" => pc[q] # "idle"
                         /\ pc[q] = "relock" => pc'[q] = "relock"
                         /\ pc'[q] \in {"completed", "released"} => pc'[q] = pc[q]
  BY <1>1 DEF Ahead, Running
<1>3. \A i \in Jobs : /\ Ready(i)' <=> Ready(i)
                      /\ Idle(i) => Idle(i)'
                      /\ i # j => (Idle(i)' <=> Idle(i))
                      /\ Submitting(i)' <=> Submitting(i)
  BY <1>1, <1>2 DEF Ready, Idle, DepsOf, Submitting
<1>4. \A i \in Jobs : Over(i) => Over(i)'
  BY <1>1, <1>2, <1>3 DEF Over, DepsOf
<1>5. SubmittedInv'
  <2>1. current \in jobs /\ Idle(current) => Idle(current)'
    BY <1>1, <1>2 DEF Idle
  <2>2. QED
    BY <1>1, <1>3, <2>1 DEF OnceInv, SubmittedInv, DepsOf, Idle
<1>6. OneRunner'
  BY <1>2, <1>3 DEF OnceInv, OneRunner, Ready
<1>7. SeenInv'
  BY <1>1 DEF OnceInv, SeenInv, TokenStatus
<1>8. OverInv'
  BY <1>1, <1>4 DEF OnceInv, OverInv, DepsOf
<1>9. ToldInv'
  <2>1. \A e \in Deps : Status(e)' = Status(e)
    BY <1>1 DEF Status, TokenStatus, JobStatus
  <2>2. QED
    BY <1>1, <1>2, <2>1 DEF OnceInv, ToldInv
<1>10. StartInv'
  <2>1. j \notin waitingJobs
    BY <1>1 DEF OnceInv, StartInv
  <2>2. QED
    BY <1>1, <1>2, <1>3, <2>1 DEF OnceInv, StartInv, DepsOf
<1>11. QED
  BY <1>5, <1>6, <1>7, <1>8, <1>9, <1>10 DEF OnceInv

\* Initially nothing is submitted.
LEMMA OnceInit ==
  ASSUME Unset \cap {"DONE", "ERROR"} = {}
  PROVE  Init => OnceInv
<1> USE RunnerNames, DepKinds, ActorsDistinct DEF Init, Actors
<1>1. Init => SubmittedInv /\ OneRunner /\ SeenInv
  BY DEF SubmittedInv, OneRunner, SeenInv, Idle, DepsOf, JobDeps, TokenDeps
<1>2. Init => OverInv /\ ToldInv /\ StartInv
  BY DEF OverInv, ToldInv, StartInv
<1>3. QED
  BY <1>1, <1>2 DEF OnceInv

\* With the accounting the invariant is inductive.
LEMMA OnceStep ==
  ASSUME EqualNeeds, Accounting, OnceInv, [Next]_vars
  PROVE  OnceInv'
<1>1. Types(Nat) /\ MutexInv /\ LocksInv /\ TokensInv
  BY DEF Accounting, TypeOK
<1>2. Types(Nat)' /\ UnsatisfiedInv'
  BY AccountingStep DEF Accounting, TypeOK
<1>3. CASE CheckStep
  BY <1>1, <1>2, <1>3, UnchangedOnce, UpdateOnce DEF CheckStep, Check
<1>4. ASSUME NEW r \in Runners, RunnerStep(r)
      PROVE  OnceInv'
  BY <1>1, <1>2, <1>4, RunQuietly, AbortOnce, EndOnce, LaunchOnce, CompleteOnce, ReleaseOnce,
     EndRunnerOnce DEF RunnerStep
<1>5. QED
  BY <1>1, <1>2, <1>3, <1>4, MainOnce, EnvironmentOnce DEF Next

\* It holds in every reachable state.
LEMMA OnceInvariant ==
  ASSUME EqualNeeds, Unset \cap {"DONE", "ERROR"} = {}
  PROVE  Spec => [](Accounting /\ OnceInv)
<1>1. Init => Accounting /\ OnceInv
  BY AccountingInit, OnceInit
<1>2. Accounting /\ OnceInv /\ [Next]_vars => (Accounting /\ OnceInv)'
  BY AccountingStep, OnceStep
<1>3. QED
  BY <1>1, <1>2, PTL DEF Spec

\* Only a check of a dependency and the end of a submission start a runner.
LEMMA StartersOnly ==
  ASSUME Types(Nat), [Next]_vars, NEW r \in Runners, pc[r] = "idle", pc'[r] = "starting"
  PROVE  SubmitSpawn \/ \E d \in Deps : Spawn(d)
<1> USE ActorsDistinct DEF Types, Actors
<1>1. CASE CheckStep
  BY <1>1 DEF CheckStep, Check, Unchanged, Fail, JobFinished, NotifyMain, StartStuck, Wait
<1>2. CASE MainStep
  BY <1>2 DEF MainStep, Submit, SkipSubmit, Registered, SubmitGiveUp, SubmitEnd, StartWaiting,
     CountJobs, WaitLoop
<1>3. ASSUME NEW q \in Runners, RunnerStep(q)
      PROVE  FALSE
  <2>1. pc'[q] # "starting" /\ \A p \in Runners \ {q} : pc'[p] = pc[p]
    BY <1>3 DEF RunnerStep, AcquireLocks, AbortStart, AlreadyDone, Attach, LockFile, LockFileTimeout,
       Launch, Reap, LeaveRun, Complete, ReleaseLocks, EndRunner, JobFinished, NotifyMain
  <2>2. QED
    BY <2>1
<1>4. CASE (\E j \in Jobs : ScriptStep(j)) \/ Interrupt \/ Finished \/ UNCHANGED vars
  BY <1>4 DEF ScriptStep, WritePid, Exit, Interrupt, NotifyMain, Finished, vars
<1>5. QED
  BY <1>1, <1>2, <1>3, <1>4 DEF Next

\* Job::start is reached once for a job that waits: however its dependencies are
\* told, its token is refused and its runner gives up, a runner is started only
\* when the job has none.  Needs that differ break it: see EqualNeeds.
THEOREM StartsOnce ==
  ASSUME EqualNeeds, Unset \cap {"DONE", "ERROR"} = {}
  PROVE  Spec => StartedOnce
<1> DEFINE Alone == \A r \in Runners : pc[r] = "idle" /\ pc'[r] = "starting" =>
                      /\ r[1] \in waitingJobs
                      /\ \A k \in Threads : pc[<<r[1], k>>] = "idle"
<1>1. ASSUME Accounting, OnceInv, [Next]_vars, NEW r \in Runners,
             pc[r] = "idle", pc'[r] = "starting"
      PROVE  r[1] \in waitingJobs /\ Idle(r[1])
  <2> USE RunnerNames, DepKinds, ActorsDistinct DEF Types, Actors
  <2>1. Types(Nat) /\ UnsatisfiedInv'
    BY <1>1, AccountingStep DEF Accounting, TypeOK
  <2>2. CASE SubmitSpawn
    <3>1. PICK k \in Threads : pc' = [pc EXCEPT ![<<current, k>>] = "starting", ![Main] = "submit"]
      BY <2>2 DEF SubmitSpawn
    <3>2. r = <<current, k>> /\ r[1] = current
      BY <1>1, <2>1, <3>1
    <3>3. current \in jobs /\ current \in Jobs /\ DepsOf(current) = {} /\ Idle(current)
      BY <2>2, <3>2, <1>1 DEF SubmitSpawn, OnceInv, SubmittedInv
    <3>4. ~Over(current)
      BY <2>2, <3>3 DEF SubmitSpawn, Over, Submitting
    <3>5. current \in waitingJobs
      BY <1>1, <3>3, <3>4 DEF OnceInv, OverInv
    <3>6. QED
      BY <3>2, <3>3, <3>5
  <2>3. ASSUME NEW d \in Deps, Spawn(d)
        PROVE  r[1] \in waitingJobs /\ Idle(r[1])
    <3>1. PICK k \in Threads : pc' = [pc EXCEPT ![<<Target[d], k>>] = "starting"]
      BY <2>3 DEF Spawn
    <3>2. r[1] = Target[d]
      BY <1>1, <2>1, <3>1
    <3>3. d \in todo /\ Changed(d) /\ Update(d)
      BY <2>3 DEF Spawn, Update
    <3>4. /\ Target[d] \in jobs /\ oldStatus[d] = "WAIT"
          /\ Idle(Target[d]) /\ ~Over(Target[d])
      BY <1>1, <2>1, <3>3, ChangedWaited
    <3>5. {e \in DepsOf(Target[d]) : oldStatus'[e] # "OK"} = {}
      <4>1. unsatisfied'[Target[d]] = 0
        BY <2>1, <2>3, <3>3 DEF Spawn, Update
      <4>2. IsFiniteSet({e \in DepsOf(Target[d]) : oldStatus'[e] # "OK"})
        BY DepsFinite DEF DepsOf
      <4>3. Cardinality({e \in DepsOf(Target[d]) : oldStatus'[e] # "OK"}) = 0
        BY <2>1, <4>1 DEF UnsatisfiedInv, DepsOf
      <4>4. QED
        BY <4>2, <4>3, FS_EmptySet
    <3>6. \A e \in DepsOf(Target[d]) : oldStatus[e] # "FAIL"
      <4>1. \A e \in Deps \ {d} : oldStatus'[e] = oldStatus[e]
        BY <2>1, <3>3 DEF Update
      <4>2. QED
        BY <3>4, <3>5, <4>1 DEF DepsOf
    <3>7. Target[d] \in waitingJobs
      BY <1>1, <3>4, <3>6 DEF OnceInv, OverInv
    <3>8. QED
      BY <3>2, <3>4, <3>7
  <2>4. QED
    BY <1>1, <2>1, <2>2, <2>3, StartersOnly
<1>2. ASSUME Accounting /\ OnceInv, [Next]_vars PROVE [Alone]_vars
  BY <1>1, <1>2 DEF Idle
<1>3. QED
  BY <1>2, OnceInvariant, PTL DEF Spec, StartedOnce

\* waitUntilTaskCompleted returns only when no job runs, or is about to, unless
\* the user insisted.
THEOREM ReturnsWhenOver ==
  ASSUME EqualNeeds, Unset \cap {"DONE", "ERROR"} = {}
  PROVE  Spec => []ReturnedMeansOver
<1>1. OnceInv => ReturnedMeansOver
  <2> SUFFICES ASSUME OnceInv, pc[Main] = "returned", exitMode # "STOPPING",
                      NEW r \in Runners, Ahead(r)
               PROVE  FALSE
    BY DEF ReturnedMeansOver, Ahead
  <2>1. r[1] \in waitingJobs
    BY AheadWaits
  <2>2. QED
    BY <2>1 DEF OnceInv, SubmittedInv
<1>2. QED
  BY <1>1, OnceInvariant, PTL

\* No wake-up is lost: a job that still waits has a runner, is being submitted, or
\* comes after a job or a token that it cannot go on without, or that will tell it.
THEOREM NoStartLost ==
  ASSUME EqualNeeds, Unset \cap {"DONE", "ERROR"} = {}
  PROVE  Spec => []NoLostStart
<1>1. ASSUME Accounting, OnceInv
      PROVE  NoLostStart
  <2> SUFFICES ASSUME mutex = Nobody, exitMode = "NONE", NEW j \in waitingJobs, Idle(j),
                      ~(pc[Main] = "registered" /\ current = j)
               PROVE  \E d \in DepsOf(j) :
                        \/ Status(d) # "OK"
                        \/ \E k \in Threads : d \in JobDeps /\ pc[<<Origin[d], k>>] # "idle"
    BY DEF NoLostStart, Idle
  <2>1. todo = {} /\ pc[Main] # "registering" /\ j \in jobs
    BY <1>1, ActorsDistinct DEF Accounting, MutexInv, Holding, Actors, OnceInv, SubmittedInv
  <2>2. ~Ready(j)
    BY <1>1, <2>1 DEF OnceInv, StartInv, Submitting
  <2>3. PICK d \in DepsOf(j) : oldStatus[d] # "OK"
    BY <2>2 DEF Ready
  <2>4. CASE Status(d) = "OK"
    <3>1. d \in JobDeps /\ \E k \in Threads : pc[<<Origin[d], k>>] = "relock"
      BY <1>1, <2>1, <2>3, <2>4 DEF OnceInv, ToldInv, DepsOf
    <3>2. QED
      BY <3>1
  <2>5. QED
    BY <2>4
<1>2. QED
  BY <1>1, OnceInvariant, PTL

-----------------------------------------------------------------------------
(* The processes.                                                          *)

\* Initially no job runs.
LEMMA ProcessInit == Unset \subseteq {"WAITING", "READY"} => (Init => ProcessInv)
  BY ActorsDistinct DEF Init, ProcessInv, Actors

\* The only runner of a job tells how its process ended before it runs another.
LEMMA StepProcess ==
  ASSUME Types(Nat), MutexInv, OnceInv, ProcessInv, [Next]_vars
  PROVE  ProcessInv'
<1> USE RunnerNames, ActorsDistinct DEF Types, Actors
<1>1. ASSUME \A j \in Jobs : state'[j] = "RUNNING" => state[j] = "RUNNING",
             \A q \in Runners : pc[q] = "executing" => pc'[q] = "executing"
      PROVE  \A j \in Jobs : state'[j] = "RUNNING" => \E k \in Threads : pc'[<<j, k>>] = "executing"
  BY <1>1 DEF ProcessInv
<1>2. ASSUME UNCHANGED << files, outcome >>,
             \A q \in Runners : pc'[q] \in {"executing", "attached"} => pc[q] = pc'[q]
      PROVE  \A q \in Runners : pc'[q] \in {"executing", "attached"} /\ outcome'[q] = "fail"
                                  => files'[q[1]] = "absent"
  BY <1>2 DEF ProcessInv
<1>3. ASSUME UNCHANGED << state, files, outcome >>,
             \A q \in Runners : /\ pc[q] = "executing" => pc'[q] = "executing"
                                /\ pc'[q] \in {"executing", "attached"} => pc[q] = pc'[q]
      PROVE  ProcessInv'
  BY <1>1, <1>2, <1>3 DEF ProcessInv
<1>4. CASE CheckStep
  <2> PICK d \in Deps : Check(d)
    BY <1>4 DEF CheckStep
  <2>1. UNCHANGED << state, files, outcome >>
    BY DEF Check, Unchanged, Fail, Spawn, StartStuck, Wait, Update, schedVars, diskVars
  <2>2. \A q \in Runners : /\ pc[q] = "executing" => pc'[q] = "executing"
                           /\ pc'[q] \in {"executing", "attached"} => pc[q] = pc'[q]
    <3>1. CASE Unchanged(d) \/ Wait(d)
      BY <3>1 DEF Unchanged, Wait
    <3>2. CASE Fail(d)
      BY <3>2 DEF Fail, JobFinished, NotifyMain
    <3>3. CASE Spawn(d)
      <4>1. PICK k \in Threads : /\ pc[<<Target[d], k>>] = "idle"
                                 /\ pc' = [pc EXCEPT ![<<Target[d], k>>] = "starting"]
        BY <3>3 DEF Spawn
      <4>2. QED
        BY <4>1
    <3>4. CASE StartStuck(d)
      BY <1>4, <3>4 DEF StartStuck, CheckStep, MutexInv, Holding
    <3>5. QED
      BY <3>1, <3>2, <3>3, <3>4 DEF Check
  <2>3. QED
    BY <1>3, <2>1, <2>2
<1>5. CASE MainStep
  <2>1. UNCHANGED << files, outcome >> /\ \A j \in Jobs : state'[j] = "RUNNING" => state[j] = "RUNNING"
    <3>1. CASE SubmitGiveUp
      BY <3>1 DEF SubmitGiveUp, diskVars
    <3>2. CASE ~SubmitGiveUp
      BY <1>5, <3>2 DEF MainStep, Submit, SkipSubmit, Registered, SubmitSpawn, SubmitEnd,
         StartWaiting, CountJobs, WaitLoop, schedVars, diskVars
    <3>3. QED
      BY <3>1, <3>2
  <2>2. \A q \in Runners : /\ pc[q] = "executing" => pc'[q] = "executing"
                           /\ pc'[q] \in {"executing", "attached"} => pc[q] = pc'[q]
    <3>1. CASE SubmitSpawn
      <4>1. PICK k \in Threads : /\ pc[<<current, k>>] = "idle"
                                 /\ pc' = [pc EXCEPT ![<<current, k>>] = "starting", ![Main] = "submit"]
        BY <3>1 DEF SubmitSpawn
      <4>2. QED
        BY <4>1
    <3>2. CASE ~SubmitSpawn
      BY <1>5, <3>2 DEF MainStep, Submit, SkipSubmit, Registered, SubmitGiveUp, SubmitEnd,
         StartWaiting, CountJobs, WaitLoop
    <3>3. QED
      BY <3>1, <3>2
  <2>3. QED
    BY <1>1, <1>2, <2>1, <2>2 DEF ProcessInv
<1>6. ASSUME NEW r \in Runners, RunnerStep(r)
      PROVE  ProcessInv'
  <2>1. r[1] \in Jobs /\ r = <<r[1], r[2]>> /\ r[2] \in Threads
    OBVIOUS
  <2>2. CASE AbortStart(r)
    <3>1. UNCHANGED << files, outcome >> /\ \A j \in Jobs : state'[j] = "RUNNING" => state[j] = "RUNNING"
      BY <2>1, <2>2 DEF AbortStart, diskVars
    <3>2. \A q \in Runners : /\ pc[q] = "executing" => pc'[q] = "executing"
                             /\ pc'[q] \in {"executing", "attached"} => pc[q] = pc'[q]
      BY <2>2 DEF AbortStart
    <3>3. QED
      BY <1>1, <1>2, <3>1, <3>2 DEF ProcessInv
  <2>3. CASE AlreadyDone(r)
    <3>1. UNCHANGED << files, outcome >> /\ \A j \in Jobs : state'[j] = "RUNNING" => state[j] = "RUNNING"
      BY <2>1, <2>3 DEF AlreadyDone, diskVars
    <3>2. \A q \in Runners : /\ pc[q] = "executing" => pc'[q] = "executing"
                             /\ pc'[q] \in {"executing", "attached"} => pc[q] = pc'[q]
      BY <2>3 DEF AlreadyDone, JobFinished, NotifyMain
    <3>3. QED
      BY <1>1, <1>2, <3>1, <3>2 DEF ProcessInv
  <2>4. CASE Attach(r)
    <3>1. UNCHANGED << state, files >> /\ outcome' = [outcome EXCEPT ![r] = "none"]
      BY <2>4 DEF Attach, schedVars
    <3>2. \A q \in Runners : /\ pc[q] = "executing" => pc'[q] = "executing"
                             /\ q # r /\ pc'[q] \in {"executing", "attached"} => pc[q] = pc'[q]
      BY <2>4 DEF Attach
    <3>3. QED
      BY <1>1, <3>1, <3>2 DEF ProcessInv
  <2>5. CASE Launch(r)
    <3>1. /\ files' = [files EXCEPT ![r[1]] = "launched"] /\ state' = [state EXCEPT ![r[1]] = "RUNNING"]
          /\ outcome' = [outcome EXCEPT ![r] = "none"] /\ pc' = [pc EXCEPT ![r] = "executing"]
          /\ pc[r] = "lockFile"
      BY <2>5 DEF Launch
    <3>2. \A q \in Runners : q[1] = r[1] /\ pc[q] # "idle" => q = r
      BY <3>1, OneRunnerAlone
    <3>3. ASSUME NEW j \in Jobs, state'[j] = "RUNNING"
          PROVE  \E k \in Threads : pc'[<<j, k>>] = "executing"
      <4>1. CASE j = r[1]
        BY <2>1, <3>1, <4>1
      <4>2. CASE j # r[1]
        <5>1. PICK k \in Threads : pc[<<j, k>>] = "executing"
          BY <3>1, <3>3, <4>2 DEF ProcessInv
        <5>2. pc'[<<j, k>>] = "executing"
          BY <3>1, <5>1
        <5>3. QED
          BY <5>2
      <4>3. QED
        BY <4>1, <4>2
    <3>4. ASSUME NEW q \in Runners, pc'[q] \in {"executing", "attached"}, outcome'[q] = "fail"
          PROVE  files'[q[1]] = "absent"
      <4>1. q # r
        BY <3>1, <3>4
      <4>2. q[1] # r[1] /\ pc[q] \in {"executing", "attached"} /\ outcome[q] = "fail"
        BY <3>1, <3>2, <3>4, <4>1
      <4>3. QED
        BY <3>1, <4>2 DEF ProcessInv
    <3>5. QED
      BY <3>3, <3>4 DEF ProcessInv
  <2>6. CASE Reap(r)
    <3>1. /\ state'[r[1]] # "RUNNING" /\ \A j \in Jobs \ {r[1]} : state'[j] = state[j]
          /\ UNCHANGED << files, outcome >> /\ pc' = [pc EXCEPT ![r] = "relock"]
      BY <2>1, <2>6 DEF Reap, diskVars
    <3>2. ASSUME NEW j \in Jobs, state'[j] = "RUNNING"
          PROVE  \E k \in Threads : pc'[<<j, k>>] = "executing"
      <4>1. j # r[1] /\ state[j] = "RUNNING"
        BY <3>1, <3>2
      <4>2. PICK k \in Threads : pc[<<j, k>>] = "executing"
        BY <4>1 DEF ProcessInv
      <4>3. <<j, k>> \in Runners /\ <<j, k>> # r
        BY <4>1
      <4>4. pc'[<<j, k>>] = "executing"
        BY <3>1, <4>2, <4>3
      <4>5. QED
        BY <4>4
    <3>3. QED
      BY <1>1, <1>2, <3>1, <3>2 DEF ProcessInv
  <2>7. CASE Complete(r)
    BY <2>7, <1>3 DEF Complete, JobFinished, NotifyMain, diskVars
  <2>8. CASE AcquireLocks(r) \/ LockFile(r) \/ LockFileTimeout(r) \/ LeaveRun(r)
             \/ ReleaseLocks(r) \/ EndRunner(r)
    BY <2>8, <1>3 DEF AcquireLocks, LockFile, LockFileTimeout, LeaveRun, ReleaseLocks, EndRunner,
       schedVars, diskVars
  <2>9. QED
    BY <1>6, <2>2, <2>3, <2>4, <2>5, <2>6, <2>7, <2>8 DEF RunnerStep
<1>7. ASSUME NEW j \in Jobs, WritePid(j)
      PROVE  ProcessInv'
  BY <1>7, <1>1 DEF WritePid, ProcessInv, schedVars
<1>8. ASSUME NEW j \in Jobs, NEW code \in ExitCodes, Exit(j, code)
      PROVE  ProcessInv'
  <2>1. /\ UNCHANGED << state, pc >> /\ files[j] = "running"
        /\ files' = [files EXCEPT ![j] = IF code = "ok" THEN "done" ELSE "absent"]
        /\ outcome' = [r \in Runners |-> IF r \in Watchers(j) THEN code ELSE outcome[r]]
    BY <1>8 DEF Exit, schedVars
  <2>2. ASSUME NEW q \in Runners, pc[q] \in {"executing", "attached"}, outcome'[q] = "fail"
        PROVE  files'[q[1]] = "absent"
    <3>1. CASE q \in Watchers(j)
      BY <2>1, <2>2, <3>1 DEF Watchers
    <3>2. CASE q \notin Watchers(j)
      BY <2>1, <2>2, <3>2 DEF ProcessInv
    <3>3. QED
      BY <3>1, <3>2
  <2>3. QED
    BY <1>1, <2>1, <2>2 DEF ProcessInv
<1>9. CASE Interrupt \/ Finished \/ UNCHANGED vars
  BY <1>9, <1>3 DEF Interrupt, NotifyMain, Finished, vars, schedVars, diskVars
<1>10. QED
  BY <1>4, <1>5, <1>6, <1>7, <1>8, <1>9 DEF Next, ScriptStep

-----------------------------------------------------------------------------
(* The needs of JobGraph are the units of Scheduler.                       *)

\* The units that the jobs of a set of dependencies need.
NeededBy(S) == UNION {{Target[d]} \X (1 .. Value[d]) : d \in S}

\* The jobs need no more units than their dependencies take.
LEMMA NeededWithinUnits ==
  ASSUME NEW S \in SUBSET Deps
  PROVE  /\ IsFiniteSet(NeededBy(S))
         /\ Cardinality(NeededBy(S)) <= Cardinality(Units(S))
<1> DEFINE f == [u \in Units(S) |-> <<Target[u[1]], u[2]>>]
<1>1. IsFiniteSet(Units(S))
  BY NeedsFinite
<1>2. ASSUME NEW u \in Units(S)
      PROVE  f[u] \in NeededBy(S)
  BY <1>2 DEF Units, UnitsOf, NeededBy
<1>3. ASSUME NEW v \in NeededBy(S)
      PROVE  \E u \in Units(S) : f[u] = v
  <2>1. PICK d \in S : v \in {Target[d]} \X (1 .. Value[d])
    BY <1>3 DEF NeededBy
  <2>2. v = <<Target[d], v[2]>> /\ v[2] \in 1 .. Value[d]
    BY <2>1
  <2>3. <<d, v[2]>> \in Units(S)
    BY <2>2 DEF Units, UnitsOf
  <2>4. f[<<d, v[2]>>] = v
    BY <2>2, <2>3
  <2>5. QED
    BY <2>3, <2>4
<1>4. f \in Surjection(Units(S), NeededBy(S))
  BY <1>2, <1>3 DEF Surjection
<1>5. QED
  BY <1>1, <1>4, FS_Surjection

\* What JobGraph assumes of its constants is true of the dependencies.
LEMMA GraphOfDependencies ==
  /\ \A j \in Jobs : AfterOf(j) \subseteq Jobs
  /\ \A t \in Tokens : NeedsOf(t) \subseteq Jobs \X Nat /\ IsFiniteSet(NeedsOf(t))
<1>1. \A j \in Jobs : AfterOf(j) \subseteq Jobs
  BY DEF AfterOf, JobDeps
<1>2. ASSUME NEW t \in Tokens
      PROVE  NeedsOf(t) \subseteq Jobs \X Nat /\ IsFiniteSet(NeedsOf(t))
  <2> DEFINE S == {e \in TokenDeps : Origin[e] = t}
  <2>1. S \in SUBSET Deps /\ NeedsOf(t) = NeededBy(S)
    BY DEF TokenDeps, NeedsOf, NeededBy
  <2>2. NeededBy(S) \subseteq Jobs \X Nat
    BY <2>1, DepsAssumption DEF NeededBy
  <2>3. QED
    BY <2>1, <2>2, NeededWithinUnits
<1>3. QED
  BY <1>1, <1>2

-----------------------------------------------------------------------------
(* The phases.                                                             *)

\* What makes a job active, and what makes it wait.
Runs(j) == \E k \in Threads : Running(<<j, k>>)
Waits(j) ==
  /\ j \in waitingJobs
  /\ state[j] \in {"WAITING", "READY"}
  /\ \A k \in Threads : pc[<<j, k>>] \in {"idle", "starting"}

\* What each phase means.
PhasesMean ==
  \A j \in Jobs : /\ PhaseOf(j) = "new" <=> j \notin jobs
                  /\ PhaseOf(j) = "active" <=> Runs(j)
                  /\ PhaseOf(j) = "waiting" <=> Waits(j)
                  /\ PhaseOf(j) = "left" <=> j \in jobs /\ ~Runs(j) /\ ~Waits(j)

LEMMA PhaseMeans == OnceInv => PhasesMean
<1> SUFFICES ASSUME OnceInv, NEW j \in Jobs
             PROVE  /\ PhaseOf(j) = "new" <=> j \notin jobs
                    /\ PhaseOf(j) = "active" <=> Runs(j)
                    /\ PhaseOf(j) = "waiting" <=> Waits(j)
                    /\ PhaseOf(j) = "left" <=> j \in jobs /\ ~Runs(j) /\ ~Waits(j)
  BY DEF PhasesMean
<1>1. j \notin jobs => ~Runs(j)
  BY DEF OnceInv, SubmittedInv, Runs, Running, Idle
<1>2. Waits(j) => j \in jobs /\ ~Runs(j)
  BY DEF OnceInv, SubmittedInv, Waits, Runs, Running
<1>3. CASE j \notin jobs
  BY <1>1, <1>2, <1>3 DEF PhaseOf, Runs, Waits
<1>4. CASE j \in jobs /\ Runs(j)
  BY <1>2, <1>4 DEF PhaseOf, Runs, Waits
<1>5. CASE j \in jobs /\ ~Runs(j) /\ Waits(j)
  BY <1>5 DEF PhaseOf, Runs, Waits
<1>6. CASE j \in jobs /\ ~Runs(j) /\ ~Waits(j)
  BY <1>6 DEF PhaseOf, Runs, Waits
<1>7. QED
  BY <1>3, <1>4, <1>5, <1>6

\* A phase changes only when one of these does.
LEMMA PhaseKept ==
  ASSUME OnceInv, OnceInv', NEW j \in Jobs,
         j \in jobs' <=> j \in jobs, Runs(j)' <=> Runs(j), Waits(j)' <=> Waits(j)
  PROVE  PhaseOf(j)' = PhaseOf(j)
<1>1. PhasesMean /\ PhasesMean'
  BY PhaseMeans, PTL
<1>2. QED
  BY <1>1 DEF PhasesMean

\* The state that JobGraph sees.
phases   == [j \in Jobs |-> PhaseOf(j)]
Failed   == {j \in Jobs : state[j] = "ERROR"}
Done     == {j \in Jobs : files[j] = "done"}
Returned == pc[Main] = "returned"

\* All the invariants of Scheduler.
Safe == Accounting /\ DoneInv /\ OnceInv /\ ProcessInv

\* Every step keeps them.
LEMMA SafeStep ==
  ASSUME EqualNeeds, Safe, [Next]_vars
  PROVE  Safe'
  BY AccountingStep, StepDone, OnceStep, StepProcess DEF Safe, Accounting, TypeOK

\* A job whose runners stay in run, or out of it, stays in its phase.
LEMMA PhaseUntouched ==
  ASSUME OnceInv, OnceInv', NEW j \in Jobs,
         j \in jobs' <=> j \in jobs, j \in waitingJobs' <=> j \in waitingJobs, state'[j] = state[j],
         \A r \in Runners : r[1] = j =>
           /\ Running(r)' <=> Running(r)
           /\ pc'[r] \in {"idle", "starting"} <=> pc[r] \in {"idle", "starting"}
  PROVE  PhaseOf(j)' = PhaseOf(j)
<1>1. \A k \in Threads : <<j, k>> \in Runners /\ <<j, k>>[1] = j
  BY RunnerNames
<1>2. Runs(j)' <=> Runs(j)
  BY <1>1 DEF Runs, Running
<1>3. Waits(j)' <=> Waits(j)
  BY <1>1 DEF Waits
<1>4. QED
  BY <1>2, <1>3, PhaseKept

\* A step that touches no phase and nothing else that JobGraph sees.
LEMMA Stutters ==
  ASSUME OnceInv, OnceInv', UNCHANGED << jobs, waitingJobs, state, exitMode >>,
         \A j \in Jobs : files'[j] = "done" <=> files[j] = "done",
         pc'[Main] = "returned" <=> pc[Main] = "returned",
         \A r \in Runners :
           /\ Running(r)' <=> Running(r)
           /\ pc'[r] \in {"idle", "starting"} <=> pc[r] \in {"idle", "starting"}
  PROVE  UNCHANGED Graph!vars
<1>1. \A j \in Jobs : PhaseOf(j)' = PhaseOf(j)
  BY PhaseUntouched
<1>2. [j \in Jobs |-> PhaseOf(j)]' = [j \in Jobs |-> PhaseOf(j)]
  BY <1>1
<1>3. {j \in Jobs : state[j] = "ERROR"}' = {j \in Jobs : state[j] = "ERROR"}
  OBVIOUS
<1>4. {j \in Jobs : files[j] = "done"}' = {j \in Jobs : files[j] = "done"}
  OBVIOUS
<1>5. (pc[Main] = "returned")' = (pc[Main] = "returned")
  OBVIOUS
<1>6. QED
  BY <1>2, <1>3, <1>4, <1>5 DEF Graph!vars

-----------------------------------------------------------------------------
(* The steps.                                                              *)

\* What a step of JobGraph does to the phases.
LEMMA PhaseMoved ==
  ASSUME NEW j \in Jobs, NEW p, PhaseOf(j)' = p, \A i \in Jobs \ {j} : PhaseOf(i)' = PhaseOf(i)
  PROVE  phases' = [phases EXCEPT ![j] = p]
  BY DEF phases

\* The main thread submits, gives up and waits as JobGraph says.
LEMMA MainImplements ==
  ASSUME Safe, Safe', MainStep
  PROVE  [Graph!Next]_(Graph!vars)
<1> USE RunnerNames, ActorsDistinct DEF Actors
<1>1. /\ Types(Nat) /\ OnceInv /\ OnceInv' /\ ProcessInv
      /\ PhasesMean /\ PhasesMean'
  BY PhaseMeans, PTL DEF Safe, Accounting, TypeOK
<1>2. ASSUME NEW j \in Jobs, Submit(j)
      PROVE  Graph!Submit(j)
  <2>1. /\ pc[Main] = "submit" /\ pc'[Main] = "registering" /\ j \notin submitted
        /\ \A r \in Runners : pc'[r] = pc[r]
        /\ waitingJobs' = waitingJobs \cup {j} /\ jobs' = jobs \cup {j}
        /\ UNCHANGED << state, exitMode, files >>
    BY <1>1, <1>2 DEF Submit, CanSubmit, Types, exitVars, diskVars
  <2>2. j \notin jobs /\ Idle(j)
    BY <1>1, <2>1 DEF OnceInv, SubmittedInv
  <2>3. state[j] \in {"WAITING", "READY"}
    <3>1. state[j] \notin {"ERROR", "DONE"}
      BY <1>1, <2>2 DEF OnceInv, OverInv, Over
    <3>2. state[j] # "RUNNING"
      BY <1>1, <2>2 DEF ProcessInv, Idle
    <3>3. QED
      BY <1>1, <3>1, <3>2 DEF Types, States
  <2>4. PhaseOf(j) = "new" /\ PhaseOf(j)' = "waiting"
    <3>1. Waits(j)'
      BY <2>1, <2>2, <2>3 DEF Waits, Idle
    <3>2. QED
      BY <1>1, <2>2, <3>1 DEF PhasesMean
  <2>5. \A i \in Jobs \ {j} : PhaseOf(i)' = PhaseOf(i)
    <3> SUFFICES ASSUME NEW i \in Jobs \ {j}
                 PROVE  PhaseOf(i)' = PhaseOf(i)
      OBVIOUS
    <3>1. \A r \in Runners : /\ Running(r)' <=> Running(r)
                             /\ pc'[r] \in {"idle", "starting"} <=> pc[r] \in {"idle", "starting"}
      BY <2>1 DEF Running
    <3>2. QED
      BY <1>1, <2>1, <3>1, PhaseUntouched
  <2>6. phases' = [phases EXCEPT ![j] = "waiting"]
    BY <2>4, <2>5, PhaseMoved
  <2>7. QED
    BY <2>1, <2>4, <2>6 DEF Graph!Submit, phases
<1>3. ASSUME SubmitGiveUp
      PROVE  \E j \in Jobs : Graph!GiveUp(j)
  <2>1. PICK j \in jobs : j = current
    BY <1>1, <1>3 DEF SubmitGiveUp, OnceInv, SubmittedInv
  <2>2. /\ pc[Main] = "registered" /\ DepsOf(j) = {} /\ j \in Jobs /\ exitMode # "NONE"
        /\ state' = [state EXCEPT ![j] = "ERROR"] /\ pc' = [pc EXCEPT ![Main] = "submit"]
        /\ UNCHANGED << exitMode, jobs, waitingJobs, files >>
    BY <1>1, <1>3, <2>1 DEF SubmitGiveUp, exitVars, diskVars, Types
  <2>3. pc'[Main] = "submit" /\ (\A r \in Runners : pc'[r] = pc[r])
    BY <1>1, <2>2 DEF Types
  <2>4. Idle(j) /\ Ready(j) /\ ~Over(j)
    BY <1>1, <2>1, <2>2 DEF OnceInv, SubmittedInv, Ready, Submitting, Over
  <2>5. state[j] \in {"WAITING", "READY"}
    <3>1. state[j] \notin {"ERROR", "DONE"}
      BY <1>1, <2>2, <2>4 DEF OnceInv, OverInv
    <3>2. state[j] # "RUNNING"
      BY <1>1, <2>2, <2>4 DEF ProcessInv, Idle
    <3>3. QED
      BY <1>1, <2>2, <3>1, <3>2 DEF Types, States
  <2>6. j \in waitingJobs
    BY <1>1, <2>2, <2>4 DEF OnceInv, OverInv, Ready
  <2>7. PhaseOf(j) = "waiting" /\ PhaseOf(j)' = "left"
    <3>1. Waits(j)
      BY <2>4, <2>5, <2>6 DEF Waits, Idle
    <3>2. state'[j] = "ERROR"
      BY <1>1, <2>2 DEF Types
    <3>3. ~Waits(j)' /\ ~Runs(j)'
      BY <2>2, <2>3, <2>4, <3>2 DEF Waits, Runs, Running, Idle
    <3>4. QED
      BY <1>1, <2>2, <3>1, <3>3 DEF PhasesMean
  <2>8. \A i \in Jobs \ {j} : PhaseOf(i)' = PhaseOf(i)
    <3> SUFFICES ASSUME NEW i \in Jobs \ {j}
                 PROVE  PhaseOf(i)' = PhaseOf(i)
      OBVIOUS
    <3>1. \A r \in Runners : /\ Running(r)' <=> Running(r)
                             /\ pc'[r] \in {"idle", "starting"} <=> pc[r] \in {"idle", "starting"}
      BY <2>3 DEF Running
    <3>2. QED
      BY <1>1, <2>2, <3>1, PhaseUntouched
  <2>9. phases' = [phases EXCEPT ![j] = "left"]
    BY <2>2, <2>7, <2>8, PhaseMoved
  <2>10. Failed' = Failed \cup {j}
    BY <1>1, <2>2 DEF Failed, Types
  <2>11. (pc[Main] = "returned")' = (pc[Main] = "returned")
    BY <2>2, <2>3
  <2>12. {i \in Jobs : files[i] = "done"}' = {i \in Jobs : files[i] = "done"}
    BY <2>2
  <2>13. QED
    BY <2>2, <2>7, <2>9, <2>10, <2>11, <2>12 DEF Graph!GiveUp, phases, Failed
<1>4. CASE (CountJobs \/ WaitLoop) /\ pc'[Main] = "returned"
  <2>1. /\ waitingJobs = {} \/ exitMode = "STOPPING"
        /\ UNCHANGED << jobs, waitingJobs, state, exitMode, files >>
        /\ \A r \in Runners : pc'[r] = pc[r]
    BY <1>1, <1>4 DEF CountJobs, WaitLoop, Types, exitVars, schedVars, diskVars
  <2>2. \A j \in Jobs : PhaseOf(j)' = PhaseOf(j)
    <3>1. \A r \in Runners : /\ Running(r)' <=> Running(r)
                             /\ pc'[r] \in {"idle", "starting"} <=> pc[r] \in {"idle", "starting"}
      BY <2>1 DEF Running
    <3>2. QED
      BY <1>1, <2>1, <3>1, PhaseUntouched
  <2>3. [j \in Jobs |-> PhaseOf(j)]' = [j \in Jobs |-> PhaseOf(j)]
    BY <2>2
  <2>4. {j \in Jobs : state[j] = "ERROR"}' = {j \in Jobs : state[j] = "ERROR"}
    BY <2>1
  <2>5. {i \in Jobs : files[i] = "done"}' = {i \in Jobs : files[i] = "done"}
    BY <2>1
  <2>6. Graph!Return
    BY <1>4, <2>1, <2>3, <2>4, <2>5 DEF Graph!Return
  <2>7. QED
    BY <2>6 DEF Graph!Next
<1>5. CASE (\E j \in Jobs : SkipSubmit(j)) \/ Registered \/ SubmitSpawn \/ SubmitEnd \/ StartWaiting
           \/ ((CountJobs \/ WaitLoop) /\ pc'[Main] # "returned")
  <2>1. /\ UNCHANGED << jobs, waitingJobs, state, exitMode, files >>
        /\ pc'[Main] # "returned" /\ pc[Main] # "returned"
    <3>1. CASE SubmitSpawn
      <4>1. PICK k \in Threads : pc' = [pc EXCEPT ![<<current, k>>] = "starting", ![Main] = "submit"]
        BY <3>1 DEF SubmitSpawn
      <4>2. pc[Main] = "registered" /\ pc'[Main] = "submit"
        BY <1>1, <3>1, <4>1 DEF SubmitSpawn, Types
      <4>3. QED
        BY <3>1, <4>2 DEF SubmitSpawn, exitVars, schedVars, diskVars
    <3>2. CASE ~SubmitSpawn
      BY <1>1, <1>5, <3>2 DEF SkipSubmit, CanSubmit, Registered, SubmitEnd, StartWaiting,
         CountJobs, WaitLoop, Types, exitVars, schedVars, diskVars
    <3>3. QED
      BY <3>1, <3>2
  <2>2. \A r \in Runners : pc'[r] = pc[r] \/ (pc[r] = "idle" /\ pc'[r] = "starting")
    <3>1. CASE SubmitSpawn
      <4>1. PICK k \in Threads : /\ pc[<<current, k>>] = "idle"
                                 /\ pc' = [pc EXCEPT ![<<current, k>>] = "starting", ![Main] = "submit"]
        BY <3>1 DEF SubmitSpawn
      <4>2. QED
        BY <1>1, <4>1 DEF Types
    <3>2. CASE ~SubmitSpawn
      BY <1>1, <1>5, <3>2 DEF SkipSubmit, CanSubmit, Registered, SubmitEnd, StartWaiting,
         CountJobs, WaitLoop, Types
    <3>3. QED
      BY <3>1, <3>2
  <2>3. \A r \in Runners : /\ Running(r)' <=> Running(r)
                           /\ pc'[r] \in {"idle", "starting"} <=> pc[r] \in {"idle", "starting"}
    BY <2>2 DEF Running
  <2>4. QED
    BY <1>1, <2>1, <2>3, Stutters
<1>6. QED
  BY <1>2, <1>3, <1>4, <1>5 DEF MainStep, Graph!Next

\* A job whose check finds a failure is abandoned; the other checks do not show.
LEMMA CheckImplements ==
  ASSUME Safe, Safe', CheckStep
  PROVE  [Graph!Next]_(Graph!vars)
<1> USE RunnerNames, DepKinds, ActorsDistinct DEF Actors
<1>1. /\ Types(Nat) /\ MutexInv /\ OnceInv /\ OnceInv' /\ ProcessInv
      /\ PhasesMean /\ PhasesMean'
  BY PhaseMeans, PTL DEF Safe, Accounting, TypeOK
<1>2. PICK d \in Deps : Check(d)
  BY DEF CheckStep
<1>3. UNCHANGED << jobs, state, exitMode, files >>
  BY <1>2 DEF Check, Unchanged, Fail, Spawn, StartStuck, Wait, Update, schedVars, diskVars, exitVars
<1>4. /\ pc'[Main] = "returned" <=> pc[Main] = "returned"
      /\ \A r \in Runners : \/ pc'[r] = pc[r]
                            \/ pc[r] = "idle" /\ pc'[r] = "starting"
                            \/ pc[r] \in {"alreadyDone", "completed", "released"} /\ pc'[r] = "stuck"
  <2>1. CASE Unchanged(d) \/ Wait(d)
    BY <2>1 DEF Unchanged, Wait
  <2>2. CASE Fail(d)
    BY <1>1, <2>2 DEF Fail, JobFinished, NotifyMain, Types
  <2>3. CASE Spawn(d)
    <3>1. PICK k \in Threads : /\ pc[<<Target[d], k>>] = "idle"
                               /\ pc' = [pc EXCEPT ![<<Target[d], k>>] = "starting"]
      BY <2>3 DEF Spawn
    <3>2. <<Target[d], k>> # Main
      OBVIOUS
    <3>3. QED
      BY <1>1, <3>1, <3>2 DEF Types
  <2>4. CASE StartStuck(d)
    <3>1. todo # {} /\ mutex # Nobody /\ pc' = [pc EXCEPT ![mutex] = "stuck"]
      BY <2>4 DEF StartStuck, Update, CheckStep
    <3>2. pc[mutex] \in {"registering", "alreadyDone", "completed", "released"}
      BY <3>1, <1>1 DEF MutexInv, CheckStep
    <3>3. mutex \in Actors
      BY <1>1, <3>1 DEF Types
    <3>4. ASSUME NEW a \in Actors
          PROVE  pc'[a] = pc[a] \/ (a = mutex /\ pc'[a] = "stuck")
      BY <1>1, <3>1 DEF Types
    <3>5. pc[Main] \in MainPCs /\ \A r \in Runners : pc[r] \in RunnerPCs
      BY <1>1 DEF MutexInv
    <3>6. QED
      BY <3>2, <3>3, <3>4, <3>5 DEF RunnerPCs, MainPCs
  <2>5. QED
    BY <1>2, <2>1, <2>2, <2>3, <2>4 DEF Check
<1>5. \A r \in Runners : /\ Running(r)' <=> Running(r)
                         /\ pc'[r] \in {"idle", "starting"} <=> pc[r] \in {"idle", "starting"}
  BY <1>4 DEF Running
<1>6. CASE waitingJobs' = waitingJobs
  BY <1>1, <1>3, <1>4, <1>5, <1>6, Stutters
<1>7. CASE waitingJobs' # waitingJobs
  <2> DEFINE T == Target[d]
  <2>1. Fail(d) /\ T \in waitingJobs /\ waitingJobs' = waitingJobs \ {T}
    BY <1>2, <1>7 DEF Check, Unchanged, Fail, Spawn, StartStuck, Wait, JobFinished, schedVars
  <2>2. d \in todo /\ Changed(d) /\ Status(d) = "FAIL"
    BY <2>1 DEF Fail, Update
  <2>3. T \in Jobs /\ T \in jobs /\ Idle(T) /\ ~Over(T)
    BY <1>1, <2>2, ChangedWaited
  <2>4. state[T] \in {"WAITING", "READY"}
    <3>1. state[T] \notin {"ERROR", "DONE"}
      BY <1>1, <2>3 DEF OnceInv, OverInv
    <3>2. state[T] # "RUNNING"
      BY <1>1, <2>3 DEF ProcessInv, Idle
    <3>3. QED
      BY <1>1, <2>3, <3>1, <3>2 DEF Types, States
  <2>5. PhaseOf(T) = "waiting" /\ PhaseOf(T)' = "left"
    <3>1. Waits(T) /\ ~Runs(T)
      BY <2>1, <2>3, <2>4 DEF Waits, Idle, Runs, Running
    <3>2. ~Waits(T)' /\ ~Runs(T)'
      BY <1>5, <2>1, <3>1 DEF Waits, Runs, Running
    <3>3. QED
      BY <1>1, <1>3, <2>3, <3>1, <3>2 DEF PhasesMean
  <2>6. \A i \in Jobs \ {T} : PhaseOf(i)' = PhaseOf(i)
    BY <1>1, <1>3, <1>5, <2>1, PhaseUntouched
  <2>7. phases' = [phases EXCEPT ![T] = "left"]
    BY <2>3, <2>5, <2>6, PhaseMoved
  <2>8. /\ Origin[d] \in AfterOf(T) /\ state[Origin[d]] = "ERROR" /\ Origin[d] \in Jobs
    <3>1. d \in JobDeps
      BY <1>1, <2>2, ChangedWaited
    <3>2. JobStatus(Origin[d]) = "FAIL"
      BY <2>2, <3>1 DEF Status
    <3>3. QED
      BY <3>1, <3>2 DEF AfterOf, DepsOf, JobStatus
  <2>9. {i \in Jobs : files[i] = "done"}' = {i \in Jobs : files[i] = "done"}
    BY <1>3
  <2>10. (pc[Main] = "returned")' = (pc[Main] = "returned")
    BY <1>4
  <2>11. Failed' = Failed /\ Origin[d] \in Failed
    BY <1>3, <2>8 DEF Failed
  <2>12. Graph!Abandon(T)
    BY <1>3, <2>1, <2>3, <2>5, <2>7, <2>8, <2>9, <2>10, <2>11 DEF Graph!Abandon, phases, Failed
  <2>13. QED
    BY <2>3, <2>12 DEF Graph!Next
<1>8. QED
  BY <1>6, <1>7

\* A process that ends well and a SIGINT are steps of JobGraph.
LEMMA EnvironmentImplements ==
  ASSUME Safe, Safe', (\E j \in Jobs : ScriptStep(j)) \/ Interrupt \/ Finished \/ UNCHANGED vars
  PROVE  [Graph!Next]_(Graph!vars)
<1> USE RunnerNames, ActorsDistinct DEF Actors
<1>1. Types(Nat) /\ OnceInv /\ OnceInv'
  BY DEF Safe, Accounting, TypeOK
<1>2. /\ UNCHANGED << jobs, waitingJobs, state >> /\ \A r \in Runners : pc'[r] = pc[r]
      /\ pc'[Main] = "returned" <=> pc[Main] = "returned"
  BY <1>1 DEF ScriptStep, WritePid, Exit, Interrupt, NotifyMain, Finished, vars, schedVars, Types
<1>3. \A r \in Runners : /\ Running(r)' <=> Running(r)
                         /\ pc'[r] \in {"idle", "starting"} <=> pc[r] \in {"idle", "starting"}
  BY <1>2 DEF Running
<1>4. /\ [j \in Jobs |-> PhaseOf(j)]' = [j \in Jobs |-> PhaseOf(j)]
      /\ {j \in Jobs : state[j] = "ERROR"}' = {j \in Jobs : state[j] = "ERROR"}
      /\ (pc[Main] = "returned")' = (pc[Main] = "returned")
  <2>1. \A j \in Jobs : PhaseOf(j)' = PhaseOf(j)
    BY <1>1, <1>2, <1>3, PhaseUntouched
  <2>2. [j \in Jobs |-> PhaseOf(j)]' = [j \in Jobs |-> PhaseOf(j)]
    BY <2>1
  <2>3. {j \in Jobs : state[j] = "ERROR"}' = {j \in Jobs : state[j] = "ERROR"}
    BY <1>2
  <2>4. (pc[Main] = "returned")' = (pc[Main] = "returned")
    BY <1>2
  <2>5. QED
    BY <2>2, <2>3, <2>4
<1>5. CASE Interrupt
  <2>1. /\ exitMode' = IF exitMode = "NONE" THEN "WAITING" ELSE "STOPPING"
        /\ {j \in Jobs : files[j] = "done"}' = {j \in Jobs : files[j] = "done"}
    BY <1>5 DEF Interrupt, diskVars
  <2>2. Graph!Interrupt
    BY <1>2, <1>4, <2>1 DEF Graph!Interrupt
  <2>3. QED
    BY <2>2 DEF Graph!Next
<1>6. ASSUME NEW j \in Jobs, Exit(j, "ok")
      PROVE  [Graph!Next]_(Graph!vars)
  <2>1. exitMode' = exitMode /\ files' = [files EXCEPT ![j] = "done"]
    BY <1>6 DEF Exit, exitVars
  <2>2. {i \in Jobs : files[i] = "done"}' = {i \in Jobs : files[i] = "done"} \cup {j}
    BY <1>1, <2>1 DEF Types
  <2>3. Graph!Finish(j)
    BY <1>2, <1>4, <2>1, <2>2 DEF Graph!Finish
  <2>4. QED
    BY <2>3 DEF Graph!Next
<1>7. ASSUME NEW j \in Jobs, WritePid(j) \/ Exit(j, "fail")
      PROVE  [Graph!Next]_(Graph!vars)
  <2>1. exitMode' = exitMode /\ \A i \in Jobs : files'[i] = "done" <=> files[i] = "done"
    BY <1>1, <1>7 DEF WritePid, Exit, exitVars, Types
  <2>2. QED
    BY <1>1, <1>2, <1>3, <2>1, Stutters
<1>8. CASE UNCHANGED vars
  BY <1>1, <1>2, <1>3, <1>8, Stutters DEF vars, exitVars, diskVars
<1>9. QED
  BY <1>5, <1>6, <1>7, <1>8, SetsAssumption DEF ScriptStep, Finished

\* The phase of a job that has a runner is told by this runner.
RunnersTell ==
  \A r \in Runners : pc[r] # "idle" =>
    /\ r[1] \in jobs
    /\ Runs(r[1]) <=> Running(r)
    /\ Waits(r[1]) <=> /\ r[1] \in waitingJobs
                       /\ state[r[1]] \in {"WAITING", "READY"}
                       /\ pc[r] = "starting"

LEMMA RunnerTells == OnceInv => RunnersTell
<1> SUFFICES ASSUME OnceInv, NEW r \in Runners, pc[r] # "idle"
             PROVE  /\ r[1] \in jobs
                    /\ Runs(r[1]) <=> Running(r)
                    /\ Waits(r[1]) <=> /\ r[1] \in waitingJobs
                                       /\ state[r[1]] \in {"WAITING", "READY"}
                                       /\ pc[r] = "starting"
  BY DEF RunnersTell
<1> USE RunnerNames
<1>1. /\ r[1] \in jobs
      /\ \A k \in Threads : pc[<<r[1], k>>] = "idle" \/ <<r[1], k>> = r
  BY OneRunnerAlone
<1>2. r = <<r[1], r[2]>> /\ r[2] \in Threads
  OBVIOUS
<1>3. Runs(r[1]) <=> Running(r)
  BY <1>1, <1>2 DEF Runs, Running
<1>4. (\A k \in Threads : pc[<<r[1], k>>] \in {"idle", "starting"}) <=> pc[r] = "starting"
  BY <1>1, <1>2
<1>5. QED
  BY <1>1, <1>3, <1>4 DEF Waits

\* The job of a runner that has yet to run is not RUNNING.
LEMMA NotYetRunning ==
  ASSUME ProcessInv, RunnersTell, NEW r \in Runners, pc[r] = "starting"
  PROVE  state[r[1]] # "RUNNING"
<1> USE RunnerNames
<1> SUFFICES ASSUME state[r[1]] = "RUNNING"
             PROVE  FALSE
  OBVIOUS
<1>1. PICK k \in Threads : pc[<<r[1], k>>] = "executing"
  BY DEF ProcessInv
<1>2. Running(<<r[1], k>>)
  BY <1>1 DEF Running
<1>3. Running(r)
  BY <1>2 DEF RunnersTell, Runs
<1>4. QED
  BY <1>3 DEF Running

\* What a runner does shows in the phase of its job only.
LEMMA OthersUntouched ==
  ASSUME OnceInv, OnceInv', NEW r \in Runners, jobs' = jobs,
         \A i \in Jobs \ {r[1]} : state'[i] = state[i] /\ (i \in waitingJobs' <=> i \in waitingJobs),
         \A q \in Runners \ {r} : pc'[q] = pc[q]
  PROVE  \A i \in Jobs \ {r[1]} : PhaseOf(i)' = PhaseOf(i)
<1> SUFFICES ASSUME NEW i \in Jobs \ {r[1]}
             PROVE  PhaseOf(i)' = PhaseOf(i)
  OBVIOUS
<1>1. \A q \in Runners : q[1] = i =>
        /\ Running(q)' <=> Running(q)
        /\ pc'[q] \in {"idle", "starting"} <=> pc[q] \in {"idle", "starting"}
  BY DEF Running
<1>2. QED
  BY <1>1, PhaseUntouched

\* The cardinality of JobGraph is that of Scheduler.
LEMMA SameCardinality == \A S : Graph!Cardinality(S) = Cardinality(S)
  BY DEF Graph!Cardinality, Cardinality

\* A runner that acquires its locks starts its job: the jobs it comes after are
\* done, and there are tokens for it besides those of the jobs that run.
LEMMA AcquireImplements ==
  ASSUME Safe, Safe', NEW r \in Runners, AcquireLocks(r)
  PROVE  Graph!Start(r[1])
<1> USE RunnerNames, ActorsDistinct DEF Actors
<1> DEFINE j == r[1]
<1>1. /\ Types(Nat) /\ OnceInv /\ OnceInv' /\ ProcessInv /\ DoneInv
      /\ PhasesMean /\ PhasesMean' /\ RunnersTell /\ RunnersTell' /\ TokenLimit'
  BY PhaseMeans, RunnerTells, WithinLimit, PTL DEF Safe, Accounting, TypeOK
<1>2. /\ pc[r] = "starting" /\ pc' = [pc EXCEPT ![r] = "run"]
      /\ UNCHANGED << jobs, waitingJobs, state, exitMode, files >>
  BY DEF AcquireLocks, exitVars, schedVars, diskVars
<1>3. pc'[r] = "run" /\ \A a \in Actors \ {r} : pc'[a] = pc[a]
  BY <1>1, <1>2 DEF Types
<1>4. Ahead(r) /\ Running(r)'
  BY <1>2, <1>3 DEF Ahead, Running
<1>5. j \in Jobs /\ j \in waitingJobs /\ state[j] \in {"WAITING", "READY"}
  <2>1. j \in waitingJobs /\ state[j] \notin {"ERROR", "DONE"}
    BY <1>1, <1>4, AheadWaits
  <2>2. state[j] # "RUNNING"
    BY <1>1, <1>2, NotYetRunning
  <2>3. QED
    BY <1>1, <2>1, <2>2 DEF Types, States
<1>6. PhaseOf(j) = "waiting" /\ PhaseOf(j)' = "active"
  <2>1. Waits(j)
    BY <1>1, <1>2, <1>5 DEF RunnersTell
  <2>2. Runs(j)'
    BY <1>1, <1>3, <1>4 DEF RunnersTell
  <2>3. QED
    BY <1>1, <1>5, <2>1, <2>2 DEF PhasesMean
<1>7. \A i \in Jobs \ {j} : PhaseOf(i)' = PhaseOf(i)
  BY <1>1, <1>2, <1>3, OthersUntouched
<1>8. phases' = [phases EXCEPT ![j] = "active"]
  BY <1>5, <1>6, <1>7, PhaseMoved
<1>9. AfterOf(j) \subseteq Done
  BY <1>1, <1>2 DEF DoneInv, AfterOf, Done, JobDeps
<1>10. ASSUME NEW t \in Tokens
       PROVE  Cardinality({u \in NeedsOf(t) : u[1] \in {i \in Jobs : PhaseOf(i) = "active"} \cup {j}})
                <= Limit[t]
  <2> DEFINE T == {u \in NeedsOf(t) : u[1] \in {i \in Jobs : PhaseOf(i) = "active"} \cup {j}}
             S == InUse(t)'
  <2>1. S \in SUBSET Deps
    BY DEF InUse, TokenDeps
  <2>2. T \subseteq NeededBy(S)
    <3> SUFFICES ASSUME NEW u \in T
                 PROVE  u \in NeededBy(S)
      OBVIOUS
    <3>1. PICK d \in TokenDeps : Origin[d] = t /\ u \in {Target[d]} \X (1 .. Value[d])
      BY DEF NeedsOf
    <3>2. u[1] = Target[d] /\ u[1] \in Jobs
      BY <1>5, <3>1
    <3>3. PhaseOf(u[1])' = "active"
      BY <1>6, <1>7, <3>2
    <3>4. Runs(Target[d])'
      BY <1>1, <3>2, <3>3 DEF PhasesMean
    <3>5. d \in S
      BY <3>1, <3>4 DEF InUse, Runs
    <3>6. QED
      BY <3>1, <3>5 DEF NeededBy
  <2>3. /\ IsFiniteSet(NeededBy(S)) /\ Cardinality(NeededBy(S)) <= Cardinality(Units(S))
        /\ Cardinality(Units(S)) <= Limit[t]
    BY <1>1, <2>1, NeededWithinUnits DEF TokenLimit
  <2>4. Cardinality(T) \in Nat /\ Cardinality(T) <= Cardinality(NeededBy(S))
    BY <2>2, <2>3, FS_Subset, FS_CardinalityType
  <2>5. Cardinality(Units(S)) \in Nat /\ Cardinality(NeededBy(S)) \in Nat /\ Limit[t] \in Nat
    BY <2>1, <2>3, NeedsFinite, FS_CardinalityType, DepsAssumption
  <2>6. QED
    BY <2>3, <2>4, <2>5
<1>11. /\ {i \in Jobs : state[i] = "ERROR"}' = {i \in Jobs : state[i] = "ERROR"}
       /\ {i \in Jobs : files[i] = "done"}' = {i \in Jobs : files[i] = "done"}
       /\ (pc[Main] = "returned")' = (pc[Main] = "returned")
  <2>1. {i \in Jobs : state[i] = "ERROR"}' = {i \in Jobs : state[i] = "ERROR"}
    BY <1>2
  <2>2. {i \in Jobs : files[i] = "done"}' = {i \in Jobs : files[i] = "done"}
    BY <1>2
  <2>3. (pc[Main] = "returned")' = (pc[Main] = "returned")
    BY <1>3
  <2>4. QED
    BY <2>1, <2>2, <2>3
<1>12. \A t \in Tokens : Graph!Cardinality(Graph!Taken(t, Graph!Active \cup {j})) <= Limit[t]
  <2> SUFFICES ASSUME NEW t \in Tokens
               PROVE  Graph!Cardinality(Graph!Taken(t, Graph!Active \cup {j})) <= Limit[t]
    OBVIOUS
  <2>1. Graph!Active = {i \in Jobs : PhaseOf(i) = "active"}
    BY DEF Graph!Active
  <2>2. Graph!Taken(t, Graph!Active \cup {j})
          = {u \in NeedsOf(t) : u[1] \in {i \in Jobs : PhaseOf(i) = "active"} \cup {j}}
    BY <2>1 DEF Graph!Taken
  <2>3. QED
    BY <1>10, <2>2, SameCardinality
<1>13. phases[j] = "waiting" /\ [i \in Jobs |-> AfterOf(i)][j] \subseteq Done
  BY <1>5, <1>6, <1>9 DEF phases
<1>14. QED
  BY <1>2, <1>5, <1>8, <1>11, <1>12, <1>13 DEF Graph!Start, phases, Done

\* What every other step of a runner leaves alone.
LEMMA RunnerLeaves ==
  ASSUME Safe, NEW r \in Runners, RunnerStep(r)
  PROVE  /\ pc[r] # "idle" /\ jobs' = jobs /\ exitMode' = exitMode
         /\ \A i \in Jobs \ {r[1]} : state'[i] = state[i] /\ (i \in waitingJobs' <=> i \in waitingJobs)
         /\ \A q \in Runners \ {r} : pc'[q] = pc[q]
         /\ pc'[Main] = "returned" <=> pc[Main] = "returned"
         /\ \A i \in Jobs : files'[i] = "done" <=> files[i] = "done"
<1> USE RunnerNames, ActorsDistinct DEF Actors
<1>1. Types(Nat)
  BY DEF Safe, Accounting, TypeOK
<1>2. CASE AlreadyDone(r)
  BY <1>1, <1>2 DEF AlreadyDone, JobFinished, NotifyMain, exitVars, diskVars, Types
<1>3. CASE Complete(r)
  BY <1>1, <1>3 DEF Complete, JobFinished, NotifyMain, exitVars, diskVars, Types
<1>4. CASE Launch(r)
  BY <1>1, <1>4 DEF Launch, exitVars, Types
<1>5. CASE AbortStart(r) \/ Reap(r)
  BY <1>1, <1>5 DEF AbortStart, Reap, exitVars, diskVars, Types
<1>6. CASE AcquireLocks(r) \/ Attach(r) \/ LockFile(r) \/ LockFileTimeout(r)
           \/ LeaveRun(r) \/ ReleaseLocks(r) \/ EndRunner(r)
  BY <1>1, <1>6 DEF AcquireLocks, Attach, LockFile, LockFileTimeout, LeaveRun, ReleaseLocks,
     EndRunner, exitVars, schedVars, diskVars, Types
<1>7. QED
  BY <1>2, <1>3, <1>4, <1>5, <1>6 DEF RunnerStep

\* A runner that leaves run has its job leave, failed only if there is no result.
LEMMA LeaveImplements ==
  ASSUME Safe, Safe', NEW r \in Runners,
         AlreadyDone(r) \/ LockFileTimeout(r) \/ Reap(r)
  PROVE  Graph!Leave(r[1])
<1> USE RunnerNames, ActorsDistinct DEF Actors
<1> DEFINE j == r[1]
<1>1. /\ Types(Nat) /\ OnceInv /\ OnceInv' /\ ProcessInv
      /\ PhasesMean /\ PhasesMean' /\ RunnersTell /\ RunnersTell'
  BY PhaseMeans, RunnerTells, PTL DEF Safe, Accounting, TypeOK
<1>2. /\ pc[r] # "idle" /\ jobs' = jobs /\ exitMode' = exitMode
      /\ \A i \in Jobs \ {j} : state'[i] = state[i] /\ (i \in waitingJobs' <=> i \in waitingJobs)
      /\ \A q \in Runners \ {r} : pc'[q] = pc[q]
      /\ pc'[Main] = "returned" <=> pc[Main] = "returned"
      /\ \A i \in Jobs : files'[i] = "done" <=> files[i] = "done"
  BY RunnerLeaves DEF RunnerStep
<1>3. Running(r) /\ pc'[r] \in {"alreadyDone", "relock"}
  BY <1>1 DEF AlreadyDone, LockFileTimeout, Reap, JobFinished, NotifyMain, Running, Types
<1>4. j \in Jobs /\ PhaseOf(j) = "active" /\ PhaseOf(j)' = "left"
  <2>1. Runs(j) /\ j \in jobs
    BY <1>1, <1>2, <1>3 DEF RunnersTell
  <2>2. ~Running(r)' /\ pc'[r] \notin {"idle", "starting"}
    BY <1>3 DEF Running
  <2>3. ~Runs(j)' /\ ~Waits(j)'
    BY <1>1, <2>2 DEF RunnersTell
  <2>4. QED
    BY <1>1, <1>2, <2>1, <2>3 DEF PhasesMean
<1>5. phases' = [phases EXCEPT ![j] = "left"]
  <2>1. \A i \in Jobs \ {j} : PhaseOf(i)' = PhaseOf(i)
    BY <1>1, <1>2, OthersUntouched
  <2>2. QED
    BY <1>4, <2>1, PhaseMoved
<1>6. waitingJobs' \in {waitingJobs, waitingJobs \ {j}}
  BY DEF AlreadyDone, LockFileTimeout, Reap, JobFinished, schedVars
<1>7. state[j] \notin {"ERROR", "DONE"}
  BY <1>1, <1>3, AheadWaits DEF Ahead
<1>8. Failed' = Failed \/ (j \notin Done /\ Failed' = Failed \cup {j})
  <2>1. CASE state'[j] = "ERROR"
    <3>1. pc[r] \in {"executing", "attached"} /\ outcome[r] = "fail"
      BY <1>1, <1>7, <2>1 DEF AlreadyDone, LockFileTimeout, Reap, schedVars, Types
    <3>2. files[j] # "done"
      BY <1>1, <3>1 DEF ProcessInv
    <3>3. Failed' = Failed \cup {j}
      BY <1>2, <1>4, <2>1 DEF Failed
    <3>4. QED
      BY <3>2, <3>3 DEF Done
  <2>2. CASE state'[j] # "ERROR"
    BY <1>2, <1>7, <2>2 DEF Failed
  <2>3. QED
    BY <2>1, <2>2
<1>9. Done' = Done /\ Returned' = Returned
  BY <1>2 DEF Done, Returned
<1>10. phases[j] = "active"
  BY <1>4 DEF phases
<1>11. QED
  BY <1>2, <1>5, <1>6, <1>8, <1>9, <1>10 DEF Graph!Leave, phases, Failed, Done, Returned

\* What a runner does after run, or in it, shows only when it tells the wait.
LEMMA RunnerImplements ==
  ASSUME Safe, Safe', NEW r \in Runners, RunnerStep(r)
  PROVE  [Graph!Next]_(Graph!vars)
<1> USE RunnerNames, ActorsDistinct DEF Actors
<1> DEFINE j == r[1]
<1>1. /\ Types(Nat) /\ OnceInv /\ OnceInv' /\ ProcessInv
      /\ PhasesMean /\ PhasesMean' /\ RunnersTell /\ RunnersTell'
  BY PhaseMeans, RunnerTells, PTL DEF Safe, Accounting, TypeOK
<1>2. /\ pc[r] # "idle" /\ jobs' = jobs /\ exitMode' = exitMode
      /\ \A i \in Jobs \ {j} : state'[i] = state[i] /\ (i \in waitingJobs' <=> i \in waitingJobs)
      /\ \A q \in Runners \ {r} : pc'[q] = pc[q]
      /\ pc'[Main] = "returned" <=> pc[Main] = "returned"
      /\ \A i \in Jobs : files'[i] = "done" <=> files[i] = "done"
  BY RunnerLeaves
<1>3. /\ j \in Jobs /\ j \in jobs
      /\ \A i \in Jobs \ {j} : PhaseOf(i)' = PhaseOf(i)
      /\ Done' = Done /\ Returned' = Returned
  BY <1>1, <1>2, OthersUntouched DEF RunnersTell, Done, Returned
<1>4. ASSUME PhaseOf(j)' = PhaseOf(j), Failed' = Failed, waitingJobs' = waitingJobs
      PROVE  UNCHANGED Graph!vars
  <2>1. phases' = phases
    BY <1>3, <1>4 DEF phases
  <2>2. QED
    BY <1>2, <1>3, <1>4, <2>1 DEF Graph!vars, phases, Failed, Done, Returned
<1>5. CASE AcquireLocks(r)
  BY <1>3, <1>5, AcquireImplements DEF Graph!Next
<1>6. CASE AlreadyDone(r) \/ LockFileTimeout(r) \/ Reap(r)
  BY <1>3, <1>6, LeaveImplements DEF Graph!Next
<1>7. CASE AbortStart(r)
  <2>1. /\ pc[r] = "starting" /\ pc'[r] = "idle" /\ waitingJobs' = waitingJobs
        /\ state'[j] = "READY" /\ state[j] \notin {"ERROR", "DONE"}
        /\ j \in waitingJobs
    BY <1>1, <1>7, AheadWaits DEF AbortStart, Ahead, Types
  <2>2. Failed' = Failed
    BY <1>2, <2>1 DEF Failed
  <2>3. Waits(j)
    <3>1. state[j] # "RUNNING"
      BY <1>1, <2>1, NotYetRunning
    <3>2. state[j] \in {"WAITING", "READY"}
      BY <1>1, <1>3, <2>1, <3>1 DEF Types, States
    <3>3. QED
      BY <1>1, <1>2, <2>1, <3>2 DEF RunnersTell
  <2>4. \A k \in Threads : pc'[<<j, k>>] = "idle"
    <3> SUFFICES ASSUME NEW k \in Threads, <<j, k>> # r
                 PROVE  pc'[<<j, k>>] = "idle"
      BY <2>1
    <3>1. pc[<<j, k>>] = "idle"
      BY <1>1, <1>2, OneRunnerAlone
    <3>2. QED
      BY <1>2, <3>1
  <2>5. Waits(j)'
    BY <2>1, <2>4 DEF Waits
  <2>6. PhaseOf(j)' = PhaseOf(j)
    BY <1>1, <1>3, <2>3, <2>5 DEF PhasesMean
  <2>7. QED
    BY <1>4, <2>1, <2>2, <2>6
<1>8. CASE Launch(r)
  <2>1. /\ pc[r] = "lockFile" /\ pc'[r] = "executing" /\ waitingJobs' = waitingJobs
        /\ state'[j] = "RUNNING"
    BY <1>1, <1>8 DEF Launch, Types
  <2>2. Running(r) /\ Running(r)'
    BY <2>1 DEF Running
  <2>3. state[j] # "ERROR"
    BY <1>1, <2>2, AheadWaits DEF Ahead
  <2>4. Failed' = Failed
    BY <1>2, <2>1, <2>3 DEF Failed
  <2>5. PhaseOf(j)' = PhaseOf(j)
    BY <1>1, <1>2, <1>3, <2>1, <2>2 DEF RunnersTell, PhasesMean
  <2>6. QED
    BY <1>4, <2>1, <2>4, <2>5
<1>9. CASE Complete(r)
  <2>1. /\ pc[r] = "relock" /\ pc'[r] = "completed" /\ waitingJobs' = waitingJobs \ {j}
        /\ state' = state
    BY <1>1, <1>9 DEF Complete, JobFinished, NotifyMain, Types
  <2>2. ~Running(r) /\ ~Running(r)'
    BY <2>1 DEF Running
  <2>3. PhaseOf(j) = "left" /\ PhaseOf(j)' = "left"
    BY <1>1, <1>2, <1>3, <2>1, <2>2 DEF RunnersTell, PhasesMean
  <2>4. phases' = phases /\ phases[j] = "left"
    BY <1>3, <2>3 DEF phases
  <2>5. Failed' = Failed
    BY <2>1 DEF Failed
  <2>6. Graph!Complete(j)
    BY <1>2, <1>3, <2>1, <2>4, <2>5 DEF Graph!Complete, phases, Failed, Done, Returned
  <2>7. QED
    BY <1>3, <2>6 DEF Graph!Next
<1>10. CASE EndRunner(r)
  <2>1. /\ pc[r] = "released" /\ pc'[r] = "idle" /\ waitingJobs' = waitingJobs /\ state' = state
        /\ j \notin waitingJobs
    BY <1>1, <1>10 DEF EndRunner, schedVars, Types, OnceInv, StartInv
  <2>2. ~Waits(j) /\ ~Waits(j)'
    BY <2>1 DEF Waits
  <2>3. ~Runs(j)
    BY <1>1, <2>1 DEF RunnersTell, Running
  <2>4. ~Runs(j)'
    BY <1>2, <2>1, <2>3 DEF Runs, Running
  <2>5. PhaseOf(j)' = PhaseOf(j)
    BY <1>1, <1>2, <1>3, <2>2, <2>3, <2>4 DEF PhasesMean
  <2>6. Failed' = Failed
    BY <2>1 DEF Failed
  <2>7. QED
    BY <1>4, <2>1, <2>5, <2>6
<1>11. CASE Attach(r) \/ LockFile(r) \/ LeaveRun(r) \/ ReleaseLocks(r)
  <2>1. /\ UNCHANGED << waitingJobs, state >>
        /\ Running(r)' <=> Running(r)
        /\ pc[r] \notin {"idle", "starting"} /\ pc'[r] \notin {"idle", "starting"}
    BY <1>1, <1>11 DEF Attach, LockFile, LeaveRun, ReleaseLocks, schedVars, Running, Types
  <2>2. \A q \in Runners : /\ Running(q)' <=> Running(q)
                           /\ pc'[q] \in {"idle", "starting"} <=> pc[q] \in {"idle", "starting"}
    BY <1>2, <2>1 DEF Running
  <2>3. QED
    BY <1>1, <1>2, <2>1, <2>2, Stutters
<1>12. QED
  BY <1>5, <1>6, <1>7, <1>8, <1>9, <1>10, <1>11 DEF RunnerStep

-----------------------------------------------------------------------------
(* The refinement.                                                         *)

\* The initial states of Scheduler are those of JobGraph.
LEMMA InitImplements ==
  ASSUME Unset \subseteq {"WAITING", "READY"}, Init
  PROVE  Graph!Init
<1> USE ActorsDistinct DEF Actors
<1>1. \A j \in Jobs : PhaseOf(j) = "new"
  BY OnceInit, PhaseMeans DEF Init, PhasesMean
<1>2. phases = [j \in Jobs |-> "new"]
  BY <1>1 DEF phases
<1>3. Failed = {}
  BY DEF Init, Failed
<1>4. Done \in SUBSET Jobs /\ Returned = FALSE
  BY DEF Init, Done, Returned
<1>5. QED
  BY <1>2, <1>3, <1>4 DEF Init, Graph!Init, phases, Failed, Done, Returned


\* The invariants hold initially.
LEMMA SafeInit ==
  ASSUME Unset \subseteq {"WAITING", "READY"}
  PROVE  Init => Safe
  BY AccountingInit, DoneInit, OnceInit, ProcessInit DEF Safe

\* Every step is one of JobGraph, or does not show.
LEMMA StepImplements ==
  ASSUME Safe, Safe', [Next]_vars
  PROVE  [Graph!Next]_(Graph!vars)
  BY MainImplements, CheckImplements, RunnerImplements, EnvironmentImplements DEF Next

\* Whatever threads, scripts and the user do, the scheduler does what JobGraph
\* says, when the needs of each token are all equal and no job is constructed
\* with a state that says it has run: each job starts at most once, after the
\* jobs it depends on and within its tokens, and it is counted until it is over.
THEOREM SchedulerImplementsGraph ==
  ASSUME EqualNeeds, Unset \subseteq {"WAITING", "READY"}
  PROVE  Spec => ImplementsGraph
<1>1. Init => Safe /\ Graph!Init
  BY SafeInit, InitImplements
<1>2. Safe /\ [Next]_vars => Safe' /\ [Graph!Next]_(Graph!vars)
  BY SafeStep, StepImplements
<1>3. QED
  BY <1>1, <1>2, PTL DEF Spec, ImplementsGraph, Graph!Spec

=============================================================================
