--------------------------- MODULE JobFiles_proofs ---------------------------
(***************************************************************************)
(* Proofs about JobFiles, for all programs, scripts and bounds.            *)
(***************************************************************************)
EXTENDS JobFiles, FiniteSetTheorems, TLAPS

-----------------------------------------------------------------------------
(* The steps, in groups that leave the same things alone.                  *)

\* The script that Launch starts.
NewScript == CHOOSE s \in Scripts : spc[s] = "new"

\* A run that is about to launch has a script left for it.
LEMMA ScriptLeft ==
  ASSUME TypeOK, RunsInv, NEW p \in Programs, pc[p] \notin {"idle", "wait", "leave"}
  PROVE  NewScript \in Scripts /\ spc[NewScript] = "new"
<1>1. IsFiniteSet(Launched) /\ Launched \subseteq Scripts /\ Cardinality(Launched) \in Nat
  BY FilesAssumption, FS_Subset, FS_CardinalityType DEF Launched
<1>2. p \in Unlaunched /\ IsFiniteSet(Unlaunched) /\ Cardinality(Unlaunched) \in Nat
  BY FS_CardinalityType DEF RunsInv, Unlaunched
<1>3. Cardinality(Unlaunched) # 0
  BY <1>2, FS_EmptySet
<1>4. Cardinality(Launched) < Cardinality(Scripts)
  <2>1. count.runs \in 0 .. MaxRuns /\ MaxRuns \in Nat /\ MaxRuns <= Cardinality(Scripts)
    BY FilesAssumption DEF TypeOK
  <2>2. Cardinality(Scripts) \in Nat
    BY FilesAssumption, FS_CardinalityType
  <2>3. QED
    BY <1>1, <1>2, <1>3, <2>1, <2>2 DEF RunsInv
<1>5. Launched # Scripts
  BY <1>4, FilesAssumption, FS_CardinalityType
<1>6. \E s \in Scripts : spc[s] = "new"
  BY <1>1, <1>5 DEF Launched
<1>7. QED
  BY <1>6 DEF NewScript

-----------------------------------------------------------------------------
(* Types.                                                                  *)

Counts == [runs : 0 .. MaxRuns, crashes : 0 .. MaxCrashes,
           kills : 0 .. MaxKills, stops : 0 .. MaxStops]

\* A count that is below its bound stays within it when it goes up.
LEMMA CountUp ==
  ASSUME NEW c \in Counts
  PROVE  /\ c.runs < MaxRuns => [c EXCEPT !.runs = @ + 1] \in Counts
         /\ c.crashes < MaxCrashes => [c EXCEPT !.crashes = @ + 1] \in Counts
         /\ c.kills < MaxKills => [c EXCEPT !.kills = @ + 1] \in Counts
         /\ c.stops < MaxStops => [c EXCEPT !.stops = @ + 1] \in Counts
<1>1. MaxRuns \in Nat /\ MaxCrashes \in Nat /\ MaxKills \in Nat /\ MaxStops \in Nat
  BY FilesAssumption
<1>2. c.runs < MaxRuns => [c EXCEPT !.runs = @ + 1] \in Counts
  BY <1>1 DEF Counts
<1>3. c.crashes < MaxCrashes => [c EXCEPT !.crashes = @ + 1] \in Counts
  BY <1>1 DEF Counts
<1>4. c.kills < MaxKills => [c EXCEPT !.kills = @ + 1] \in Counts
  BY <1>1 DEF Counts
<1>5. c.stops < MaxStops => [c EXCEPT !.stops = @ + 1] \in Counts
  BY <1>1 DEF Counts
<1>6. QED
  BY <1>2, <1>3, <1>4, <1>5

LEMMA CountTypes ==
  ASSUME TypeOK
  PROVE  count \in Counts /\ count.runs \in Nat /\ count.kills \in Nat /\ count.stops \in Nat
<1>1. count \in Counts
  BY DEF TypeOK, Counts
<1>2. QED
  BY <1>1 DEF Counts

LEMMA TypeInit == Init => TypeOK
<1> SUFFICES ASSUME Init PROVE TypeOK
  OBVIOUS
<1>1. count \in Counts
  BY FilesAssumption DEF Init, Counts
<1>2. QED
  BY <1>1 DEF Init, TypeOK, Counts, ProgramPCs, ScriptPCs

\* A program that is gone leaves the types as they are.
LEMMA GoneTypes ==
  ASSUME TypeOK, NEW p \in Programs, Gone(p)
  PROVE  /\ pc' \in [Programs -> ProgramPCs]
         /\ holds' \in [Programs -> SUBSET {"lock", "start"}]
         /\ process' \in [Programs -> Scripts \cup {"none", Unknown}]
         /\ result' \in [Programs -> {"none", "DONE", "ERROR"}]
         /\ guessed' \in BOOLEAN /\ broken' \in BOOLEAN
<1>1. guessed' \in BOOLEAN
  BY DEF Gone, TypeOK
<1>2. broken' \in BOOLEAN
  BY DEF Gone, TypeOK
<1>3. holds' \in [Programs -> SUBSET {"lock", "start"}]
  BY DEF Gone, TypeOK
<1>4. pc' \in [Programs -> ProgramPCs]
  BY DEF Gone, Go, TypeOK, ProgramPCs
<1>5. QED
  BY <1>1, <1>2, <1>3, <1>4 DEF Gone, TypeOK

\* What a program does keeps the types: the script it launches is one that
\* is left.
LEMMA ProgramTypes ==
  ASSUME TypeOK, RunsInv, NEW p \in Programs, Run(p) \/ ProgramStep(p) \/ Crash(p)
  PROVE  TypeOK'
<1>0. count \in Counts
  BY DEF TypeOK, Counts
<1> USE DEF TypeOK, ProgramPCs, disk, programs, scripts, notes, Go, Ends
<1>1. CASE Run(p)
  <2>1. count' \in Counts
    BY <1>1, <1>0, CountUp DEF Run
  <2>2. QED
    BY <1>1, <2>1 DEF Run, Counts
<1>2. CASE CheckDone(p)
  BY <1>2 DEF CheckDone
<1>3. CASE CheckPid(p)
  BY <1>3 DEF CheckPid
<1>4. CASE ReadPid(p)
  BY <1>4 DEF ReadPid
<1>5. CASE Poll(p)
  <2>1. guessed' \in BOOLEAN
    BY <1>5 DEF Poll
  <2>2. PICK r \in {"DONE", "ERROR"} : result' = [result EXCEPT ![p] = r] /\ pc' = [pc EXCEPT ![p] = "leave"]
    BY <1>5 DEF Poll
  <2>3. QED
    BY <1>5, <2>1, <2>2 DEF Poll
<1>6. CASE Mkdirs(p) \/ Mkdir(p)
  <2>1. CASE Mkdirs(p)
    BY <2>1 DEF Mkdirs
  <2>2. CASE Mkdir(p) /\ directory
    BY <2>2, GoneTypes DEF Mkdir
  <2>3. CASE Mkdir(p) /\ ~directory
    BY <2>3 DEF Mkdir
  <2>4. QED
    BY <1>6, <2>1, <2>2, <2>3
<1>7. CASE LockJob(p)
  <2>1. CASE "lock" \in lockFiles
    BY <1>7, <2>1 DEF LockJob, Lock
  <2>2. CASE "lock" \notin lockFiles
    <3>1. lockFiles' = lockFiles \cup {"lock"} /\ holds' = [holds EXCEPT ![p] = @ \cup {"lock"}]
          /\ pc' = [pc EXCEPT ![p] = "check"]
      BY <1>7, <2>2 DEF LockJob, Lock
    <3>2. lockFiles' \subseteq {"lock", "start"} /\ holds' \in [Programs -> SUBSET {"lock", "start"}]
      BY <3>1
    <3>3. QED
      BY <1>7, <3>1, <3>2 DEF LockJob, Lock
  <2>3. QED
    BY <2>1, <2>2
<1>8. CASE TestLock(p) \/ Retry(p) \/ TimeOut(p)
  <2>1. CASE TestLock(p) /\ "lock" \in lockFiles
    BY <2>1 DEF TestLock
  <2>2. CASE TestLock(p) /\ "lock" \notin lockFiles
    BY <2>2, GoneTypes DEF TestLock
  <2>3. CASE Retry(p) \/ TimeOut(p)
    BY <2>3 DEF Retry, TimeOut
  <2>4. QED
    BY <1>8, <2>1, <2>2, <2>3
<1>9. CASE Launch(p)
  <2>1. NewScript \in Scripts
    BY <1>9, ScriptLeft DEF Launch
  <2>2. spc' = [spc EXCEPT ![NewScript] = "test"] /\ process' = [process EXCEPT ![p] = NewScript]
    BY <1>9 DEF Launch, NewScript
  <2>3. spc' \in [Scripts -> ScriptPCs] /\ process' \in [Programs -> Scripts \cup {"none", Unknown}]
    BY <2>1, <2>2 DEF ScriptPCs
  <2>4. QED
    BY <1>9, <2>3 DEF Launch
<1>10. CASE StartTimeOut(p) \/ Wait(p) \/ Leave(p)
  BY <1>10 DEF StartTimeOut, Wait, Leave
<1>11. CASE Crash(p)
  <2>1. count' \in Counts
    BY <1>11, <1>0, CountUp DEF Crash
  <2>2. QED
    BY <1>11, <2>1, GoneTypes DEF Crash, Counts
<1>12. QED
  BY <1>1, <1>2, <1>3, <1>4, <1>5, <1>6, <1>7, <1>8, <1>9, <1>10, <1>11 DEF ProgramStep

\* So does what a script does, and what is done to it.
LEMMA ScriptTypes ==
  ASSUME TypeOK, NEW s \in Scripts, ScriptStep(s) \/ Kill(s) \/ Stop(s)
  PROVE  TypeOK'
<1>0. count \in Counts
  BY DEF TypeOK, Counts
<1> USE DEF TypeOK, ScriptPCs, disk, programs, scripts, notes, Goes
<1>1. CASE TestLocks(s) \/ RemoveStart(s) \/ OpenPid(s) \/ WritePid(s) \/ StartCommand(s)
  BY <1>1 DEF TestLocks, RemoveStart, OpenPid, WritePid, StartCommand
<1>2. ASSUME NEW status \in {"ok", "fail"}, EndCommand(s, status)
      PROVE  TypeOK'
  BY <1>2 DEF EndCommand
<1>3. CASE WriteCode(s) \/ TouchDone(s) \/ RemovePid(s) \/ RemoveLock(s) \/ KillCommand(s)
  BY <1>3 DEF WriteCode, TouchDone, RemovePid, RemoveLock, KillCommand
<1>4. CASE Kill(s)
  <2>1. count' \in Counts
    BY <1>4, <1>0, CountUp DEF Kill
  <2>2. QED
    BY <1>4, <2>1 DEF Kill, Counts
<1>5. CASE Stop(s)
  <2>1. count' \in Counts
    BY <1>5, <1>0, CountUp DEF Stop
  <2>2. QED
    BY <1>5, <2>1 DEF Stop, Counts
<1>6. QED
  BY <1>1, <1>2, <1>3, <1>4, <1>5 DEF ScriptStep

LEMMA TypeStep == TypeOK /\ RunsInv /\ [Next]_vars => TypeOK'
<1> SUFFICES ASSUME TypeOK, RunsInv, [Next]_vars PROVE TypeOK'
  OBVIOUS
<1>1. CASE Tidy
  BY <1>1 DEF Tidy, TypeOK, programs, scripts, notes
<1>2. CASE UNCHANGED vars
  BY <1>2 DEF vars, disk, programs, scripts, notes, TypeOK
<1>3. QED
  BY <1>1, <1>2, ProgramTypes, ScriptTypes DEF Next

-----------------------------------------------------------------------------
(* Who owns FILE.lock.                                                     *)

\* FILE.lock is found, or made and held.
LEMMA LockJobCases ==
  ASSUME NEW p \in Programs, LockJob(p)
  PROVE  /\ pc[p] = "lock" /\ UNCHANGED << result, process, scripts, notes >>
         /\ UNCHANGED << directory, pidFile, codeFile, doneFile >>
         /\ \/ /\ "lock" \in lockFiles /\ UNCHANGED << holds, lockFiles >>
               /\ pc' = [pc EXCEPT ![p] = "lock taken"]
            \/ /\ "lock" \notin lockFiles /\ lockFiles' = lockFiles \cup {"lock"}
               /\ holds' = [holds EXCEPT ![p] = holds[p] \cup {"lock"}]
               /\ pc' = [pc EXCEPT ![p] = "check"]
  BY DEF LockJob, Lock, Go

LEMMA PollMoves ==
  ASSUME NEW p \in Programs, Poll(p)
  PROVE  /\ pc[p] = "poll" /\ pc' = [pc EXCEPT ![p] = "leave"]
         /\ UNCHANGED << disk, holds, process, scripts, count, broken >>
  BY DEF Poll, Go, Ends

\* The actions of a script.
LEMMA ScriptsOnly ==
  ASSUME NEW s \in Scripts, ScriptStep(s) \/ Kill(s) \/ Stop(s)
  PROVE  UNCHANGED programs
  BY DEF ScriptStep, Kill, Stop, TestLocks, RemoveStart, OpenPid, WritePid, StartCommand,
     WriteCode, TouchDone, RemovePid, RemoveLock, KillCommand, EndCommand

\* Those of a program that take no lock, give none back and launch nothing.
Moves(p) ==
  Run(p) \/ CheckDone(p) \/ CheckPid(p) \/ ReadPid(p) \/ Poll(p) \/ Mkdirs(p)
    \/ Mkdir(p) \/ TestLock(p) \/ Retry(p) \/ TimeOut(p) \/ StartTimeOut(p) \/ Wait(p)
    \/ Crash(p)

LEMMA ProgramActions ==
  ASSUME NEW p \in Programs, Run(p) \/ ProgramStep(p) \/ Crash(p)
  PROVE  Moves(p) \/ LockJob(p) \/ Launch(p) \/ Leave(p)
  BY DEF ProgramStep, Moves

LEMMA MovesKeep ==
  ASSUME TypeOK, NEW p \in Programs, Moves(p)
  PROVE  /\ UNCHANGED << spc, exit, command >> /\ UNCHANGED << lockFiles, pidFile, codeFile, doneFile >>
         /\ holds' = holds \/ holds' = [holds EXCEPT ![p] = {}]
<1>1. CASE Poll(p)
  BY <1>1, PollMoves DEF disk, scripts
<1>2. CASE Mkdir(p) \/ TestLock(p) \/ Crash(p)
  BY <1>2 DEF Mkdir, TestLock, Crash, Gone, disk, scripts
<1>3. CASE Run(p) \/ CheckDone(p) \/ CheckPid(p) \/ ReadPid(p) \/ Mkdirs(p)
  BY <1>3 DEF Run, CheckDone, CheckPid, ReadPid, Mkdirs, disk, scripts
<1>4. CASE Retry(p) \/ TimeOut(p) \/ StartTimeOut(p) \/ Wait(p)
  BY <1>4 DEF Retry, TimeOut, StartTimeOut, Wait, disk, scripts
<1>5. QED
  BY <1>1, <1>2, <1>3, <1>4 DEF Moves

\* The lock is held where it should be.
LEMMA HoldsStep ==
  ASSUME TypeOK, HoldsInv, [Next]_vars
  PROVE  HoldsInv'
<1>1. CASE UNCHANGED programs
  BY <1>1 DEF programs, HoldsInv, Holder
<1>2. ASSUME NEW p \in Programs, Run(p) \/ ProgramStep(p) \/ Crash(p)
      PROVE  HoldsInv'
  <2>0. pc \in [Programs -> ProgramPCs] /\ holds \in [Programs -> SUBSET {"lock", "start"}]
    BY DEF TypeOK
  <2> USE <2>0 DEF HoldsInv, Holder, Go, Ends
  <2>1. CASE Run(p)
    BY <2>1 DEF Run
  <2>2. CASE CheckDone(p)
    BY <2>2 DEF CheckDone
  <2>3. CASE CheckPid(p)
    BY <2>3 DEF CheckPid
  <2>4. CASE ReadPid(p)
    BY <2>4 DEF ReadPid
  <2>5. CASE Poll(p)
    BY <2>5, PollMoves
  <2>6. CASE Mkdirs(p)
    BY <2>6 DEF Mkdirs
  <2>7. CASE Mkdir(p)
    BY <2>7 DEF Mkdir, Gone
  <2>8. CASE LockJob(p)
    <3>1. pc[p] = "lock" /\ holds[p] = {}
      BY <2>8 DEF LockJob, Lock
    <3>2. CASE holds' = holds /\ pc' = [pc EXCEPT ![p] = "lock taken"]
      BY <3>1, <3>2
    <3>3. CASE holds' = [holds EXCEPT ![p] = {"lock"}] /\ pc' = [pc EXCEPT ![p] = "check"]
      BY <3>1, <3>3
    <3>4. QED
      BY <2>8, <3>1, <3>2, <3>3, LockJobCases
  <2>9. CASE TestLock(p)
    BY <2>9 DEF TestLock, Gone
  <2>10. CASE Retry(p) \/ TimeOut(p) \/ StartTimeOut(p) \/ Wait(p)
    BY <2>10 DEF Retry, TimeOut, StartTimeOut, Wait
  <2>11. CASE Launch(p) \/ Leave(p)
    BY <2>11 DEF Launch, Leave
  <2>12. CASE Crash(p)
    BY <2>12 DEF Crash, Gone
  <2>13. QED
    BY <1>2, <2>1, <2>2, <2>3, <2>4, <2>5, <2>6, <2>7, <2>8, <2>9, <2>10, <2>11, <2>12
       DEF ProgramStep
<1>3. CASE Tidy \/ UNCHANGED vars
  BY <1>1, <1>3 DEF Tidy, vars
<1>4. QED
  BY <1>1, <1>2, <1>3, ScriptsOnly DEF Next

\* Fewer owners of a lock that is still there.
LEMMA FewerOwners ==
  ASSUME OwnerInv, \A p \in Programs : Holder(p)' => Holder(p),
         \A s \in Scripts : Guards(s)' => Guards(s),
         "lock" \in lockFiles => "lock" \in lockFiles'
  PROVE  OwnerInv'
  BY DEF OwnerInv

\* A lock that is made has no owner yet; one that is given over to a script, or
\* removed, has no other.
LEMMA OwnerStep ==
  ASSUME TypeOK, HoldsInv, OwnerInv, RunsInv, [Next]_vars
  PROVE  OwnerInv'
<1>0. /\ pc \in [Programs -> ProgramPCs] /\ holds \in [Programs -> SUBSET {"lock", "start"}]
      /\ spc \in [Scripts -> ScriptPCs]
  BY DEF TypeOK
<1>1. ASSUME NEW p \in Programs, Run(p) \/ ProgramStep(p) \/ Crash(p)
      PROVE  OwnerInv'
  <2>1. CASE Moves(p)
    BY <1>0, <2>1, MovesKeep, FewerOwners DEF Holder, Guards
  <2>2. CASE LockJob(p)
    <3>1. spc' = spc
      BY <2>2, LockJobCases DEF scripts
    <3>2. CASE UNCHANGED << holds, lockFiles >>
      BY <3>1, <3>2, FewerOwners DEF Holder, Guards
    <3>3. CASE /\ "lock" \notin lockFiles /\ lockFiles' = lockFiles \cup {"lock"}
               /\ holds' = [holds EXCEPT ![p] = holds[p] \cup {"lock"}]
      BY <1>0, <3>1, <3>3 DEF OwnerInv, Holder, Guards
    <3>4. QED
      BY <2>2, <3>2, <3>3, LockJobCases
  <2>3. CASE Launch(p)
    <3>1. Holder(p)
      BY <2>3 DEF HoldsInv, Launch
    <3>2. NewScript \in Scripts /\ spc[NewScript] = "new"
      BY <2>3, ScriptLeft DEF Launch
    <3>3. /\ spc' = [spc EXCEPT ![NewScript] = "test"] /\ holds' = [holds EXCEPT ![p] = {}]
          /\ lockFiles' = lockFiles \cup {"start"}
      BY <2>3 DEF Launch, NewScript
    <3>4. QED
      BY <1>0, <3>1, <3>2, <3>3 DEF OwnerInv, Holder, Guards
  <2>4. CASE Leave(p)
    BY <1>0, <2>4 DEF Leave, HoldsInv, OwnerInv, Holder, Guards, scripts
  <2>5. QED
    BY <1>1, <2>1, <2>2, <2>3, <2>4, ProgramActions
<1>2. ASSUME NEW s \in Scripts, ScriptStep(s) \/ Kill(s) \/ Stop(s)
      PROVE  OwnerInv'
  <2>0. holds' = holds
    BY <1>2, ScriptsOnly DEF programs
  <2> USE <1>0, <2>0 DEF Holder, Guards, Goes
  <2>1. CASE RemoveLock(s)
    BY <2>1 DEF RemoveLock, OwnerInv
  <2>2. CASE TestLocks(s) \/ RemoveStart(s) \/ OpenPid(s) \/ WritePid(s) \/ StartCommand(s)
    BY <2>2, FewerOwners DEF TestLocks, RemoveStart, OpenPid, WritePid, StartCommand, disk
  <2>3. CASE WriteCode(s) \/ TouchDone(s) \/ RemovePid(s) \/ KillCommand(s)
    BY <2>3, FewerOwners DEF WriteCode, TouchDone, RemovePid, KillCommand, disk
  <2>4. ASSUME NEW status \in {"ok", "fail"}, EndCommand(s, status)
        PROVE  OwnerInv'
    BY <2>4, FewerOwners DEF EndCommand, disk
  <2>5. CASE Kill(s) \/ Stop(s)
    BY <2>5, FewerOwners DEF Kill, Stop, disk
  <2>6. QED
    BY <1>2, <2>1, <2>2, <2>3, <2>4, <2>5 DEF ScriptStep
<1>3. CASE Tidy
  BY <1>3 DEF Tidy, Calm, OwnerInv, HoldsInv, Holder, Guards, programs, scripts
<1>4. CASE UNCHANGED vars
  BY <1>4, FewerOwners DEF vars, disk, programs, scripts, Holder, Guards
<1>5. QED
  BY <1>1, <1>2, <1>3, <1>4 DEF Next

-----------------------------------------------------------------------------
(* FILE.lock.start.                                                        *)

\* What Launch does, with the script named.
LEMMA LaunchStarts ==
  ASSUME TypeOK, HoldsInv, RunsInv, NEW p \in Programs, Launch(p)
  PROVE  /\ Holder(p) /\ pc[p] = "start lock" /\ "start" \notin lockFiles
         /\ NewScript \in Scripts /\ spc[NewScript] = "new"
         /\ spc' = [spc EXCEPT ![NewScript] = "test"] /\ process' = [process EXCEPT ![p] = NewScript]
         /\ holds' = [holds EXCEPT ![p] = {}] /\ pc' = [pc EXCEPT ![p] = "wait"]
         /\ lockFiles' = lockFiles \cup {"start"}
         /\ UNCHANGED << pidFile, codeFile, doneFile, result, exit, command, notes >>
<1>1. NewScript \in Scripts /\ spc[NewScript] = "new"
  BY ScriptLeft DEF Launch
<1>2. QED
  BY <1>1 DEF Launch, HoldsInv, NewScript, Go

\* Both locks are there for the script that looks for them.
LEMMA LocksFound ==
  ASSUME TypeOK, OwnerInv, StartInv, NEW s \in Scripts, TestLocks(s)
  PROVE  /\ spc[s] = "test" /\ spc' = [spc EXCEPT ![s] = "unlock start"]
         /\ UNCHANGED << disk, programs, exit, command, notes >>
<1>1. spc[s] = "test" /\ lockFiles \subseteq {"lock", "start"}
  BY DEF TestLocks, TypeOK
<1>2. "lock" \in lockFiles /\ "start" \in lockFiles
  BY <1>1 DEF OwnerInv, StartInv, Guards
<1>3. lockFiles = {"lock", "start"}
  BY <1>1, <1>2
<1>4. QED
  BY <1>1, <1>3 DEF TestLocks

LEMMA StartStep ==
  ASSUME TypeOK, HoldsInv, OwnerInv, StartInv, RunsInv, [Next]_vars
  PROVE  StartInv'
<1>0. /\ holds \in [Programs -> SUBSET {"lock", "start"}] /\ spc \in [Scripts -> ScriptPCs]
      /\ exit \in [Scripts -> {"none", "ok", "fail", "signal", "no lock"}]
  BY DEF TypeOK
<1>1. ASSUME NEW p \in Programs, Run(p) \/ ProgramStep(p) \/ Crash(p)
      PROVE  StartInv'
  <2>1. CASE Moves(p)
    BY <2>1, MovesKeep DEF StartInv
  <2>2. CASE LockJob(p)
    BY <2>2, LockJobCases DEF StartInv, scripts
  <2>3. CASE Launch(p)
    <3>1. lockFiles' = lockFiles \cup {"start"} /\ exit' = exit
      BY <2>3, LaunchStarts
    <3>2. QED
      BY <3>1 DEF StartInv
  <2>4. CASE Leave(p)
    BY <2>4 DEF Leave, StartInv, HoldsInv, scripts
  <2>5. QED
    BY <1>1, <2>1, <2>2, <2>3, <2>4, ProgramActions
<1>2. ASSUME NEW s \in Scripts, ScriptStep(s) \/ Kill(s) \/ Stop(s)
      PROVE  StartInv'
  <2> USE <1>0 DEF StartInv, Goes
  <2>1. CASE TestLocks(s)
    BY <2>1, LocksFound DEF disk
  <2>2. CASE RemoveStart(s)
    BY <2>2 DEF RemoveStart, OwnerInv, Guards
  <2>3. CASE OpenPid(s) \/ WritePid(s) \/ StartCommand(s)
    BY <2>3 DEF OpenPid, WritePid, StartCommand, disk
  <2>4. CASE WriteCode(s) \/ TouchDone(s) \/ RemovePid(s) \/ RemoveLock(s) \/ KillCommand(s)
    BY <2>4 DEF WriteCode, TouchDone, RemovePid, RemoveLock, KillCommand, disk
  <2>5. ASSUME NEW status \in {"ok", "fail"}, EndCommand(s, status)
        PROVE  StartInv'
    BY <2>5 DEF EndCommand, disk
  <2>6. CASE Kill(s) \/ Stop(s)
    BY <2>6 DEF Kill, Stop, disk
  <2>7. QED
    BY <1>2, <2>1, <2>2, <2>3, <2>4, <2>5, <2>6 DEF ScriptStep
<1>3. CASE Tidy \/ UNCHANGED vars
  BY <1>3 DEF Tidy, StartInv, vars, disk, scripts
<1>4. QED
  BY <1>1, <1>2, <1>3 DEF Next

-----------------------------------------------------------------------------
(* FILE.done.                                                              *)

Past(p) == Holder(p) /\ pc[p] \notin {"check", "leave"}
Started(s) == Guards(s) /\ spc[s] \notin {"rm pid", "rm lock"}

\* Fewer owners past the test, and the same file.
LEMMA FewerPast ==
  ASSUME DoneInv, doneFile' = doneFile,
         \A p \in Programs : Past(p)' => Past(p), \A s \in Scripts : Started(s)' => Started(s)
  PROVE  DoneInv'
  BY DEF DoneInv, Past, Started

LEMMA DoneStep ==
  ASSUME TypeOK, HoldsInv, OwnerInv, RunsInv, DoneInv, [Next]_vars
  PROVE  DoneInv'
<1>0. /\ pc \in [Programs -> ProgramPCs] /\ holds \in [Programs -> SUBSET {"lock", "start"}]
      /\ spc \in [Scripts -> ScriptPCs]
  BY DEF TypeOK
<1>1. ASSUME NEW p \in Programs, Run(p) \/ ProgramStep(p) \/ Crash(p)
      PROVE  DoneInv'
  <2> USE <1>0 DEF Past, Started, Holder, Guards, Go
  <2>1. CASE Run(p)
    BY <2>1, FewerPast DEF Run, HoldsInv, disk, scripts
  <2>2. CASE CheckDone(p)
    <3>1. CASE doneFile
      BY <2>2, <3>1, FewerPast DEF CheckDone, Ends, disk, scripts
    <3>2. CASE ~doneFile
      BY <2>2, <3>2 DEF CheckDone, DoneInv, disk, scripts
    <3>3. QED
      BY <3>1, <3>2
  <2>3. CASE CheckPid(p)
    BY <2>3, FewerPast DEF CheckPid, disk, scripts
  <2>4. CASE ReadPid(p)
    BY <2>4, FewerPast DEF ReadPid, disk, scripts
  <2>5. CASE Poll(p)
    BY <2>5, PollMoves, FewerPast DEF disk, scripts
  <2>6. CASE Mkdirs(p)
    BY <2>6, FewerPast DEF Mkdirs, HoldsInv, disk, scripts
  <2>7. CASE Mkdir(p)
    BY <2>7, FewerPast DEF Mkdir, Gone, HoldsInv, disk, scripts
  <2>8. CASE LockJob(p)
    BY <2>8, LockJobCases, FewerPast DEF scripts
  <2>9. CASE TestLock(p) \/ Crash(p)
    BY <2>9, FewerPast DEF TestLock, Crash, Gone, HoldsInv, disk, scripts
  <2>10. CASE Retry(p) \/ TimeOut(p) \/ StartTimeOut(p)
    BY <2>10, FewerPast DEF Retry, TimeOut, StartTimeOut, HoldsInv, disk, scripts
  <2>11. CASE Wait(p)
    BY <2>11, FewerPast DEF Wait, Ends, disk, scripts
  <2>12. CASE Launch(p)
    BY <2>12, LaunchStarts DEF DoneInv
  <2>13. CASE Leave(p)
    BY <2>13, FewerPast DEF Leave, scripts
  <2>14. QED
    BY <1>1, <2>1, <2>2, <2>3, <2>4, <2>5, <2>6, <2>7, <2>8, <2>9, <2>10, <2>11, <2>12, <2>13
       DEF ProgramStep
<1>2. ASSUME NEW s \in Scripts, ScriptStep(s) \/ Kill(s) \/ Stop(s)
      PROVE  DoneInv'
  <2>0. holds' = holds /\ pc' = pc
    BY <1>2, ScriptsOnly DEF programs
  <2> USE <1>0, <2>0 DEF Past, Started, Holder, Guards, Goes
  <2>1. CASE TestLocks(s) \/ RemoveStart(s) \/ OpenPid(s) \/ WritePid(s) \/ StartCommand(s)
    BY <2>1, FewerPast DEF TestLocks, RemoveStart, OpenPid, WritePid, StartCommand, disk
  <2>2. CASE WriteCode(s) \/ RemovePid(s) \/ RemoveLock(s) \/ KillCommand(s)
    BY <2>2, FewerPast DEF WriteCode, RemovePid, RemoveLock, KillCommand, disk
  <2>3. CASE TouchDone(s)
    BY <2>3 DEF TouchDone, OwnerInv, DoneInv
  <2>4. ASSUME NEW status \in {"ok", "fail"}, EndCommand(s, status)
        PROVE  DoneInv'
    BY <2>4, FewerPast DEF EndCommand, disk
  <2>5. CASE Kill(s) \/ Stop(s)
    BY <2>5, FewerPast DEF Kill, Stop, disk
  <2>6. QED
    BY <1>2, <2>1, <2>2, <2>3, <2>4, <2>5 DEF ScriptStep
<1>3. CASE Tidy \/ UNCHANGED vars
  BY <1>3, FewerPast DEF Past, Started, Tidy, Holder, Guards, vars, disk, programs, scripts
<1>4. QED
  BY <1>1, <1>2, <1>3 DEF Next

-----------------------------------------------------------------------------
(* How many scripts are launched.                                          *)

\* The same scripts are launched, and no run more is about to launch one.
LEMMA FewerRuns ==
  ASSUME TypeOK, RunsInv, Unlaunched' \subseteq Unlaunched, Launched' = Launched,
         count'.runs = count.runs,
         \A p \in Programs : pc'[p] = "wait" => pc[p] = "wait" /\ process'[p] = process[p]
  PROVE  RunsInv'
<1>1. IsFiniteSet(Unlaunched)
  BY DEF RunsInv
<1>2. IsFiniteSet(Unlaunched') /\ Cardinality(Unlaunched') <= Cardinality(Unlaunched)
  BY <1>1, FS_Subset
<1>3. IsFiniteSet(Launched)
  BY FilesAssumption, FS_Subset DEF Launched
<1>4. Cardinality(Unlaunched) \in Nat /\ Cardinality(Unlaunched') \in Nat /\ Cardinality(Launched) \in Nat
  BY <1>1, <1>2, <1>3, FS_CardinalityType
<1>5. count.runs \in Nat
  BY CountTypes
<1>6. Cardinality(Unlaunched') + Cardinality(Launched') <= count'.runs
  BY <1>2, <1>4, <1>5 DEF RunsInv
<1>7. \A p \in Programs : pc'[p] = "wait" => process'[p] \in Launched'
  BY DEF RunsInv
<1>8. QED
  BY <1>2, <1>6, <1>7 DEF RunsInv

LEMMA RunStep ==
  ASSUME TypeOK, RunsInv, NEW p \in Programs, Run(p)
  PROVE  RunsInv'
<1>0. pc \in [Programs -> ProgramPCs] /\ process \in [Programs -> Scripts \cup {"none", Unknown}]
  BY DEF TypeOK
<1>1. pc[p] = "idle" /\ pc' = [pc EXCEPT ![p] = "check"] /\ process' = [process EXCEPT ![p] = "none"]
      /\ spc' = spc /\ count'.runs = count.runs + 1
  <2>1. count \in Counts /\ count' = [count EXCEPT !.runs = @ + 1]
    BY CountTypes DEF Run
  <2>2. count'.runs = count.runs + 1
    BY <2>1 DEF Counts
  <2>3. QED
    BY <2>2 DEF Run, Go, scripts
<1>2. Launched' = Launched
  BY <1>1 DEF Launched
<1>3. Unlaunched' = Unlaunched \cup {p} /\ p \notin Unlaunched
  BY <1>0, <1>1 DEF Unlaunched
<1>4. IsFiniteSet(Unlaunched') /\ Cardinality(Unlaunched') = Cardinality(Unlaunched) + 1
  BY <1>3, FS_AddElement DEF RunsInv
<1>5. IsFiniteSet(Launched)
  BY FilesAssumption, FS_Subset DEF Launched
<1>6. Cardinality(Unlaunched) \in Nat /\ Cardinality(Launched) \in Nat /\ count.runs \in Nat
  BY <1>5, FS_CardinalityType, CountTypes DEF RunsInv
<1>7. Cardinality(Unlaunched') + Cardinality(Launched') <= count'.runs
  BY <1>1, <1>2, <1>4, <1>6 DEF RunsInv
<1>8. \A q \in Programs : pc'[q] = "wait" => process'[q] \in Launched'
  BY <1>0, <1>1, <1>2 DEF RunsInv
<1>9. QED
  BY <1>4, <1>7, <1>8 DEF RunsInv

\* A run that launches a script is one less that is about to.
LEMMA LaunchStep ==
  ASSUME TypeOK, HoldsInv, RunsInv, NEW p \in Programs, Launch(p)
  PROVE  RunsInv'
<1>0. /\ pc \in [Programs -> ProgramPCs] /\ process \in [Programs -> Scripts \cup {"none", Unknown}]
      /\ spc \in [Scripts -> ScriptPCs]
  BY DEF TypeOK
<1>1. /\ pc[p] = "start lock" /\ NewScript \in Scripts /\ spc[NewScript] = "new"
      /\ spc' = [spc EXCEPT ![NewScript] = "test"] /\ process' = [process EXCEPT ![p] = NewScript]
      /\ pc' = [pc EXCEPT ![p] = "wait"] /\ count' = count
  BY LaunchStarts DEF notes
<1>2. Launched' = Launched \cup {NewScript} /\ NewScript \notin Launched
  BY <1>0, <1>1 DEF Launched
<1>3. Unlaunched' = Unlaunched \ {p} /\ p \in Unlaunched
  BY <1>0, <1>1 DEF Unlaunched
<1>4. IsFiniteSet(Unlaunched') /\ Cardinality(Unlaunched') = Cardinality(Unlaunched) - 1
  BY <1>3, FS_RemoveElement DEF RunsInv
<1>5. IsFiniteSet(Launched) /\ Cardinality(Launched') = Cardinality(Launched) + 1
  BY <1>2, FilesAssumption, FS_Subset, FS_AddElement DEF Launched
<1>6. Cardinality(Unlaunched) \in Nat /\ Cardinality(Launched) \in Nat /\ count.runs \in Nat
  BY <1>5, FS_CardinalityType, CountTypes DEF RunsInv
<1>7. Cardinality(Unlaunched') + Cardinality(Launched') <= count'.runs
  <2>1. count'.runs = count.runs
    BY <1>1
  <2>2. Cardinality(Unlaunched) + Cardinality(Launched) <= count.runs
    BY DEF RunsInv
  <2>3. QED
    BY <2>1, <2>2, <1>4, <1>5, <1>6
<1>8. \A q \in Programs : pc'[q] = "wait" => process'[q] \in Launched'
  BY <1>0, <1>1, <1>2 DEF RunsInv
<1>9. QED
  BY <1>4, <1>7, <1>8 DEF RunsInv

LEMMA RunsStep ==
  ASSUME TypeOK, HoldsInv, RunsInv, [Next]_vars
  PROVE  RunsInv'
<1>0. /\ pc \in [Programs -> ProgramPCs] /\ process \in [Programs -> Scripts \cup {"none", Unknown}]
      /\ spc \in [Scripts -> ScriptPCs]
      /\ count \in [runs : 0 .. MaxRuns, crashes : 0 .. MaxCrashes,
                   kills : 0 .. MaxKills, stops : 0 .. MaxStops]
  BY DEF TypeOK
<1> DEFINE Same == /\ Unlaunched' \subseteq Unlaunched /\ Launched' = Launched
                   /\ count'.runs = count.runs
                   /\ \A p \in Programs : pc'[p] = "wait" => pc[p] = "wait" /\ process'[p] = process[p]
<1>1. ASSUME NEW p \in Programs, Run(p) \/ ProgramStep(p) \/ Crash(p)
      PROVE  RunsInv'
  <2> SUFFICES ASSUME ~Run(p), ~Launch(p) PROVE Same
    BY <1>1, RunStep, LaunchStep, FewerRuns
  <2> USE <1>0 DEF Unlaunched, Launched, Go, scripts, notes
  <2>1. CASE CheckDone(p)
    BY <2>1 DEF CheckDone, Ends
  <2>2. CASE CheckPid(p)
    BY <2>2 DEF CheckPid
  <2>3. CASE ReadPid(p)
    BY <2>3 DEF ReadPid
  <2>4. CASE Poll(p)
    BY <2>4, PollMoves
  <2>5. CASE Mkdirs(p)
    BY <2>5 DEF Mkdirs
  <2>6. CASE Mkdir(p)
    BY <2>6 DEF Mkdir, Gone
  <2>7. CASE LockJob(p)
    BY <2>7, LockJobCases
  <2>8. CASE TestLock(p)
    BY <2>8 DEF TestLock, Gone
  <2>9. CASE Retry(p) \/ TimeOut(p) \/ StartTimeOut(p)
    BY <2>9 DEF Retry, TimeOut, StartTimeOut
  <2>10. CASE Wait(p)
    BY <2>10 DEF Wait, Ends
  <2>11. CASE Leave(p)
    BY <2>11 DEF Leave
  <2>12. CASE Crash(p)
    BY <2>12 DEF Crash, Gone
  <2>13. QED
    BY <1>1, <2>1, <2>2, <2>3, <2>4, <2>5, <2>6, <2>7, <2>8, <2>9, <2>10, <2>11, <2>12
       DEF ProgramStep
<1>2. ASSUME NEW s \in Scripts, ScriptStep(s) \/ Kill(s) \/ Stop(s)
      PROVE  RunsInv'
  <2>0. pc' = pc /\ process' = process /\ Unlaunched' = Unlaunched
    BY <1>2, ScriptsOnly DEF programs, Unlaunched
  <2> SUFFICES Launched' = Launched /\ count'.runs = count.runs
    BY <2>0, FewerRuns
  <2> USE <1>0, <2>0 DEF Launched, Goes, notes
  <2>1. CASE TestLocks(s)
    BY <2>1 DEF TestLocks
  <2>2. CASE RemoveStart(s) \/ OpenPid(s) \/ WritePid(s) \/ StartCommand(s)
    BY <2>2 DEF RemoveStart, OpenPid, WritePid, StartCommand
  <2>3. CASE WriteCode(s) \/ TouchDone(s) \/ RemovePid(s) \/ RemoveLock(s) \/ KillCommand(s)
    BY <2>3 DEF WriteCode, TouchDone, RemovePid, RemoveLock, KillCommand
  <2>4. ASSUME NEW status \in {"ok", "fail"}, EndCommand(s, status)
        PROVE  Launched' = Launched /\ count'.runs = count.runs
    BY <2>4 DEF EndCommand
  <2>5. CASE Kill(s)
    BY <2>5 DEF Kill
  <2>6. CASE Stop(s)
    BY <2>6 DEF Stop
  <2>7. QED
    BY <1>2, <2>1, <2>2, <2>3, <2>4, <2>5, <2>6 DEF ScriptStep
<1>3. CASE Tidy \/ UNCHANGED vars
  BY <1>3, FewerRuns DEF Tidy, Unlaunched, Launched, vars, programs, scripts, notes
<1>4. QED
  BY <1>1, <1>2, <1>3 DEF Next

-----------------------------------------------------------------------------
(* The commands.                                                           *)

\* No program counts a kill or a stop.
LEMMA ProgramCounts ==
  ASSUME TypeOK, NEW p \in Programs, Run(p) \/ ProgramStep(p) \/ Crash(p)
  PROVE  count'.kills = count.kills /\ count'.stops = count.stops
<1>0. count \in Counts
  BY CountTypes
<1>1. CASE Run(p)
  BY <1>0, <1>1 DEF Run, Counts
<1>2. CASE Crash(p)
  BY <1>0, <1>2 DEF Crash, Counts
<1>3. ASSUME ProgramStep(p) PROVE count' = count
  BY <1>3, PollMoves, LockJobCases DEF ProgramStep, notes, CheckDone, CheckPid, ReadPid, Mkdirs, Mkdir,
     TestLock, Retry, TimeOut, Launch, StartTimeOut, Wait, Leave
<1>4. QED
  BY <1>1, <1>2, <1>3

\* A stop is counted.
LEMMA StopCounts ==
  ASSUME TypeOK, NEW s \in Scripts, Stop(s)
  PROVE  count'.stops # 0
<1>1. count \in Counts /\ count.stops \in Nat /\ count' = [count EXCEPT !.stops = @ + 1]
  BY CountTypes DEF Stop
<1>2. count'.stops = count.stops + 1
  BY <1>1 DEF Counts
<1>3. QED
  BY <1>1, <1>2

\* A kill is counted, and no stop.
LEMMA KillCounts ==
  ASSUME TypeOK, NEW s \in Scripts, Kill(s)
  PROVE  count'.kills # 0 /\ count'.stops = count.stops
<1>1. count \in Counts /\ count.kills \in Nat /\ count' = [count EXCEPT !.kills = @ + 1]
  BY CountTypes DEF Kill
<1>2. count'.kills = count.kills + 1 /\ count'.stops = count.stops
  BY <1>1 DEF Counts
<1>3. QED
  BY <1>1, <1>2

\* The same commands, and no more owners of a lock that is still there.
LEMMA SameCommands ==
  ASSUME CommandInv, count'.stops = count.stops, command' = command,
         \A s \in Scripts : count.stops = 0 /\ command[s] => spc'[s] = spc[s],
         \A s \in Scripts : Guards(s)' => Guards(s),
         \A p \in Programs : Holder(p)' => Holder(p), "lock" \in lockFiles => "lock" \in lockFiles'
  PROVE  CommandInv'
  BY DEF CommandInv

LEMMA CommandStep ==
  ASSUME TypeOK, HoldsInv, OwnerInv, StartInv, RunsInv, CommandInv, [Next]_vars
  PROVE  CommandInv'
<1>0. /\ holds \in [Programs -> SUBSET {"lock", "start"}]
      /\ spc \in [Scripts -> ScriptPCs] /\ command \in [Scripts -> BOOLEAN]
  BY DEF TypeOK
<1>1. ASSUME NEW p \in Programs, Run(p) \/ ProgramStep(p) \/ Crash(p)
      PROVE  CommandInv'
  <2>0. count'.stops = count.stops
    BY <1>1, ProgramCounts
  <2>1. CASE Moves(p)
    BY <1>0, <2>0, <2>1, MovesKeep, SameCommands DEF Holder, Guards
  <2>2. CASE LockJob(p)
    <3>1. spc' = spc /\ command' = command
      BY <2>2, LockJobCases DEF scripts
    <3>2. CASE UNCHANGED << holds, lockFiles >>
      BY <2>0, <3>1, <3>2, SameCommands DEF Holder, Guards
    <3>3. CASE "lock" \notin lockFiles
      BY <2>0, <3>1, <3>3 DEF CommandInv
    <3>4. QED
      BY <2>2, <3>2, <3>3, LockJobCases
  <2>3. CASE Launch(p)
    <3>1. /\ Holder(p) /\ NewScript \in Scripts /\ spc[NewScript] = "new" /\ command' = command
          /\ spc' = [spc EXCEPT ![NewScript] = "test"]
      BY <2>3, LaunchStarts
    <3>2. count.stops = 0 => \A s \in Scripts : command[s] => spc[s] = "wait"
      BY <3>1 DEF CommandInv
    <3>3. count.stops = 0 => \A s \in Scripts : command'[s] => spc'[s] = "wait"
      BY <1>0, <3>1, <3>2
    <3>4. QED
      BY <2>0, <3>3 DEF CommandInv
  <2>4. CASE Leave(p)
    <3>1. pc[p] = "leave" /\ lockFiles' = lockFiles \ holds[p] /\ holds' = [holds EXCEPT ![p] = {}]
          /\ spc' = spc /\ command' = command
      BY <2>4 DEF Leave, scripts
    <3>2. CASE Holder(p)
      BY <2>0, <3>1, <3>2 DEF CommandInv
    <3>3. CASE ~Holder(p)
      BY <1>0, <2>0, <3>1, <3>3, SameCommands DEF Holder, Guards
    <3>4. QED
      BY <3>2, <3>3
  <2>5. QED
    BY <1>1, <2>1, <2>2, <2>3, <2>4, ProgramActions
<1>2. ASSUME NEW s \in Scripts, ScriptStep(s) \/ Kill(s)
      PROVE  CommandInv'
  <2>0. \A p \in Programs : Holder(p)' <=> Holder(p)
    BY <1>2, ScriptsOnly DEF programs, Holder
  <2>00. ASSUME count.stops = 0, spc[s] \notin {"wait", "dead"} PROVE ~command[s]
    BY <2>00 DEF CommandInv
  <2> USE <1>0, <2>0 DEF Guards, Goes, notes
  <2>1. CASE TestLocks(s)
    BY <2>1, <2>00, LocksFound, SameCommands DEF disk
  <2>2. CASE RemoveStart(s)
    BY <2>2, <2>00, SameCommands DEF RemoveStart
  <2>3. CASE OpenPid(s) \/ WritePid(s) \/ WriteCode(s) \/ TouchDone(s) \/ RemovePid(s)
    <3>1. /\ spc[s] \in {"open pid", "write pid", "code", "touch", "rm pid"}
          /\ \E to \in ScriptPCs \ {"new"} : spc' = [spc EXCEPT ![s] = to]
          /\ lockFiles' = lockFiles /\ command' = command /\ count' = count
      BY <2>3 DEF OpenPid, WritePid, WriteCode, TouchDone, RemovePid, ScriptPCs
    <3>2. QED
      BY <2>00, <3>1, SameCommands
  <2>4. CASE StartCommand(s)
    BY <2>4 DEF StartCommand, CommandInv, disk
  <2>5. CASE RemoveLock(s)
    BY <2>5 DEF RemoveLock, CommandInv, OwnerInv
  <2>6. CASE KillCommand(s)
    BY <2>6 DEF KillCommand, CommandInv, disk
  <2>7. ASSUME NEW status \in {"ok", "fail"}, EndCommand(s, status)
        PROVE  CommandInv'
    BY <2>7 DEF EndCommand, CommandInv, disk
  <2>8. CASE Kill(s)
    BY <2>8, KillCounts DEF Kill, CommandInv, OwnerInv, disk
  <2>9. QED
    BY <1>2, <2>1, <2>2, <2>3, <2>4, <2>5, <2>6, <2>7, <2>8 DEF ScriptStep
<1>3. ASSUME NEW s \in Scripts, Stop(s)
      PROVE  CommandInv'
  BY <1>3, StopCounts DEF CommandInv
<1>4. CASE Tidy
  BY <1>4 DEF Tidy, Calm, CommandInv, scripts
<1>5. CASE UNCHANGED vars
  BY <1>5, SameCommands DEF vars, disk, programs, scripts, notes, Guards, Holder
<1>6. QED
  BY <1>1, <1>2, <1>3, <1>4, <1>5 DEF Next

-----------------------------------------------------------------------------
(* What a runner and the files say.                                        *)

\* An exit status is given once: to a script that waits for its command.
LEMMA ExitGiven ==
  ASSUME TypeOK, ExitInv, NEW s \in Scripts, NEW status \in {"ok", "fail"}, EndCommand(s, status)
  PROVE  /\ \A t \in Scripts : exit[t] # "none" => exit'[t] = exit[t]
         /\ ExitInv'
<1>0. /\ spc \in [Scripts -> ScriptPCs]
      /\ exit \in [Scripts -> {"none", "ok", "fail", "signal", "no lock"}]
  BY DEF TypeOK
<1>1. CASE spc[s] = "wait"
  BY <1>0, <1>1 DEF EndCommand, ExitInv, Over
<1>2. CASE spc[s] # "wait"
  BY <1>2 DEF EndCommand, ExitInv
<1>3. QED
  BY <1>1, <1>2

\* What was said is still true when statuses are only added.
LEMMA StillSaid ==
  ASSUME SayInv, \A s \in Scripts : exit[s] # "none" => exit'[s] = exit[s],
         codeFile' = codeFile, doneFile' = doneFile, guessed' = guessed, result' = result
  PROVE  SayInv'
  BY DEF SayInv, Some

\* What a program says is what a file, or the script it waits for, says.
LEMMA ProgramSays ==
  ASSUME TypeOK, RunsInv, ExitInv, SayInv, NEW p \in Programs, Run(p) \/ ProgramStep(p) \/ Crash(p),
         exit' = exit, codeFile' = codeFile, doneFile' = doneFile
  PROVE  SayInv'
<1>0. result \in [Programs -> {"none", "DONE", "ERROR"}]
  BY DEF TypeOK
<1> DEFINE Right(r) == (r = "DONE" => Some("ok")) /\ (r = "ERROR" => Some("fail"))
<1>1. ASSUME ~guessed' => /\ ~guessed
                          /\ \/ result' = result
                             \/ \E r : Right(r) /\ result' = [result EXCEPT ![p] = r]
      PROVE  SayInv'
  BY <1>0, <1>1 DEF SayInv, Some
<1>2. CASE Run(p) \/ CheckPid(p) \/ ReadPid(p) \/ Mkdirs(p) \/ Mkdir(p) \/ LockJob(p)
  BY <1>1, <1>2 DEF Run, CheckPid, ReadPid, Mkdirs, Mkdir, LockJob, Lock, Gone, notes
<1>3. CASE TestLock(p) \/ Crash(p)
  <2>1. guessed' = guessed /\ (result' = result \/ result' = [result EXCEPT ![p] = "none"])
    BY <1>3 DEF TestLock, Crash, Gone
  <2>2. Right("none")
    OBVIOUS
  <2>3. QED
    BY <1>1, <2>1, <2>2
<1>4. CASE Retry(p) \/ TimeOut(p) \/ Launch(p) \/ StartTimeOut(p) \/ Leave(p)
  BY <1>1, <1>4 DEF Retry, TimeOut, Launch, StartTimeOut, Leave, notes
<1>5. CASE CheckDone(p)
  BY <1>1, <1>5 DEF CheckDone, Ends, SayInv, notes
<1>6. CASE Poll(p)
  BY <1>1, <1>6 DEF Poll, Ends, SayInv
<1>7. CASE Wait(p)
  <2>1. process[p] \in Scripts /\ spc[process[p]] = "dead"
    BY <1>7 DEF Wait, RunsInv, Launched
  <2>2. exit[process[p]] \in {"ok", "fail"}
    BY <2>1 DEF ExitInv, Over
  <2>3. QED
    BY <1>1, <1>7, <2>1, <2>2 DEF Wait, Ends, Some, notes
<1>8. QED
  BY <1>2, <1>3, <1>4, <1>5, <1>6, <1>7 DEF ProgramStep

LEMMA ResultStep ==
  ASSUME TypeOK, HoldsInv, OwnerInv, StartInv, RunsInv, ResultInv, [Next]_vars
  PROVE  ResultInv'
<1>0. /\ spc \in [Scripts -> ScriptPCs]
      /\ exit \in [Scripts -> {"none", "ok", "fail", "signal", "no lock"}]
  BY DEF TypeOK
<1>1. ASSUME NEW p \in Programs, Run(p) \/ ProgramStep(p) \/ Crash(p)
      PROVE  ResultInv'
  <2> SUFFICES ASSUME count.kills = 0, count.stops = 0 PROVE ExitInv' /\ SayInv'
    BY <1>1, ProgramCounts DEF ResultInv
  <2>0. ExitInv /\ SayInv
    BY DEF ResultInv
  <2>1. CASE Moves(p)
    BY <1>1, <2>0, <2>1, MovesKeep, ProgramSays DEF ExitInv
  <2>2. CASE LockJob(p) \/ Leave(p)
    <3>1. UNCHANGED << spc, exit, codeFile, doneFile >>
      BY <2>2, LockJobCases DEF Leave, scripts
    <3>2. QED
      BY <1>1, <2>0, <3>1, ProgramSays DEF ExitInv
  <2>3. CASE Launch(p)
    <3>1. /\ NewScript \in Scripts /\ spc[NewScript] = "new" /\ spc' = [spc EXCEPT ![NewScript] = "test"]
          /\ UNCHANGED << exit, codeFile, doneFile >>
      BY <2>3, LaunchStarts
    <3>2. ExitInv'
      BY <1>0, <2>0, <3>1 DEF ExitInv, Over
    <3>3. QED
      BY <1>1, <2>0, <3>1, <3>2, ProgramSays
  <2>4. QED
    BY <1>1, <2>1, <2>2, <2>3, ProgramActions
<1>2. ASSUME NEW s \in Scripts, ScriptStep(s)
      PROVE  ResultInv'
  <2>1. count' = count /\ guessed' = guessed /\ result' = result
    BY <1>2, ScriptsOnly DEF ScriptStep, programs, notes, TestLocks, RemoveStart, OpenPid, WritePid,
       StartCommand, WriteCode, TouchDone, RemovePid, RemoveLock, KillCommand, EndCommand
  <2> SUFFICES ASSUME count.kills = 0, count.stops = 0 PROVE ExitInv' /\ SayInv'
    BY <2>1 DEF ResultInv
  <2>0. ExitInv /\ SayInv
    BY DEF ResultInv
  <2>2. CASE TestLocks(s)
    <3>1. spc[s] = "test" /\ spc' = [spc EXCEPT ![s] = "unlock start"]
          /\ UNCHANGED << exit, codeFile, doneFile >>
      BY <2>2, LocksFound DEF disk
    <3>2. ExitInv'
      BY <1>0, <2>0, <3>1 DEF ExitInv, Over
    <3>3. QED
      BY <2>0, <2>1, <3>1, <3>2, StillSaid
  <2>3. CASE RemoveStart(s) \/ OpenPid(s) \/ WritePid(s) \/ StartCommand(s)
    <3>1. /\ \E from, to \in ScriptPCs \ Over : spc[s] = from /\ spc' = [spc EXCEPT ![s] = to]
          /\ UNCHANGED << exit, codeFile, doneFile >>
      BY <2>3 DEF RemoveStart, OpenPid, WritePid, StartCommand, Goes, disk, ScriptPCs, Over
    <3>2. ExitInv'
      BY <1>0, <2>0, <3>1 DEF ExitInv, Over
    <3>3. QED
      BY <2>0, <2>1, <3>1, <3>2, StillSaid
  <2>4. CASE RemovePid(s) \/ RemoveLock(s) \/ KillCommand(s)
    <3>1. /\ \E from, to \in Over \ {"touch"} : spc[s] = from /\ spc' = [spc EXCEPT ![s] = to]
          /\ UNCHANGED << exit, codeFile, doneFile >>
      BY <2>4 DEF RemovePid, RemoveLock, KillCommand, Goes, disk, Over
    <3>2. ExitInv'
      BY <1>0, <2>0, <3>1 DEF ExitInv, Over
    <3>3. QED
      BY <2>0, <2>1, <3>1, <3>2, StillSaid
  <2>5. CASE WriteCode(s)
    <3>1. exit' = exit /\ exit[s] \in {"ok", "fail"} /\ doneFile' = doneFile
      BY <2>0, <2>5 DEF WriteCode, Goes, ExitInv, Over
    <3>2. ExitInv'
      BY <1>0, <2>0, <2>5, <3>1 DEF WriteCode, Goes, ExitInv, Over
    <3>3. (codeFile' = "zero" => Some("ok")) /\ (codeFile' = "nonzero" => Some("fail"))
      BY <2>5, <3>1 DEF WriteCode, Some
    <3>4. QED
      BY <2>0, <2>1, <3>1, <3>2, <3>3 DEF SayInv, Some
  <2>6. CASE TouchDone(s)
    <3>1. exit' = exit /\ exit[s] = "ok" /\ codeFile' = codeFile
      BY <2>0, <2>6 DEF TouchDone, Goes, ExitInv
    <3>2. ExitInv'
      BY <1>0, <2>0, <2>6, <3>1 DEF TouchDone, Goes, ExitInv, Over
    <3>3. QED
      BY <2>0, <2>1, <3>1, <3>2 DEF SayInv, Some
  <2>7. ASSUME NEW status \in {"ok", "fail"}, EndCommand(s, status)
        PROVE  ExitInv' /\ SayInv'
    BY <2>0, <2>1, <2>7, ExitGiven, StillSaid DEF EndCommand, disk
  <2>8. QED
    BY <1>2, <2>2, <2>3, <2>4, <2>5, <2>6, <2>7 DEF ScriptStep
<1>3. ASSUME NEW s \in Scripts, Kill(s) \/ Stop(s)
      PROVE  ResultInv'
  BY <1>3, KillCounts, StopCounts DEF ResultInv
<1>4. CASE Tidy \/ UNCHANGED vars
  BY <1>4, StillSaid DEF ResultInv, ExitInv, Tidy, vars, disk, programs, scripts, notes
<1>5. QED
  BY <1>1, <1>2, <1>3, <1>4 DEF Next

-----------------------------------------------------------------------------
(* What is left on disk.                                                   *)

Undisturbed == ~broken /\ count.stops = 0

\* The same files and the same owners of them.
LEMMA SameLeft ==
  ASSUME LeftInv, Undisturbed' => Undisturbed,
         Undisturbed => \A p \in Programs : Holder(p) => Holder(p)',
         lockFiles' = lockFiles, pidFile' = pidFile, spc' = spc
  PROVE  LeftInv'
  BY DEF LeftInv, Undisturbed, Guards

\* A program that is gone with a lock disturbs.
LEMMA MovesDisturb ==
  ASSUME TypeOK, NEW p \in Programs, Moves(p)
  PROVE  /\ Undisturbed' => Undisturbed
         /\ Undisturbed' => \A q \in Programs : Holder(q) => Holder(q)'
<1>0. holds \in [Programs -> SUBSET {"lock", "start"}]
  BY DEF TypeOK
<1>1. count'.stops = count.stops
  BY ProgramCounts DEF Moves, ProgramStep
<1>2. CASE Mkdir(p) \/ TestLock(p) \/ Crash(p)
  <2>1. \/ broken' = broken /\ holds' = holds
        \/ broken' = (broken \/ holds[p] # {}) /\ holds' = [holds EXCEPT ![p] = {}]
    BY <1>2 DEF Mkdir, TestLock, Crash, Gone, notes
  <2>2. CASE broken' = broken /\ holds' = holds
    BY <1>1, <2>2 DEF Undisturbed, Holder
  <2>3. CASE broken' = (broken \/ holds[p] # {}) /\ holds' = [holds EXCEPT ![p] = {}]
    <3>1. ~broken' => ~broken /\ holds[p] = {}
      BY <2>3
    <3>2. holds[p] = {} => \A q \in Programs : Holder(q) => Holder(q)'
      BY <1>0, <2>3 DEF Holder
    <3>3. QED
      BY <1>1, <3>1, <3>2 DEF Undisturbed
  <2>4. QED
    BY <2>1, <2>2, <2>3
<1>3. CASE Run(p) \/ CheckDone(p) \/ CheckPid(p) \/ ReadPid(p) \/ Poll(p) \/ Mkdirs(p)
  <2>1. broken' = broken /\ holds' = holds
    BY <1>3, PollMoves DEF Run, CheckDone, CheckPid, ReadPid, Mkdirs, notes
  <2>2. QED
    BY <1>1, <2>1 DEF Undisturbed, Holder
<1>4. CASE Retry(p) \/ TimeOut(p) \/ StartTimeOut(p) \/ Wait(p)
  <2>1. broken' = broken /\ holds' = holds
    BY <1>4 DEF Retry, TimeOut, StartTimeOut, Wait, notes
  <2>2. QED
    BY <1>1, <2>1 DEF Undisturbed, Holder
<1>5. QED
  BY <1>2, <1>3, <1>4 DEF Moves

LEMMA LeftStep ==
  ASSUME TypeOK, HoldsInv, OwnerInv, StartInv, RunsInv, LeftInv, [Next]_vars
  PROVE  LeftInv'
<1>0. /\ spc \in [Scripts -> ScriptPCs] /\ holds \in [Programs -> SUBSET {"lock", "start"}]
  BY DEF TypeOK
<1>1. ASSUME NEW p \in Programs, Run(p) \/ ProgramStep(p) \/ Crash(p)
      PROVE  LeftInv'
  <2>1. CASE Moves(p)
    <3>1. CASE Undisturbed'
      BY <2>1, <3>1, MovesKeep, MovesDisturb, SameLeft
    <3>2. CASE ~Undisturbed'
      BY <3>2 DEF LeftInv, Undisturbed
    <3>3. QED
      BY <3>1, <3>2
  <2>2. CASE LockJob(p)
    <3>1. spc' = spc /\ pidFile' = pidFile /\ broken' = broken /\ count' = count
      BY <2>2, LockJobCases DEF scripts, notes
    <3>2. CASE UNCHANGED << holds, lockFiles >>
      BY <3>1, <3>2, SameLeft DEF Undisturbed, Holder
    <3>3. CASE lockFiles' = lockFiles \cup {"lock"} /\ holds' = [holds EXCEPT ![p] = holds[p] \cup {"lock"}]
      BY <1>0, <3>1, <3>3 DEF LeftInv, Holder
    <3>4. QED
      BY <2>2, <3>2, <3>3, LockJobCases
  <2>3. CASE Launch(p)
    <3>0. pidFile' = pidFile /\ broken' = broken /\ count' = count
      BY <2>3, LaunchStarts DEF notes
    <3>1. PICK s \in Scripts : spc[s] = "new" /\ spc' = [spc EXCEPT ![s] = "test"]
      BY <2>3, LaunchStarts
    <3>2. Guards(s)' /\ spc'[s] = "test" /\ \A t \in Scripts \ {s} : spc'[t] = spc[t]
      BY <1>0, <3>1 DEF Guards
    <3>3. QED
      BY <3>0, <3>1, <3>2 DEF LeftInv
  <2>4. CASE Leave(p)
    <3>1. /\ pc[p] = "leave" /\ lockFiles' = lockFiles \ holds[p] /\ holds' = [holds EXCEPT ![p] = {}]
          /\ spc' = spc /\ pidFile' = pidFile /\ broken' = broken /\ count' = count
      BY <2>4 DEF Leave, scripts, notes
    <3>2. CASE Holder(p)
      <4>1. holds[p] = {"lock"}
        BY <3>2 DEF Holder, HoldsInv
      <4>2. QED
        BY <3>1, <4>1 DEF LeftInv
    <3>3. CASE ~Holder(p)
      BY <1>0, <3>1, <3>3, SameLeft DEF Holder, Undisturbed
    <3>4. QED
      BY <3>2, <3>3
  <2>5. QED
    BY <1>1, <2>1, <2>2, <2>3, <2>4, ProgramActions
<1>2. ASSUME NEW s \in Scripts, ScriptStep(s)
      PROVE  LeftInv'
  <2>1. count' = count /\ broken' = broken /\ holds' = holds
    BY <1>2, ScriptsOnly DEF ScriptStep, programs, notes, TestLocks, RemoveStart, OpenPid, WritePid,
       StartCommand, WriteCode, TouchDone, RemovePid, RemoveLock, KillCommand, EndCommand
  <2> USE <1>0, <2>1 DEF LeftInv, Goes, Guards, Holder
  <2>2. CASE TestLocks(s)
    BY <2>2, LocksFound DEF disk
  <2>3. CASE RemoveStart(s)
    BY <2>3 DEF RemoveStart
  <2>4. CASE OpenPid(s) \/ WritePid(s)
    BY <2>4 DEF OpenPid, WritePid
  <2>5. CASE StartCommand(s) \/ WriteCode(s) \/ TouchDone(s)
    BY <2>5 DEF StartCommand, WriteCode, TouchDone, disk
  <2>6. CASE RemovePid(s)
    BY <2>6 DEF RemovePid
  <2>7. CASE RemoveLock(s)
    BY <2>7 DEF RemoveLock
  <2>8. CASE KillCommand(s)
    BY <2>8 DEF KillCommand, disk
  <2>9. ASSUME NEW status \in {"ok", "fail"}, EndCommand(s, status)
        PROVE  LeftInv'
    BY <2>9 DEF EndCommand, disk
  <2>10. QED
    BY <1>2, <2>2, <2>3, <2>4, <2>5, <2>6, <2>7, <2>8, <2>9 DEF ScriptStep
<1>3. ASSUME NEW s \in Scripts, Kill(s) \/ Stop(s)
      PROVE  LeftInv'
  BY <1>3, StopCounts DEF Kill, LeftInv
<1>4. CASE Tidy
  BY <1>4 DEF Tidy, LeftInv, programs, scripts, notes
<1>5. CASE UNCHANGED vars
  BY <1>5, SameLeft DEF vars, disk, programs, scripts, notes, Undisturbed, Holder
<1>6. QED
  BY <1>1, <1>2, <1>3, <1>4, <1>5 DEF Next

-----------------------------------------------------------------------------
(* The invariant.                                                          *)

LEMMA IInvInit == Init => IInv
<1> SUFFICES ASSUME Init PROVE IInv
  OBVIOUS
<1>1. TypeOK
  BY TypeInit
<1>2. HoldsInv /\ OwnerInv /\ StartInv /\ CommandInv /\ DoneInv
  BY DEF Init, HoldsInv, OwnerInv, StartInv, CommandInv, DoneInv, Holder, Guards
<1>3. RunsInv
  <2>1. Unlaunched = {} /\ Launched = {} /\ count.runs = 0
    BY DEF Init, Unlaunched, Launched
  <2>2. QED
    BY <2>1, FS_EmptySet DEF Init, RunsInv
<1>4. ResultInv /\ LeftInv
  BY DEF Init, ResultInv, ExitInv, SayInv, Over, LeftInv, Absent
<1>5. QED
  BY <1>1, <1>2, <1>3, <1>4 DEF IInv

LEMMA Invariant == Spec => []IInv
<1>1. ASSUME IInv, [Next]_vars PROVE IInv'
  BY <1>1, TypeStep, HoldsStep, OwnerStep, StartStep, RunsStep, CommandStep, DoneStep, ResultStep, LeftStep
     DEF IInv
<1>2. QED
  BY <1>1, IInvInit, PTL DEF Spec

\* The types, and that the counts stay within their bounds.
THEOREM TypesKept == Spec => []TypeOK
  BY Invariant, PTL DEF IInv

\* CommandLineJob::run and its script never run two commands at once, whatever
\* the programs, crashes and SIGKILLs, unless a script was told to stop.
THEOREM OneCommand == Spec => []OneCommandUnlessStopped
<1>1. IInv => OneCommandUnlessStopped
  <2> SUFFICES ASSUME IInv, count.stops = 0, NEW s \in Scripts, NEW t \in Scripts, command[s], command[t]
               PROVE  s = t
    BY CountTypes DEF IInv, OneCommandUnlessStopped, AtMostOneCommand
  <2>1. \/ spc[s] = "wait" /\ spc[t] = "wait"
        \/ s = t
    BY DEF IInv, CommandInv, Guards
  <2>2. QED
    BY <2>1 DEF IInv, OwnerInv, Guards
<1>2. QED
  BY <1>1, Invariant, PTL

\* Every script finds the two locks that its program took.
THEOREM LocksAreSet == Spec => []LocksSet
<1>1. IInv => LocksSet
  BY DEF IInv, StartInv, LocksSet
<1>2. QED
  BY <1>1, Invariant, PTL

\* DONE and ERROR are what a command did.
THEOREM RunnersTruthful == Spec => []Truthful
<1>1. IInv => Truthful
  BY DEF IInv, ResultInv, SayInv, Some, Truthful, Shows
<1>2. QED
  BY <1>1, Invariant, PTL

\* No file is left behind when nobody was disturbed.
THEOREM AllRemoved == Spec => []NothingLeft
<1>1. ASSUME IInv PROVE NothingLeft
  <2> SUFFICES ASSUME Calm, ~broken, count.stops = 0 PROVE lockFiles = {} /\ pidFile = Absent
    BY DEF NothingLeft
  <2>1. \A p \in Programs : ~Holder(p)
    BY <1>1 DEF IInv, HoldsInv, Calm
  <2>2. \A s \in Scripts : spc[s] \in {"new", "dead"}
    BY DEF Calm
  <2>3. "lock" \notin lockFiles /\ "start" \notin lockFiles /\ pidFile = Absent
    BY <1>1, <2>1, <2>2 DEF IInv, LeftInv, Guards
  <2>4. lockFiles \subseteq {"lock", "start"}
    BY <1>1 DEF IInv, TypeOK
  <2>5. QED
    BY <2>3, <2>4
<1>2. QED
  BY <1>1, Invariant, PTL

\* A command is started only when FILE.done is not there.
THEOREM NeverRerun == Spec => NoRerun
<1> DEFINE Rerun == \A s \in Scripts : command'[s] /\ ~command[s] => ~doneFile
<1>1. ASSUME IInv, [Next]_vars PROVE [Rerun]_vars
  <2>0. command \in [Scripts -> BOOLEAN]
    BY <1>1 DEF IInv, TypeOK
  <2>1. ASSUME NEW p \in Programs, Run(p) \/ ProgramStep(p) \/ Crash(p)
        PROVE  command' = command
    BY <1>1, <2>1, ProgramActions, MovesKeep, LockJobCases DEF IInv, Launch, Leave, scripts
  <2>2. ASSUME NEW s \in Scripts, StartCommand(s)
        PROVE  Rerun
    BY <1>1, <2>0, <2>2 DEF StartCommand, Goes, IInv, DoneInv, Guards
  <2>3. ASSUME NEW s \in Scripts, ScriptStep(s) \/ Kill(s) \/ Stop(s), ~StartCommand(s)
        PROVE  command' = command \/ command' = [command EXCEPT ![s] = FALSE]
    BY <2>3 DEF ScriptStep, TestLocks, RemoveStart, OpenPid, WritePid, WriteCode, TouchDone, RemovePid,
       RemoveLock, KillCommand, EndCommand, Kill, Stop
  <2>4. CASE Tidy \/ UNCHANGED vars
    BY <2>4 DEF Tidy, scripts, vars
  <2>5. QED
    BY <1>1, <2>0, <2>1, <2>2, <2>3, <2>4 DEF Next
<1>2. QED
  BY <1>1, Invariant, PTL DEF Spec, NoRerun
=============================================================================
