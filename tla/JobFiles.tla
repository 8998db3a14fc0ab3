------------------------------ MODULE JobFiles ------------------------------
(***************************************************************************)
(* The files of one job: what CommandLineJob::run (src/src/workspace.cpp)  *)
(* and the script it writes (src/src/scriptbuilder.cpp) do with FILE.lock, *)
(* FILE.lock.start, FILE.pid, FILE.code and FILE.done.                     *)
(*                                                                         *)
(* Several experimaestro programs may run the same job, one after another  *)
(* or at the same time; each one has at most one runner for it.  A script  *)
(* has its own session and outlives the program that launched it.  A       *)
(* program may crash, a script may be killed or be told to stop, at any    *)
(* step.  The files are all that remains.                                  *)
(***************************************************************************)
EXTENDS Integers, FiniteSets

CONSTANTS
  Programs,   \* the experimaestro programs
  Scripts,    \* the scripts that they may launch
  MaxRuns,    \* bound: how many times run is called, all programs together
  MaxCrashes, \* bound: programs that are killed
  MaxKills,   \* bound: scripts that get SIGKILL
  MaxStops    \* bound: scripts that get SIGINT, from Job::kill

Absent  == "absent"   \* FILE.pid is not there
Empty   == "empty"    \* FILE.pid was created and not written yet
Unknown == "unknown"  \* the process named by a variable that was never set

ASSUME FilesAssumption ==
  /\ Scripts \cap {Absent, Empty, Unknown, "none"} = {}
  /\ {MaxRuns, MaxCrashes, MaxKills, MaxStops} \subseteq Nat
  /\ IsFiniteSet(Scripts) /\ MaxRuns <= Cardinality(Scripts)

VARIABLES
  directory, \* the directory of the job exists
  lockFiles, \* which of FILE.lock and FILE.lock.start exist
  pidFile,   \* the content of FILE.pid
  codeFile,  \* the content of FILE.code
  doneFile,  \* FILE.done exists
  pc,        \* where run is, in each program
  holds,     \* the FileLock objects of run that are not detached
  process,   \* Job::_process
  result,    \* the state that run gave to the job last
  spc,       \* where each script is
  exit,      \* the exit status of each script
  command,   \* the command of the script is running
  count,     \* how many runs, crashes, kills and stops there were
  guessed,   \* run has used a variable that was never set
  broken     \* locks were lost in a crash, or a script was killed

disk     == << directory, lockFiles, pidFile, codeFile, doneFile >>
programs == << pc, holds, process, result >>
scripts  == << spc, exit, command >>
notes    == << count, guessed, broken >>
vars == << disk, programs, scripts, notes >>

\* "idle" is a program that is not in run, or is not there at all.
ProgramPCs == {"idle", "check", "check pid", "read pid", "poll", "mkdirs", "mkdir",
               "lock", "lock taken", "wait lock", "start lock", "wait", "leave"}
ScriptPCs  == {"new", "test", "unlock start", "open pid", "write pid", "set up",
               "wait", "code", "touch", "rm pid", "rm lock", "pkill", "dead"}

Init ==
  /\ directory = FALSE
  /\ lockFiles = {}
  /\ pidFile = Absent
  /\ codeFile = Absent
  /\ doneFile = FALSE
  /\ pc = [p \in Programs |-> "idle"]
  /\ holds = [p \in Programs |-> {}]
  /\ process = [p \in Programs |-> "none"]
  /\ result = [p \in Programs |-> "none"]
  /\ spc = [s \in Scripts |-> "new"]
  /\ exit = [s \in Scripts |-> "none"]
  /\ command = [s \in Scripts |-> FALSE]
  /\ count = [runs |-> 0, crashes |-> 0, kills |-> 0, stops |-> 0]
  /\ guessed = FALSE
  /\ broken = FALSE

Go(p, to) == pc' = [pc EXCEPT ![p] = to]

\* The runner sets the state of the job and leaves run.
Ends(p, r) ==
  /\ result' = [result EXCEPT ![p] = r]
  /\ Go(p, "leave")

\* The program is gone, its FileLock objects with it: the files stay.
Gone(p) ==
  /\ Go(p, "idle")
  /\ holds' = [holds EXCEPT ![p] = {}]
  /\ process' = [process EXCEPT ![p] = "none"]
  /\ result' = [result EXCEPT ![p] = "none"]
  /\ broken' = (broken \/ holds[p] # {})
  /\ UNCHANGED guessed

-----------------------------------------------------------------------------
(* CommandLineJob::run                                                     *)

Run(p) ==
  /\ pc[p] = "idle"
  /\ count.runs < MaxRuns
  /\ count' = [count EXCEPT !.runs = @ + 1]
  /\ Go(p, "check")
  /\ result' = [result EXCEPT ![p] = "none"]
  /\ process' = [process EXCEPT ![p] = "none"]
  /\ UNCHANGED << disk, holds, scripts, guessed, broken >>

\* The job is already done: run returns.
CheckDone(p) ==
  /\ pc[p] = "check"
  /\ IF doneFile
     THEN Ends(p, "DONE")
     ELSE Go(p, "check pid") /\ UNCHANGED result
  /\ UNCHANGED << disk, holds, process, scripts, notes >>

\* DirectLauncher::check: is there a FILE.pid?  Without one, run goes on where
\* this check was: before FILE.lock is taken, or after.
CheckPid(p) ==
  /\ pc[p] = "check pid"
  /\ Go(p, IF pidFile # Absent THEN "read pid"
           ELSE IF holds[p] = {} THEN "mkdirs" ELSE "start lock")
  /\ UNCHANGED << disk, holds, process, result, scripts, notes >>

\* Mutant of ReadPid: what is read from an empty file is taken for a process.
ReadPidAsIs(p) ==
  /\ pc[p] = "read pid"
  /\ process' = [process EXCEPT ![p] = pidFile]
  /\ Go(p, "poll")
  /\ UNCHANGED << disk, holds, result, scripts, notes >>

\* FILE.pid is read, if it is still there and has a content: else `pid' keeps
\* whatever it held.
ReadPid(p) ==
  /\ pc[p] = "read pid"
  /\ process' = [process EXCEPT ![p] = IF pidFile \in Scripts THEN pidFile ELSE Unknown]
  /\ guessed' = (guessed \/ pidFile \notin Scripts)
  /\ Go(p, "poll")
  /\ UNCHANGED << disk, holds, result, scripts, count, broken >>

\* ExternalProcess::exitCode: once the process is over FILE.code is read.  If
\* it is not there the code is whatever the variable held.
Poll(p) ==
  /\ pc[p] = "poll"
  /\ process[p] # Unknown => spc[process[p]] = "dead"
  /\ \/ codeFile = "zero" /\ Ends(p, "DONE")
     \/ codeFile = "nonzero" /\ Ends(p, "ERROR")
     \/ codeFile = Absent /\ \E r \in {"DONE", "ERROR"} : Ends(p, r)
  /\ guessed' = (guessed \/ codeFile = Absent)
  /\ UNCHANGED << disk, holds, process, scripts, count, broken >>

\* Connector::mkdirs looks for the directory ...
Mkdirs(p) ==
  /\ pc[p] = "mkdirs"
  /\ Go(p, IF directory THEN "lock" ELSE "mkdir")
  /\ UNCHANGED << disk, holds, process, result, scripts, notes >>

\* ... and makes it.  If it came to be in between, io_error leaves a detached
\* thread and ends the program.
Mkdir(p) ==
  /\ pc[p] = "mkdir"
  /\ IF directory
     THEN Gone(p)
     ELSE Go(p, "lock") /\ UNCHANGED << holds, process, result, guessed, broken >>
  /\ directory' = TRUE
  /\ UNCHANGED << lockFiles, pidFile, codeFile, doneFile, scripts, count >>

\* LocalConnector::lock: the file is made, or it is there already.
Lock(p, at, file, next, taken) ==
  /\ pc[p] = at
  /\ IF file \in lockFiles
     THEN Go(p, taken) /\ UNCHANGED << lockFiles, holds >>
     ELSE /\ lockFiles' = lockFiles \cup {file}
          /\ holds' = [holds EXCEPT ![p] = @ \cup {file}]
          /\ Go(p, next)
  /\ UNCHANGED << directory, pidFile, codeFile, doneFile, process, result, scripts, notes >>

\* Mutant of LockJob: FILE.lock is opened without O_EXCL.
LockJobShared(p) ==
  /\ pc[p] = "lock"
  /\ lockFiles' = lockFiles \cup {"lock"}
  /\ holds' = [holds EXCEPT ![p] = {"lock"}]
  /\ Go(p, "check")
  /\ UNCHANGED << directory, pidFile, codeFile, doneFile, process, result, scripts, notes >>

\* Mutant of LockJob: the checks are not made again.
LockJobOnce(p) == Lock(p, "lock", "lock", "start lock", "lock taken")

\* The main lock; then the checks are made again.
LockJob(p) == Lock(p, "lock", "lock", "check", "lock taken")

\* The file is tested: if its owner has removed it io_error ends the program.
TestLock(p) ==
  /\ pc[p] = "lock taken"
  /\ IF "lock" \in lockFiles
     THEN Go(p, "wait lock") /\ UNCHANGED << holds, process, result, guessed, broken >>
     ELSE Gone(p)
  /\ UNCHANGED << disk, scripts, count >>

\* The watcher saw the file removed: try again.
Retry(p) ==
  /\ pc[p] = "wait lock"
  /\ "lock" \notin lockFiles
  /\ Go(p, "lock")
  /\ UNCHANGED << disk, holds, process, result, scripts, notes >>

\* Mutant of TimeOut: a lock is waited for without a limit.
TimeOutNever(p) == pc[p] = "wait lock" /\ UNCHANGED vars

\* Five seconds have passed: run returns, the state is what it was.
TimeOut(p) ==
  /\ pc[p] = "wait lock"
  /\ Go(p, "leave")
  /\ UNCHANGED << disk, holds, process, result, scripts, notes >>

\* Mutant of Launch: the start lock is not taken.
LaunchUnlocked(p) ==
  /\ pc[p] = "start lock"
  /\ LET s == CHOOSE s \in Scripts : spc[s] = "new"
     IN  /\ spc' = [spc EXCEPT ![s] = "test"]
         /\ process' = [process EXCEPT ![p] = s]
  /\ holds' = [holds EXCEPT ![p] = {}]
  /\ Go(p, "wait")
  /\ UNCHANGED << disk, result, exit, command, notes >>

\* The script is written, the start lock taken and the script launched; both
\* FileLock objects are detached: the script removes the files.
Launch(p) ==
  /\ pc[p] = "start lock"
  /\ "start" \notin lockFiles
  /\ lockFiles' = lockFiles \cup {"start"}
  /\ LET s == CHOOSE s \in Scripts : spc[s] = "new"
     IN  /\ spc' = [spc EXCEPT ![s] = "test"]
         /\ process' = [process EXCEPT ![p] = s]
  /\ holds' = [holds EXCEPT ![p] = {}]
  /\ Go(p, "wait")
  /\ UNCHANGED << directory, pidFile, codeFile, doneFile, result, exit, command, notes >>

\* Somebody's start lock was left behind: run returns after five seconds.
StartTimeOut(p) ==
  /\ pc[p] = "start lock"
  /\ "start" \in lockFiles
  /\ Go(p, "leave")
  /\ UNCHANGED << disk, holds, process, result, scripts, notes >>

\* Mutant of Wait: a process that exited is taken for one that succeeded.
WaitExited(p) ==
  /\ pc[p] = "wait"
  /\ spc[process[p]] = "dead"
  /\ Ends(p, IF exit[process[p]] # "signal" THEN "DONE" ELSE "ERROR")
  /\ UNCHANGED << disk, holds, process, scripts, notes >>

\* LocalProcess::exitCode: waitpid gives the status of the script.  Nothing else
\* waits for it, so that the reading of FILE.code instead is left out.
Wait(p) ==
  /\ pc[p] = "wait"
  /\ spc[process[p]] = "dead"
  /\ Ends(p, IF exit[process[p]] = "ok" THEN "DONE" ELSE "ERROR")
  /\ UNCHANGED << disk, holds, process, scripts, notes >>

\* Mutant of Leave: the destructors leave the files.
LeaveFiles(p) ==
  /\ pc[p] = "leave"
  /\ holds' = [holds EXCEPT ![p] = {}]
  /\ Go(p, "idle")
  /\ UNCHANGED << disk, process, result, scripts, notes >>

\* The destructors of the FileLock objects that were not detached.
Leave(p) ==
  /\ pc[p] = "leave"
  /\ lockFiles' = lockFiles \ holds[p]
  /\ holds' = [holds EXCEPT ![p] = {}]
  /\ Go(p, "idle")
  /\ UNCHANGED << directory, pidFile, codeFile, doneFile, process, result, scripts, notes >>

\* The program is killed.
Crash(p) ==
  /\ pc[p] # "idle"
  /\ count.crashes < MaxCrashes
  /\ count' = [count EXCEPT !.crashes = @ + 1]
  /\ Gone(p)
  /\ UNCHANGED << disk, scripts >>

-----------------------------------------------------------------------------
(* The script                                                              *)

Goes(s, from, to) == spc[s] = from /\ spc' = [spc EXCEPT ![s] = to]

\* exit 017 if a lock is missing: the trap is not set, nothing is cleaned up.
TestLocks(s) ==
  /\ spc[s] = "test"
  /\ IF lockFiles = {"lock", "start"}
     THEN spc' = [spc EXCEPT ![s] = "unlock start"] /\ UNCHANGED exit
     ELSE /\ spc' = [spc EXCEPT ![s] = "dead"]
          /\ exit' = [exit EXCEPT ![s] = "no lock"]
  /\ UNCHANGED << disk, programs, command, notes >>

RemoveStart(s) ==
  /\ Goes(s, "unlock start", "open pid")
  /\ lockFiles' = lockFiles \ {"start"}
  /\ UNCHANGED << directory, pidFile, codeFile, doneFile, programs, exit, command, notes >>

\* echo $$ > FILE.pid makes the file, then writes it.
OpenPid(s) ==
  /\ Goes(s, "open pid", "write pid")
  /\ pidFile' = Empty
  /\ UNCHANGED << directory, lockFiles, codeFile, doneFile, programs, exit, command, notes >>

WritePid(s) ==
  /\ Goes(s, "write pid", "set up")
  /\ pidFile' = s
  /\ UNCHANGED << directory, lockFiles, codeFile, doneFile, programs, exit, command, notes >>

\* The trap is set and the command put in the background.
StartCommand(s) ==
  /\ Goes(s, "set up", "wait")
  /\ command' = [command EXCEPT ![s] = TRUE]
  /\ UNCHANGED << disk, programs, exit, notes >>

\* The command ends.  Its script may be dead, or on its way out.
EndCommand(s, status) ==
  /\ command[s]
  /\ command' = [command EXCEPT ![s] = FALSE]
  /\ IF spc[s] = "wait"
     THEN /\ spc' = [spc EXCEPT ![s] = "code"]
          /\ exit' = [exit EXCEPT ![s] = status]
     ELSE UNCHANGED << spc, exit >>
  /\ UNCHANGED << disk, programs, notes >>

WriteCode(s) ==
  /\ Goes(s, "code", IF exit[s] = "ok" THEN "touch" ELSE "rm pid")
  /\ codeFile' = IF exit[s] = "ok" THEN "zero" ELSE "nonzero"
  /\ UNCHANGED << directory, lockFiles, pidFile, doneFile, programs, exit, command, notes >>

TouchDone(s) ==
  /\ Goes(s, "touch", "rm pid")
  /\ doneFile' = TRUE
  /\ UNCHANGED << directory, lockFiles, pidFile, codeFile, programs, exit, command, notes >>

\* cleanup: FILE.pid, then FILE.lock, then what is left of the command.
RemovePid(s) ==
  /\ Goes(s, "rm pid", "rm lock")
  /\ pidFile' = Absent
  /\ UNCHANGED << directory, lockFiles, codeFile, doneFile, programs, exit, command, notes >>

RemoveLock(s) ==
  /\ Goes(s, "rm lock", "pkill")
  /\ lockFiles' = lockFiles \ {"lock"}
  /\ UNCHANGED << directory, pidFile, codeFile, doneFile, programs, exit, command, notes >>

KillCommand(s) ==
  /\ Goes(s, "pkill", "dead")
  /\ command' = [command EXCEPT ![s] = FALSE]
  /\ UNCHANGED << disk, programs, exit, notes >>

\* SIGKILL, or the end of the machine: no trap.  The command goes on.
Kill(s) ==
  /\ spc[s] \notin {"new", "dead"}
  /\ count.kills < MaxKills
  /\ count' = [count EXCEPT !.kills = @ + 1]
  /\ spc' = [spc EXCEPT ![s] = "dead"]
  /\ exit' = [exit EXCEPT ![s] = "signal"]
  /\ broken' = TRUE
  /\ UNCHANGED << disk, programs, command, guessed >>

\* Job::kill sends SIGINT to the shell: the trap, once it is set, is run.  The
\* command ignores the signal, as commands in the background of a shell do.
Stop(s) ==
  /\ \E p \in Programs : process[p] = s /\ pc[p] \in {"wait", "poll"}
  /\ spc[s] \notin {"new", "dead", "rm pid", "rm lock", "pkill"}
  /\ count.stops < MaxStops
  /\ count' = [count EXCEPT !.stops = @ + 1]
  /\ spc' = [spc EXCEPT ![s] = IF @ \in {"wait", "code", "touch"} THEN "rm pid" ELSE "dead"]
  /\ exit' = [exit EXCEPT ![s] = "signal"]
  /\ UNCHANGED << disk, programs, command, guessed, broken >>

-----------------------------------------------------------------------------

Calm == /\ \A p \in Programs : pc[p] = "idle"
        /\ \A s \in Scripts : spc[s] \in {"new", "dead"} /\ ~command[s]

\* The user removes a lock file by hand, for nothing else will.
Tidy ==
  /\ Calm
  /\ lockFiles' = lockFiles \ {"lock"}
  /\ UNCHANGED << directory, pidFile, codeFile, doneFile, programs, scripts, notes >>

ProgramStep(p) ==
  \/ CheckDone(p) \/ CheckPid(p) \/ ReadPid(p) \/ Poll(p)
  \/ Mkdirs(p) \/ Mkdir(p) \/ LockJob(p) \/ TestLock(p) \/ Retry(p) \/ TimeOut(p)
  \/ Launch(p) \/ StartTimeOut(p) \/ Wait(p) \/ Leave(p)

ScriptStep(s) ==
  \/ TestLocks(s) \/ RemoveStart(s) \/ OpenPid(s) \/ WritePid(s) \/ StartCommand(s)
  \/ WriteCode(s) \/ TouchDone(s) \/ RemovePid(s) \/ RemoveLock(s) \/ KillCommand(s)
  \/ \E status \in {"ok", "fail"} : EndCommand(s, status)

Next ==
  \/ \E p \in Programs : Run(p) \/ ProgramStep(p) \/ Crash(p)
  \/ \E s \in Scripts : ScriptStep(s) \/ Kill(s) \/ Stop(s)
  \/ Tidy

Spec == Init /\ [][Next]_vars

\* Threads and processes are scheduled, and commands end.
FairSpec ==
  /\ Spec
  /\ \A p \in Programs : WF_vars(ProgramStep(p))
  /\ \A s \in Scripts : WF_vars(ScriptStep(s))

-----------------------------------------------------------------------------
(* Properties.                                                             *)

TypeOK ==
  /\ directory \in BOOLEAN /\ doneFile \in BOOLEAN
  /\ guessed \in BOOLEAN /\ broken \in BOOLEAN
  /\ lockFiles \subseteq {"lock", "start"}
  /\ pidFile \in Scripts \cup {Absent, Empty}
  /\ codeFile \in {Absent, "zero", "nonzero"}
  /\ pc \in [Programs -> ProgramPCs]
  /\ holds \in [Programs -> SUBSET {"lock", "start"}]
  /\ process \in [Programs -> Scripts \cup {"none", Unknown}]
  /\ result \in [Programs -> {"none", "DONE", "ERROR"}]
  /\ spc \in [Scripts -> ScriptPCs]
  /\ exit \in [Scripts -> {"none", "ok", "fail", "signal", "no lock"}]
  /\ command \in [Scripts -> BOOLEAN]
  /\ count \in [runs : 0 .. MaxRuns, crashes : 0 .. MaxCrashes,
                kills : 0 .. MaxKills, stops : 0 .. MaxStops]

\* The command of a job never runs twice at once, whichever programs run the
\* job, crash or come back, and whichever script is killed ...
AtMostOneCommand == \A s, t \in Scripts : command[s] /\ command[t] => s = t

\* ... as long as no script is told to stop.
OneCommandUnlessStopped == count.stops > 0 \/ AtMostOneCommand

\* A job that is done is never run again: FILE.done is tested once more when
\* FILE.lock is taken, and is there before FILE.lock is removed.
NoRerun ==
  [][\A s \in Scripts : command'[s] /\ ~command[s] => ~doneFile]_vars

\* The locks are there whenever a script looks for them.
LocksSet == \A s \in Scripts : exit[s] # "no lock"

\* What a program says of the job is what a command of the job did.
Shows ==
  \A p \in Programs :
    /\ result[p] = "DONE" => \E s \in Scripts : exit[s] = "ok"
    /\ result[p] = "ERROR" => \E s \in Scripts : exit[s] = "fail"

\* A program that says DONE, or ERROR, has a command that succeeded, or failed,
\* to show, whether it launched it, found it running or came after; unless a
\* signal or a variable that was never set had a part in it.
Truthful == ~guessed /\ count.kills = 0 /\ count.stops = 0 => Shows

\* Violated: the same, whatever a variable that was never set may hold.
TruthfulAnyway == count.kills = 0 /\ count.stops = 0 => Shows

\* When all is calm no lock file and no FILE.pid are left, unless locks were
\* lost in a crash or a signal came before the trap.
NothingLeft ==
  Calm /\ ~broken /\ count.stops = 0 => lockFiles = {} /\ pidFile = Absent

\* Every run returns, whatever crashes and whatever was left on disk: locks
\* are waited for five seconds at most and the poll ends with its process.
RunsReturn ==
  \A p \in Programs : (pc[p] # "idle") ~> (pc[p] = "idle" \/ guessed)

-----------------------------------------------------------------------------
(* The inductive invariant of the safety properties.                       *)

\* A script answers for FILE.lock from its launch until it removes it.
Guards(s) == spc[s] \notin {"new", "pkill", "dead"}
Holder(p) == holds[p] # {}

\* Only FILE.lock is ever held by a program, and only where it should be.
HoldsInv ==
  \A p \in Programs :
    /\ holds[p] \subseteq {"lock"}
    /\ pc[p] = "start lock" => Holder(p)
    /\ Holder(p) => pc[p] \in {"check", "check pid", "read pid", "poll", "start lock", "leave"}

\* FILE.lock has one owner, a program or a script, and is there as long.
OwnerInv ==
  /\ \A p, q \in Programs : Holder(p) /\ Holder(q) => p = q
  /\ \A s, t \in Scripts : Guards(s) /\ Guards(t) => s = t
  /\ \A p \in Programs, s \in Scripts : ~(Holder(p) /\ Guards(s))
  /\ \A p \in Programs : Holder(p) => "lock" \in lockFiles
  /\ \A s \in Scripts : Guards(s) => "lock" \in lockFiles

\* A script finds its start lock.
StartInv ==
  \A s \in Scripts : /\ spc[s] \in {"test", "unlock start"} => "start" \in lockFiles
                     /\ exit[s] # "no lock"

\* Each run launches one script at most: there is one left for each that
\* has not launched its own.
Unlaunched == {p \in Programs : pc[p] \notin {"idle", "wait", "leave"}}
Launched   == {s \in Scripts : spc[s] # "new"}
RunsInv ==
  /\ IsFiniteSet(Unlaunched)
  /\ Cardinality(Unlaunched) + Cardinality(Launched) <= count.runs
  /\ \A p \in Programs : pc[p] = "wait" => process[p] \in Launched

\* The command of a script that was killed goes on with nobody to answer for
\* FILE.lock, which stays.
CommandInv ==
  count.stops = 0 =>
    \A s \in Scripts : command[s] =>
      \/ spc[s] = "wait"
      \/ /\ spc[s] = "dead" /\ "lock" \in lockFiles
         /\ \A p \in Programs : ~Holder(p)
         /\ \A t \in Scripts \ {s} : ~Guards(t) /\ ~command[t]

\* FILE.done is not there when the owner of FILE.lock is past its test.
DoneInv ==
  /\ \A p \in Programs : Holder(p) /\ pc[p] \notin {"check", "leave"} => ~doneFile
  /\ \A s \in Scripts : Guards(s) /\ spc[s] \notin {"rm pid", "rm lock"} => ~doneFile

\* What the files say is what a command did, and so is what a runner says.
Over == {"code", "touch", "rm pid", "rm lock", "pkill", "dead"}
Some(status) == \E s \in Scripts : exit[s] = status
ExitInv ==
  \A s \in Scripts : /\ spc[s] \in Over => exit[s] \in {"ok", "fail"}
                     /\ spc[s] = "touch" => exit[s] = "ok"
                     /\ exit[s] # "none" => spc[s] \in Over
SayInv ==
  /\ codeFile = "zero" \/ doneFile => Some("ok")
  /\ codeFile = "nonzero" => Some("fail")
  /\ ~guessed => \A p \in Programs : /\ result[p] = "DONE" => Some("ok")
                                     /\ result[p] = "ERROR" => Some("fail")
ResultInv == count.kills = 0 /\ count.stops = 0 => ExitInv /\ SayInv

\* What is on disk has somebody to remove it.
LeftInv ==
  ~broken /\ count.stops = 0 =>
    /\ "lock" \in lockFiles => \/ \E p \in Programs : Holder(p)
                               \/ \E s \in Scripts : Guards(s)
    /\ "start" \in lockFiles => \E s \in Scripts : spc[s] \in {"test", "unlock start"}
    /\ pidFile # Absent =>
         \E s \in Scripts : spc[s] \in {"write pid", "set up", "wait", "code", "touch", "rm pid"}

IInv == /\ TypeOK /\ HoldsInv /\ OwnerInv /\ StartInv /\ RunsInv
        /\ CommandInv /\ DoneInv /\ ResultInv /\ LeftInv
=============================================================================
