------------------------------ MODULE JobGraph ------------------------------
(***************************************************************************)
(* What the scheduler promises for a graph of jobs: each one is started at *)
(* most once, after the jobs it comes after, when its tokens are free; the *)
(* wait returns when no job is pending, or when the user insists.  Threads,*)
(* counts, statuses and locks are left to Scheduler.                       *)
(***************************************************************************)
EXTENDS Integers, FiniteSets

CONSTANTS
  Jobs,    \* the jobs
  Tokens,  \* the tokens
  After,   \* the jobs that each job comes after
  Needs,   \* for each token, who needs what: one pair <<job, n>> for each unit
  Limit    \* how many units of each token there are

ASSUME GraphAssumption ==
  /\ After \in [Jobs -> SUBSET Jobs]
  /\ Needs \in [Tokens -> SUBSET (Jobs \X Nat)]
  /\ \A t \in Tokens : IsFiniteSet(Needs[t])
  /\ Limit \in [Tokens -> Nat]

VARIABLES
  phase,     \* where each job is
  pending,   \* the jobs that the wait counts
  failed,    \* the jobs that failed or were given up
  done,      \* the jobs whose results are there
  exitMode,  \* what the user asked for
  returned   \* the wait has returned

vars == << phase, pending, failed, done, exitMode, returned >>

Phases == {"new", "waiting", "active", "left"}

Active == {j \in Jobs : phase[j] = "active"}

\* The units of t that the jobs in J need.
Taken(t, J) == {u \in Needs[t] : u[1] \in J}

Init ==
  /\ phase = [j \in Jobs |-> "new"]
  /\ pending = {}
  /\ failed = {}
  /\ done \in SUBSET Jobs
  /\ exitMode = "NONE"
  /\ returned = FALSE

Submit(j) ==
  /\ phase[j] = "new" /\ ~returned
  /\ phase' = [phase EXCEPT ![j] = "waiting"]
  /\ pending' = pending \cup {j}
  /\ UNCHANGED << failed, done, exitMode, returned >>

\* The tokens are taken as the job becomes active.
Start(j) ==
  /\ phase[j] = "waiting"
  /\ j \in pending
  /\ After[j] \subseteq done
  /\ \A t \in Tokens : Cardinality(Taken(t, Active \cup {j})) <= Limit[t]
  /\ phase' = [phase EXCEPT ![j] = "active"]
  /\ UNCHANGED << pending, failed, done, exitMode, returned >>

\* A process ends well: that of an active job, or one of an earlier experiment.
Finish(j) ==
  /\ done' = done \cup {j}
  /\ UNCHANGED << phase, pending, failed, exitMode, returned >>

\* The job is no longer active; it failed if there is no result.
Leave(j) ==
  /\ phase[j] = "active"
  /\ phase' = [phase EXCEPT ![j] = "left"]
  /\ pending' \in {pending, pending \ {j}}
  /\ \/ failed' = failed
     \/ j \notin done /\ failed' = failed \cup {j}
  /\ UNCHANGED << done, exitMode, returned >>

\* Mutant: the job of the next action need not have left.
CompleteEarly(j) ==
  /\ phase[j] # "new"
  /\ pending' = pending \ {j}
  /\ UNCHANGED << phase, failed, done, exitMode, returned >>

\* The wait counts it no more.
Complete(j) ==
  /\ phase[j] = "left"
  /\ pending' = pending \ {j}
  /\ UNCHANGED << phase, failed, done, exitMode, returned >>

\* A job that comes after one that failed is never started.
Abandon(j) ==
  /\ phase[j] = "waiting"
  /\ After[j] \cap failed # {}
  /\ phase' = [phase EXCEPT ![j] = "left"]
  /\ pending' = pending \ {j}
  /\ UNCHANGED << failed, done, exitMode, returned >>

\* After an interruption a job may be given up, and stays pending.
GiveUp(j) ==
  /\ phase[j] = "waiting"
  /\ exitMode # "NONE"
  /\ phase' = [phase EXCEPT ![j] = "left"]
  /\ failed' = failed \cup {j}
  /\ UNCHANGED << pending, done, exitMode, returned >>

Interrupt ==
  /\ exitMode' = IF exitMode = "NONE" THEN "WAITING" ELSE "STOPPING"
  /\ UNCHANGED << phase, pending, failed, done, returned >>

Return ==
  /\ pending = {} \/ exitMode = "STOPPING"
  /\ returned' = TRUE
  /\ UNCHANGED << phase, pending, failed, done, exitMode >>

Next ==
  \/ \E j \in Jobs : \/ Submit(j) \/ Start(j) \/ Finish(j) \/ Leave(j)
                     \/ Complete(j) \/ Abandon(j) \/ GiveUp(j)
  \/ Interrupt
  \/ Return

Spec == Init /\ [][Next]_vars

-----------------------------------------------------------------------------
(* What follows for every implementation.                                  *)

TypeOK ==
  /\ phase \in [Jobs -> Phases]
  /\ pending \subseteq Jobs
  /\ failed \subseteq Jobs
  /\ done \subseteq Jobs
  /\ exitMode \in {"NONE", "WAITING", "STOPPING"}
  /\ returned \in BOOLEAN

\* Once the wait has returned every job that was submitted has left: none is
\* active and none waits for its turn, unless the user insisted.
ReturnedMeansOver ==
  returned /\ exitMode # "STOPPING" => \A j \in Jobs : phase[j] \in {"new", "left"}

\* What makes it hold: a job that waits or is active is pending, and a wait that
\* has returned left nothing pending.
Inv ==
  /\ TypeOK
  /\ \A j \in Jobs : phase[j] \in {"waiting", "active"} => j \in pending
  /\ returned /\ exitMode # "STOPPING" => pending = {}
=============================================================================
