--------------------------- MODULE SchedulerGraph ---------------------------
(***************************************************************************)
(* Scheduler implements JobGraph, when the needs of a token are all equal. *)
(***************************************************************************)
EXTENDS Scheduler

\* The jobs that j comes after.
AfterOf(j) == {Origin[d] : d \in DepsOf(j) \cap JobDeps}

\* Who needs what of t.
NeedsOf(t) ==
  UNION {{Target[d]} \X (1 .. Value[d]) : d \in {e \in TokenDeps : Origin[e] = t}}

\* A job waits from its submission until it has its locks, even while a runner
\* starts or gives up; it is active as long as a runner is in run.
PhaseOf(j) ==
  CASE j \notin jobs -> "new"
    [] \E k \in Threads : Running(<<j, k>>) -> "active"
    [] /\ j \in jobs \cap waitingJobs
       /\ state[j] \in {"WAITING", "READY"}
       /\ \A k \in Threads : pc[<<j, k>>] \in {"idle", "starting"} -> "waiting"
    [] OTHER -> "left"

Graph == INSTANCE JobGraph WITH
  After    <- [j \in Jobs |-> AfterOf(j)],
  Needs    <- [t \in Tokens |-> NeedsOf(t)],
  phase    <- [j \in Jobs |-> PhaseOf(j)],
  pending  <- waitingJobs,
  failed   <- {j \in Jobs : state[j] = "ERROR"},
  done     <- {j \in Jobs : files[j] = "done"},
  returned <- pc[Main] = "returned"

\* Whatever threads, scripts and the user do, the scheduler does what JobGraph
\* says: Workspace::submit, Job::start and Job::jobCompleted start each job at most
\* once, after the jobs it depends on and within its tokens.
ImplementsGraph == Graph!Spec

-----------------------------------------------------------------------------
(* What the mapping needs besides the invariants of Scheduler.             *)

\* A job is RUNNING as long as a runner waits for its process, which left nothing
\* on disk if it failed.
ProcessInv ==
  /\ \A j \in Jobs : state[j] = "RUNNING" => \E k \in Threads : pc[<<j, k>>] = "executing"
  /\ \A r \in Runners :
       pc[r] \in {"executing", "attached"} /\ outcome[r] = "fail" => files[r[1]] = "absent"
=============================================================================
